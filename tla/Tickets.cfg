SPECIFICATION FairSpec
CONSTANTS
  t1 = t1
  t2 = t2
  o1 = o1
  o2 = o2
  Ticket <- MCTicket
  OrgOf <- MCOrgOf
  Request = {r1, r2, r3}
  NoTicket = NoTicket
  StaffStatus <- MCStaffStatus
INVARIANTS
  AiOutputIsLogged
  ApprovalsStayInOrg
  ResolvedAtAgrees
  AnsweredIsNotOpen
PROPERTIES
  TriageSettles
