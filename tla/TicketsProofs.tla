---------------------------- MODULE TicketsProofs ----------------------------
(***************************************************************************)
(* Theorems about Tickets, for any tickets, organisations and statuses and *)
(* any number of concurrent requests.                                      *)
(***************************************************************************)
EXTENDS Tickets, TLAPS

LEMMA TicketsInit == Init => TicketsInv
  BY NoTicketAssumption, StaffStatusAssumption
     DEF Init, TicketsInv, TypeOK, RepliedExist, TriageInv, HandlersInv,
         AiOutputIsLogged, ApprovalsStayInOrg, ResolvedAtAgrees,
         AnsweredIsNotOpen, Exists, PC, Triage, Idle, Done, StartTriage,
         StoreReply, Approve, SetPending

\* Type correctness of one step.
LEMMA TicketsTypeStep == ASSUME TicketsInv, [Next]_vars PROVE TypeOK'
<1> USE NoTicketAssumption, StaffStatusAssumption
        DEF TypeOK, PC, Triage, Idle, Done, StartTriage, StoreReply, Approve,
            SetPending, rows, handler, history, Exists, HandlersInv
<1>a. TypeOK /\ HandlersInv
  BY DEF TicketsInv
<1>1. ASSUME NEW t \in Ticket, LogTriage(t) PROVE TypeOK'
  BY <1>a, <1>1 DEF LogTriage
<1>2. ASSUME NEW t \in Ticket, StoreSuggestion(t) PROVE TypeOK'
  BY <1>a, <1>2 DEF StoreSuggestion
<1>3. ASSUME NEW t \in Ticket, StoreDraft(t) PROVE TypeOK'
  BY <1>a, <1>3 DEF StoreDraft
<1>4. ASSUME NEW t \in Ticket, TriageDies(t) PROVE TypeOK'
  BY <1>a, <1>4 DEF TriageDies
<1>5. ASSUME NEW t \in Ticket, OpenAutomatedTicket(t) PROVE TypeOK'
  BY <1>a, <1>5 DEF OpenAutomatedTicket
<1>6. ASSUME NEW t \in Ticket, NEW s \in StaffStatus, UpdateStatus(t, s) PROVE TypeOK'
  BY <1>a, <1>6 DEF UpdateStatus
<1>7. ASSUME NEW t \in Ticket, NEW r \in Request, CreateTicket(r, t) PROVE TypeOK'
  BY <1>a, <1>7 DEF CreateTicket, Goto
<1>8. ASSUME NEW t \in Ticket, NEW r \in Request, NEW d \in BOOLEAN,
             BeginReply(r, t, d) PROVE TypeOK'
  BY <1>a, <1>8 DEF BeginReply, Goto
<1>9. ASSUME NEW r \in Request, BeginTriage(r) PROVE TypeOK'
  BY <1>a, <1>9 DEF BeginTriage, Release, Goto
<1>10. ASSUME NEW r \in Request, StoreTheReply(r) PROVE TypeOK'
  <2>1. tick[r] \in Ticket
    BY <1>a, <1>10 DEF StoreTheReply, AfterApproval, Release, Goto
  <2>2. /\ UNCHANGED <<status, resolvedAt, suggested, drafts, log, triage>>
        /\ UNCHANGED <<excused, overtaken>>
        /\ replied' \in SUBSET Ticket
        /\ sent' \in SUBSET Ticket
    BY <1>a, <2>1, <1>10 DEF StoreTheReply, AfterApproval, Release, Goto
  <2>3. \/ Goto(r, Approve) /\ UNCHANGED <<tick, sawOpen, ai>>
        \/ Goto(r, SetPending) /\ UNCHANGED <<tick, sawOpen, ai>>
        \/ Release(r)
    BY <1>10, Zenon DEF StoreTheReply, AfterApproval
  <2>4. /\ pc' \in [Request -> PC] /\ tick' \in [Request -> Ticket \cup {NoTicket}]
        /\ sawOpen' \in [Request -> BOOLEAN] /\ ai' \in [Request -> BOOLEAN]
    <3>1. CASE Goto(r, Approve) /\ UNCHANGED <<tick, sawOpen, ai>>
      BY <1>a, <3>1 DEF Goto
    <3>2. CASE Goto(r, SetPending) /\ UNCHANGED <<tick, sawOpen, ai>>
      BY <1>a, <3>2 DEF Goto
    <3>3. CASE Release(r)
      BY <1>a, <3>3 DEF Release, Goto
    <3>4. QED
      BY <3>1, <3>2, <3>3, <2>3
  <2>5. QED
    BY <1>a, <2>2, <2>4
<1>11. ASSUME NEW r \in Request, ApproveLogs(r) PROVE TypeOK'
  <2>1. /\ UNCHANGED <<status, resolvedAt, suggested, drafts, triage, history>>
        /\ log' \in [Ticket -> {"none", "unapproved", "approved"}]
    BY <1>a, <1>11 DEF ApproveLogs, ApprovedBy
  <2>2. \/ Goto(r, SetPending) /\ UNCHANGED <<tick, sawOpen, ai>>
        \/ Release(r)
    BY <1>11, Zenon DEF ApproveLogs, AfterApproval
  <2>3. /\ pc' \in [Request -> PC] /\ tick' \in [Request -> Ticket \cup {NoTicket}]
        /\ sawOpen' \in [Request -> BOOLEAN] /\ ai' \in [Request -> BOOLEAN]
    <3>1. CASE Goto(r, SetPending) /\ UNCHANGED <<tick, sawOpen, ai>>
      BY <1>a, <3>1 DEF Goto
    <3>2. CASE Release(r)
      BY <1>a, <3>2 DEF Release, Goto
    <3>3. QED
      BY <3>1, <3>2, <2>2
  <2>4. QED
    BY <1>a, <2>1, <2>3
<1>12. ASSUME NEW r \in Request, MarkPending(r) PROVE TypeOK'
  BY <1>a, <1>12 DEF MarkPending, Release, Goto
<1>13. ASSUME NEW r \in Request, Fail(r) PROVE TypeOK'
  BY <1>a, <1>13 DEF Fail, Release, Goto
<1>14. ASSUME UNCHANGED vars PROVE TypeOK'
  BY <1>a, <1>14 DEF vars
<1> HIDE DEF TypeOK
<1>15. QED
  BY <1>1, <1>2, <1>3, <1>4, <1>5, <1>6, <1>7, <1>8, <1>9, <1>10, <1>11, <1>12, <1>13, <1>14
     DEF Next, TriageStep, HandlerStep, StaffStep, SendReply, ApproveAndSend

\* Tickets are never deleted: what was replied to is still there.
LEMMA RepliedExistStep == ASSUME TicketsInv, [Next]_vars PROVE RepliedExist'
<1> USE NoTicketAssumption, StaffStatusAssumption
        DEF TypeOK, PC, Triage, Idle, Done, StartTriage, StoreReply, Approve,
            SetPending, rows, handler, history, Exists, RepliedExist, HandlersInv
<1>a. TypeOK /\ RepliedExist /\ HandlersInv
  BY DEF TicketsInv
<1>b. TypeOK'
  BY TicketsTypeStep
<1>1. ASSUME NEW t \in Ticket, LogTriage(t) PROVE RepliedExist'
  BY <1>a, <1>b, <1>1 DEF LogTriage
<1>2. ASSUME NEW t \in Ticket, StoreSuggestion(t) PROVE RepliedExist'
  BY <1>a, <1>b, <1>2 DEF StoreSuggestion
<1>3. ASSUME NEW t \in Ticket, StoreDraft(t) PROVE RepliedExist'
  BY <1>a, <1>b, <1>3 DEF StoreDraft
<1>4. ASSUME NEW t \in Ticket, TriageDies(t) PROVE RepliedExist'
  BY <1>a, <1>b, <1>4 DEF TriageDies
<1>5. ASSUME NEW t \in Ticket, OpenAutomatedTicket(t) PROVE RepliedExist'
  BY <1>a, <1>b, <1>5 DEF OpenAutomatedTicket
<1>6. ASSUME NEW t \in Ticket, NEW s \in StaffStatus, UpdateStatus(t, s) PROVE RepliedExist'
  BY <1>a, <1>b, <1>6 DEF UpdateStatus
<1>7. ASSUME NEW t \in Ticket, NEW r \in Request, CreateTicket(r, t) PROVE RepliedExist'
  BY <1>a, <1>b, <1>7 DEF CreateTicket, Goto
<1>8. ASSUME NEW t \in Ticket, NEW r \in Request, NEW d \in BOOLEAN,
             BeginReply(r, t, d) PROVE RepliedExist'
  BY <1>a, <1>b, <1>8 DEF BeginReply, Goto
<1>9. ASSUME NEW r \in Request, BeginTriage(r) PROVE RepliedExist'
  BY <1>a, <1>b, <1>9 DEF BeginTriage, Release, Goto
<1>10. ASSUME NEW r \in Request, StoreTheReply(r) PROVE RepliedExist'
  BY <1>a, <1>b, <1>10 DEF StoreTheReply, AfterApproval, Release, Goto
<1>11. ASSUME NEW r \in Request, ApproveLogs(r) PROVE RepliedExist'
  BY <1>a, <1>b, <1>11 DEF ApproveLogs, ApprovedBy, AfterApproval, Release, Goto
<1>12. ASSUME NEW r \in Request, MarkPending(r) PROVE RepliedExist'
  BY <1>a, <1>b, <1>12 DEF MarkPending, Release, Goto
<1>13. ASSUME NEW r \in Request, Fail(r) PROVE RepliedExist'
  BY <1>a, <1>b, <1>13 DEF Fail, Release, Goto
<1>14. ASSUME UNCHANGED vars PROVE RepliedExist'
  BY <1>a, <1>b, <1>14 DEF vars
<1> HIDE DEF TypeOK, RepliedExist
<1>15. QED
  BY <1>1, <1>2, <1>3, <1>4, <1>5, <1>6, <1>7, <1>8, <1>9, <1>10, <1>11, <1>12, <1>13, <1>14
     DEF Next, TriageStep, HandlerStep, StaffStep, SendReply, ApproveAndSend

\* The triage of a ticket advances one stored result at a time.
LEMMA TriageInvStep == ASSUME TicketsInv, [Next]_vars PROVE TriageInv'
<1> USE NoTicketAssumption, StaffStatusAssumption
        DEF TypeOK, PC, Triage, Idle, Done, StartTriage, StoreReply, Approve,
            SetPending, rows, handler, history, Exists, TriageInv
<1>a. TypeOK /\ TriageInv
  BY DEF TicketsInv
<1>b. TypeOK'
  BY TicketsTypeStep
<1>1. ASSUME NEW t \in Ticket, LogTriage(t) PROVE TriageInv'
  BY <1>a, <1>b, <1>1 DEF LogTriage
<1>2. ASSUME NEW t \in Ticket, StoreSuggestion(t) PROVE TriageInv'
  BY <1>a, <1>b, <1>2 DEF StoreSuggestion
<1>3. ASSUME NEW t \in Ticket, StoreDraft(t) PROVE TriageInv'
  BY <1>a, <1>b, <1>3 DEF StoreDraft
<1>4. ASSUME NEW t \in Ticket, TriageDies(t) PROVE TriageInv'
  BY <1>a, <1>b, <1>4 DEF TriageDies
<1>5. ASSUME NEW t \in Ticket, OpenAutomatedTicket(t) PROVE TriageInv'
  BY <1>a, <1>b, <1>5 DEF OpenAutomatedTicket
<1>6. ASSUME NEW t \in Ticket, NEW s \in StaffStatus, UpdateStatus(t, s) PROVE TriageInv'
  BY <1>a, <1>b, <1>6 DEF UpdateStatus
<1>7. ASSUME NEW t \in Ticket, NEW r \in Request, CreateTicket(r, t) PROVE TriageInv'
  BY <1>a, <1>b, <1>7 DEF CreateTicket, Goto
<1>8. ASSUME NEW t \in Ticket, NEW r \in Request, NEW d \in BOOLEAN,
             BeginReply(r, t, d) PROVE TriageInv'
  BY <1>a, <1>b, <1>8 DEF BeginReply, Goto
<1>9. ASSUME NEW r \in Request, BeginTriage(r) PROVE TriageInv'
  BY <1>a, <1>b, <1>9 DEF BeginTriage, Release, Goto
<1>10. ASSUME NEW r \in Request, StoreTheReply(r) PROVE TriageInv'
  BY <1>a, <1>b, <1>10 DEF StoreTheReply, AfterApproval, Release, Goto
<1>11. ASSUME NEW r \in Request, ApproveLogs(r) PROVE TriageInv'
  BY <1>a, <1>b, <1>11 DEF ApproveLogs, ApprovedBy, AfterApproval, Release, Goto
<1>12. ASSUME NEW r \in Request, MarkPending(r) PROVE TriageInv'
  BY <1>a, <1>b, <1>12 DEF MarkPending, Release, Goto
<1>13. ASSUME NEW r \in Request, Fail(r) PROVE TriageInv'
  BY <1>a, <1>b, <1>13 DEF Fail, Release, Goto
<1>14. ASSUME UNCHANGED vars PROVE TriageInv'
  BY <1>a, <1>b, <1>14 DEF vars
<1> HIDE DEF TypeOK, TriageInv
<1>15. QED
  BY <1>1, <1>2, <1>3, <1>4, <1>5, <1>6, <1>7, <1>8, <1>9, <1>10, <1>11, <1>12, <1>13, <1>14
     DEF Next, TriageStep, HandlerStep, StaffStep, SendReply, ApproveAndSend

\* What the triage stores was logged first.
LEMMA AiOutputIsLoggedStep == ASSUME TicketsInv, [Next]_vars PROVE AiOutputIsLogged'
<1> USE NoTicketAssumption, StaffStatusAssumption
        DEF TypeOK, PC, Triage, Idle, Done, StartTriage, StoreReply, Approve,
            SetPending, rows, handler, history, Exists, TriageInv, AiOutputIsLogged
<1>a. TypeOK /\ TriageInv /\ AiOutputIsLogged
  BY DEF TicketsInv
<1>b. TypeOK'
  BY TicketsTypeStep
<1>1. ASSUME NEW t \in Ticket, LogTriage(t) PROVE AiOutputIsLogged'
  BY <1>a, <1>b, <1>1 DEF LogTriage
<1>2. ASSUME NEW t \in Ticket, StoreSuggestion(t) PROVE AiOutputIsLogged'
  BY <1>a, <1>b, <1>2 DEF StoreSuggestion
<1>3. ASSUME NEW t \in Ticket, StoreDraft(t) PROVE AiOutputIsLogged'
  BY <1>a, <1>b, <1>3 DEF StoreDraft
<1>4. ASSUME NEW t \in Ticket, TriageDies(t) PROVE AiOutputIsLogged'
  BY <1>a, <1>b, <1>4 DEF TriageDies
<1>5. ASSUME NEW t \in Ticket, OpenAutomatedTicket(t) PROVE AiOutputIsLogged'
  BY <1>a, <1>b, <1>5 DEF OpenAutomatedTicket
<1>6. ASSUME NEW t \in Ticket, NEW s \in StaffStatus, UpdateStatus(t, s) PROVE AiOutputIsLogged'
  BY <1>a, <1>b, <1>6 DEF UpdateStatus
<1>7. ASSUME NEW t \in Ticket, NEW r \in Request, CreateTicket(r, t) PROVE AiOutputIsLogged'
  BY <1>a, <1>b, <1>7 DEF CreateTicket, Goto
<1>8. ASSUME NEW t \in Ticket, NEW r \in Request, NEW d \in BOOLEAN,
             BeginReply(r, t, d) PROVE AiOutputIsLogged'
  BY <1>a, <1>b, <1>8 DEF BeginReply, Goto
<1>9. ASSUME NEW r \in Request, BeginTriage(r) PROVE AiOutputIsLogged'
  BY <1>a, <1>b, <1>9 DEF BeginTriage, Release, Goto
<1>10. ASSUME NEW r \in Request, StoreTheReply(r) PROVE AiOutputIsLogged'
  BY <1>a, <1>b, <1>10 DEF StoreTheReply, AfterApproval, Release, Goto
<1>11. ASSUME NEW r \in Request, ApproveLogs(r) PROVE AiOutputIsLogged'
  BY <1>a, <1>b, <1>11 DEF ApproveLogs, ApprovedBy, AfterApproval, Release, Goto
<1>12. ASSUME NEW r \in Request, MarkPending(r) PROVE AiOutputIsLogged'
  BY <1>a, <1>b, <1>12 DEF MarkPending, Release, Goto
<1>13. ASSUME NEW r \in Request, Fail(r) PROVE AiOutputIsLogged'
  BY <1>a, <1>b, <1>13 DEF Fail, Release, Goto
<1>14. ASSUME UNCHANGED vars PROVE AiOutputIsLogged'
  BY <1>a, <1>b, <1>14 DEF vars
<1> HIDE DEF TypeOK, AiOutputIsLogged
<1>15. QED
  BY <1>1, <1>2, <1>3, <1>4, <1>5, <1>6, <1>7, <1>8, <1>9, <1>10, <1>11, <1>12, <1>13, <1>14
     DEF Next, TriageStep, HandlerStep, StaffStep, SendReply, ApproveAndSend

\* What a handler holds stays true, but for what staff do.
LEMMA HandlersInvStep == ASSUME TicketsInv, [Next]_vars PROVE HandlersInv'
<1> USE NoTicketAssumption, StaffStatusAssumption
        DEF TypeOK, PC, Triage, Idle, Done, StartTriage, StoreReply, Approve,
            SetPending, rows, handler, history, Exists, HandlersInv, AnsweredIsNotOpen, InReply, WillSetPending, ResolvedAtAgrees
<1>a. TypeOK /\ HandlersInv /\ ResolvedAtAgrees
  BY DEF TicketsInv
<1>b. TypeOK'
  BY TicketsTypeStep
<1>1. ASSUME NEW t \in Ticket, LogTriage(t) PROVE HandlersInv'
  BY <1>a, <1>b, <1>1 DEF LogTriage
<1>2. ASSUME NEW t \in Ticket, StoreSuggestion(t) PROVE HandlersInv'
  BY <1>a, <1>b, <1>2 DEF StoreSuggestion
<1>3. ASSUME NEW t \in Ticket, StoreDraft(t) PROVE HandlersInv'
  BY <1>a, <1>b, <1>3 DEF StoreDraft
<1>4. ASSUME NEW t \in Ticket, TriageDies(t) PROVE HandlersInv'
  BY <1>a, <1>b, <1>4 DEF TriageDies
<1>5. ASSUME NEW t \in Ticket, OpenAutomatedTicket(t) PROVE HandlersInv'
  BY <1>a, <1>b, <1>5 DEF OpenAutomatedTicket
<1>6. ASSUME NEW t \in Ticket, NEW s \in StaffStatus, UpdateStatus(t, s) PROVE HandlersInv'
  BY <1>a, <1>b, <1>6 DEF UpdateStatus
<1>7. ASSUME NEW t \in Ticket, NEW r \in Request, CreateTicket(r, t) PROVE HandlersInv'
  BY <1>a, <1>b, <1>7 DEF CreateTicket, Goto
<1>8. ASSUME NEW t \in Ticket, NEW r \in Request, NEW d \in BOOLEAN,
             BeginReply(r, t, d) PROVE HandlersInv'
  <2>1. /\ UNCHANGED <<status, resolvedAt, suggested, sent, overtaken, excused>>
        /\ pc' = [pc EXCEPT ![r] = StoreReply]
        /\ tick' = [tick EXCEPT ![r] = t]
        /\ sawOpen' = [sawOpen EXCEPT ![r] = (status[t] = "open")]
        /\ ai' = [ai EXCEPT ![r] = d]
        /\ Exists(t)
    BY <1>8 DEF BeginReply, Goto
  <2>2. CASE status[t] = "open"
    <3>1. sawOpen' = [sawOpen EXCEPT ![r] = TRUE]
      BY <2>1, <2>2
    <3>2. CASE d
      BY <1>a, <1>b, <1>8, <2>1, <2>2, <3>1, <3>2
    <3>3. CASE ~d
      BY <1>a, <1>b, <2>1, <2>2, <3>1, <3>3
    <3>4. QED
      BY <3>2, <3>3
  <2>3. CASE status[t] # "open"
    <3>1. sawOpen' = [sawOpen EXCEPT ![r] = FALSE]
      BY <2>1, <2>3
    <3>2. CASE d
      BY <1>a, <1>b, <1>8, <2>1, <2>3, <3>1, <3>2
    <3>3. CASE ~d
      BY <1>a, <1>b, <2>1, <2>3, <3>1, <3>3
    <3>4. QED
      BY <3>2, <3>3
  <2>4. QED
    BY <2>2, <2>3
<1>9. ASSUME NEW r \in Request, BeginTriage(r) PROVE HandlersInv'
  BY <1>a, <1>b, <1>9 DEF BeginTriage, Release, Goto
<1>10. ASSUME NEW r \in Request, StoreTheReply(r) PROVE HandlersInv'
  BY <1>a, <1>b, <1>10 DEF StoreTheReply, AfterApproval, Release, Goto
<1>11. ASSUME NEW r \in Request, ApproveLogs(r) PROVE HandlersInv'
  BY <1>a, <1>b, <1>11 DEF ApproveLogs, ApprovedBy, AfterApproval, Release, Goto
<1>12. ASSUME NEW r \in Request, MarkPending(r) PROVE HandlersInv'
  BY <1>a, <1>b, <1>12 DEF MarkPending, Release, Goto
<1>13. ASSUME NEW r \in Request, Fail(r) PROVE HandlersInv'
  BY <1>a, <1>b, <1>13 DEF Fail, Release, Goto
<1>14. ASSUME UNCHANGED vars PROVE HandlersInv'
  BY <1>a, <1>b, <1>14 DEF vars
<1> HIDE DEF TypeOK, HandlersInv
<1>15. QED
  BY <1>1, <1>2, <1>3, <1>4, <1>5, <1>6, <1>7, <1>8, <1>9, <1>10, <1>11, <1>12, <1>13, <1>14
     DEF Next, TriageStep, HandlerStep, StaffStep, SendReply, ApproveAndSend

\* The approving reply is in a ticket of the organisation.
LEMMA ApprovalsStayInOrgStep == ASSUME TicketsInv, [Next]_vars PROVE ApprovalsStayInOrg'
<1> USE NoTicketAssumption, StaffStatusAssumption
        DEF TypeOK, PC, Triage, Idle, Done, StartTriage, StoreReply, Approve,
            SetPending, rows, handler, history, Exists, HandlersInv, ApprovalsStayInOrg
<1>a. TypeOK /\ HandlersInv /\ ApprovalsStayInOrg
  BY DEF TicketsInv
<1>b. TypeOK'
  BY TicketsTypeStep
<1>1. ASSUME NEW t \in Ticket, LogTriage(t) PROVE ApprovalsStayInOrg'
  BY <1>a, <1>b, <1>1 DEF LogTriage
<1>2. ASSUME NEW t \in Ticket, StoreSuggestion(t) PROVE ApprovalsStayInOrg'
  BY <1>a, <1>b, <1>2 DEF StoreSuggestion
<1>3. ASSUME NEW t \in Ticket, StoreDraft(t) PROVE ApprovalsStayInOrg'
  BY <1>a, <1>b, <1>3 DEF StoreDraft
<1>4. ASSUME NEW t \in Ticket, TriageDies(t) PROVE ApprovalsStayInOrg'
  BY <1>a, <1>b, <1>4 DEF TriageDies
<1>5. ASSUME NEW t \in Ticket, OpenAutomatedTicket(t) PROVE ApprovalsStayInOrg'
  BY <1>a, <1>b, <1>5 DEF OpenAutomatedTicket
<1>6. ASSUME NEW t \in Ticket, NEW s \in StaffStatus, UpdateStatus(t, s) PROVE ApprovalsStayInOrg'
  BY <1>a, <1>b, <1>6 DEF UpdateStatus
<1>7. ASSUME NEW t \in Ticket, NEW r \in Request, CreateTicket(r, t) PROVE ApprovalsStayInOrg'
  BY <1>a, <1>b, <1>7 DEF CreateTicket, Goto
<1>8. ASSUME NEW t \in Ticket, NEW r \in Request, NEW d \in BOOLEAN,
             BeginReply(r, t, d) PROVE ApprovalsStayInOrg'
  BY <1>a, <1>b, <1>8 DEF BeginReply, Goto
<1>9. ASSUME NEW r \in Request, BeginTriage(r) PROVE ApprovalsStayInOrg'
  BY <1>a, <1>b, <1>9 DEF BeginTriage, Release, Goto
<1>10. ASSUME NEW r \in Request, StoreTheReply(r) PROVE ApprovalsStayInOrg'
  BY <1>a, <1>b, <1>10 DEF StoreTheReply, AfterApproval, Release, Goto
<1>11. ASSUME NEW r \in Request, ApproveLogs(r) PROVE ApprovalsStayInOrg'
  BY <1>a, <1>b, <1>11 DEF ApproveLogs, ApprovedBy, AfterApproval, Release, Goto
<1>12. ASSUME NEW r \in Request, MarkPending(r) PROVE ApprovalsStayInOrg'
  BY <1>a, <1>b, <1>12 DEF MarkPending, Release, Goto
<1>13. ASSUME NEW r \in Request, Fail(r) PROVE ApprovalsStayInOrg'
  BY <1>a, <1>b, <1>13 DEF Fail, Release, Goto
<1>14. ASSUME UNCHANGED vars PROVE ApprovalsStayInOrg'
  BY <1>a, <1>b, <1>14 DEF vars
<1> HIDE DEF TypeOK, ApprovalsStayInOrg
<1>15. QED
  BY <1>1, <1>2, <1>3, <1>4, <1>5, <1>6, <1>7, <1>8, <1>9, <1>10, <1>11, <1>12, <1>13, <1>14
     DEF Next, TriageStep, HandlerStep, StaffStep, SendReply, ApproveAndSend

\* A reply sets pending only what was not resolved when it read it.
LEMMA ResolvedAtAgreesStep == ASSUME TicketsInv, [Next]_vars PROVE ResolvedAtAgrees'
<1> USE NoTicketAssumption, StaffStatusAssumption
        DEF TypeOK, PC, Triage, Idle, Done, StartTriage, StoreReply, Approve,
            SetPending, rows, handler, history, Exists, HandlersInv, ResolvedAtAgrees, WillSetPending
<1>a. TypeOK /\ HandlersInv /\ ResolvedAtAgrees
  BY DEF TicketsInv
<1>b. TypeOK'
  BY TicketsTypeStep
<1>1. ASSUME NEW t \in Ticket, LogTriage(t) PROVE ResolvedAtAgrees'
  BY <1>a, <1>b, <1>1 DEF LogTriage
<1>2. ASSUME NEW t \in Ticket, StoreSuggestion(t) PROVE ResolvedAtAgrees'
  BY <1>a, <1>b, <1>2 DEF StoreSuggestion
<1>3. ASSUME NEW t \in Ticket, StoreDraft(t) PROVE ResolvedAtAgrees'
  BY <1>a, <1>b, <1>3 DEF StoreDraft
<1>4. ASSUME NEW t \in Ticket, TriageDies(t) PROVE ResolvedAtAgrees'
  BY <1>a, <1>b, <1>4 DEF TriageDies
<1>5. ASSUME NEW t \in Ticket, OpenAutomatedTicket(t) PROVE ResolvedAtAgrees'
  BY <1>a, <1>b, <1>5 DEF OpenAutomatedTicket
<1>6. ASSUME NEW t \in Ticket, NEW s \in StaffStatus, UpdateStatus(t, s) PROVE ResolvedAtAgrees'
  BY <1>a, <1>b, <1>6 DEF UpdateStatus
<1>7. ASSUME NEW t \in Ticket, NEW r \in Request, CreateTicket(r, t) PROVE ResolvedAtAgrees'
  BY <1>a, <1>b, <1>7 DEF CreateTicket, Goto
<1>8. ASSUME NEW t \in Ticket, NEW r \in Request, NEW d \in BOOLEAN,
             BeginReply(r, t, d) PROVE ResolvedAtAgrees'
  BY <1>a, <1>b, <1>8 DEF BeginReply, Goto
<1>9. ASSUME NEW r \in Request, BeginTriage(r) PROVE ResolvedAtAgrees'
  BY <1>a, <1>b, <1>9 DEF BeginTriage, Release, Goto
<1>10. ASSUME NEW r \in Request, StoreTheReply(r) PROVE ResolvedAtAgrees'
  BY <1>a, <1>b, <1>10 DEF StoreTheReply, AfterApproval, Release, Goto
<1>11. ASSUME NEW r \in Request, ApproveLogs(r) PROVE ResolvedAtAgrees'
  BY <1>a, <1>b, <1>11 DEF ApproveLogs, ApprovedBy, AfterApproval, Release, Goto
<1>12. ASSUME NEW r \in Request, MarkPending(r) PROVE ResolvedAtAgrees'
  BY <1>a, <1>b, <1>12 DEF MarkPending, Release, Goto
<1>13. ASSUME NEW r \in Request, Fail(r) PROVE ResolvedAtAgrees'
  BY <1>a, <1>b, <1>13 DEF Fail, Release, Goto
<1>14. ASSUME UNCHANGED vars PROVE ResolvedAtAgrees'
  BY <1>a, <1>b, <1>14 DEF vars
<1> HIDE DEF TypeOK, ResolvedAtAgrees
<1>15. QED
  BY <1>1, <1>2, <1>3, <1>4, <1>5, <1>6, <1>7, <1>8, <1>9, <1>10, <1>11, <1>12, <1>13, <1>14
     DEF Next, TriageStep, HandlerStep, StaffStep, SendReply, ApproveAndSend

\* A reply to an open ticket goes on to set it pending.
LEMMA AnsweredIsNotOpenStep == ASSUME TicketsInv, [Next]_vars PROVE AnsweredIsNotOpen'
<1> USE NoTicketAssumption, StaffStatusAssumption
        DEF TypeOK, PC, Triage, Idle, Done, StartTriage, StoreReply, Approve,
            SetPending, rows, handler, history, Exists, HandlersInv, AnsweredIsNotOpen, InReply, WillSetPending, RepliedExist
<1>a. TypeOK /\ HandlersInv /\ AnsweredIsNotOpen /\ RepliedExist
  BY DEF TicketsInv
<1>b. TypeOK'
  BY TicketsTypeStep
<1>1. ASSUME NEW t \in Ticket, LogTriage(t) PROVE AnsweredIsNotOpen'
  BY <1>a, <1>b, <1>1 DEF LogTriage
<1>2. ASSUME NEW t \in Ticket, StoreSuggestion(t) PROVE AnsweredIsNotOpen'
  BY <1>a, <1>b, <1>2 DEF StoreSuggestion
<1>3. ASSUME NEW t \in Ticket, StoreDraft(t) PROVE AnsweredIsNotOpen'
  BY <1>a, <1>b, <1>3 DEF StoreDraft
<1>4. ASSUME NEW t \in Ticket, TriageDies(t) PROVE AnsweredIsNotOpen'
  BY <1>a, <1>b, <1>4 DEF TriageDies
<1>5. ASSUME NEW t \in Ticket, OpenAutomatedTicket(t) PROVE AnsweredIsNotOpen'
  BY <1>a, <1>b, <1>5 DEF OpenAutomatedTicket
<1>6. ASSUME NEW t \in Ticket, NEW s \in StaffStatus, UpdateStatus(t, s) PROVE AnsweredIsNotOpen'
  BY <1>a, <1>b, <1>6 DEF UpdateStatus
<1>7. ASSUME NEW t \in Ticket, NEW r \in Request, CreateTicket(r, t) PROVE AnsweredIsNotOpen'
  BY <1>a, <1>b, <1>7 DEF CreateTicket, Goto
<1>8. ASSUME NEW t \in Ticket, NEW r \in Request, NEW d \in BOOLEAN,
             BeginReply(r, t, d) PROVE AnsweredIsNotOpen'
  BY <1>a, <1>b, <1>8 DEF BeginReply, Goto
<1>9. ASSUME NEW r \in Request, BeginTriage(r) PROVE AnsweredIsNotOpen'
  BY <1>a, <1>b, <1>9 DEF BeginTriage, Release, Goto
<1>10. ASSUME NEW r \in Request, StoreTheReply(r) PROVE AnsweredIsNotOpen'
  BY <1>a, <1>b, <1>10 DEF StoreTheReply, AfterApproval, Release, Goto
<1>11. ASSUME NEW r \in Request, ApproveLogs(r) PROVE AnsweredIsNotOpen'
  BY <1>a, <1>b, <1>11 DEF ApproveLogs, ApprovedBy, AfterApproval, Release, Goto
<1>12. ASSUME NEW r \in Request, MarkPending(r) PROVE AnsweredIsNotOpen'
  BY <1>a, <1>b, <1>12 DEF MarkPending, Release, Goto
<1>13. ASSUME NEW r \in Request, Fail(r) PROVE AnsweredIsNotOpen'
  BY <1>a, <1>b, <1>13 DEF Fail, Release, Goto
<1>14. ASSUME UNCHANGED vars PROVE AnsweredIsNotOpen'
  BY <1>a, <1>b, <1>14 DEF vars
<1> HIDE DEF TypeOK, AnsweredIsNotOpen
<1>15. QED
  BY <1>1, <1>2, <1>3, <1>4, <1>5, <1>6, <1>7, <1>8, <1>9, <1>10, <1>11, <1>12, <1>13, <1>14
     DEF Next, TriageStep, HandlerStep, StaffStep, SendReply, ApproveAndSend

-----------------------------------------------------------------------------

\* The inductive invariant holds in every reachable state.
THEOREM TicketsInvariant == Spec => []TicketsInv
<1>1. TicketsInv /\ [Next]_vars => TicketsInv'
  BY TicketsTypeStep, RepliedExistStep, TriageInvStep, AiOutputIsLoggedStep,
     HandlersInvStep, ApprovalsStayInOrgStep, ResolvedAtAgreesStep,
     AnsweredIsNotOpenStep
     DEF TicketsInv
<1>2. QED
  BY TicketsInit, <1>1, PTL DEF Spec

\* The rows and the handlers' locals keep their types; no status appears that
\* neither the code nor staff set.
THEOREM TicketTypesCorrect == Spec => []TypeOK
<1>1. TicketsInv => TypeOK
  BY DEF TicketsInv
<1>2. QED
  BY TicketsInvariant, <1>1, PTL

\* No output of the triage is stored without its entry in the AI log, wherever
\* the triage is interrupted.
THEOREM AiOutputsAreLogged == Spec => []AiOutputIsLogged
<1>1. TicketsInv => AiOutputIsLogged
  BY DEF TicketsInv
<1>2. QED
  BY TicketsInvariant, <1>1, PTL

\* Approvals in the AI log go back to a reply that was sent in the organisation as an AI
\* draft.
THEOREM ApprovalsAreOfTheOrg == Spec => []ApprovalsStayInOrg
<1>1. TicketsInv => ApprovalsStayInOrg
  BY DEF TicketsInv
<1>2. QED
  BY TicketsInvariant, <1>1, PTL

\* resolvedAt and status disagree only where a reply overtook staff.
THEOREM ResolvedAtAndStatusAgree == Spec => []ResolvedAtAgrees
<1>1. TicketsInv => ResolvedAtAgrees
  BY DEF TicketsInv
<1>2. QED
  BY TicketsInvariant, <1>1, PTL

\* An answered ticket is open only if staff put it back or a reply died or is at
\* work.
THEOREM AnsweredTicketsAreNotOpen == Spec => []AnsweredIsNotOpen
<1>1. TicketsInv => AnsweredIsNotOpen
  BY DEF TicketsInv
<1>2. QED
  BY TicketsInvariant, <1>1, PTL

\* The part of TriageSettles that needs no fairness: a triage that ended without a
\* failure has left its draft, whatever staff and replies did to the ticket meanwhile.
THEOREM EndedTriageLeavesADraft ==
  Spec => [](\A t \in Ticket : triage[t] = "done" => t \in drafts)
<1>1. TicketsInv => \A t \in Ticket : triage[t] = "done" => t \in drafts
  BY DEF TicketsInv, TriageInv
<1>2. QED
  BY TicketsInvariant, <1>1, PTL

=============================================================================
