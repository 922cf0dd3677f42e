SPECIFICATION Spec
CONSTANTS
  Product = {p1, p2}
  Form = {f1}
  Artifact = {a1}
  Task = {k1}
  Commit = {c1}
  Unabbreviated = full
  MaxDeployments = 2
  Request = {r1, r2, r3, r4, r5}
  None = None
  Status = {"REQUESTED", "SCOPED", "IN_DESIGN"}
  State = {"success", "failure"}
SYMMETRY RequestSymmetry
INVARIANTS
  StagesTellTheStatus
  FormsAccounted
  DeploymentFollowsReports
PROPERTIES
  SettledRowsRest
CHECK_DEADLOCK FALSE
