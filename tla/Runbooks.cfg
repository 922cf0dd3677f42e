SPECIFICATION FairSpec
CONSTANTS
  Runbook = {b1}
  Executor = {x1, x2, x3}
  Page = {g1, g2}
  NoRunbook = NoRunbook
  MaxRetries = 2
  MaxRuns = 3
  MaxLost = 1
INVARIANTS
  RunsAccounted
  AutomationBounded
PROPERTIES
  SwitchedOffWindsDown
  KillSwitchWorks
