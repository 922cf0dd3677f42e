SPECIFICATION Spec
CONSTANTS
  up = up
  cpu = cpu
  short = short
  long = long
  Metric = {up, cpu}
  Uptime = up
  Rule = {short, long}
  RuleMetric <- MCRuleMetric
  Window <- MCWindow
  History = 1
  Retention = 2
  MaxDay = 3
  MaxAlerts = 2
  Job = {j1, j2, j3}
  Loads <- MCLoads
SYMMETRY Symmetry
CHECK_DEADLOCK FALSE
INVARIANTS
  DuplicatesNeedARace
  BreachesAnswered
  DeletedPointsAreCounted
  DashboardIsWhole
PROPERTIES
  RollupIsIdempotent
