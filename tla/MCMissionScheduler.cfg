SPECIFICATION FairSpec
CONSTANTS
  Plans <- MCPlans
  RoleLimit <- MCRoleLimit
  MaxParallel = 2
  MaxTaskRetries = 1
  MaxAgents = 5
  Scenarios <- MCScenarios
  MayFail = TRUE
INVARIANTS
  SchedulerInv
PROPERTIES
  ReportsCount
  PlanOrder
  MissionSettles
CHECK_DEADLOCK FALSE
