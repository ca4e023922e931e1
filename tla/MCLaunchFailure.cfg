SPECIFICATION FairSpec
CONSTANTS
  Plans <- MCResearch
  RoleLimit <- MCRoleLimit
  MaxParallel = 2
  MaxTaskRetries = 1
  MaxAgents = 5
  Scenarios <- MCUndisturbed
  MayFail = TRUE
PROPERTY RejectedTaskFailsMission
CHECK_DEADLOCK FALSE
