SPECIFICATION Spec
CONSTANTS
  Plans <- MCCandidates
  RoleLimit <- MCRoleLimit
  MaxParallel = 2
  MaxTaskRetries = 1
  MaxAgents = 5
  Scenarios <- MCUndisturbed
  MayFail = TRUE
PROPERTY SelectedCandidateIsApplied
CHECK_DEADLOCK FALSE
