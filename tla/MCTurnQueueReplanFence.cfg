SPECIFICATION Spec
CONSTANTS
  MaxTurns = 2
  Deliveries = {"queue", "stop_and_replan"}
  StartMayFail = FALSE
  StopMayFail = FALSE
  MayCancel = FALSE
  MaxCrashes = 0
  NULL = NULL
INVARIANTS
  ReplacementSurvives
CHECK_DEADLOCK FALSE
