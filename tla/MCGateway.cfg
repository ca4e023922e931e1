SPECIFICATION GatewaySpec
CONSTANTS
  MaxTurns = 3
  Deliveries = {"queue", "start", "steer", "retry"}
  StartMayFail = TRUE
  StopMayFail = TRUE
  MayCancel = TRUE
  MaxCrashes = 1
  NULL = NULL
  w1 = w1
  w2 = w2
  Workspaces = {w1, w2}
  Events = {1, 2, 3}
  WorkspaceOf <- MCWorkspaceOf
  NodeOf <- MCNodeOf
  Routine = {3}
  QueueLimit = 1
  Closing <- MCClosing
  MaxFaults = 1
INVARIANTS
  
  MemorySafety
PROPERTIES
  VerdictsStand
  TurnsSettle
  MemoryAnswers
