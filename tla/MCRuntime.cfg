SPECIFICATION RuntimeSpec
CONSTANTS
  Sessions = {codex, claude}
  Guarded = {codex}
  Timeout = 3
  IdleGrace = 3
  MaxProbeFailures = 2
  MaxCrashes = 1
  MaxSupervisorTurns = 3
  Stops = {s1, s2}
  MaxCalls = 4
  Nobody = Nobody
INVARIANTS
  RuntimeInv
PROPERTIES
  EndingsAreJust
  NobodyHangs
CHECK_DEADLOCK FALSE
