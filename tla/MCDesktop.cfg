SPECIFICATION FairSpec
CONSTANTS
  Kinds = {"text", "plan", "huge"}
  MaxEvents = 3
  QueueSize = 1
  MaxBreaks = 1
  MaxSwitches = 1
  MaxCalls = 3
  MaxGateways = 3
  MaxDeaths = 2
INVARIANTS
  StreamSafety
  TerminalSafety
  SidecarSafety
PROPERTIES
  EventuallyShown
  TerminalCallsReturn
  SidecarEnds
CHECK_DEADLOCK FALSE
