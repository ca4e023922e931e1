SPECIFICATION StreamSpec
CONSTANTS
  Kinds = {"text", "other"}
  MaxEvents = 3
  QueueSize = 2
  MaxBreaks = 0
  MaxSwitches = 0
INVARIANTS
  ReceivedIsShown
CHECK_DEADLOCK FALSE
