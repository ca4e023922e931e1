SPECIFICATION ApplySpec
CONSTANTS
  Builders = 1
  MaxFailing = 0
  MaxDeaths = 1
  MaxQueued = 1
  MayCancel = FALSE
INVARIANTS
  PublishedIsNotFailed
CHECK_DEADLOCK FALSE
