SPECIFICATION RegistrySpec
CONSTANTS
  Planned = {p1}
  Dynamic = 1
  Guarded = {1}
  MaxParallel = 2
  MaxChildren = 2
  MaxDepth = 2
  MaxStops = 1
  MaxBreaks = 0
  NoParent = NoParent
INVARIANT EndedReleasesCapacity
CHECK_DEADLOCK FALSE
