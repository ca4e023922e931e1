SPECIFICATION DurableSpec
CONSTANTS
  a1 = a1
  a2 = a2
  r1 = r1
  r2 = r2
  NULL = NULL
  Approvals <- MCApprovals
  Requests <- MCRequests
  MaxAttempts = 2
  d1 = d1
  d2 = d2
  NoOwner = NoOwner
  Scheduled = Scheduled
  Deletions <- MCDeletions
  LastPhase = 3
  MaxFailures = 2
  MaxLapses = 2
  MaxCrashes = 1
  Builders = 2
  MaxFailing = 2
  MaxDeaths = 3
  MaxQueued = 2
  MayCancel = TRUE
  o1 = o1
  o2 = o2
  Publishers <- MCPublishers
  Files = 2
  MaxCuts = 3
  User = User
  Nobody = Nobody
  h1 = h1
  h2 = h2
  h3 = h3
  Holders <- MCHolders
  Ttl = 3
  MaxAge = 2
  NoHolder = NoHolder
  p1 = p1
  Planned <- MCPlanned
  Dynamic = 3
  Guarded <- MCGuarded
  MaxParallel = 2
  MaxChildren = 2
  MaxDepth = 2
  MaxStops = 2
  MaxBreaks = 2
  NoParent = NoParent
  k1 = k1
  k2 = k2
  k3 = k3
  Keys <- MCKeys
  Dismissals <- MCDismissals
  NoKey = NoKey
  b1 = b1
  m1 = m1
  m2 = m2
  Branches <- MCBranches
  Merges <- MCMerges
  Direct <- MCDirect
  BranchOf <- MCBranchOf
  MaxVersion = 2
  MaxTroubles = 1
INVARIANTS
  DurableTypeOK
  TablesAgree
  OutboxSafety
  DeletionSafety
  ApplySafety
  SiblingSafety
  LeaseSafety
  RegistrySafety
  QuestionSafety
  
PROPERTIES
  DecisionIsFinal
  ProcessingIsResolved
  ImplementsContract
  DeletionSteps
  DeletionCompletes
  ApplySteps
  AppliedCompletes
  OpenIsFinished
  AbandonedIsFreed
  QuestionSteps
  QuestionEnds
