SPECIFICATION Spec
CONSTANTS
  Owners = {o1, o2}
  MaxCollections = 2
  MaxBucket = 2
  MaxRestarts = 1
  CollectOnly = TRUE
  FlushEveryStep = TRUE
SYMMETRY OwnerSymmetry
INVARIANTS
  FailedLeavesNothing
  CompletedIsDurable
  NoTransactionLeft
PROPERTY AllOrNothing
CHECK_DEADLOCK FALSE
