SPECIFICATION Spec
CONSTANTS
  Owners = {o1, o2}
  MaxCollections = 1
  MaxBucket = 2
  MaxRestarts = 0
  CollectOnly = FALSE
  FlushEveryStep = FALSE
INVARIANT FailedLeavesNothing
CHECK_DEADLOCK FALSE
