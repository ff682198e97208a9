SPECIFICATION FairSpec
CONSTANTS
  Owners = {o1, o2}
  MaxCollections = 2
  MaxBucket = 2
  MaxRestarts = 1
  CollectOnly = FALSE
  FlushEveryStep = FALSE
INVARIANTS
  RejectedLeavesNothing
  CompletedEverywhere
PROPERTIES
  CommittedDataSurvives
  ExecuteEnds
CHECK_DEADLOCK FALSE
