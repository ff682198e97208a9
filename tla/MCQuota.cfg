SPECIFICATION FairSpec
CONSTANTS
  LastStep = 11
  TargetSteps = 4
  CollectInterval = 1
  TrainInterval = 2
  PublishInterval = 1
  SaveInterval = 2
  MaxDebtAge = 2
  MaxDebt = 2
  MaxCompletionLag = 3
  MaxSyncTopup = 1
  MaxPublishLag = 2
  MaxPendingPublish = 1
  Fallback = TRUE
  PublishAsync = FALSE
  OneCollective = TRUE
  Unready = {5, 6, 9}
INVARIANTS
  WorkMatchesQuota
  OnlyWholeQuotasServed
  NeverStranded
  NoInternalError
  DeadlineKept
  EndIsComplete
PROPERTIES
  CheckpointIsWhole
  QuotaSettles
CHECK_DEADLOCK FALSE
