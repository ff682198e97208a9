SPECIFICATION Spec
CONSTANTS
  LastStep = 4
  TargetSteps = 2
  CollectInterval = 1
  TrainInterval = 1
  PublishInterval = 2
  SaveInterval = 0
  MaxDebtAge = 1
  MaxDebt = 0
  MaxCompletionLag = 1
  MaxSyncTopup = 1
  MaxPublishLag = 2
  MaxPendingPublish = 1
  Fallback = TRUE
  PublishAsync = FALSE
  OneCollective = TRUE
  Unready = {}
INVARIANT NeverStranded
CHECK_DEADLOCK FALSE
