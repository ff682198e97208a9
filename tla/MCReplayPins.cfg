SPECIFICATION Spec
CONSTANTS
  Capacity = 2
  BatchSize = 1
  TargetSteps = 2
  DirectSamples = TRUE
  OneCollective = TRUE
  LateRollback = FALSE
  AbandonedAttempts = TRUE
  MaxPerCollection = 2
  MaxSamples = 5
  MaxVersions = 3
  MaxPlans = 3
INVARIANT CheckpointAccepted
CHECK_DEADLOCK FALSE
