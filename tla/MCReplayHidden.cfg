SPECIFICATION Spec
CONSTANTS
  Capacity = 2
  BatchSize = 1
  TargetSteps = 2
  DirectSamples = TRUE
  OneCollective = TRUE
  LateRollback = TRUE
  AbandonedAttempts = FALSE
  MaxPerCollection = 2
  MaxSamples = 5
  MaxVersions = 3
  MaxPlans = 3
INVARIANT HiddenOnlyInFlight
CHECK_DEADLOCK FALSE
