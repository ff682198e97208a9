SPECIFICATION Spec
CONSTANTS
  Capacity = 2
  BatchSize = 1
  TargetSteps = 2
  DirectSamples = TRUE
  OneCollective = TRUE
  LateRollback = FALSE
  AbandonedAttempts = FALSE
  MaxPerCollection = 2
  MaxSamples = 5
  MaxVersions = 3
  MaxPlans = 3
INVARIANTS
  TypeOK
  HiddenOnlyInFlight
  CheckpointAccepted
  QuotaHasData
PROPERTIES
  ProtectedStay
  ReservationStable
CHECK_DEADLOCK FALSE
