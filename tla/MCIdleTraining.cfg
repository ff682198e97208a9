SPECIFICATION Spec
CONSTANTS
  r1 = r1
  r2 = r2
  w1 = w1
  w2 = w2
  w3 = w3
  Workers = {w1, w2, w3}
  Replicas = {r1, r2}
  ReplicaOf <- MCReplicaOf
  Team = {w1, w2}
  MaxPlans = 2
  MaxBatches = 2
  MaxActive = 1
  MaxRequests = 3
  MaxRollouts = 2
  Faults = {"preflight", "step", "join"}
SYMMETRY TeamSymmetry
INVARIANTS
  BusyIsAnnounced
  NothingLeaks
  OverlapReclaimed
  NothingInUpdate
  StepsAccounted
  ReclaimIsOfThisPlan
PROPERTY UseSpec
CHECK_DEADLOCK FALSE
