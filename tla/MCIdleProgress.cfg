SPECIFICATION FairSpec
CONSTANTS
  r1 = r1
  r2 = r2
  w1 = w1
  w2 = w2
  w3 = w3
  Workers = {w1, w2, w3}
  Replicas = {r1, r2}
  ReplicaOf <- MCReplicaOf
  Team = {w1, w2}
  MaxPlans = 1
  MaxBatches = 1
  MaxActive = 2
  MaxRequests = 3
  MaxRollouts = 1
  Faults = {"request", "park"}
PROPERTIES
  WaiterServed
  BoundaryReached
CHECK_DEADLOCK FALSE
