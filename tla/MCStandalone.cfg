SPECIFICATION FairSpec
CONSTANTS
  NumSamples = 4
  Batch = 2
  Depth = 1
  MaxSteps = 2
  Transports = {"tq", "reference"}
  Faults = {"put", "copy", "drop", "fail", "crash"}
  MaxFaults = 1
  Inflight = 2
  Low = 2
  High = 3
  SaveInterval = 1
INVARIANTS
  TypeOK
  ExactlyOnce
  NoInternalError
  EndIsAccounted
PROPERTY PipelineEnds
CHECK_DEADLOCK FALSE
