SPECIFICATION Spec
CONSTANTS
  g1 = g1
  g2 = g2
  g3 = g3
  Groups = {g1, g2, g3}
  Shards = {1, 2}
  First = 1
  None = None
  MaxStep = 6
  HeadLimit = 2
  TargetSteps = 3
  Fallbacks = {TRUE, FALSE}
  Faults = {"head", "ack", "activation", "oom", "offer", "import"}
SYMMETRY GroupSymmetry
INVARIANTS
  TypeOK
  NoStaleTraining
  HeadInPlace
PROPERTY NoMidQuotaSwitch
CHECK_DEADLOCK FALSE
