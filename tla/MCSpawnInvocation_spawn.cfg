SPECIFICATION Spec
CONSTANTS
  i1 = i1
  i2 = i2
  n1 = n1
  w1 = w1
  w2 = w2
  Anywhere = Anywhere
  None = None
  Inv <- OneInvocation
  Nodes <- OneNode
  Workers <- TwoWorkers
  Target <- NamedTarget
  Slots = 1
  MaxAttempts = 2
  MaxDeadline = 2
  SameSecond = FALSE
  MaxFaults = 2
SYMMETRY WorkerSymmetry
CHECK_DEADLOCK FALSE
INVARIANTS TypeOK 
PROPERTY SettledStays
