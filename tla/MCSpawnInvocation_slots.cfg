SPECIFICATION Spec
CONSTANTS
  i1 = i1
  i2 = i2
  n1 = n1
  w1 = w1
  w2 = w2
  Anywhere = Anywhere
  None = None
  Inv <- TwoInvocations
  Nodes <- OneNode
  Workers <- TwoWorkers
  Target <- NamedTarget
  Slots = 2
  MaxAttempts = 2
  MaxDeadline = 2
  SameSecond = FALSE
  MaxFaults = 0
SYMMETRY WorkerSymmetry
CHECK_DEADLOCK FALSE
INVARIANT NoSlotFreedTwice
