SPECIFICATION Spec
CONSTANTS
  s1 = s1
  s2 = s2
  w1 = w1
  w2 = w2
  None = None
  Subs <- OneSub
  Workers <- TwoWorkers
  Lease = 2
  Delays <- OneDelay
  MaxAttempts = 2
  MaxClaims = 2
  Backoff = 1
  MaxFaults = 0
  MaxChanges = 1
  MaxReplays = 1
  Horizon = 2
SYMMETRY OutboxSymmetry
CHECK_DEADLOCK FALSE
INVARIANT TypeOK
PROPERTY OwnerSettles
