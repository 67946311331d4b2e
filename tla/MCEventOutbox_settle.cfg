SPECIFICATION Spec
CONSTANTS
  s1 = s1
  s2 = s2
  w1 = w1
  w2 = w2
  None = None
  Subs <- TwoSubs
  Workers <- OneWorker
  Lease = 2
  Delays <- OneDelay
  MaxAttempts = 2
  MaxClaims = 10
  Backoff = 1
  MaxFaults = 1
  MaxChanges = 1
  MaxReplays = 0
  Horizon = 2
CHECK_DEADLOCK FALSE
INVARIANT NoneStranded
PROPERTY EventSettles
