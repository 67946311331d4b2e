SPECIFICATION Spec
CONSTANTS
  p1 = p1
  p2 = p2
  a1 = a1
  i1 = i1
  w1 = w1
  w2 = w2
  None = None
  Providers <- TwoProviders
  Agents <- OneAgent
  AgentProvider <- OnFirst
  Invocations <- OneInvocation
  Workers <- TwoWorkers
  MaxRev = 3
  MaxNews = 2
SYMMETRY Symmetry
CHECK_DEADLOCK FALSE
INVARIANTS TypeOK 
PROPERTIES PostClaimKept 
