SPECIFICATION Spec
CONSTANTS
  n1 = n1
  n2 = n2
  a1 = a1
  a2 = a2
  w1 = w1
  w2 = w2
  g1 = g1
  g2 = g2
  Hosted = Hosted
  None = None
  Nodes <- OneNode
  Agents <- TwoAgents
  AgentNode <- SameNode
  Workers <- TwoWorkers
  Gens <- TwoGens
  Modes <- SomeModes
  MaxGen = 1
  MaxAttempts = 2
  MaxDeadline = 1
SYMMETRY Symmetry
CHECK_DEADLOCK FALSE
INVARIANTS TypeOK  TaskRunsOnce
PROPERTIES EndedStays ReplayStays TaskNotResent
