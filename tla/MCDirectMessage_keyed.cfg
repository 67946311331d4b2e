SPECIFICATION Spec
CONSTANTS
  r1 = r1
  r2 = r2
  s1 = s1
  p1 = p1
  p2 = p2
  Requests <- TwoRequests
  Sweepers <- OneSweeper
  Payloads <- TwoPayloads
  Sites <- AllSites
  Window = 3
  Stall = 1
  MaxTime = 3
  MaxMsg = 2
SYMMETRY RequestSymmetry
INVARIANTS TypeOK OnePerWindow AnswerIsOwn OneIdentity  RecordWithinWindow
PROPERTY SettledStays
CHECK_DEADLOCK FALSE
