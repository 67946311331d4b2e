SPECIFICATION Spec
CONSTANTS
  p1 = p1
  p2 = p2
  r1 = r1
  Pollers <- TwoPollers
  Rows <- OneRow
  MaxWait = 1
  Memory = 1
  Horizon = 3
CHECK_DEADLOCK FALSE
INVARIANTS TypeOK NoMissedWake
PROPERTY PollEnds
