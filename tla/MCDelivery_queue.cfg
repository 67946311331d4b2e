SPECIFICATION Spec
CONSTANTS
  a1 = a1
  n1 = n1
  w1 = w1
  w2 = w2
  Agents <- OneAgent
  MaxMsg = 2
  Nodes <- OneNode
  WsNodes <- OneNode
  Home <- HomeOne
  Unrouted = Unrouted
  Sweepers <- TwoSweepers
  DepthCap = 2
  Cap = 2
  Reserve = 1
  Batch = 1
  OverAck = 0
SYMMETRY SweeperSymmetry
INVARIANTS TypeOK SeqUnique ReplayVisible  NoticedOnce
PROPERTIES DropOnlyIfUnreachable ImplementsMailbox
CHECK_DEADLOCK FALSE
