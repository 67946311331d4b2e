SPECIFICATION Spec
CONSTANTS
  MaxSeq = 2
  Clients <- BothClients
  MaxConn <- Conns
  Redrivers <- OneRedriver
  PageSize = 1
CHECK_DEADLOCK FALSE
INVARIANTS TypeOK ReportedOnce AckedWasInjected
PROPERTY EventuallyAcked
