SPECIFICATION Spec
CONSTANTS
  MaxSeq = 2
  Clients <- OnlySdk
  MaxConn <- Conns
  Redrivers <- OneRedriver
  PageSize = 1
CHECK_DEADLOCK FALSE
INVARIANT NonePassedOver
