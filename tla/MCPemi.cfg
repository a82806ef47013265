SPECIFICATION FairSpec
CONSTANTS
  p1 = p1
  p2 = p2
  Pairs <- MCPairs
  RetransRateLimit <- HalfLimit
  ClientDatagrams <- MCClientDatagrams
  ServerDatagrams <- MCServerDatagrams
  Delays = {1}
  IDLE_TIMEOUT = 2
  RATE_LIMIT_PKTS = 1
  MaxLosses = 2
  MaxTime = 8
  MaxPkts = 4
  LastArrival = 4
INVARIANTS
  HeapMatchesConns
  ForgottenInTime
  
  FirstAnswerFindsInitial
  TaskConnsExist
PROPERTIES
  ActiveConnsStay
  RetransRateIsLimited
  IdleConnsAreRemoved
CHECK_DEADLOCK FALSE
