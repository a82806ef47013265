SPECIFICATION Spec
CONSTANTS
  Ips = {"a", "b"}
  SEQ_MOD = 3
  MaxTime = 3
  MaxRequests = 6
INVARIANTS
  ReplyFindsItsRequest
CHECK_DEADLOCK FALSE
