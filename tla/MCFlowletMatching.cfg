SPECIFICATION Spec
CONSTANTS
  CLOSE_THRESHOLD = 1
  MaxTime = 4
  MaxPkts = 4
  MaxReplies = 3
  Rtts = {1, 3}
INVARIANTS
  MatchingKeepsOrder
  MatchingIsOptimal
  BurstsShareTheirFate
  
  AlternateRepliesAreNotLoss
CHECK_DEADLOCK FALSE
