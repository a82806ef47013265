SPECIFICATION Spec
CONSTANTS
  MIN_RTT_WINDOW = 4
  MIN_STANDING_WINDOW = 1
  V_MAX = 4
  CWND = 1
  SCALE = 4
  Rtts = {1, 2, 4}
  MaxTime = 7
  MaxCwnd = 4
  MaxSent = 2
INVARIANTS
  
  
  
  ThreeBestAreOrdered
  MinIsInWindow
  
CHECK_DEADLOCK FALSE
