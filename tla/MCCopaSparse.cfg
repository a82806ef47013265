SPECIFICATION Spec
CONSTANTS
  MIN_RTT_WINDOW = 4
  MIN_STANDING_WINDOW = 1
  V_MAX = 4
  CWND = 1
  SCALE = 4
  Rtts = {1, 2, 3, 4}
  MaxTime = 8
  MaxCwnd = 20
  MaxSent = 0
INVARIANTS
  StandingNotBelowMin
CHECK_DEADLOCK FALSE
