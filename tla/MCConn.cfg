SPECIFICATION Spec
CONSTANTS
  CLOSE_THRESHOLD = 1
  FLOWLET_MAX_PKTS = 4
  WHEN_MEASURE_ELICITING_THRESHOLD = 4
  QUEUE_LIMIT = 3
  INIT_INTERVAL = 1
  FlowletIntervalFactor <- MCIntervalFactor
  FlowletEndFactor <- MCEndFactor
  Rtts = {1}
  MaxTime = 10
  LastArrival = 8
  MaxPackets = 6
  MaxServerPackets = 3
  MaxReplies = 5
  DELAY_kGranularity = 1
  DELAY_kPacketThreshold = 1
  ClientSizes = {1}
  ServerSizes = {3}
  Verdicts = {TRUE, FALSE}
  CalibrationSamples = {3}
INVARIANTS
  FirstRttFindsPackets
  HeldOnlyWhileOverspeed
PROPERTIES
  RttStaysMeasured
  ForwardsAcks
  RepairsLosses
CHECK_DEADLOCK FALSE
