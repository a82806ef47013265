SPECIFICATION FairSpec
CONSTANTS
  CLOSE_THRESHOLD = 1
  FLOWLET_MAX_PKTS = 4
  WHEN_MEASURE_ELICITING_THRESHOLD = 4
  QUEUE_LIMIT = 3
  INIT_INTERVAL = 1
  FlowletIntervalFactor <- MCIntervalFactor
  FlowletEndFactor <- MCEndFactor
  Rtts = {1}
  MaxTime = 12
  LastArrival = 6
  MaxPackets = 4
  MaxServerPackets = 2
  MaxReplies = 3
  DELAY_kGranularity = 1
  DELAY_kPacketThreshold = 1
  ClientSizes = {1}
  ServerSizes = {3}
  Verdicts = {TRUE, FALSE}
  CalibrationSamples = {}
PROPERTIES
  DelayedAcksAreSent
CHECK_DEADLOCK FALSE
