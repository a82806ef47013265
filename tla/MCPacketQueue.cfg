SPECIFICATION Spec
CONSTANTS
  CLOSE_THRESHOLD = 1
  FLOWLET_MAX_PKTS = 2
  WHEN_MEASURE_ELICITING_THRESHOLD = 3
  QUEUE_LIMIT = 2
  INIT_INTERVAL = 1
  FlowletIntervalFactor <- MCIntervalFactor
  FlowletEndFactor <- MCEndFactor
  Rtts = {1, 3}
  MaxTime = 6
  MaxPackets = 4
  MaxReplies = 3
  LastArrival = 6
INVARIANTS
  TypeOK
  FlowletsPartitionPackets
  OnlyFrontIsReplied
  FlowletsAreOrderedInTime
  LossesLeftTheQueue
PROPERTIES
  NoLossBeforeReplyIsDue
  ResetDropsEveryRepliedFlowlet
