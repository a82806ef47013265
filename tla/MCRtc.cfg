SPECIFICATION FairSpec
CONSTANTS
  c1 = c1
  c2 = c2
  Clients = {c1, c2}
  Requests <- MCRequests
  Leaving = {"reading"}
  LateInitials = FALSE
  FRAME_INTERVAL = 1
  FRAME_SIZE = 2
  MAX_STREAMS = 3
  Window = 1
INVARIANTS
  FramesAccounted
PROPERTIES
  KeepsSchedule
  RequestsAreServed
  SessionsEnd
