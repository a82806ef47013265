SPECIFICATION Spec
CONSTANTS
  c1 = c1
  c2 = c2
  Clients = {c1, c2}
  Requests <- MCRequests
  Leaving = {"retrying", "asking"}
  LateInitials = TRUE
  FRAME_INTERVAL = 1
  FRAME_SIZE = 2
  MAX_STREAMS = 3
  Window = 1
PROPERTIES
  FinishedIsWritten
