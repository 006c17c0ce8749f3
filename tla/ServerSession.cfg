SPECIFICATION FairSpec
CONSTANTS
  Modes = {TRUE, FALSE}
  Requests <- AllRequests
  Pipelining = FALSE
  MaxRequests = 2
INVARIANTS RepliesInOrder ContentExact StreamInOrder
PROPERTIES Answered ClosedOnceWritten
CHECK_DEADLOCK FALSE
