CONSTANTS
  QueueSize = 2
  ServerGreets = FALSE
  MaxRequests = 1
  MaxPings = 1
SPECIFICATION Spec
INVARIANT
  RepliesMatch
CHECK_DEADLOCK FALSE
