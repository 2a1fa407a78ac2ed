CONSTANTS
  QueueSize = 2
  ServerGreets = TRUE
  MaxRequests = 2
  MaxPings = 2
SPECIFICATION FairSpec
INVARIANTS
  TypeOK
  SpinFed
  QuietRepliesMatch
PROPERTIES
  TakenInOrder
  SpinReturns
  CloseReturns
CHECK_DEADLOCK FALSE
