CONSTANT
  MaxRequests = 3
SPECIFICATION FairSpec
INVARIANTS
  MutexHeld
  NoLostWakeup
  WaitsForSomething
  RepliesMatch
PROPERTIES
  ResponseComes
  CloseReturns
CHECK_DEADLOCK FALSE
