CONSTANTS
  CommandLines <- AllCommandLines
  stoi <- MCstoi
  HardwareConcurrency = {0, 4}
SPECIFICATION FairSpec
INVARIANTS
  OptionsAsDocumented
  PinnedAsAsked
  ClosedIsSaid
PROPERTIES
  ConnectSettles
  CloseReturns
CHECK_DEADLOCK FALSE
