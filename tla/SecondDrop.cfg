CONSTANTS
  Clients = {c1, c2, c3}
  NoClient = NoClient
  AutoReconnect = TRUE
  HeartbeatEnabled = TRUE
  MaxTries = 1
  InitialBackoff = 1
  MaxBackoff = 3
  Multiplier = 2
  MaxDrops = 2
SPECIFICATION FairSpec
PROPERTY
  LostConnectionNoticed
CHECK_DEADLOCK FALSE
