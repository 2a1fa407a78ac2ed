CONSTANTS
  Clients = {c1, c2, c3}
  NoClient = NoClient
  AutoReconnect = TRUE
  HeartbeatEnabled = TRUE
  MaxTries = 1
  InitialBackoff = 1
  MaxBackoff = 3
  Multiplier = 2
  MaxDrops = 1
SPECIFICATION FairSpec
PROPERTIES
  StopTerminates
  ReconnectSettles
  LostConnectionNoticed
CHECK_DEADLOCK FALSE
