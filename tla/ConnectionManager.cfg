CONSTANTS
  Clients = {c1, c2, c3}
  NoClient = NoClient
  AutoReconnect = TRUE
  HeartbeatEnabled = TRUE
  MaxTries = 3
  InitialBackoff = 1
  MaxBackoff = 3
  Multiplier = 2
  MaxDrops = 2
SYMMETRY ClientSymmetry
SPECIFICATION Spec
INVARIANTS
  ConnectedHasClient
  OneReplacer
  NoClientLeaked
  BackoffSchedule
  UndisturbedWhileUp
PROPERTIES
  ClosedIsFinal
  GaveUpIsFinal
