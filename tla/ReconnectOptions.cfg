CONSTANTS
  CommandLines <- ReconnectCommandLines
  stoi <- MCstoi
  HardwareConcurrency = {4}
SPECIFICATION Spec
INVARIANT
  ClientAsAsked
CHECK_DEADLOCK FALSE
