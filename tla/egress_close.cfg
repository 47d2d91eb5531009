SPECIFICATION Spec
CONSTANTS
  Streams <- MCStreams
  Window = 1
  SocketCap = 1
  MaxSessions = 1
  CreditMax = 2
  Sizes <- MCSizes
  MaxAvail = 1
  MaxWire = 1
  MaxPending = 1
  None = None
PROPERTY BacklogIsDrained
