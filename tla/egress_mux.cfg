SPECIFICATION FairSpec
CONSTANTS
  Streams <- MCStreams
  Window = 2
  SocketCap = 1
  MaxSessions = 1
  CreditMax = 3
  Sizes <- MCSizes
  MaxAvail = 1
  MaxWire = 1
  MaxPending = 1
  None = None
INVARIANTS QuiescenceIsReal AnswersAreOwn CloseIsLast WaitIsCovered
PROPERTIES ResolvesAreHarvested OpensAreAnswered
