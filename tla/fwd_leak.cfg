SPECIFICATION FairSpec
CONSTANTS
  c1 = c1
  c2 = c2
  Conns <- MCOne
  NIds = 1
  Window = 1
  Threshold = 1
  MaxBytes = 1
  MaxSends = 0
  Loads <- MCFull
  None = None
PROPERTIES ResetStreamsEnd
CHECK_DEADLOCK FALSE
