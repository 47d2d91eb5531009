SPECIFICATION FairSpec
CONSTANTS
  c1 = c1
  c2 = c2
  Conns <- MCTwo
  NIds = 1
  Window = 3
  Threshold = 2
  MaxBytes = 4
  MaxSends = 1
  Loads <- MCLoads
  None = None
INVARIANTS FramesReachTheirOwner CreditIsConserved CloseDeliversAll
PROPERTIES HostLetsGo ResponsesArrive CloseEndsTheHandler
CHECK_DEADLOCK FALSE
