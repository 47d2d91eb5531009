SPECIFICATION FairSpec
CONSTANTS
  None = None
  Spans <- MCSpans
  Horizons = {3, None}
  MaxJump = 1
  FfModes = {TRUE, FALSE}
  AllowEgress = TRUE
  MaxHost = 3
  MaxVtsc = 4
INVARIANTS OneClock ParkSchedule
PROPERTIES ImplementsVirtualTime HaltedGuestWakes FinishEndsRun RunEnds
CHECK_DEADLOCK FALSE
