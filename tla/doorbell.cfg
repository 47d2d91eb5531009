SPECIFICATION BellFairSpec
CONSTANTS
  None = None
  Spans <- MCSpans
  Horizons = {3}
  MaxJump = 2
  FfModes = {TRUE}
  AllowEgress = FALSE
  MaxHost = 3
  MaxVtsc = 3
  Slack = 1
INVARIANTS GuestIsPreemptible
PROPERTIES ExitFreeGuestIsBroken
