SPECIFICATION Spec
CONSTANTS
  d1 = d1
  d2 = d2
  a = a
  b = b
  None = None
  Drivers = {d1, d2}
  Services = {a, b}
  Script <- MCScript
  EventKinds = {"finish"}
  Generations = {0, 1}
  MaxReq <- MCMaxReq
  TtyCap = 2
  Impatient = {d2}
  Leavers = {d2}
  Caps = {1, 2}
INVARIANTS VerdictIsFirstFinish EveryCommandIsTraced PartitionsAreAsAnswered
PROPERTIES FaultIsAppliedOnReturn AcceptedFinishEndsRun DriversAreAnswered
CHECK_DEADLOCK FALSE
