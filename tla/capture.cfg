SPECIFICATION Spec
CONSTANTS
  s1 = s1
  s2 = s2
  bad = bad
  None = None
  ServiceSeq <- MCServiceSeq
  Unsafe = {bad}
  Wide = {2}
  Blank = {1}
  ChunkBytes = 2
  Escape = 1
  TxCap = 3
  FifoSize = 1
  Logged <- MCLogged
  Codes = {7}
  MaxBusy = 1
  Printer = s1
  PrintUnits = 2
  TeeCap = 1
  PartialCap = 1
  Residue = residue
INVARIANTS CapturedIsPrefix NothingIsMissingSilently ReplyIsNeverLost ExitIsDecidedAtStop
PROPERTIES CaptureEnds
CHECK_DEADLOCK FALSE
