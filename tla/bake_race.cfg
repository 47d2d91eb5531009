CONSTANTS
  Doctor = doctor
  None = None
  Torn = Torn
  Builders = {b1, b2}
  Names = {x}
  Assignments <- MCAssignments
  Crews <- MCCrews
  Findings = {"warm"}
  MaxEdits = 0
  MaxKills = 0
SPECIFICATION Spec
INVARIANTS BakedIsFresh
CHECK_DEADLOCK FALSE
