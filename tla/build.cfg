CONSTANTS
  Doctor = doctor
  None = None
  Torn = Torn
  Builders = {b1, b2}
  Names = {x, y}
  Assignments <- MCAssignments
  Crews <- MCCrews
  Findings = {"cold", "torn", "warm"}
  MaxEdits = 1
  MaxKills = 1
SYMMETRY MCSymmetry
SPECIFICATION Spec
INVARIANTS FreshUnlessDisturbed VerifiedRunsBootSealed ScratchIsOwned
PROPERTIES DeliversUnlessDisturbed
CHECK_DEADLOCK FALSE
