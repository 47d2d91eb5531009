SPECIFICATION Spec
CONSTANTS
  Vectors <- MCViolationVectors
  Classes <- MCClasses
  Pins = {"com"}
  None = None
INVARIANTS TprWriteTakesEffect
