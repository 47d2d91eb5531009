SPECIFICATION FairSpec
CONSTANTS
  Vectors <- MCVectors
  Classes <- MCClasses
  Pins = {"com"}
  None = None
INVARIANTS InServiceIsGuestNest QueuedOutranks WindowCoversPending
PROPERTIES NoOverwrite PendingIsInjected
