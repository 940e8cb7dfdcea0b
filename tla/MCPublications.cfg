SPECIFICATION Spec
CONSTANTS
  Parts = {"lap", "frames", "position", "exclusive", "driver"}
  Threads = {t1, t2}
SYMMETRY ThreadSymmetry
INVARIANTS
  StreamIntact
  NeverOverrun
PROPERTIES
  PositionsSound
  ImplementsClaimQueue
CHECK_DEADLOCK FALSE
