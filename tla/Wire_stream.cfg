SPECIFICATION Spec
CONSTANTS
  Limit = 4194304
  MaxFrame = 298
  Numbers = {"0", "9"}
  Scripts <- WrittenAndSent
INVARIANTS
  TypeOK
  EveryFrameArrives
  RefusedOnlyUnderDot
PROPERTIES
  WholeFrames
CHECK_DEADLOCK FALSE
