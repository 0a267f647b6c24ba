SPECIFICATION Spec
CONSTANTS
  Limit = 4194304
  MaxFrame = 298
  Numbers = {"0", "9"}
  Scripts <- Receipted
INVARIANTS
  AckedEndsTheDrainer
CHECK_DEADLOCK FALSE
