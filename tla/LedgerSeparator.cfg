\* An event whose text holds a line separator, no fault.
SPECIFICATION Spec
CONSTANTS
  MaxEvents = 3
  Writers = {w1, w2}
  Shape <- OneSeparator
  NULL = NULL
  CanFail = FALSE
  CanCrash = TRUE
INVARIANT CorruptMeansDamaged
CHECK_DEADLOCK FALSE
