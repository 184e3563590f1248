SPECIFICATION Spec
CONSTANTS
  MaxControl = 0
  MaxFrames = 0
INVARIANT
  RefusalReaches
CHECK_DEADLOCK FALSE
