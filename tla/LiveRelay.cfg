SPECIFICATION FairSpec
CONSTANTS
  MaxControl = 2
  MaxFrames = 2
INVARIANTS
  Verbatim
  EndingsCovered
  NeverFalselyRefused
PROPERTIES
  EventuallyReleased
  EventuallyEnded
CHECK_DEADLOCK FALSE
