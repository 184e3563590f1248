SPECIFICATION FairSpec
CONSTANTS
  Patience = 3
  MaxFaults = 5
  MaxJobs = 3
INVARIANTS
  OneAttempt
  NeverGivesUp
PROPERTIES
  RefusalIsFinal
  EventuallyServed
CHECK_DEADLOCK FALSE
