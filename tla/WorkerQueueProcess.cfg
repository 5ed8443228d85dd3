SPECIFICATION Spec
CONSTANTS
  MaxItems = 3
  Delays <- MCNoDelay
  MaxTime = 2
  Stops = FALSE
INVARIANTS
  ProcessedAsTaken
CHECK_DEADLOCK FALSE
