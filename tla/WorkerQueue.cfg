SPECIFICATION FairSpec
CONSTANTS
  MaxItems = 3
  Delays <- MCDelays
  MaxTime = 2
  Stops = TRUE
INVARIANTS
  RecordsInOnePlace
  NeverOversleeps
PROPERTIES
  HandsOverAsPromised
  ItemTaken
CHECK_DEADLOCK FALSE
