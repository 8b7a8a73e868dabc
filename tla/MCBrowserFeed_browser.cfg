SPECIFICATION FairLogSpec
CONSTANTS
  Settings <- MCSettings
INVARIANTS FeedRight WindowHolds
PROPERTIES CatchesUp WindowArrives
CHECK_DEADLOCK FALSE
