SPECIFICATION FairSpec
CONSTANTS
  s1 = s1
  Slaves = {s1}
  Settings <- MCSettings
INVARIANTS Attended
PROPERTIES ImplementsFeed Recovers
CHECK_DEADLOCK FALSE
