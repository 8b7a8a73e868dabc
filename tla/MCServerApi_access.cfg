SPECIFICATION Spec
CONSTANTS
  Hosts <- MCHosts
  Settings <- MCSettings
INVARIANTS WithinToken UpsertTakesEffect PathOfProject ToldTruly
PROPERTIES SteadyProjectsStay
CHECK_DEADLOCK FALSE
