SPECIFICATION ClientsSpec
CONSTANTS
    NumRuns = 2
    KeyOf <- MCKeyOf
    None = None
    a = a
    RunLimit = 1
    Settings <- MCSettings
    Callers = {c1, c2}
    ReadRetries = 1
INVARIANTS RecordsHonest NewestPicked CommandsKept
PROPERTIES CallersEnd
CHECK_DEADLOCK FALSE
