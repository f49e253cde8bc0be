SPECIFICATION Spec
CONSTANTS
    MaxInflight = 1
    CleanSessions = {FALSE}
    Requests = {"suback_sem"}
    MaxCalls = 2
    MaxConnections = 2
    MaxIncoming = 1
    MaxTroubles = 1
    MaxLate = 1
INVARIANTS WaitsAreTrue
PROPERTIES CallsEnd
CHECK_DEADLOCK FALSE
