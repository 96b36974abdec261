CONSTANTS
    Users = {u1}
    MaxConn = 2
    MaxSent = 3
    MaxUnit = 1
    MaxAside = 1
    MaxSessions = 1
    MaxQueue = 1
    Streaming = TRUE
    Patient = FALSE
SPECIFICATION Spec
INVARIANTS
    NoCrash
CHECK_DEADLOCK FALSE
