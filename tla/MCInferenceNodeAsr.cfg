CONSTANTS
    Users = {u1, u2, u3}
    MaxConn = 1
    MaxSent = 2
    MaxUnit = 3
    MaxAside = 0
    MaxSessions = 3
    MaxQueue = 1
    Streaming = FALSE
    Patient = TRUE
SPECIFICATION FairSpec
PROPERTIES
    EveryRequestAnswered
CHECK_DEADLOCK FALSE
