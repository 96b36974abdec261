CONSTANTS
    Users = {u1, u2}
    MaxConn = 2
    MaxSent = 4
    MaxUnit = 2
    MaxAside = 1
    MaxSessions = 1
    MaxQueue = 1
    Streaming = TRUE
    Patient = TRUE
SPECIFICATION FairSpec
INVARIANTS
    NoUnitLeaks
    NoCrash
    NothingBlocks
PROPERTIES
    ImplementsRequestReply
CHECK_DEADLOCK FALSE
