CONSTANTS
    NumLoops = 1
    MaxConns = 1
    MaxLines = 2
    AnswersPerLine = 2
    MaxUnread = 1
    Pipelined = FALSE
    FirstId = 8000
    LastId = 65535
    StartId = 8000
SPECIFICATION FairSpec
INVARIANTS
    RelayedInOrder
    
PROPERTIES
    AnswersAreWritten
    ClosedIsForgotten
CHECK_DEADLOCK FALSE
