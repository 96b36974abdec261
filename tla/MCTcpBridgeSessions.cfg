CONSTANTS
    NumLoops = 1
    MaxConns = 2
    MaxLines = 1
    AnswersPerLine = 1
    MaxUnread = 1
    Pipelined = FALSE
    FirstId = 8000
    LastId = 65535
    StartId = 65535
SPECIFICATION Spec
INVARIANTS
    AnswersGoHome
    NoLostWakeup
    AssertionsHold
CHECK_DEADLOCK FALSE
