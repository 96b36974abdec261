CONSTANTS
    Requests <- MCRequests
    Streaming <- MCStreaming
    Units = {"rkllm", "asr"}
    Stages <- MCStages
    Streamed <- MCStreamed
    Calls <- MCCalls
    Parts = 2
    MaxSessions = 1
    MaxIds = 3
    MaxRestarts = 1
SPECIFICATION FairSpec
INVARIANTS
    
    AnswersAreOwn
    NodesSurviveOrderlyUse
PROPERTIES
    RequestsEnd
CHECK_DEADLOCK FALSE
