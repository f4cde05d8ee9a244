SPECIFICATION FairSpec
CONSTANTS
    NSlots = 2
    NCtx = 5
    NBatch = 3
    NKeep = 1
    DraftMin = 0
    DraftMax = 1
    Params <- TwoParams
    Requests <- MixedRequests
    MaxTasks = 3
    CanTrim = FALSE
    MayFill = TRUE
    MayBreak = TRUE
INVARIANTS TypeOK KvMatchesPrompt OwnLogits
PROPERTIES AnsweredOnce WithinLimits EveryTaskEnds
CHECK_DEADLOCK FALSE
