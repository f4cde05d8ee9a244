SPECIFICATION Spec
CONSTANTS
    Requests <- LoraRequests
    Sampled = {"a"}
    NCtx = 8
    NBatch = 3
    Setups <- OneSlot
    NCacheReuse = 2
    CkptFrom = 1
    CkptGap = 1
    LastChunk = 2
    SimNum = 1
    SimDen = 2
    LimitTokens = 8
    LimitSize = 12
INVARIANT OwnAdapters
CHECK_DEADLOCK FALSE
