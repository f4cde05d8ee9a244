SPECIFICATION Spec
CONSTANTS
    Requests <- ThinRequests
    Sampled = {"a"}
    NCtx = 8
    NBatch = 3
    Setups <- ThinSetup
    NCacheReuse = 2
    CkptFrom = 1
    CkptGap = 1
    LastChunk = 3
    SimNum = 1
    SimDen = 2
    LimitTokens = 8
    LimitSize = 12
INVARIANT CheckpointsUseful
CHECK_DEADLOCK FALSE
