SPECIFICATION Spec
CONSTANTS
    Requests <- MCRequests
    Sampled = {"a"}
    NCtx = 8
    NBatch = 3
    Setups <- MCSetups
    NCacheReuse = 2
    CkptFrom = 1
    CkptGap = 1
    LastChunk = 2
    SimNum = 1
    SimDen = 2
    LimitTokens = 8
    LimitSize = 12
INVARIANTS TypeOK CellsMatch WindowPresent CacheLimits
CHECK_DEADLOCK FALSE
