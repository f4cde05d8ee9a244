SPECIFICATION Spec
CONSTANTS
    NSlots = 2
    NCtx = 6
    NBatch = 4
    NKeep = 0
    DraftMin = 0
    DraftMax = 0
    Params <- OneParams
    Requests <- ParentRequests
    MaxTasks = 2
    CanTrim = TRUE
    MayFill = TRUE
    MayBreak = FALSE
INVARIANT ChildrenHaveCells
CHECK_DEADLOCK FALSE
