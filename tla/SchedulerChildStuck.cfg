SPECIFICATION FairSpec
CONSTANTS
    NSlots = 2
    Readers <- ParentReaders
    Batch <- ParentBatch
    Refused = {}
    EmptyPrompt = {1,2}
    MayFail = FALSE
    MayStop = FALSE
PROPERTIES ChildIsActivated
CHECK_DEADLOCK FALSE
