SPECIFICATION Spec
CONSTANTS
    NSlots = 2
    Readers <- MixedReaders
    Batch <- MixedBatch
    Refused = {}
    EmptyPrompt = {}
    MayFail = TRUE
    MayStop = FALSE
INVARIANTS StoppedIsCancelled
CHECK_DEADLOCK FALSE
