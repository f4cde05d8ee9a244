SPECIFICATION Spec
CONSTANTS
    NSlots = 1
    Readers <- OneSlotReaders
    Batch <- OneSlotBatch
    Refused = {2}
    EmptyPrompt = {}
    MayFail = FALSE
    MayStop = FALSE
INVARIANTS NothingDeferredAtRest
CHECK_DEADLOCK FALSE
