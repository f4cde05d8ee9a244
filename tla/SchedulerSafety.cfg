SPECIFICATION Spec
CONSTANTS
    NSlots = 2
    Readers <- MixedReaders
    Batch <- MixedBatch
    Refused = {3}
    EmptyPrompt = {}
    MayFail = TRUE
    MayStop = TRUE
INVARIANTS TypeOK OnePlace NoOrphans
PROPERTIES ImplementsLifecycle
CHECK_DEADLOCK FALSE
