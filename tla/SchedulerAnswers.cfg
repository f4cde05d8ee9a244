SPECIFICATION FairSpec
CONSTANTS
    NSlots = 2
    Readers <- SingleReaders
    Batch <- SingleBatch
    Refused = {}
    EmptyPrompt = {3}
    MayFail = FALSE
    MayStop = FALSE
INVARIANTS NothingDeferredAtRest
PROPERTIES EveryReaderCloses
CHECK_DEADLOCK FALSE
