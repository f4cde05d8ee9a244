SPECIFICATION FairSpec
CONSTANTS
    r1 = r1
    r2 = r2
    Readers <- TwoReaders
    IdsOf <- OneAndTwo
    MaxPartial = 1
INVARIANTS TypeOK NothingLost NothingLeaked
PROPERTIES EveryReaderCloses
CHECK_DEADLOCK FALSE
