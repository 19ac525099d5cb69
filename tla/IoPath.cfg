SPECIFICATION FairSpec
CONSTANTS
    t1 = t1
    t2 = t2
    Threads <- MCThreads2
    Sectors = 3
    BLK = 2
    READ_DEG = 2
    WRITE_DEG = 2
    MaxCalls <- MCCalls
INVARIANTS
    Inv
    NoLateCopy
    InOneBlock
PROPERTIES
    ReadFilled
    CallReturns
CHECK_DEADLOCK FALSE
