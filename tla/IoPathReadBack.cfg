SPECIFICATION Spec
CONSTANTS
    t1 = t1
    t2 = t2
    Threads <- MCThreads1
    Sectors = 3
    BLK = 2
    READ_DEG = 2
    WRITE_DEG = 2
    MaxCalls <- MCCalls
PROPERTIES
    ReadBack
CHECK_DEADLOCK FALSE
