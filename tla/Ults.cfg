SPECIFICATION FairSpec
CONSTANTS
    main = main
    t1 = t1
    t2 = t2
    Threads <- MCThreads
    Programs <- MCPrograms
    N_CORE = 2
    N_KEY = 2
    TICK = 2
    D = 3
    NoThread = NoThread
INVARIANTS
    Inv
    KeysSound
    NotEarly
PROPERTIES
    Terminates
CHECK_DEADLOCK FALSE
