SPECIFICATION FairSpec
CONSTANTS
    main = main
    t1 = t1
    t2 = t2
    t3 = t3
    Workers <- MCWorkers
    Programs <- MCPrograms
    MAX_CORE = 2
    N_HELPER = 4
    MaxCalls = 2
    NoThread = NoThread
INVARIANTS
    Inv
PROPERTIES
    ImplementsRemoteCall
    Finishes
CHECK_DEADLOCK FALSE
