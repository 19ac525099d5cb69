SPECIFICATION FairSpec
CONSTANTS
    t1 = t1
    t2 = t2
    t3 = t3
    w1 = w1
    w2 = w2
    w3 = w3
    Threads <- MCThreads
    Wraps <- MCWraps
    NoThread = NoThread
    Zero = Zero
    Busy = Busy
INVARIANTS
    IInv
    HandlesLive
PROPERTIES
    ImplementsMonitor
    GetterExits
CHECK_DEADLOCK FALSE
