SPECIFICATION FairSpec
CONSTANTS
    t1 = t1
    t2 = t2
    r1 = r1
    r2 = r2
    r3 = r3
    w1 = w1
    NoReq = NoReq
    NoThread = NoThread
    Threads <- MCThreads
    Reqs <- MCReqs
    Writes <- MCWrites
    Issuer <- MCIssuer
    QD = 2
INVARIANTS
    IInv
    CompletionSound
    NothingLost
PROPERTIES
    ImplementsAsyncIO
    DeadForever
    CallsEnd
CHECK_DEADLOCK FALSE
