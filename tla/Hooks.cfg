SPECIFICATION FairSpec
CONSTANTS
    Threads = {t1, t2}
    QD = 3
    TH1 = 1
    TH2 = 1
    Fds = {0, 1}
    a = a
    b = b
    other = other
    Names <- MCNames
    HookedList <- MCList
    Extensions <- MCExtensions
    MaxCalls = 4
    NoFile = NoFile
INVARIANTS
    Inv
    RightFile
    PositionExact
PROPERTIES
    OwnCompletion
    RequestsReturn
CHECK_DEADLOCK FALSE
