SPECIFICATION Spec
CONSTANTS
    Threads = {t1, t2}
    Names = {a, b}
    Extensions <- EachItself
    MaxFiles = 2
    MaxBlocks = 2
    NumBlocks = 4
    Starts = {0, 2}
    MaxCalls <- UnlinksOpen
    NoName = NoName
    NoThread = NoThread
    Free = Free
SYMMETRY Symmetry
CHECK_DEADLOCK FALSE
INVARIANTS
    LbaMapped
