SPECIFICATION FairSpec
CONSTANTS
    Calls <- MCGoodCalls
    Ret = 1000
    App = 2000
INVARIANTS
    RightCall
    ReturnsHome
PROPERTIES
    Slides
CHECK_DEADLOCK FALSE
