SPECIFICATION SledSpec
CONSTANTS
    Calls <- MCLinuxCalls
    Ret = 1000
    App = 2000
INVARIANTS
    ReturnsHome
CHECK_DEADLOCK FALSE
