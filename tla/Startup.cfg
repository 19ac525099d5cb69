SPECIFICATION Spec
CONSTANTS
    lib = lib
    libc = libc
    stack = stack
    data = data
    own = own
    l1 = l1
    c1 = c1
    c2 = c2
    s1 = s1
    d1 = d1
    Regions <- MCRegions
    Prot <- MCProt
    Untouched <- MCUntouched
    Sites <- MCSites
    RegionOf <- MCRegionOf
    syscall_addr = own
    NULL = NULL
    ND = 2
    N_CORE = 2
    QD = 2
    AQD = 2
    RAID_FACTOR = 2
    N_SECTORS = 8
    Lists <- MCLists
    MaxQueues = 2
    None = None
INVARIANTS
    Inv
    CallsReach
    SectorsApart
    ChecksOwn
PROPERTIES
    Starts
CHECK_DEADLOCK FALSE
