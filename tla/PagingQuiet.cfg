SPECIFICATION FairSpec
CONSTANTS
    Entries = 6
    PoolFrames = {6, 7, 8, 9, 10, 11, 12, 13, 14, 15, 16, 17, 18, 19}
    NoFrame = NoFrame
    Absent = Absent
    UserPages = {18, 19, 24}
    FreedPages = {18, 24}
    PowerOn = {Absent}
    Headroom = 7
INVARIANTS
    ShallowNesting
PROPERTIES
    SharedMemoryUntouched
    FaultsEnd
    ImplementsAddressSpace
CHECK_DEADLOCK FALSE
