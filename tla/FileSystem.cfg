SPECIFICATION FairSpec
CONSTANTS
    Blocks = 4
    FormatCount = 3
    Ids = {0, 1, 2}
    MaxFiles = 3
INVARIANTS
    GrantedOnce
    TableSound
    HungOnlyWhenFull
PROPERTIES
    CallsEnd
