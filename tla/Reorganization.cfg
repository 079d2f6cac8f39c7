SPECIFICATION FairSpec
CONSTANTS
    Branches = {1, 2}
    CacheSize = 1
    InitialHeight = 1
    MaxHeight = 4
    MaxBlocks = 6
INVARIANTS TypeOK RowsExact RowsDetach
PROPERTIES WalkEnds
CHECK_DEADLOCK FALSE
