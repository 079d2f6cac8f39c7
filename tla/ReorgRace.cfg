SPECIFICATION Spec
CONSTANTS
    Branches = {1, 2}
    CacheSize = 1
    InitialHeight = 1
    MaxHeight = 4
    MaxBlocks = 6
INVARIANT NeverUnreachable
CHECK_DEADLOCK FALSE
