SPECIFICATION Spec
CONSTANTS
    t = t
    u = u
    Txs <- MCTxs
    Bodies <- FullBodies
    WindowClose = 2
    WindowFar = 4
    InitialTip = 6
    MaxReorg = 0
    MaxTip = 6
    MaxForks = 0
    Confirmations = 0
    EpochLength = 2
    BlockInterval = 2
    Word = 64
    LogCapacity = 1
    LogMaxBatch = 1
    MaxCrashes = 1
INVARIANTS TypeOK CommitmentsExact EpochUnclesExact DelaysAreReal
