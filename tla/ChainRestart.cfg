SPECIFICATION Spec
CONSTANTS
    t = t
    u = u
    Txs <- MCTxs
    Bodies <- RestartBodies
    WindowClose = 2
    WindowFar = 3
    InitialTip = 4
    MaxReorg = 0
    MaxTip = 4
    MaxForks = 0
    Confirmations = 0
    EpochLength = 3
    BlockInterval = 2
    Word = 64
    LogCapacity = 2
    LogMaxBatch = 2
    MaxCrashes = 2
INVARIANTS NoGaps CrashCostsOneBlock EpochNeverOvercounts
