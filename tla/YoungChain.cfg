SPECIFICATION Spec
CONSTANTS
    t = t
    u = u
    Txs <- MCTxs
    Bodies <- UncledBodies
    WindowClose = 1
    WindowFar = 3
    InitialTip = 1
    MaxReorg = 3
    MaxTip = 6
    MaxForks = 0
    Confirmations = 2
    EpochLength = 3
    BlockInterval = 2
    Word = 64
    LogCapacity = 2
    LogMaxBatch = 2
    MaxCrashes = 0
INVARIANT LagsBehindTip
