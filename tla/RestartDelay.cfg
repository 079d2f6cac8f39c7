SPECIFICATION Spec
CONSTANTS
    t = t
    u = u
    Txs <- MCTxs
    Bodies <- FullBodies
    WindowClose = 1
    WindowFar = 2
    InitialTip = 4
    MaxReorg = 0
    MaxTip = 4
    MaxForks = 0
    Confirmations = 0
    EpochLength = 3
    BlockInterval = 2
    Word = 64
    LogCapacity = 1
    LogMaxBatch = 1
    MaxCrashes = 1
INVARIANT DelaysFromFirstProposal
