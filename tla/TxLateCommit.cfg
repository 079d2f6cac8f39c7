CONSTANTS
    Txs = {t1, t2}
    CheckInterval = 1
    SUSPEND_SECONDS = 1
    MaxSubmits = 1
    MaxCommits = 1
SPECIFICATION FairSpec
PROPERTIES
    CommittedIsReported
CHECK_DEADLOCK FALSE
