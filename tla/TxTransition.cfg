CONSTANTS
    Txs = {t1, t2}
    CheckInterval = 1
    SUSPEND_SECONDS = 1
    MaxSubmits = 3
    MaxCommits = 2
SPECIFICATION FairSpec
INVARIANTS
    TypeOK
    VerdictsFindTheirRow
PROPERTIES
    DecidedIsReported
CHECK_DEADLOCK FALSE
