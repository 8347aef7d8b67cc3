SPECIFICATION FairSpec
CONSTANTS
    Txs = {t1, t2}
    NoTx = NoTx
    MaxBlocks = 2
INVARIANTS
    TypeOK
    WaitersKnown
PROPERTIES
    ReportsOnce
    MissedOnlyWhenParked
CHECK_DEADLOCK FALSE
