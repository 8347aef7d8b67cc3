SPECIFICATION AlgorandFairSpec
CONSTANTS
    Txs = {t1, t2}
    NoTx = NoTx
    MaxBlocks = 3
INVARIANTS
    TypeOK
    WaitersKnown
PROPERTIES
    ReportsOnce
    RoundsMissedOnlyWhenParked
CHECK_DEADLOCK FALSE
