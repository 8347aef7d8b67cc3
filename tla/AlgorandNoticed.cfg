SPECIFICATION AlgorandFairSpec
CONSTANTS
    Txs = {t1, t2}
    NoTx = NoTx
    MaxBlocks = 3
PROPERTY CommitsNoticed
CHECK_DEADLOCK FALSE
