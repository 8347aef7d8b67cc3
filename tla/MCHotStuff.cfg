SPECIFICATION FairSpec
CONSTANTS
    a1 = a1
    a2 = a2
    b1 = b1
    b2 = b2
    b3 = b3
    b4 = b4
    Txs = {t1, t2}
    Nodes <- MCNodes
    Views <- MCViews
    Crashable <- MCCrashable
    Cap = 2
    SendAttempts = 2
INVARIANTS EveryReturnReported CommandsInOrder ConfigMatches CommitHasQuorum
PROPERTIES EveryTriggerEnds
CHECK_DEADLOCK FALSE
