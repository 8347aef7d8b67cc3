\* Two transactions, so that one can block the reader while the other waits;
\* two versions of history and two new ones.
SPECIFICATION FairSpec
CONSTANTS
    Txs = {t1, t2}
    NoTx = NoTx
    History = 2
    MaxVersions = 4
    Batch = 2
INVARIANTS OneOutcome OutcomesTrue ReturnsWithOutcome WaitersKnown
PROPERTIES ReadIsSettled
CHECK_DEADLOCK FALSE
