SPECIFICATION FairSpec
CONSTANTS
    Secondaries = {s1, s2}
    NumObserver = 1
    Plan <- MCPlan
    MaxFailures = 2
INVARIANTS
    TypeOK
    StartBarrier
    ResultsComplete
PROPERTIES
    EverybodyEnds
    ResultReturned
CHECK_DEADLOCK FALSE
