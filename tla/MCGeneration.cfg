\* Three endpoints and two secondaries; files with up to three clients and
\* five loads, and files the parser refuses.
SPECIFICATION FairSpec
CONSTANTS
    Setup <- MCSetup
    Locations <- MCLocations
    Matching <- MCMatching
    Documents <- MCDocuments
INVARIANTS
    ScheduleExact
    DrawnAsDeclared
PROPERTIES
    GenerationEnds
CHECK_DEADLOCK FALSE
