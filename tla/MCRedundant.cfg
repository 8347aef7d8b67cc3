SPECIFICATION Spec
CONSTANTS
    Clients = {c1, c2, c3}
    MaxTime = 1
INVARIANTS
    TypeOK
    TimesOrdered
    OutcomeExact
PROPERTY OuterContract
SYMMETRY Interchangeable
CHECK_DEADLOCK FALSE
