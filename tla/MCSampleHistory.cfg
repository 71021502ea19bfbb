\* Every history of up to 6 snapshots, the window widened at any point.
CONSTANTS
    StaleAfter = 2
    Windows <- SomeWindows
    MaxTime = 9
    MaxSnapshots = 6
SPECIFICATION Spec
INVARIANTS
    TypeOK
    PruningIsInvisible
    KeptIsBounded
PROPERTIES
    CoverageIsStable
CHECK_DEADLOCK FALSE
