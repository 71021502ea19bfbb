\* Two overlapping queries with two windows and the poller on one target, whose
\* InferenceSet may be deleted and created again.
CONSTANTS
    k1 = k1
    k2 = k2
    s1 = s1
    h1 = h1
    h2 = h2
    Keys <- OneKey
    InferenceSets <- OneSet
    InferenceSetOf <- OwnerOfOne
    Handlers <- TwoHandlers
    Poller = Poller
    NoEntry = NoEntry
    Windows <- TwoWindows
    StaleAfter = 1
    TTL = 1
    AppendDelay = 1
    MaxTime = 4
    MaxScrapes = 2
    MaxDeletes = 1
SPECIFICATION Spec
SYMMETRY HandlerSymmetry
INVARIANTS
    TypeOK
    SamplesNearlyOrdered
    AverageSpansItsWindow
PROPERTIES
    KeptWhileInUse
    OnlyQueriesRegister
    ImplementsTargetTable
