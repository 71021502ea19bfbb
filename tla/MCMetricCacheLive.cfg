\* A fair poller forgets deleted and abandoned targets.
CONSTANTS
    k1 = k1
    k2 = k2
    s1 = s1
    h1 = h1
    h2 = h2
    Keys <- TwoKeys
    InferenceSets <- OneSet
    InferenceSetOf <- OwnerOfTwo
    Handlers <- OneHandler
    Poller = Poller
    NoEntry = NoEntry
    Windows <- SmallWindow
    StaleAfter = 1
    TTL = 1
    AppendDelay = 0
    MaxTime = 3
    MaxScrapes = 1
    MaxDeletes = 1
SPECIFICATION FairSpec
PROPERTIES
    DeletedIsForgotten
    AbandonedIsForgotten
