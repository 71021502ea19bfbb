\* Two handshakes at a time, five changes of the Secrets and one crash.
CONSTANTS
    h1 = h1
    h2 = h2
    Handshakes <- TwoHandshakes
    Missing = Missing
    None = None
    MaxWrites = 5
    MaxCrashes = 1
SPECIFICATION FairSpec
INVARIANTS
    TypeOK
    ServesWhatItRead
PROPERTIES
    EventuallyServes
    RotationIsServed
CHECK_DEADLOCK FALSE
