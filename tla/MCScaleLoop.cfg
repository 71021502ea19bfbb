\* Wake, grow, shrink and park between 0 and 3 replicas while the informer may be a
\* version behind; somebody sets 0 by hand and edits the bounds; the informer, the
\* poller and KEDA are fair.
CONSTANTS
    queue = queue
    running = running
    Metrics <- QueueAndRunning
    Windowed <- Nothing
    Thresholds <- TwoThresholds
    Unset = Unset
    Configs <- UpToThree
    Levels <- TwoLevels
    MaxReplicas = 3
    ByHand <- Off
    Cooldown = 1
    MaxLag = 1
    Unknown = Unknown
    Blank = Blank
    Unread = Unread
SPECIFICATION FairSpec
INVARIANTS
    TypeOK
    OneReplicaAtATime
PROPERTIES
    BusyIsNotParked
    DemandIsServed
    MinimumIsRestored
    IdleIsParked
