\* The running requests are averaged over a window, and no pod answers for a while.
CONSTANTS
    queue = queue
    running = running
    Metrics <- QueueAndRunning
    Windowed <- OnlyRunning
    Thresholds <- TwoThresholds
    Unset = Unset
    Configs <- UpToOne
    Levels <- TwoLevels
    MaxReplicas = 1
    ByHand <- Nothing
    Cooldown = 1
    MaxLag = 0
    Unknown = Unknown
    Blank = Blank
    Unread = Unread
SPECIFICATION Spec
PROPERTIES
    UnscrapedWorkIsNotParked
