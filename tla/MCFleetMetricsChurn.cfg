\* Two snapshots of a fleet of up to two replicas, one of which may leave or restart:
\* a counter that starts again lets the average exceed every latency.
CONSTANTS
    r1 = r1
    r2 = r2
    Replicas <- TwoReplicas
    Values <- FastAndSlow
    Threshold = 2
    MaxRequests = 3
    MaxSnapshots = 2
    MaxDisturbances = 1
    Failed = Failed
    Absent = Absent
    NoValue = NoValue
SPECIFICATION FleetSpec
INVARIANTS
    ChurnDoesNotScaleUp
CHECK_DEADLOCK FALSE
