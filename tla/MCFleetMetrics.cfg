\* Two snapshots of a fleet of up to two replicas, one of which may leave or restart.
CONSTANTS
    r1 = r1
    r2 = r2
    Replicas <- TwoReplicas
    Values <- FastAndSlow
    Threshold = 2
    MaxRequests = 3
    MaxSnapshots = 2
    MaxDisturbances = 1
    Failed = Failed
    Absent = Absent
    NoValue = NoValue
SPECIFICATION FleetSpec
SYMMETRY ReplicaSymmetry
INVARIANTS
    FleetTypeOK
    AverageIsExact
    AverageIsReal
    MissingIsNotIdle
CHECK_DEADLOCK FALSE
