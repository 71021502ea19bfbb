\* Every accepted configuration of two metrics under every reading.
CONSTANTS
    a = a
    b = b
    Metrics <- TwoMetrics
    Thresholds <- ThreeThresholds
    Unset = Unset
    Levels <- FourLevels
    MaxReplicas = 2
SPECIFICATION Spec
SYMMETRY MetricSymmetry
INVARIANTS
    TypeOK
    DemandVetoesParking
    ParkingSeesBackend
    GrowthExcludesShrinking
    CanWakeAndPark
