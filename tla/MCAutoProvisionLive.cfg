\* An edit and a failure: what the InferenceSet asks for comes true.
CONSTANTS
    good = good
    bad = bad
    Own = Own
    Extra = Extra
    MetricLists <- Lists
    Accepted <- GoodOnly
    Declarations <- Anything
    Specs <- OtherSpec
    NodeCounts <- TwoNodes
    IsChild = FALSE
    Absent = Absent
    NoSet = NoSet
    NoObject = NoObject
    Nothing = Nothing
    ByHand = ByHand
    MaxEdits = 1
    MaxFailures = 1
    MaxUid = 1
    MaxLag = 3
    MaySkip = FALSE
SPECIFICATION FairSpec
PROPERTIES
    Converges
CHECK_DEADLOCK FALSE
