\* What the controller never does, under any declaration, edits, a failure and stale reads.
CONSTANTS
    good = good
    bad = bad
    Own = Own
    Extra = Extra
    MetricLists <- Lists
    Accepted <- GoodOnly
    Declarations <- Anything
    Specs <- OtherSpec
    NodeCounts <- TwoNodes
    IsChild = FALSE
    Absent = Absent
    NoSet = NoSet
    NoObject = NoObject
    Nothing = Nothing
    ByHand = ByHand
    MaxEdits = 2
    MaxFailures = 1
    MaxUid = 2
    MaxLag = 2
    MaySkip = TRUE
SPECIFICATION Spec
INVARIANTS
    TypeOK
PROPERTIES
    ByHandIsNotOverwritten
    LastIsKept
CHECK_DEADLOCK FALSE
