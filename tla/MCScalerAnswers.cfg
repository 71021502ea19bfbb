\* Every trigger, three changes of the cluster between the reads of a call.
CONSTANTS
    a = a
    b = b
    Workspaces <- TwoWorkspaces
    Snapshots <- SomeSnapshots
    Failed = Failed
    Absent = Absent
    NoValue = NoValue
    Words <- SomeWords
    Unset = Unset
    Invalid = Invalid
    Cold = Cold
    Warming = Warming
    ByHand <- Manual
    MaxDesired = 2
    MaxChanges = 3
SPECIFICATION Spec
INVARIANTS
    TypeOK
    ParkedIsAnswered
    ZeroIsEarned
    NoPhantomDemand
    AcceptedIsServed
