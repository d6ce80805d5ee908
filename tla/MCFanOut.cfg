CONSTANTS
    Subscribers = {s1, s2}
    Durable = d
    Credit = 2
    Ring = 1
    Window = 1
    W = 1
    MaxSeq = 5
    MaxTransient = 3
    MaxFaults = 1
    MaxHandled = 12
SPECIFICATION Spec
SYMMETRY SubscriberSymmetry
VIEW WithoutCounters
INVARIANTS
    MissingIsExact
    LossIsExplained
    SnapshotLoss
CHECK_DEADLOCK FALSE
