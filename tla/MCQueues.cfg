CONSTANTS
    Consumers = {c1, c2}
    Credit = 1
    SettleMode = "unsettled"
    W = 1
    MaxSeq = 3
    MaxFaults = 1
    MaxDropped = 0
    MaxHandled = 20
SYMMETRY ConsumerSymmetry
SPECIFICATION Spec
INVARIANTS
    SentIsStored
    AtLeastOnce
    QuietDrainIsComplete
    ReceivedIsTracked
CHECK_DEADLOCK FALSE
