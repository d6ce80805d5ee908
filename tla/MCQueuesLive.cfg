CONSTANTS
    Consumers = {c1}
    Credit = 2
    SettleMode = "settled"
    W = 1
    MaxSeq = 2
    MaxFaults = 1
    MaxDropped = 1
    MaxHandled = 20
SPECIFICATION Spec
PROPERTIES WaitingIsHandled ShutdownEnds
CHECK_DEADLOCK FALSE
