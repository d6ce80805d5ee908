CONSTANTS
    Batch = 2
    MaxSeq = 2
    MaxGrants = 2
    MaxFaults = 1
    MaxOver = 1
    MaxHangs = 1
SPECIFICATION Spec
INVARIANTS
    NoFalseGap
    AtLeastOnce
PROPERTIES
    HeldRemainderResumes
    CancelledConsumerReturns
CHECK_DEADLOCK FALSE
