CONSTANTS
    Total = 2
    MaxRuns = 3
SPECIFICATION Spec
INVARIANTS
    DoneMeansArrived
    OwnChannelNoFalseAlarm
CHECK_DEADLOCK FALSE
