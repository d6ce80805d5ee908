CONSTANTS
    Requesters = {q1, q2}
    Responders = {r1}
    W = 2
    MaxRequests = 2
    MaxFaults = 1
SYMMETRY RequesterSymmetry
SPECIFICATION Spec
INVARIANTS
    ReplyIsToCurrent
    OneOutcomeEach
CHECK_DEADLOCK FALSE
