CONSTANTS
    MaxRuns = 2
    MaxClients = 2
SPECIFICATION Spec
INVARIANTS
    OneRunAtATime
    NothingLeftRunning
    VerdictOfThisRun
    DrainHasConsumersUnlessCancelled
    ShutdownSawTheEnd
PROPERTIES
    CancelledRunReturns
    ShutdownExits
CHECK_DEADLOCK FALSE
