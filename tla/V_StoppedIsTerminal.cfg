CONSTANTS
    MaxRuns = 2
    MaxClients = 2
SPECIFICATION Spec
INVARIANT StoppedIsTerminal
CHECK_DEADLOCK FALSE
