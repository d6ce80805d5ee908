CONSTANTS
    MaxRuns = 2
    Duration = 10
    Configs <- MCConfigs
    Groups <- MCGroups
    Memories <- MCMemories
SPECIFICATION Spec
INVARIANTS
    ReportNotKinder
    ReportHarsherOnlyOnFidelity
    ExitCodeTellsTheReport
CHECK_DEADLOCK FALSE
