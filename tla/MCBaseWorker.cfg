CONSTANTS
    slidingWindowSize = 3
    peakWindowSize = 2
    Files <- MCFiles
    Envs <- MCEnvs
    Bodies <- MCBodies
    MaxStarts = 2
    MaxTicks = 4
    MaxPerTick = 2
SPECIFICATION WorkerSpec
INVARIANTS
    RunsOnSoundConfig
    OmittedFallsThrough
    WindowIsExact
    PeakIsTrue
    SizesAreFair
CHECK_DEADLOCK FALSE
