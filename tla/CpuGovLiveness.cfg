SPECIFICATION FairSpec
CONSTANTS
    Cores = {c1}
    InfoMin = 1
    InfoMax = 3
    Override = 0
    InitialLimits <- FullRange
    DryRun = FALSE
    ReadsFail = TRUE
    MaxFaults = 2
    MaxDrifts = 1
    MaxCrashes = 1
    ObserveWindow = 1
    NonIdleBreak = 2
    Nil = Nil
PROPERTIES
    BusyNpuReleases
    DriftedCoreRepinned
CHECK_DEADLOCK FALSE
