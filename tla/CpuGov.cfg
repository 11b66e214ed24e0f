SPECIFICATION Spec
CONSTANTS
    Cores = {c1, c2}
    InfoMin = 1
    InfoMax = 3
    Override = 0
    InitialLimits <- SomeRanges
    DryRun = FALSE
    ReadsFail = FALSE
    MaxFaults = 2
    MaxDrifts = 0
    MaxCrashes = 0
    ObserveWindow = 2
    NonIdleBreak = 2
    Nil = Nil
INVARIANTS
    SavedAreOriginals
    HeldOnlyWhileIdle
PROPERTIES
    RestoreRestores
CHECK_DEADLOCK FALSE
