SPECIFICATION IdleSpec
CONSTANTS
    ObserveWindow = 4
    NonIdleBreak = 3
    CpuStale = 2
    NpuStale = 2
    Deltas = {0, 1, 2}
INVARIANTS
    ConfirmedIffSustained
