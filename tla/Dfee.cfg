SPECIFICATION Spec
CONSTANTS
    c1 = c1
    c2 = c2
    none = none
    None <- none
    Clients <- MCClients
    Files <- MCFiles
    DeviceFilter <- none
    KernelDevices = {"sda", "dm-0"}
    MaxRewrites = 2
SYMMETRY Polling
INVARIANTS
    NothingCountedTwice
    SharesSplitTheWhole
    NoChartGap
    SeriesKeptApart
    PageHasEachSampleOnce
