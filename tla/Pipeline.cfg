SPECIFICATION FairSpec
CONSTANTS
    cpu = cpu
    npu = npu
    Comps = {cpu, npu}
    Npu = npu
    KpiComps = {cpu, npu}
    Views <- TwoCards
    HistoryCap = 1
    MaxCollects <- OneAndTwo
    MaxFailures = 1
    None = None
INVARIANTS
    SampleInOnePlace
    KeysStable
    StaticsSurvive
    PublishedIsStored
    CleanExitKeepsBatches
PROPERTIES
    ShutdownEnds
CHECK_DEADLOCK FALSE
