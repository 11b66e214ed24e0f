SPECIFICATION FairSpec
CONSTANTS
    Npus = {n1}
    EnabledRules <- AllRules
    NpuCollectors = {npu}
    OtherCollectors = {cpu}
    IngestHandlers = {http}
    Readings <- TwoReadings
    SubRequests <- TwoRequests
    IngestedEvents <- HealthIngest
    EventBuf = 0
    IdSpace = 3
    MaxSubs = 1
    MaxTime = 2
    Nil = Nil
INVARIANTS
    SnapshotNotStale
    EventsAddUp
    
PROPERTIES
    DebounceSpacing
    WriteCompletes
CHECK_DEADLOCK FALSE
