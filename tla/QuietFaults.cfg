SPECIFICATION QuietSpec
CONSTANTS
    Npus = {n1}
    EnabledRules <- AllRules
    NpuCollectors = {npu}
    OtherCollectors = {cpu}
    IngestHandlers = {}
    Readings <- FailingReadings
    SubRequests <- NoRequests
    IngestedEvents <- NoIngest
    EventBuf = 0
    IdSpace = 3
    MaxSubs = 0
    MaxTime = 1
    Nil = Nil
PROPERTIES
    PersistentFaultIsQuiet
CHECK_DEADLOCK FALSE
