SPECIFICATION FairSpec
CONSTANTS
    Webs = {web}
    Clis = {cli}
    Benchmarks = 2
    Outcomes <- Pass
    MaxHistory = 2
    Past = 1
    MaxJobs = 3
    MaxFailures = 1
    MaxKills = 1
    Nil = Nil
INVARIANTS
    FileAgreesWithJobs
    ReportsSound
PROPERTIES
    PollsStayTrue
    JobsAndClisEnd
CHECK_DEADLOCK FALSE
