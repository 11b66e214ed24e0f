SPECIFICATION Spec
CONSTANTS
    Servers = {s1, s2}
    Clients = {c1, c2}
    Nil = Nil
    MaxOutput = 1
    MaxStarts = 3
    MaxCalls = 2
CHECK_DEADLOCK FALSE
INVARIANTS
    RunsSound
    ListenerKeepsItsSocket
PROPERTIES
    AbandonedRunIsReleased
