SPECIFICATION Spec
CONSTANTS
    Cli = TRUE
    Kills = FALSE
    Grpc = FALSE
    Procs = {p0, p1, p2}
    Root = p0
    Threads = {t1}
    Msgs = {m1, m2}
    Oversized = {}
    Long = {m2}
    Parts = 2
    MaxQueueLength = 1
    MaxQueues = 2
    None = None
SYMMETRY Symmetry
INVARIANTS
    NoQueueLeaked
PROPERTIES
    AtMostOnce
CHECK_DEADLOCK FALSE
