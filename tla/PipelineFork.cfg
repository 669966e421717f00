SPECIFICATION Spec
CONSTANTS
    Cli = TRUE
    Kills = FALSE
    Grpc = TRUE
    Procs = {p0, p1}
    Root = p0
    Threads = {t1}
    Msgs = {m1}
    Oversized = {}
    Long = {}
    Parts = 1
    MaxQueueLength = 1
    MaxQueues = 2
    None = None
PROPERTIES
    OnlyLeftoversRemoved
CHECK_DEADLOCK FALSE
