SPECIFICATION FairSpec
CONSTANTS
    Cli = FALSE
    Kills = TRUE
    Grpc = TRUE
    Procs = {p0, p1, p2}
    Root = p0
    Threads = {t1}
    Msgs = {m1, m2, m3}
    Oversized = {m3}
    Long = {}
    Parts = 1
    MaxQueueLength = 1
    MaxQueues = 2
    None = None
INVARIANTS
    TypeOK
    QueueServed
    ConsumerNeverReturns
PROPERTIES
    AtMostOnce
    OnlyLeftoversRemoved
    QueuedIsReceived
    ExportEnds
CHECK_DEADLOCK FALSE
