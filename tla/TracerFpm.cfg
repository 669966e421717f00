SPECIFICATION Spec
CONSTANTS
    Cli = FALSE
    Enabled = TRUE
    CliEnabled = FALSE
    EnableCollect = TRUE
    Php8 = FALSE
    SampleRatio = 3
    CounterLimit = 2
    Spans = {s1, s2, s3, s4}
    NoSpan = NoSpan
    Ppids = {1}
    Headers = {"none", "malformed", "undecodable", "sampled", "unsampled"}
    Kinds = {"curl", "redis", "redis_cluster", "memcached", "mysqli", "yar_client", "yar_server"}
    MaxDepth = 2
    MaxTraces = 2
SYMMETRY Symmetry
INVARIANTS TypeOK FaultExplained OpenCallOwnsItsSpan WireIsOneTrace ErrorIsSampled ExceptionHasItsTrace
PROPERTIES PromiseKept ExportedSpansEnded ErrorSticks TraceStartsClean RedisErrorAttributed
CHECK_DEADLOCK FALSE
