SPECIFICATION Spec
CONSTANTS
    Cli = TRUE
    Enabled = TRUE
    CliEnabled = TRUE
    EnableCollect = TRUE
    Php8 = FALSE
    SampleRatio = 3
    CounterLimit = 4
    Spans = {s1}
    NoSpan = NoSpan
    Ppids = {1}
    Headers = {"none", "sampled"}
    Kinds = {}
    MaxDepth = 0
    MaxTraces = 9
INVARIANT RatioHonoured
CHECK_DEADLOCK FALSE
