SPECIFICATION Spec
CONSTANTS
    Cli = FALSE
    Enabled = TRUE
    CliEnabled = FALSE
    EnableCollect = TRUE
    Php8 = FALSE
    SampleRatio = 3
    CounterLimit = 4
    Spans = {s1}
    NoSpan = NoSpan
    Ppids = {1}
    Headers = {"none", "sampled"}
    Kinds = {}
    MaxDepth = 0
    MaxTraces = 9
SYMMETRY Symmetry
INVARIANTS RatioHonoured
CHECK_DEADLOCK FALSE
