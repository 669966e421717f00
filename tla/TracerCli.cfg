SPECIFICATION Spec
CONSTANTS
    Cli = TRUE
    Enabled = TRUE
    CliEnabled = TRUE
    EnableCollect = TRUE
    Php8 = FALSE
    SampleRatio = 2
    CounterLimit = 2
    Spans = {s1, s2, s3}
    NoSpan = NoSpan
    Ppids = {1, 2}
    Headers = {"none"}
    Kinds = {"yar_client"}
    MaxDepth = 1
    MaxTraces = 2
SYMMETRY Symmetry
INVARIANTS TracerInv
PROPERTIES PromiseKept
CHECK_DEADLOCK FALSE
