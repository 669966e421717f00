SPECIFICATION CurlSpec
CONSTANTS
    Handles = {1, 2}
    Lists = {a, b}
    Nothing = none
    MaxCalls = 2
    Bytes = {0, 10, 255}
    TraceBytes = 2
    SpanBytes = 1
    Chars = {"a", ",", "="}
    NameLength = 2
INVARIANTS OwnTraceparent HeadersKept CalleeReadsBack
CHECK_DEADLOCK FALSE
