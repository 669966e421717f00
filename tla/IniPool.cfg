SPECIFICATION Spec
CONSTANTS
    Values = {1}
INVARIANTS
    MaxTimeConsumingKept
CHECK_DEADLOCK FALSE
