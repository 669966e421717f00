SPECIFICATION RegistrySpec
CONSTANTS
    Values = {1}
    MaxAltered = 2
INVARIANTS HooksChained HooksGivenBack OnlyWordBehindSpoilt
CHECK_DEADLOCK FALSE
