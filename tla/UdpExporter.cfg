SPECIFICATION UdpFairSpec
CONSTANTS
    CountLimit = 2
    Sizes = {60000, 60001}
    BigSizes = {1, 59999, 120000, 120001, 16740000, 16740001, 16777215}
    MaxLookups = 2
    MaxEntries = 2
INVARIANTS
    SentToTheCollector
    PartsTogether
    CrashExplained
    PartsCover
    OnceRunsOnce
    NoTaskOnceDeleted
    ReusableUnlessTooLate
PROPERTIES
    EveryAddressServed
    CancelEnds
    DeleteEnds
CHECK_DEADLOCK FALSE
