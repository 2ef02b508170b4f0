CONSTANTS
    small = small
    other = other
    large = large
    huge = huge
    bad = bad
    Keys <- MCKeys
    MemoryOf <- MCMemoryOf
    Malformed = {bad}
    MaxItems = 3
    Sizes = {1, 3}
    Envelope = 1
    MaxOutput = 4
    MaximumBatchActive = 3
    MemoryBudget = 3
    DefaultMemory = 1
    Threads = {"t1", "t2"}
    MaxConversions = 3
    MaxTime = 1
    MaxAge = 1
    RetryInterval = 1
    StorageMayFail = TRUE
SPECIFICATION ServicesSpec
INVARIANTS
    EveryIndexAnswered
    BatchWithinLimits
PROPERTIES
    EveryBatchReturns
    SilenceIsFresh
    RefreshEnds
CHECK_DEADLOCK FALSE
