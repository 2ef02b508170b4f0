CONSTANTS
    Nobody = Nobody
    c1 = c1
    c2 = c2
    Calls = {c1, c2}
    FailureThreshold = 1
    MemorySizes = {1}
    MaximumActive = 2
    MaximumBatchActive = 1
    MaximumQueued = 1
    MemoryBudget = 2
    MaximumWorkers = 2
    MaxCalls = 3
SPECIFICATION FairSpec
INVARIANTS
    NothingKept
    AdmittedFindsRoom
PROPERTIES
    CallersAsAssumed
    EveryCallReturns
CHECK_DEADLOCK FALSE
