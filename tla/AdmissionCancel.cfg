CONSTANTS
    Nobody = Nobody
    r1 = r1
    r2 = r2
    r3 = r3
    Requests = {r1, r2, r3}
    Impatient = {r1, r2, r3}
    MemorySizes = {1, 2}
    MaximumActive = 1
    MaximumBatchActive = 1
    MaximumQueued = 3
    MemoryBudget = 2
SPECIFICATION Spec
INVARIANTS
    NoDeadQueue
