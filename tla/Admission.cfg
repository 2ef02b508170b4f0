CONSTANTS
    Nobody = Nobody
    r1 = r1
    r2 = r2
    r3 = r3
    r4 = r4
    Requests = {r1, r2, r3, r4}
    Impatient = {r1, r2, r3, r4}
    MemorySizes = {1, 2}
    MaximumActive = 3
    MaximumBatchActive = 2
    MaximumQueued = 2
    MemoryBudget = 4
SPECIFICATION Spec
SYMMETRY RequestSymmetry
INVARIANTS
    LeasesAccounted
    CapacityRespected
    QueueConsistent
