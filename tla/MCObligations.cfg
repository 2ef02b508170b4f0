CONSTANTS
    o1 = o1
    o2 = o2
    o3 = o3
    v1 = v1
    v2 = v2
    Ids = {o1, o2, o3}
    Assignments <- KindAssignments
    Versions = {v1, v2}
    MaxReplays = 1
    Processes = {"p1", "p2"}
SPECIFICATION BothSpec
INVARIANTS
    LayeringDecides
    VerdictsSound
    SilenceMeansProved
    ReplaysAgree
    ReceiptIsOwn
PROPERTIES
    EveryRequestEnds
CHECK_DEADLOCK FALSE
