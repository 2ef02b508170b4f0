CONSTANTS
    c1 = c1
    c2 = c2
    c3 = c3
    Callers = {c1, c2, c3}
    FailureThreshold = 2
    MaxDisturbances = 7
    Calls = {"k1", "k2", "k3"}
    IngressLimit = 2
    ExecutorThreads = 1
SPECIFICATION GatesSpec
INVARIANTS
    ProbeIsCarried
    IngressAccounted
PROPERTIES
    OnlyProbeRestores
    FollowsProtocol
    ServiceRecovers
    SlotsComeBack
