CONSTANTS
    NoWorker = NoWorker
    t1 = t1
    t2 = t2
    w1 = w1
    w2 = w2
    w3 = w3
    Threads = {t1, t2}
    Workers = {w1, w2, w3}
    Maximum = 2
    MaxShutdowns = 1
    MaxRequests = 3
SPECIFICATION WorkersSpec
INVARIANTS
    PoolConsistent
    ExchangeConsistent
PROPERTIES
    ReservationSettles
    EveryOperationEnds
CHECK_DEADLOCK FALSE
