SPECIFICATION Spec
CONSTANTS
    t1 = t1
    Threads = {t1}
    Floor = 3
    Latency = 1
    Ttl = 2
    Skew = 1
    MaxKey = 2
    MaxTime = 7
INVARIANTS
    TypeOK
    RotationHeals
    AcceptedIsServed
    FetchRate
CHECK_DEADLOCK FALSE
