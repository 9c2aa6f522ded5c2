SPECIFICATION FairSpec
CONSTANTS
    t1 = t1
    t2 = t2
    p1 = p1
    p2 = p2
    w1 = w1
    Thread = {t1, t2}
    Writer = {w1}
    Process = {p1, p2}
    ProcessOf <- ThreadPerProcess
    Nobody = Nobody
    Gone = Gone
    NoSlot = NoSlot
    SlowBakes = FALSE
    MaxBakes = 4
    MaxFaults = 2
INVARIANTS
    SingleFlight
    VisitorsSeeWholeSite
PROPERTY
    LockComesBack
