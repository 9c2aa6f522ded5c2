SPECIFICATION Spec
CONSTANTS
    t1 = t1
    t2 = t2
    p1 = p1
    p2 = p2
    w1 = w1
    Thread = {t1, t2}
    Writer = {}
    Process = {p1}
    ProcessOf <- ThreadsOfOneProcess
    Nobody = Nobody
    Gone = Gone
    NoSlot = NoSlot
    SlowBakes = FALSE
    MaxBakes = 2
    MaxFaults = 0
INVARIANT
    SingleFlight
