SPECIFICATION JobsFairSpec
CONSTANTS
    Process = {p1, p2, p3}
    JobCount = 2
    Every <- MCEvery
    Interval = 2
    TTL = 3
    Longest = 4
    MaxFaults = 2
    Nobody = Nobody
    Departed = Departed
INVARIANTS
    JobsTypeOK
    NotTwiceAtOnce
PROPERTIES
    OncePerPeriod
    DueJobRuns
