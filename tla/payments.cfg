SPECIFICATION PaymentsFairSpec
CONSTANTS
    Worker = {w1, w2}
    Attempt = {a1, a2}
    OrderId = {o1}
    OrderOf <- MCOrderOf
    MaxFaults = 1
    MaxStatusEdits = 1
INVARIANTS
    PaidOnlyByProvider
    SettledTogether
PROPERTY
    EveryChargeResolves
