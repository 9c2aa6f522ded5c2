SPECIFICATION FairSpec
CONSTANTS
    Request = {r1, r2}
    NoRequest = NoRequest
    Cart = {c1, c2}
    Variant = {v1, v2}
    v1 = v1
    v2 = v2
    d1 = d1
    Code = {}
    NoCode = NoCode
    Limit <- MCLimit
    InitStock <- MCStock
    Engine = "postgres"
    MaxQty = 1
    MaxStock = 0
    MaxServed = 2
    MaxEdits = 2
INVARIANT
    UnitsAccounted
PROPERTY
    EveryCheckoutAnswered
