SPECIFICATION Spec
CONSTANTS
    Request = {r1, r2}
    NoRequest = NoRequest
    Cart = {c1, c2}
    Variant = {v1, v2}
    v1 = v1
    v2 = v2
    d1 = d1
    Code = {d1}
    NoCode = NoCode
    Limit <- MCLimit
    InitStock <- MCStock
    Engine = "sqlite"
    MaxQty = 1
    MaxStock = 1
    MaxServed = 3
    MaxEdits = 1
INVARIANTS
    TypeOK
    StockNeverNegative
    AllOrNothing
    UsageOverrunBounded
PROPERTY
    ImplementsShop
