SPECIFICATION Spec
CONSTANTS
    Request = {r1, r2, r3}
    Variant = {v1}
    Stock = 2
    Key = {1, 2, 3}
    MaxSends = 4
    MaxLosses = 1
    NoKey = NoKey
SYMMETRY Requests
INVARIANTS
    TypeOK
    ShoppingGoesOn
    CartIsHonest
CHECK_DEADLOCK FALSE
