-------------------------------- MODULE Shop --------------------------------
(***************************************************************************)
(* What the checkout promises a merchant, with no requests, transactions   *)
(* or locks in sight: a sale is one indivisible event that never takes     *)
(* more units than the shelf holds, spends one use of its discount code    *)
(* and spends its cart.  Checkout.tla is the detailed specification and,   *)
(* on SQLite, implements this one.                                         *)
(***************************************************************************)
EXTENDS Integers, Sequences

CONSTANTS Variant, Cart, Code, NoCode

VARIABLES
    stock,      \* Variant -> Int: units on the shelf
    usage,      \* Code -> Nat: uses of a discount code
    cartStatus, \* Cart -> "active" | "converted"
    orders      \* sequence of the sales made

shopVars == <<stock, usage, cartStatus, orders>>

ShopInit ==
    /\ stock \in [Variant -> Nat]
    /\ usage = [d \in Code |-> 0]
    /\ cartStatus = [c \in Cart |-> "active"]
    /\ orders = <<>>

\* One sale: all of it or nothing, and only from units that are there.
Sell(o) ==
    /\ \A v \in Variant : o.taken[v] <= stock[v]
    /\ stock' = [v \in Variant |-> stock[v] - o.taken[v]]
    /\ usage' = IF o.code = NoCode THEN usage
                ELSE [usage EXCEPT ![o.code] = @ + 1]
    /\ cartStatus' = [cartStatus EXCEPT ![o.cart] = "converted"]
    /\ orders' = Append(orders, o)

\* The merchant sets the number of one variant to any value.
Supply(v) ==
    /\ stock' \in [Variant -> Int]
    /\ stock'[v] >= 0
    /\ stock' = [stock EXCEPT ![v] = stock'[v]]
    /\ UNCHANGED <<usage, cartStatus, orders>>

ShopNext ==
    \/ orders' # orders /\ Sell(orders'[Len(orders')])
    \/ \E v \in Variant : Supply(v)

ShopSpec == ShopInit /\ [][ShopNext]_shopVars
=============================================================================
