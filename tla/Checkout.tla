------------------------------ MODULE Checkout ------------------------------
(***************************************************************************)
(* dukafi/services/create_order.rb and checkout_stock_check.rb: turning a  *)
(* cart into an order.  A request reads its cart and the priced payload    *)
(* BEFORE its transaction, then checks stock, re-reads the lines,          *)
(* decrements each variant and writes the order inside one.  Puma serves   *)
(* requests on several threads (config/puma.rb), so every step below may   *)
(* interleave with another checkout, with a cart edit from another tab and *)
(* with the merchant's stock edits.                                        *)
(*                                                                         *)
(* Engine selects the store config/database.rb opens:                      *)
(*   "sqlite"   BEGIN DEFERRED on a WAL database: the first read fixes a   *)
(*              snapshot, the first write takes THE write lock, and is     *)
(*              refused when anyone committed since the snapshot;          *)
(*   "postgres" READ COMMITTED: every statement sees the latest commit,    *)
(*              and an UPDATE locks the rows it touches.                   *)
(* An uncommitted decrement lives in taken and reaches stock on commit.    *)
(***************************************************************************)
EXTENDS Integers, Sequences, FiniteSets

CONSTANTS
    Request,    \* the threads that serve requests
    NoRequest,
    Cart,
    Variant,
    Code,       \* discount codes
    NoCode,
    Limit,      \* Code -> usage_limit
    InitStock,  \* Variant -> stock at the start
    Engine,
    MaxQty,     \* bound: largest quantity of a cart line
    MaxStock,   \* bound: largest stock a merchant sets
    MaxServed,  \* bound: checkouts a behaviour starts
    MaxEdits    \* bound: cart and stock edits from outside

ASSUME EngineAssumption == Engine \in {"sqlite", "postgres"}
ASSUME RequestAssumption ==
    IsFiniteSet(Request) /\ Request # {} /\ NoRequest \notin Request
ASSUME CartAssumption == Cart # {}
ASSUME CodeAssumption == NoCode \notin Code /\ Limit \in [Code -> Nat]
ASSUME StockAssumption == InitStock \in [Variant -> Nat]
ASSUME BoundAssumption == MaxQty \in Nat /\ MaxStock \in Nat

VARIABLES
    stock,      \* variants.stock, committed
    usage,      \* discounts.usage_count, committed
    cartStatus, \* carts.status
    lines,      \* cart_items.quantity; 0 is no row
    orders,     \* committed orders, oldest first
    writer,     \* sqlite: the request that holds the write lock
    pc,         \* where each request is
    cart,       \* the cart row the request read
    code,       \* discount code: the session's, then the one that validated
    entries,    \* the payload's lines, read before the transaction
    todo,       \* quantities the reserve loop has still to decrement
    taken,      \* quantities decremented and not yet committed
    fresh,      \* sqlite: nobody has committed since the snapshot
    served,     \* checkouts started so far (for MaxServed)
    edits,      \* edits made so far (for MaxEdits)
    supplied    \* history: stock given by the start and the merchant's edits

dbVars  == <<stock, usage, cartStatus, lines, orders, supplied>>
reqVars == <<cart, code, entries, todo, taken>>
vars    == <<dbVars, reqVars, writer, pc, fresh, served, edits>>

Quantities == [Variant -> Nat]
Nothing    == [v \in Variant |-> 0]
Order      == [cart : Cart, entries : Quantities, taken : Quantities,
               code : Code \union {NoCode}]
PC         == {"idle", "cart", "payload", "checked", "reserve", "ok", "refused"}
InTransaction == {"checked", "reserve"}

TypeOK ==
    /\ stock \in [Variant -> Int]
    /\ usage \in [Code -> Nat]
    /\ cartStatus \in [Cart -> {"active", "converted"}]
    /\ lines \in [Cart -> Quantities]
    /\ orders \in Seq(Order)
    /\ writer \in Request \union {NoRequest}
    /\ pc \in [Request -> PC]
    /\ cart \in [Request -> Cart]
    /\ code \in [Request -> Code \union {NoCode}]
    /\ entries \in [Request -> Quantities]
    /\ todo \in [Request -> Quantities]
    /\ taken \in [Request -> Quantities]
    /\ fresh \in [Request -> BOOLEAN]
    /\ served \in Nat
    /\ edits \in Nat
    /\ supplied \in [Variant -> Int]

Init ==
    /\ stock = InitStock
    /\ supplied = InitStock
    /\ usage = [d \in Code |-> 0]
    /\ cartStatus = [c \in Cart |-> "active"]
    /\ lines \in [Cart -> [Variant -> 0 .. MaxQty]]
    /\ orders = <<>>
    /\ writer = NoRequest
    /\ pc = [r \in Request |-> "idle"]
    /\ cart = [r \in Request |-> CHOOSE c \in Cart : TRUE]
    /\ code = [r \in Request |-> NoCode]
    /\ entries = [r \in Request |-> Nothing]
    /\ todo = [r \in Request |-> Nothing]
    /\ taken = [r \in Request |-> Nothing]
    /\ fresh = [r \in Request |-> FALSE]
    /\ served = 0
    /\ edits = 0

-----------------------------------------------------------------------------
\* The two engines

\* A commit by someone else outdates every open SQLite snapshot.
OutdateOthers(r) ==
    fresh' = [q \in Request |-> (Engine = "postgres" \/ q = r) /\ fresh[q]]

\* Seeded slip: the writes made outside any transaction.
CanWriteAnyTime(r) == TRUE

\* May this transaction write now?  (SQLITE_BUSY otherwise.)
CanWrite(r) ==
    \/ Engine = "postgres"
    \/ writer = r
    \/ writer = NoRequest /\ fresh[r]

\* Nobody else holds an uncommitted decrement of this variant row.
RowFree(r, v) == \A q \in Request \ {r} : taken[q][v] = 0

\* Every row the loop still wants is locked by another transaction.
Blocked(r) ==
    /\ pc[r] = "reserve"
    /\ \E v \in Variant : todo[r][v] > 0
    /\ \A v \in Variant : todo[r][v] > 0 => ~RowFree(r, v)

WaitsFor(r, q) == \E v \in Variant : todo[r][v] > 0 /\ taken[q][v] > 0

\* Transactions that wait for one another in a circle, and those behind them.
Deadlocked(r) ==
    \E D \in SUBSET Request :
        /\ r \in D
        /\ \A q \in D : Blocked(q) /\ \E p \in D \ {q} : WaitsFor(q, p)

\* A write outside a transaction waits for SQLite's single writer.
WriterIdle == Engine = "postgres" \/ writer = NoRequest

-----------------------------------------------------------------------------
\* A checkout request, one action per read, write or early return

\* DiscountLookup's usage check.  (Slip: an off-by-one.)
StillAllowsOneMore(d) == usage[d] <= Limit[d]
NotExhausted(d) == usage[d] < Limit[d]

\* CheckoutStockCheck#shortage_for, for every line of the cart.
\* (Slip: compares with the quantities of the payload, read earlier.)
ShortByPayload(r) == \E v \in Variant : entries[r][v] > stock[v]
Short(r) == \E v \in Variant : lines[cart[r]][v] > stock[v]

\* consume_discount.  (Slips: a conditional UPDATE whose row count is ignored;
\* a counter of the uses that remain.)
ConsumeCountingDown(r) ==
    usage' = IF code[r] = NoCode THEN usage
             ELSE [usage EXCEPT ![code[r]] = @ - 1]
ConsumeIfAllowed(r) ==
    usage' = IF code[r] = NoCode \/ usage[code[r]] >= Limit[code[r]] THEN usage
             ELSE [usage EXCEPT ![code[r]] = @ + 1]
ConsumeDiscount(r) ==
    usage' = IF code[r] = NoCode THEN usage
             ELSE [usage EXCEPT ![code[r]] = @ + 1]

\* POST /fragments/cart/order: current_cart and the session's discount code.
\* (Without an active cart the payload is empty and nothing is written.)
Start(r, c, d) ==
    /\ pc[r] = "idle"
    /\ served < MaxServed
    /\ cartStatus[c] = "active"
    /\ pc' = [pc EXCEPT ![r] = "cart"]
    /\ cart' = [cart EXCEPT ![r] = c]
    /\ code' = [code EXCEPT ![r] = d]
    /\ served' = served + 1
    /\ UNCHANGED <<dbVars, entries, todo, taken, writer, fresh, edits>>

\* CartPayload: the lines, and the code if it still validates.  A code may
\* also drop out for reasons outside this module (expired, not eligible).
ReadPayload(r) ==
    /\ pc[r] = "cart"
    /\ entries' = [entries EXCEPT ![r] = lines[cart[r]]]
    /\ pc' = [pc EXCEPT ![r] = IF lines[cart[r]] = Nothing THEN "refused"
                                                          ELSE "payload"]
    /\ \E d \in {code[r], NoCode} :
          /\ d # NoCode => NotExhausted(d)
          /\ code' = [code EXCEPT ![r] = d]
    /\ UNCHANGED <<dbVars, cart, todo, taken, writer, fresh, served, edits>>

\* CheckoutStockCheck#call, the transaction's first read: any short line ends
\* the request and writes nothing.
CheckStock(r) ==
    /\ pc[r] = "payload"
    /\ fresh' = [fresh EXCEPT ![r] = TRUE]
    /\ pc' = [pc EXCEPT ![r] = IF Short(r) THEN "refused" ELSE "checked"]
    /\ UNCHANGED <<dbVars, reqVars, writer, served, edits>>

\* reserve! reads the lines again for its loop.
ReadLines(r) ==
    /\ pc[r] = "checked"
    /\ todo' = [todo EXCEPT ![r] = lines[cart[r]]]
    /\ pc' = [pc EXCEPT ![r] = "reserve"]
    /\ UNCHANGED <<dbVars, cart, code, entries, taken, writer, fresh, served, edits>>

\* UPDATE variants SET stock = stock - quantity: one turn of the loop.
Decrement(r, v) ==
    /\ pc[r] = "reserve"
    /\ todo[r][v] > 0
    /\ CanWrite(r)
    /\ RowFree(r, v)
    /\ taken' = [taken EXCEPT ![r][v] = todo[r][v]]
    /\ todo' = [todo EXCEPT ![r][v] = 0]
    /\ writer' = IF Engine = "sqlite" THEN r ELSE NoRequest
    /\ UNCHANGED <<dbVars, cart, code, entries, pc, fresh, served, edits>>

\* The customer, the order and its lines from the payload, the discount use,
\* the spent cart, and COMMIT.
CommitOrder(r) ==
    /\ pc[r] = "reserve"
    /\ todo[r] = Nothing
    /\ CanWrite(r)
    /\ stock' = [v \in Variant |-> stock[v] - taken[r][v]]
    /\ ConsumeDiscount(r)
    /\ cartStatus' = [cartStatus EXCEPT ![cart[r]] = "converted"]
    /\ orders' = Append(orders, [cart |-> cart[r], entries |-> entries[r],
                                 taken |-> taken[r], code |-> code[r]])
    /\ pc' = [pc EXCEPT ![r] = "ok"]
    /\ taken' = [taken EXCEPT ![r] = Nothing]
    /\ writer' = NoRequest
    /\ OutdateOthers(r)
    /\ UNCHANGED <<lines, supplied, cart, code, entries, todo, served, edits>>

\* ROLLBACK: nothing of the transaction survives.  (Slip: the decrements were
\* not part of it.)
RollbackKeepingDecrements(r) ==
    /\ pc' = [pc EXCEPT ![r] = "refused"]
    /\ stock' = [v \in Variant |-> stock[v] - taken[r][v]]
    /\ todo' = [todo EXCEPT ![r] = Nothing]
    /\ taken' = [taken EXCEPT ![r] = Nothing]
    /\ writer' = IF writer = r THEN NoRequest ELSE writer
    /\ UNCHANGED <<usage, cartStatus, lines, orders, supplied, cart, code, entries,
                   fresh, served, edits>>
Rollback(r) ==
    /\ pc' = [pc EXCEPT ![r] = "refused"]
    /\ todo' = [todo EXCEPT ![r] = Nothing]
    /\ taken' = [taken EXCEPT ![r] = Nothing]
    /\ writer' = IF writer = r THEN NoRequest ELSE writer
    /\ UNCHANGED <<dbVars, cart, code, entries, fresh, served, edits>>

\* Missing identity, no such shipping rate, an invalid customer, any
\* exception, or the loss of the process, at any point before the commit.
Fail(r) ==
    /\ pc[r] \in {"cart", "payload"} \union InTransaction
    /\ Rollback(r)

\* SQLITE_BUSY: the write lock is taken (past busy_timeout), or the snapshot
\* is out of date.
Busy(r) ==
    /\ pc[r] = "reserve"
    /\ ~CanWrite(r)
    /\ Rollback(r)

\* Postgres ends a circle of waiting transactions by aborting one.
\* (Slip: nobody does.)
DeadlockIgnored(r) == FALSE /\ Rollback(r)
DeadlockAbort(r) ==
    /\ Engine = "postgres"
    /\ Deadlocked(r)
    /\ Rollback(r)

\* The response leaves; the thread is free again.
Answer(r) ==
    /\ pc[r] \in {"ok", "refused"}
    /\ pc' = [pc EXCEPT ![r] = "idle"]
    /\ code' = [code EXCEPT ![r] = NoCode]
    /\ entries' = [entries EXCEPT ![r] = Nothing]
    /\ fresh' = [fresh EXCEPT ![r] = FALSE]
    /\ UNCHANGED <<dbVars, cart, todo, taken, writer, served, edits>>

-----------------------------------------------------------------------------
\* What else writes these tables

\* Another tab's cart verb (fragments.rb): one row set to q, or removed.  Its
\* own checks were made on an earlier read, so they guard nothing here.
EditLine(c, v, q) ==
    /\ WriterIdle
    /\ edits < MaxEdits
    /\ edits' = edits + 1
    /\ q # lines[c][v]
    /\ lines' = [lines EXCEPT ![c][v] = q]
    /\ OutdateOthers(NoRequest)
    /\ UNCHANGED <<stock, usage, cartStatus, orders, supplied, reqVars, writer,
                   pc, served>>

\* commerce_writes.rb: the merchant saves a variant with an absolute stock.
SetStock(v, n) ==
    /\ WriterIdle
    /\ edits < MaxEdits
    /\ edits' = edits + 1
    /\ \A r \in Request : taken[r][v] = 0
    /\ stock' = [stock EXCEPT ![v] = n]
    /\ supplied' = [supplied EXCEPT ![v] = @ + n - stock[v]]
    /\ OutdateOthers(NoRequest)
    /\ UNCHANGED <<usage, cartStatus, lines, orders, reqVars, writer, pc, served>>

Progress(r) ==
    \/ ReadPayload(r)
    \/ CheckStock(r)
    \/ ReadLines(r)
    \/ \E v \in Variant : Decrement(r, v)
    \/ CommitOrder(r)
    \/ Busy(r)
    \/ DeadlockAbort(r)
    \/ Answer(r)

\* No request in flight: the store waits for the next shopper.
Quiet == (\A r \in Request : pc[r] = "idle") /\ UNCHANGED vars

Next ==
    \/ Quiet
    \/ \E r \in Request : Progress(r) \/ Fail(r)
    \/ \E r \in Request, c \in Cart, d \in Code \union {NoCode} : Start(r, c, d)
    \/ \E c \in Cart, v \in Variant, q \in 0 .. MaxQty : EditLine(c, v, q)
    \/ \E v \in Variant, n \in 0 .. MaxStock : SetStock(v, n)

Spec == Init /\ [][Next]_vars

\* Puma runs every accepted request to its answer, and each engine ends a
\* wait that cannot succeed (busy_timeout, deadlock detection).
FairSpec == Spec /\ \A r \in Request : WF_vars(Progress(r))

-----------------------------------------------------------------------------
\* Properties

\* Units of v sold by the orders made: what their transactions decremented, each
\* unit named by its order and a number within it.
UnitsSold(v) == UNION {{i} \X (1 .. orders[i].taken[v]) : i \in DOMAIN orders}
Sold(v) == Cardinality(UnitsSold(v))
OrdersWith(d) == Cardinality({i \in DOMAIN orders : orders[i].code = d})
OrdersOf(c)   == {i \in DOMAIN orders : orders[i].cart = c}

\* checkout_stock_check.rb: a check and a decrement in one transaction never
\* sell a unit that is not there, whatever other checkouts, cart edits and
\* stock edits happen in between.
StockNeverNegative == \A v \in Variant : stock[v] >= 0

\* Why (the inductive invariant): on SQLite only the holder of the write lock
\* has decremented anything, its snapshot is current, and while a snapshot is
\* current the check made on it still holds.
OnlyTheWriterTakes ==
    \A r \in Request, v \in Variant : taken[r][v] > 0 => writer = r
TheWriterIsFresh ==
    \A r \in Request : writer = r => pc[r] = "reserve" /\ fresh[r]
FreshChecksHold ==
    \A r \in Request, v \in Variant : fresh[r] =>
        /\ pc[r] = "checked" => lines[cart[r]][v] <= stock[v]
        /\ pc[r] = "reserve" => todo[r][v] + taken[r][v] <= stock[v]
SqliteInvariant ==
    Engine = "sqlite" =>
        /\ OnlyTheWriterTakes
        /\ TheWriterIsFresh
        /\ FreshChecksHold
        /\ StockNeverNegative

\* create_order.rb's header: an order, its discount use and its spent cart exist
\* together or not at all, whichever step failed.
AllOrNothing ==
    /\ \A d \in Code : usage[d] = OrdersWith(d)
    /\ \A c \in Cart : cartStatus[c] = "converted" <=> OrdersOf(c) # {}

\* The same of its units: what is in stock is what was supplied and is in no order,
\* also where transactions run side by side and one of them is rolled back.
UnitsAccounted == \A v \in Variant : stock[v] = supplied[v] - Sold(v)

\* What the unguarded usage_count increment still guarantees: a code is
\* overspent by at most one use per OTHER thread, each of which had to
\* validate it before the last use was gone.
UsageOverrunBounded ==
    \A d \in Code : usage[d] <= Limit[d] + Cardinality(Request) - 1

\* On SQLite every sale looks like one indivisible event (Shop.tla): request
\* steps, locks and snapshots are invisible.
AbstractShop == INSTANCE Shop
ImplementsShop == AbstractShop!ShopSpec

\* Every checkout that reached the application is answered: waits for the
\* write lock, for a row and for a stale snapshot all end.
EveryCheckoutAnswered == \A r \in Request : pc[r] # "idle" ~> pc[r] = "idle"

-----------------------------------------------------------------------------
\* What the repository says of checkout, and the code does not keep

\* spec/routes/cart_lines_spec.rb:548: a spent cart is not submitted again.
OneOrderPerCart == \A c \in Cart : Cardinality(OrdersOf(c)) <= 1
=============================================================================
