----------------------------- MODULE CartVerbs ------------------------------
(***************************************************************************)
(* routes/fragments.rb: the verbs of one visitor's cart.  The visitor's    *)
(* browser keeps a session cookie (the cart's key and a discount code),    *)
(* sends it with every request, and replaces it as a whole by whatever     *)
(* cookie an answer brings; an answer brings one only when its request     *)
(* changed the session.  Nothing orders a visitor's requests (two tabs, a  *)
(* double click), and each handler reads a line, decides, and writes later *)
(* with no transaction around it.  What an order does to stock is in       *)
(* Checkout: here it either spends the cart or is refused.  The order's    *)
(* token and the shopper's id in the session are left out; one discount    *)
(* code stands for them all.                                               *)
(***************************************************************************)
EXTENDS Integers, FiniteSets

CONSTANTS
    Request,     \* requests that may be in flight at once
    Variant,
    Stock,       \* units there are of any variant
    Key,         \* bound: session keys, in the order they are drawn
    MaxSends,    \* bound: requests the visitor makes
    MaxLosses,   \* bound: answers that do not arrive
    NoKey

ASSUME KeyAssumption == Key \subseteq Nat /\ NoKey \notin Key
ASSUME CartBounds == Stock \in Nat /\ MaxSends \in Nat /\ MaxLosses \in Nat
ASSUME VariantAssumption == Variant # {}

VARIABLES
    cookie,  \* the browser's session cookie
    cart,    \* carts.status by session_key; "none" is no row
    line,    \* cart_items.quantity by cart and variant; 0 is no row
    pc,      \* where each request is
    verb,    \* what it asks for
    sent,    \* the session it was sent with
    sess,    \* the session as its handler has it
    at,      \* the cart it writes to
    seen,    \* the quantity it read from its line; Gone once that row is deleted
    wanted,  \* history: the cart as the verbs carried out so far make it
    code,    \* history: a discount code is applied, by the same verbs
    known,   \* history: which known ways to be wrong were taken
    broken,  \* history: a request ended in an unhandled exception
    sends,   \* requests so far (for MaxSends)
    losses   \* lost answers so far (for MaxLosses)

tables  == <<cart, line>>
request == <<pc, verb, sent, sess, at, seen>>
ghosts  == <<wanted, code, known, broken>>
counts  == <<sends, losses>>
vars    == <<cookie, tables, request, ghosts, counts>>

Session == [key : Key \union {NoKey}, code : BOOLEAN]
NoSession == [key |-> NoKey, code |-> FALSE]

\* "add" and "step" change a quantity, "set" replaces it; 0 removes the line.
LineVerb == {"add", "step", "set", "remove"}
Verb ==
    [op : {"add"}, variant : Variant, n : {1}]
        \union [op : {"step"}, variant : Variant, n : {-1, 1}]
        \union [op : {"set"}, variant : Variant, n : {0, Stock}]
        \union [op : {"remove"}, variant : Variant, n : {0}]
        \union [op : {"clear", "apply", "unapply", "order"}, variant : Variant, n : {0}]
NoVerb == CHOOSE v \in Verb : v.op = "clear"

\* The ways to be wrong, which ghost "known" collects:
\*   raced      a line was written by a request that had read it otherwise
\*   early      a request travelled without the key of the visitor's first cart
\*   late       a request travelled with the key of a cart being spent
\*   overtaken  an answer replaced a cookie it was not sent with
\*   crossed    a handler changed a session that was not the visitor's last
\*   lost       an answer that brought a cookie did not arrive
Ways == {"raced", "early", "late", "overtaken", "crossed", "lost"}

Gone  == -1
Empty == [v \in Variant |-> 0]

TypeOK ==
    /\ cookie \in Session
    /\ cart \in [Key -> {"none", "active", "converted"}]
    /\ line \in [Key -> [Variant -> 0 .. Stock]]
    /\ pc \in [Request -> {"idle", "read", "cart", "write", "answer"}]
    /\ verb \in [Request -> Verb]
    /\ sent \in [Request -> Session]
    /\ sess \in [Request -> Session]
    /\ at \in [Request -> Key \union {NoKey}]
    /\ seen \in [Request -> {Gone} \union 0 .. Stock]
    /\ wanted \in [Variant -> Int]
    /\ code \in BOOLEAN
    /\ known \subseteq Ways
    /\ broken \in BOOLEAN
    /\ sends \in 0 .. MaxSends
    /\ losses \in 0 .. MaxLosses

Init ==
    /\ cookie = NoSession
    /\ cart = [k \in Key |-> "none"]
    /\ line = [k \in Key |-> Empty]
    /\ pc = [r \in Request |-> "idle"]
    /\ verb = [r \in Request |-> NoVerb]
    /\ sent = [r \in Request |-> NoSession]
    /\ sess = [r \in Request |-> NoSession]
    /\ at = [r \in Request |-> NoKey]
    /\ seen = [r \in Request |-> 0]
    /\ wanted = Empty
    /\ code = FALSE
    /\ known = {}
    /\ broken = FALSE
    /\ sends = 0
    /\ losses = 0

-----------------------------------------------------------------------------
Goto(r, where) == pc' = [pc EXCEPT ![r] = where]

Op(r)   == verb[r].op
Item(r) == verb[r].variant

Admit(ways) == known' = known \union ways
If(condition, way) == IF condition THEN {way} ELSE {}

InFlight == {r \in Request : pc[r] # "idle"}

\* The session a request was sent with is not the visitor's last.
Crossed(r) == cookie # sent[r] \/ \E q \in InFlight \ {r} : sess[q] # sent[q]

\* current_cart: the active cart of the session's key, if any.
\* (Slip: whatever became of it.)
AnyCart(s) == s.key
CurrentCart(s) == IF s.key # NoKey /\ cart[s.key] = "active" THEN s.key ELSE NoKey

\* The carts that are the visitor's: in the cookie, or on the way to it.
Home ==
    {k \in Key : /\ cart[k] = "active"
                 /\ cookie.key = k \/ \E r \in InFlight : sess[r].key = k}

\* A request is done and forgets what it held.
Done(r) ==
    /\ Goto(r, "idle")
    /\ sent' = [sent EXCEPT ![r] = NoSession]
    /\ sess' = [sess EXCEPT ![r] = NoSession]
    /\ at' = [at EXCEPT ![r] = NoKey]
    /\ seen' = [seen EXCEPT ![r] = 0]
    /\ verb' = [verb EXCEPT ![r] = NoVerb]

\* An exception nobody rescues: a 500 without a cookie.
Raise(r) == Done(r) /\ broken' = TRUE

-----------------------------------------------------------------------------
\* The browser

\* A click: the request carries the cookie as it is now.
Send(r, v) ==
    /\ pc[r] = "idle"
    /\ sends < MaxSends
    /\ sends' = sends + 1
    /\ verb' = [verb EXCEPT ![r] = v]
    /\ sent' = [sent EXCEPT ![r] = cookie]
    /\ sess' = [sess EXCEPT ![r] = cookie]
    /\ Goto(r, "read")
    /\ Admit(If(cookie.key # NoKey /\ CurrentCart(cookie) = NoKey
                   /\ \E q \in InFlight : sent[q].key = cookie.key, "late"))
    /\ UNCHANGED <<cookie, tables, at, seen, wanted, code, broken, losses>>

\* The answer arrives, with a cookie if the handler changed the session.
Deliver(r) ==
    /\ pc[r] = "answer"
    /\ cookie' = IF sess[r] # sent[r] THEN sess[r] ELSE cookie
    /\ Admit(If(sess[r] # sent[r] /\ cookie # sent[r], "overtaken"))
    /\ Done(r)
    /\ UNCHANGED <<tables, wanted, code, broken, counts>>

Lose(r) ==
    /\ pc[r] = "answer"
    /\ losses < MaxLosses
    /\ losses' = losses + 1
    /\ Admit(If(sess[r] # sent[r], "lost"))
    /\ Done(r)
    /\ UNCHANGED <<cookie, tables, wanted, code, broken, sends>>

-----------------------------------------------------------------------------
\* The handlers' reads

\* The quantity of the request's line in the cart it finds.
Found(r) ==
    LET k == CurrentCart(sess[r]) IN IF k = NoKey THEN 0 ELSE line[k][Item(r)]

\* The quantity the request will write.  (Slip: a step writes its delta.)
DeltaAlone(r, old) == IF Op(r) = "add" THEN old + verb[r].n ELSE verb[r].n
NewQuantity(r, old) ==
    IF Op(r) \in {"add", "step"} THEN old + verb[r].n ELSE verb[r].n

\* "POST items" looks for the line before it makes a cart.
ReadForAdd(r) ==
    /\ pc[r] = "read"
    /\ Op(r) = "add"
    /\ IF NewQuantity(r, Found(r)) > Stock
       THEN Goto(r, "answer") /\ UNCHANGED seen
       ELSE Goto(r, "cart") /\ seen' = [seen EXCEPT ![r] = Found(r)]
    /\ UNCHANGED <<cookie, tables, verb, sent, sess, at, ghosts, counts>>

\* "items update" and "items remove": 404 without a line, 409 past the stock.
ReadForLine(r) ==
    /\ pc[r] = "read"
    /\ Op(r) \in {"step", "set", "remove"}
    /\ IF Found(r) = 0 \/ NewQuantity(r, Found(r)) > Stock
       THEN Goto(r, "answer") /\ UNCHANGED <<at, seen>>
       ELSE /\ Goto(r, "write")
            /\ at' = [at EXCEPT ![r] = CurrentCart(sess[r])]
            /\ seen' = [seen EXCEPT ![r] = Found(r)]
    /\ UNCHANGED <<cookie, tables, verb, sent, sess, ghosts, counts>>

\* CreateOrder reads the cart; an empty one is refused.
ReadForOrder(r) ==
    /\ pc[r] = "read"
    /\ Op(r) = "order"
    /\ LET k == CurrentCart(sess[r]) IN
       IF k = NoKey \/ line[k] = Empty
       THEN Goto(r, "answer") /\ UNCHANGED at
       ELSE Goto(r, "write") /\ at' = [at EXCEPT ![r] = k]
    /\ UNCHANGED <<cookie, tables, verb, sent, sess, seen, ghosts, counts>>

\* active_cart finds the cart of the session's key ...
FindCart(r) ==
    /\ pc[r] = "cart"
    /\ CurrentCart(sess[r]) # NoKey
    /\ at' = [at EXCEPT ![r] = CurrentCart(sess[r])]
    /\ Goto(r, "write")
    /\ UNCHANGED <<cookie, tables, verb, sent, sess, seen, ghosts, counts>>

\* ... or makes one under a new key ...
MakeCart(r) ==
    /\ pc[r] = "cart"
    /\ sess[r].key = NoKey
    /\ \E k \in Key :
          /\ cart[k] = "none" /\ \A j \in Key : cart[j] = "none" => k <= j
          /\ cart' = [cart EXCEPT ![k] = "active"]
          /\ sess' = [sess EXCEPT ![r].key = k]
          /\ at' = [at EXCEPT ![r] = k]
    /\ Admit(If(Home # {}, "early"))
    /\ Goto(r, "write")
    /\ UNCHANGED <<cookie, line, verb, sent, seen, wanted, code, broken, counts>>

\* ... or fails to: a spent cart keeps its key, and keys are unique.
KeyTaken(r) ==
    /\ pc[r] = "cart"
    /\ sess[r].key # NoKey /\ CurrentCart(sess[r]) = NoKey
    /\ Raise(r)
    /\ UNCHANGED <<cookie, tables, wanted, code, known, counts>>

-----------------------------------------------------------------------------
\* The handlers' writes

\* The line is no longer what the request read, and what it writes depends on
\* that; a row that came or went is an exception.
Stale(r)    == line[at[r]][Item(r)] # seen[r]
RowMoved(r) == seen[r] = Gone \/ (seen[r] = 0 /\ Stale(r))

\* What the requests have seen once these lines of a cart are deleted: a row
\* added in their place is another one.
Deleted(k, items) ==
    [q \in Request |->
        IF seen[q] > 0 /\ sess[q].key = k /\ Item(q) \in items THEN Gone ELSE seen[q]]

WriteLine(r) ==
    /\ pc[r] = "write"
    /\ Op(r) \in LineVerb
    /\ ~RowMoved(r)
    /\ line' = [line EXCEPT ![at[r]][Item(r)] = NewQuantity(r, seen[r])]
    /\ wanted' = [wanted EXCEPT ![Item(r)] =
                     IF Op(r) \in {"add", "step"} THEN @ + verb[r].n ELSE verb[r].n]
    /\ seen' = IF NewQuantity(r, seen[r]) = 0 THEN Deleted(at[r], {Item(r)}) ELSE seen
    /\ Admit(If(Stale(r) /\ Op(r) \in {"add", "step"}, "raced"))
    /\ Goto(r, "answer")
    /\ UNCHANGED <<cookie, cart, verb, sent, sess, at, code, broken, counts>>

WriteFails(r) ==
    /\ pc[r] = "write"
    /\ Op(r) \in LineVerb
    /\ RowMoved(r)
    /\ Admit({"raced"})
    /\ Raise(r)
    /\ UNCHANGED <<cookie, tables, wanted, code, counts>>

\* "items clear" empties the cart and drops the code.
Clear(r) ==
    /\ pc[r] = "read"
    /\ Op(r) = "clear"
    /\ LET k == CurrentCart(sess[r]) IN
       /\ line' = IF k = NoKey THEN line ELSE [line EXCEPT ![k] = Empty]
       /\ seen' = Deleted(k, Variant)
    /\ sess' = [sess EXCEPT ![r].code = FALSE]
    /\ wanted' = Empty
    /\ code' = FALSE
    /\ Admit(If(CurrentCart(sess[r]) = NoKey /\ Home # {}, "early")
                 \union If(Crossed(r), "crossed"))
    /\ Goto(r, "answer")
    /\ UNCHANGED <<cookie, cart, verb, sent, at, broken, counts>>

\* A code lives in the session; one that does not apply takes the last along.
SetCode(r) ==
    /\ pc[r] = "read"
    /\ Op(r) \in {"apply", "unapply"}
    /\ \E ok \in BOOLEAN :
          /\ ok => Op(r) = "apply"
          /\ sess' = [sess EXCEPT ![r].code = ok]
          /\ code' = ok
    /\ Admit(If(Crossed(r), "crossed"))
    /\ Goto(r, "answer")
    /\ UNCHANGED <<cookie, tables, verb, sent, at, seen, wanted, broken, counts>>

\* The session once the order is placed.  (Slip: the key is kept.)
CodeSpent(s) == [s EXCEPT !.code = FALSE]
AllSpent(s) == [s EXCEPT !.code = FALSE, !.key = NoKey]

\* The order is placed: the cart is spent, and the session forgets it.
Order(r) ==
    /\ pc[r] = "write"
    /\ Op(r) = "order"
    /\ cart' = [cart EXCEPT ![at[r]] = "converted"]
    /\ sess' = [sess EXCEPT ![r] = AllSpent(sess[r])]
    /\ wanted' = Empty
    /\ code' = FALSE
    /\ Admit(If(\E q \in InFlight \ {r} : sess[q].key = at[r], "late")
                 \union If(Crossed(r), "crossed"))
    /\ Goto(r, "answer")
    /\ UNCHANGED <<cookie, line, verb, sent, at, seen, broken, counts>>

\* Out of stock, or no address: 409 or 422, and the session is as it was.
Refuse(r) ==
    /\ pc[r] = "write"
    /\ Op(r) = "order"
    /\ Goto(r, "answer")
    /\ UNCHANGED <<cookie, tables, verb, sent, sess, at, seen, ghosts, counts>>

-----------------------------------------------------------------------------
Handle(r) ==
    \/ ReadForAdd(r) \/ ReadForLine(r) \/ ReadForOrder(r)
    \/ FindCart(r) \/ MakeCart(r) \/ KeyTaken(r)
    \/ WriteLine(r) \/ WriteFails(r) \/ Clear(r) \/ SetCode(r)
    \/ Order(r) \/ Refuse(r)

Next ==
    \E r \in Request :
        \/ \E v \in Verb : Send(r, v)
        \/ Handle(r)
        \/ Deliver(r) \/ Lose(r)

Spec == Init /\ [][Next]_vars

-----------------------------------------------------------------------------
\* Whatever requests overlap and whatever answers are late, the visitor has
\* one cart, keeps no key of a spent one once the order's answer is there, and
\* meets an unhandled exception never: each of these takes a known way.
ShoppingGoesOn ==
    known = {} =>
        /\ ~broken
        /\ Cardinality(Home) <= 1
        /\ cookie.key # NoKey /\ cart[cookie.key] # "active" =>
               \E r \in InFlight : Op(r) = "order" /\ sent[r].key = cookie.key

\* The cart is what the verbs that were carried out make it, though they
\* overlapped; so is the code, once no answer is under way.
CartIsHonest ==
    known = {} =>
        /\ \A v \in Variant :
              wanted[v] = IF Home = {} THEN 0
                          ELSE line[CHOOSE k \in Home : TRUE][v]
        /\ InFlight = {} => cookie.code = code
=============================================================================
