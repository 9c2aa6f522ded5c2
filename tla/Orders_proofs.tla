-------------------------- MODULE Orders_proofs ----------------------------
(***************************************************************************)
(* What TLAPS proves of the two halves of an order: of Checkout, for every *)
(* number of threads, carts, variants and codes, and of Payments, for      *)
(* every number of workers, attempts and orders.                           *)
(***************************************************************************)
EXTENDS Checkout, Payments, FiniteSetTheorems, SequenceTheorems, TLAPS

-----------------------------------------------------------------------------
\* Types

LEMMA NothingType == Nothing \in Quantities
  BY DEF Nothing, Quantities

LEMMA InitTypeOK == Init => TypeOK
  <1> SUFFICES ASSUME Init PROVE TypeOK
    OBVIOUS
  <1>1. lines \in [Cart -> Quantities]
    <2>1. 0 .. MaxQty \subseteq Nat
      BY BoundAssumption
    <2> QED
      BY <2>1 DEF Init, Quantities
  <1>2. cart \in [Request -> Cart]
    BY CartAssumption DEF Init
  <1>3. orders \in Seq(Order)
    BY DEF Init
  <1> QED
    BY <1>1, <1>2, <1>3, NothingType, StockAssumption, CodeAssumption
    DEF Init, TypeOK, PC

\* Every step keeps the types: one lemma step per action.
LEMMA NextTypeOK == TypeOK /\ [Next]_vars => TypeOK'
  <1> SUFFICES ASSUME TypeOK, [Next]_vars PROVE TypeOK'
    OBVIOUS
  <1> USE NothingType DEF TypeOK, dbVars, reqVars, PC
  <1>1. CASE UNCHANGED vars
    BY <1>1 DEF vars
  <1>2. ASSUME NEW r \in Request, NEW c \in Cart,
               NEW d \in Code \union {NoCode}, Start(r, c, d)
        PROVE  TypeOK'
    BY <1>2 DEF Start
  <1>3. ASSUME NEW r \in Request, ReadPayload(r) PROVE TypeOK'
    BY <1>3 DEF ReadPayload
  <1>4. ASSUME NEW r \in Request, CheckStock(r) PROVE TypeOK'
    BY <1>4 DEF CheckStock
  <1>5. ASSUME NEW r \in Request, ReadLines(r) PROVE TypeOK'
    BY <1>5 DEF ReadLines
  <1>6. ASSUME NEW r \in Request, NEW v \in Variant, Decrement(r, v)
        PROVE  TypeOK'
    <2>1. taken' \in [Request -> Quantities] /\ todo' \in [Request -> Quantities]
      BY <1>6 DEF Decrement, Quantities
    <2> QED
      BY <1>6, <2>1 DEF Decrement
  <1>7. ASSUME NEW r \in Request, CommitOrder(r) PROVE TypeOK'
    <2>1. stock' \in [Variant -> Int]
      BY <1>7 DEF CommitOrder, Quantities
    <2>2. usage' \in [Code -> Nat]
      BY <1>7 DEF CommitOrder, ConsumeDiscount
    <2>3. orders' \in Seq(Order)
      <3>1. [cart |-> cart[r], entries |-> entries[r], taken |-> taken[r],
             code |-> code[r]] \in Order
        BY DEF Order
      <3> QED
        BY <1>7, <3>1 DEF CommitOrder
    <2> QED
      BY <1>7, <2>1, <2>2, <2>3 DEF CommitOrder, OutdateOthers
  <1>8. ASSUME NEW r \in Request, Rollback(r) PROVE TypeOK'
    BY <1>8 DEF Rollback
  <1>9. ASSUME NEW r \in Request, Answer(r) PROVE TypeOK'
    BY <1>9 DEF Answer
  <1>10. ASSUME NEW c \in Cart, NEW v \in Variant, NEW q \in 0 .. MaxQty,
                EditLine(c, v, q)
         PROVE  TypeOK'
    <2>1. q \in Nat
      BY BoundAssumption
    <2> QED
      BY <1>10, <2>1 DEF EditLine, OutdateOthers, Quantities
  <1>11. ASSUME NEW v \in Variant, NEW n \in 0 .. MaxStock, SetStock(v, n)
         PROVE  TypeOK'
    <2>1. n \in Int
      BY BoundAssumption
    <2> QED
      BY <1>11, <2>1 DEF SetStock, OutdateOthers
  <1> QED
    BY <1>1, <1>2, <1>3, <1>4, <1>5, <1>6, <1>7, <1>8, <1>9, <1>10, <1>11
    DEF Next, Progress, Quiet, Fail, Busy, DeadlockAbort

\* Every variable of the checkout keeps its type.
THEOREM TypeCorrect == Spec => []TypeOK
  BY InitTypeOK, NextTypeOK, PTL DEF Spec
-----------------------------------------------------------------------------
\* No overselling on SQLite

LEMMA ElementTypes ==
  ASSUME TypeOK
  PROVE  /\ \A c \in Cart, v \in Variant : lines[c][v] \in Nat
         /\ \A r \in Request, v \in Variant :
              /\ todo[r][v] \in Nat
              /\ taken[r][v] \in Nat
              /\ entries[r][v] \in Nat
         /\ \A v \in Variant : stock[v] \in Int
         /\ \A r \in Request : cart[r] \in Cart
  BY DEF TypeOK, Quantities

LEMMA SqliteInit == Init => SqliteInvariant
  BY StockAssumption, RequestAssumption
  DEF Init, SqliteInvariant, OnlyTheWriterTakes, TheWriterIsFresh,
      FreshChecksHold, StockNeverNegative, Nothing

\* Reading the lines for the loop: a current snapshot saw the same lines.
LEMMA SqliteReadLines ==
  ASSUME TypeOK, SqliteInvariant, Engine = "sqlite",
         NEW r \in Request, ReadLines(r)
  PROVE  SqliteInvariant'
  <1>1. /\ OnlyTheWriterTakes /\ TheWriterIsFresh
        /\ FreshChecksHold /\ StockNeverNegative
    BY DEF SqliteInvariant
  <1>2. /\ pc[r] = "checked" /\ fresh' = fresh /\ lines' = lines
        /\ stock' = stock /\ cart' = cart /\ taken' = taken /\ writer' = writer
    BY DEF ReadLines, dbVars
  <1>3. \A s \in Request : /\ pc'[s] = IF s = r THEN "reserve" ELSE pc[s]
                          /\ todo'[s] = IF s = r THEN lines[cart[r]] ELSE todo[s]
    BY DEF ReadLines, TypeOK
  <1>4. \A v \in Variant : taken[r][v] = 0
    BY <1>1, <1>2, ElementTypes DEF OnlyTheWriterTakes, TheWriterIsFresh
  <1>5. FreshChecksHold'
    <2> SUFFICES ASSUME NEW s \in Request, NEW v \in Variant, fresh[s]
                 PROVE  /\ pc'[s] = "checked" => lines[cart[s]][v] <= stock[v]
                        /\ pc'[s] = "reserve" => todo'[s][v] + taken[s][v] <= stock[v]
      BY <1>2 DEF FreshChecksHold
    <2>1. CASE s = r
      BY <2>1, <1>1, <1>2, <1>3, <1>4, ElementTypes DEF FreshChecksHold
    <2>2. CASE s # r
      BY <2>2, <1>1, <1>2, <1>3, ElementTypes DEF FreshChecksHold
    <2> QED
      BY <2>1, <2>2
  <1>6. OnlyTheWriterTakes' /\ TheWriterIsFresh' /\ StockNeverNegative'
    BY <1>1, <1>2, <1>3 DEF OnlyTheWriterTakes, TheWriterIsFresh, StockNeverNegative
  <1> QED
    BY <1>5, <1>6 DEF SqliteInvariant

\* One decrement: it takes the write lock only from a current snapshot, and
\* moves units from todo to taken.
LEMMA SqliteDecrement ==
  ASSUME TypeOK, SqliteInvariant, Engine = "sqlite",
         NEW r \in Request, NEW v \in Variant, Decrement(r, v)
  PROVE  SqliteInvariant'
  <1>1. /\ OnlyTheWriterTakes /\ TheWriterIsFresh
        /\ FreshChecksHold /\ StockNeverNegative
    BY DEF SqliteInvariant
  <1>2. /\ pc[r] = "reserve" /\ pc' = pc /\ fresh' = fresh /\ lines' = lines
        /\ stock' = stock /\ cart' = cart /\ writer' = r
    BY DEF Decrement, dbVars
  <1>3. fresh[r] /\ (writer = r \/ writer = NoRequest)
    BY <1>1, <1>2 DEF Decrement, CanWrite, TheWriterIsFresh
  <1>4. \A s \in Request, w \in Variant :
           IF s = r /\ w = v
           THEN taken'[s][w] = todo[s][w] /\ todo'[s][w] = 0
           ELSE taken'[s][w] = taken[s][w] /\ todo'[s][w] = todo[s][w]
    BY DEF Decrement, TypeOK, Quantities
  <1>5. \A s \in Request, w \in Variant : s # r => taken[s][w] = 0
    BY <1>1, <1>3, RequestAssumption, ElementTypes DEF OnlyTheWriterTakes
  <1>6. OnlyTheWriterTakes'
    BY <1>2, <1>4, <1>5 DEF OnlyTheWriterTakes
  <1>7. TheWriterIsFresh' /\ StockNeverNegative'
    BY <1>1, <1>2, <1>3 DEF TheWriterIsFresh, StockNeverNegative
  <1>8. FreshChecksHold'
    BY <1>1, <1>2, <1>4, ElementTypes DEF FreshChecksHold
  <1> QED
    BY <1>6, <1>7, <1>8 DEF SqliteInvariant

LEMMA SqliteNext ==
  TypeOK /\ SqliteInvariant /\ [Next]_vars => SqliteInvariant'
  <1> SUFFICES ASSUME TypeOK, SqliteInvariant, [Next]_vars, Engine = "sqlite"
               PROVE  /\ OnlyTheWriterTakes'
                      /\ TheWriterIsFresh'
                      /\ FreshChecksHold'
                      /\ StockNeverNegative'
    BY DEF SqliteInvariant
  <1>inv. /\ OnlyTheWriterTakes
          /\ TheWriterIsFresh
          /\ FreshChecksHold
          /\ StockNeverNegative
    BY DEF SqliteInvariant
  <1> USE <1>inv, RequestAssumption
      DEF OnlyTheWriterTakes, TheWriterIsFresh, FreshChecksHold,
          StockNeverNegative, TypeOK, dbVars, reqVars, Quantities, Nothing
  <1>1. CASE UNCHANGED vars
    BY <1>1 DEF vars
  <1>2. ASSUME NEW r \in Request, NEW c \in Cart,
               NEW d \in Code \union {NoCode}, Start(r, c, d)
        PROVE  SqliteInvariant'
    BY <1>2 DEF Start, SqliteInvariant
  <1>3. ASSUME NEW r \in Request, ReadPayload(r) PROVE SqliteInvariant'
    BY <1>3 DEF ReadPayload, SqliteInvariant
  <1>4. ASSUME NEW r \in Request, CheckStock(r) PROVE SqliteInvariant'
    <2>1. cart[r] \in Cart /\ writer # r
      BY <1>4 DEF CheckStock
    <2>2. \A s \in Request : s # r => fresh'[s] = fresh[s] /\ pc'[s] = pc[s]
      BY <1>4 DEF CheckStock
    <2>3. /\ pc'[r] = "checked" \/ pc'[r] = "refused"
          /\ pc'[r] = "checked" => \A v \in Variant : lines[cart[r]][v] <= stock[v]
      BY <1>4, <2>1, ElementTypes DEF CheckStock, Short
    <2>4. FreshChecksHold'
      BY <1>4, <2>2, <2>3 DEF CheckStock
    <2>5. OnlyTheWriterTakes' /\ TheWriterIsFresh' /\ StockNeverNegative'
      BY <1>4, <2>1, <2>2 DEF CheckStock
    <2> QED
      BY <2>4, <2>5 DEF SqliteInvariant
  <1>5. ASSUME NEW r \in Request, ReadLines(r) PROVE SqliteInvariant'
    BY <1>5, SqliteReadLines
  <1>6. ASSUME NEW r \in Request, NEW v \in Variant, Decrement(r, v)
        PROVE  SqliteInvariant'
    BY <1>6, SqliteDecrement
  <1>7. ASSUME NEW r \in Request, CommitOrder(r) PROVE SqliteInvariant'
    <2>1. fresh[r] /\ pc[r] = "reserve" /\ todo[r] = Nothing
      BY <1>7 DEF CommitOrder, CanWrite
    <2>2. \A s \in Request : /\ s # r => ~fresh'[s]
                            /\ pc'[s] = IF s = r THEN "ok" ELSE pc[s]
      BY <1>7 DEF CommitOrder, OutdateOthers
    <2>3. \A v \in Variant : taken[r][v] <= stock[v]
      BY <2>1
    <2>4. StockNeverNegative'
      BY <1>7, <2>3 DEF CommitOrder
    <2>5. \A s \in Request, v \in Variant : taken'[s][v] = 0
      BY <1>7 DEF CommitOrder, CanWrite
    <2>6. OnlyTheWriterTakes' /\ TheWriterIsFresh'
      BY <1>7, <2>5 DEF CommitOrder
    <2>7. FreshChecksHold'
      BY <2>2
    <2> QED
      BY <2>4, <2>6, <2>7 DEF SqliteInvariant
  <1>8. ASSUME NEW r \in Request, Rollback(r) PROVE SqliteInvariant'
    BY <1>8 DEF Rollback, SqliteInvariant
  <1>9. ASSUME NEW r \in Request, Answer(r) PROVE SqliteInvariant'
    BY <1>9 DEF Answer, SqliteInvariant
  <1>10. ASSUME NEW c \in Cart, NEW v \in Variant, NEW q \in 0 .. MaxQty,
                EditLine(c, v, q)
         PROVE  SqliteInvariant'
    BY <1>10 DEF EditLine, WriterIdle, OutdateOthers, SqliteInvariant
  <1>11. ASSUME NEW v \in Variant, NEW n \in 0 .. MaxStock, SetStock(v, n)
         PROVE  SqliteInvariant'
    <2>1. \A r \in Request : ~fresh'[r]
      BY <1>11 DEF SetStock, OutdateOthers
    <2>2. FreshChecksHold' /\ OnlyTheWriterTakes'
      BY <1>11, <2>1 DEF SetStock
    <2>3. TheWriterIsFresh'
      BY <1>11 DEF SetStock, WriterIdle
    <2>4. StockNeverNegative'
      BY <1>11, BoundAssumption DEF SetStock
    <2> QED
      BY <2>2, <2>3, <2>4 DEF SqliteInvariant
  <1> QED
    BY <1>1, <1>2, <1>3, <1>4, <1>5, <1>6, <1>7, <1>8, <1>9, <1>10, <1>11
    DEF Next, Progress, Quiet, Fail, Busy, DeadlockAbort, SqliteInvariant

\* On SQLite no interleaving of checkouts, cart edits and stock edits sells a
\* unit that is not there.
THEOREM NeverOversold ==
  ASSUME Engine = "sqlite" PROVE Spec => []StockNeverNegative
  <1>1. SqliteInvariant => StockNeverNegative
    BY DEF SqliteInvariant
  <1> QED
    BY <1>1, InitTypeOK, NextTypeOK, SqliteInit, SqliteNext, PTL DEF Spec

\* Why: only the holder of the write lock has decremented anything, and a check
\* holds for as long as the snapshot it was made on is current.
THEOREM SqliteKept == Spec => []SqliteInvariant
  BY InitTypeOK, NextTypeOK, SqliteInit, SqliteNext, PTL DEF Spec
-----------------------------------------------------------------------------
\* On SQLite, checkout implements the abstract shop

LEMMA ShopInitial == Init => AbstractShop!ShopInit
  BY StockAssumption DEF Init, AbstractShop!ShopInit

\* A commit is a sale: the units it takes are on the shelf.
LEMMA CommitIsASale ==
  ASSUME TypeOK, SqliteInvariant, Engine = "sqlite",
         NEW r \in Request, CommitOrder(r)
  PROVE  AbstractShop!ShopNext
  <1> DEFINE o == [cart |-> cart[r], entries |-> entries[r],
                   taken |-> taken[r], code |-> code[r]]
  <1>1. fresh[r] /\ pc[r] = "reserve" /\ todo[r] = Nothing
    BY DEF CommitOrder, CanWrite, SqliteInvariant, TheWriterIsFresh
  <1>2. \A v \in Variant : o.taken[v] <= stock[v]
    BY <1>1, ElementTypes DEF SqliteInvariant, FreshChecksHold, Nothing
  <1>3. orders' = Append(orders, o) /\ o \in Order /\ orders \in Seq(Order)
    BY DEF CommitOrder, TypeOK, Order
  <1>4. orders' # orders /\ orders'[Len(orders')] = o
    BY <1>3, AppendProperties
  <1>5. AbstractShop!Sell(o)
    BY <1>2, <1>3 DEF CommitOrder, ConsumeDiscount, AbstractShop!Sell
  <1> QED
    BY <1>4, <1>5 DEF AbstractShop!ShopNext

LEMMA ShopStep ==
  ASSUME TypeOK, SqliteInvariant, Engine = "sqlite", [Next]_vars
  PROVE  [AbstractShop!ShopNext]_(AbstractShop!shopVars)
  <1>1. CASE UNCHANGED <<stock, usage, cartStatus, orders>>
    BY <1>1 DEF AbstractShop!shopVars
  <1>2. ASSUME NEW r \in Request, CommitOrder(r)
        PROVE  AbstractShop!ShopNext
    BY <1>2, CommitIsASale
  <1>3. ASSUME NEW v \in Variant, NEW n \in 0 .. MaxStock, SetStock(v, n)
        PROVE  AbstractShop!ShopNext
    <2>1. stock' = [stock EXCEPT ![v] = n] /\ n \in Nat
      BY <1>3, BoundAssumption DEF SetStock
    <2>2. stock' \in [Variant -> Int] /\ stock'[v] = n
      BY <2>1 DEF TypeOK
    <2>3. AbstractShop!Supply(v)
      BY <1>3, <2>1, <2>2 DEF SetStock, AbstractShop!Supply
    <2> QED
      BY <2>3 DEF AbstractShop!ShopNext
  <1> QED
    BY <1>1, <1>2, <1>3
    DEF Next, Progress, Quiet, Start, ReadPayload, CheckStock, ReadLines, Decrement,
        Fail, Busy, DeadlockAbort, Rollback, Answer, EditLine, vars, dbVars

\* On SQLite every step of every request is a whole sale, a stock edit of the
\* merchant, or nothing a merchant can see.
THEOREM CheckoutImplementsShop ==
  ASSUME Engine = "sqlite" PROVE Spec => ImplementsShop
  BY InitTypeOK, NextTypeOK, SqliteInit, SqliteNext, ShopInitial, ShopStep, PTL
  DEF Spec, ImplementsShop, AbstractShop!ShopSpec

-----------------------------------------------------------------------------
\* The bounded overrun of a discount code

\* Requests that validated code d and may still spend it.
Pending(d) ==
    {r \in Request : pc[r] \in {"payload"} \union InTransaction /\ code[r] = d}

\* Every use beyond the limit was validated while a use was left, by a thread
\* that is not the one counted last.
UsageInvariant ==
    \A d \in Code : usage[d] + Cardinality(Pending(d))
                      <= Limit[d] + Cardinality(Request) - 1

LEMMA PendingFinite ==
  ASSUME NEW d \in Code
  PROVE  /\ IsFiniteSet(Pending(d))
         /\ Cardinality(Pending(d)) \in Nat
         /\ Cardinality(Pending(d)) <= Cardinality(Request)
         /\ Cardinality(Request) \in Nat
  <1>1. Pending(d) \subseteq Request
    BY DEF Pending
  <1> QED
    BY <1>1, RequestAssumption, FS_Subset, FS_CardinalityType

LEMMA RequestCount == Cardinality(Request) \in Nat /\ Cardinality(Request) >= 1
  BY RequestAssumption, FS_CardinalityType, FS_EmptySet

\* A step that adds nobody to the pending requests keeps the bound.
LEMMA NoNewPending ==
  ASSUME TypeOK, TypeOK', UsageInvariant, usage' = usage,
         \A d \in Code : Pending(d)' \subseteq Pending(d)
  PROVE  UsageInvariant'
  <1> SUFFICES ASSUME NEW d \in Code
               PROVE  usage[d] + Cardinality(Pending(d)')
                        <= Limit[d] + Cardinality(Request) - 1
    BY DEF UsageInvariant
  <1>1. Cardinality(Pending(d)') \in Nat
        /\ Cardinality(Pending(d)') <= Cardinality(Pending(d))
    BY PendingFinite, FS_Subset, FS_CardinalityType
  <1> QED
    BY <1>1, PendingFinite, CodeAssumption DEF UsageInvariant, TypeOK

LEMMA UsageInit == Init => UsageInvariant
  <1> SUFFICES ASSUME Init, NEW d \in Code
               PROVE  usage[d] + Cardinality(Pending(d))
                        <= Limit[d] + Cardinality(Request) - 1
    BY DEF UsageInvariant
  <1>1. Pending(d) = {}
    BY DEF Init, Pending, InTransaction
  <1>2. Cardinality(Pending(d)) = 0 /\ usage[d] = 0 /\ Limit[d] \in Nat
    BY <1>1, FS_EmptySet, CodeAssumption DEF Init
  <1> QED
    BY <1>2, RequestCount

LEMMA UsageNext ==
  ASSUME TypeOK, TypeOK', UsageInvariant, [Next]_vars
  PROVE  UsageInvariant'
  <1>1. ASSUME NEW r \in Request, ReadPayload(r) PROVE UsageInvariant'
    <2> SUFFICES ASSUME NEW d \in Code
                 PROVE  usage'[d] + Cardinality(Pending(d)')
                          <= Limit[d] + Cardinality(Request) - 1
      BY DEF UsageInvariant
    <2>1. usage' = usage /\ pc[r] = "cart"
      BY <1>1 DEF ReadPayload, dbVars
    <2>2. CASE code'[r] = d
      <3>1. usage[d] < Limit[d]
        BY <1>1, <2>2, CodeAssumption DEF ReadPayload, NotExhausted, TypeOK
      <3>2. Pending(d)' \subseteq Request
        BY DEF Pending
      <3>3. Cardinality(Pending(d)') \in Nat
            /\ Cardinality(Pending(d)') <= Cardinality(Request)
        BY <3>2, RequestAssumption, FS_Subset, FS_CardinalityType
      <3> QED
        BY <2>1, <3>1, <3>3, RequestCount, CodeAssumption DEF TypeOK
    <2>3. CASE code'[r] # d
      <3>1. Pending(d)' \subseteq Pending(d)
        BY <1>1, <2>3 DEF ReadPayload, TypeOK, Pending, InTransaction
      <3>2. Cardinality(Pending(d)') \in Nat
            /\ Cardinality(Pending(d)') <= Cardinality(Pending(d))
        BY <3>1, PendingFinite, FS_Subset, FS_CardinalityType
      <3> QED
        BY <2>1, <3>2, PendingFinite, CodeAssumption DEF UsageInvariant, TypeOK
    <2> QED
      BY <2>2, <2>3
  <1>2. ASSUME NEW r \in Request, CommitOrder(r) PROVE UsageInvariant'
    <2> SUFFICES ASSUME NEW d \in Code
                 PROVE  usage'[d] + Cardinality(Pending(d)')
                          <= Limit[d] + Cardinality(Request) - 1
      BY DEF UsageInvariant
    <2>1. Pending(d)' = Pending(d) \ {r}
      BY <1>2 DEF CommitOrder, TypeOK, Pending, InTransaction
    <2>2. CASE code[r] = d
      <3>1. r \in Pending(d)
        BY <1>2, <2>2 DEF CommitOrder, Pending, InTransaction
      <3>2. Cardinality(Pending(d)') = Cardinality(Pending(d)) - 1
        BY <2>1, <3>1, PendingFinite, FS_RemoveElement
      <3>3. usage'[d] = usage[d] + 1
        BY <1>2, <2>2, CodeAssumption DEF CommitOrder, ConsumeDiscount, TypeOK
      <3> QED
        BY <3>2, <3>3, PendingFinite, CodeAssumption DEF UsageInvariant, TypeOK
    <2>3. CASE code[r] # d
      <3>1. usage'[d] = usage[d]
        BY <1>2, <2>3 DEF CommitOrder, ConsumeDiscount, TypeOK
      <3>2. Cardinality(Pending(d)') \in Nat
            /\ Cardinality(Pending(d)') <= Cardinality(Pending(d))
        BY <2>1, PendingFinite, FS_Subset, FS_CardinalityType
      <3> QED
        BY <3>1, <3>2, PendingFinite, CodeAssumption DEF UsageInvariant, TypeOK
    <2> QED
      BY <2>2, <2>3
  <1>3. CASE usage' = usage /\ \A d \in Code : Pending(d)' \subseteq Pending(d)
    BY <1>3, NoNewPending
  <1>4. CASE UNCHANGED <<usage, code, pc>>
    BY <1>3, <1>4 DEF Pending
  <1>5. ASSUME NEW r \in Request, NEW c \in Cart,
               NEW d \in Code \union {NoCode}, Start(r, c, d)
        PROVE  UsageInvariant'
    <2>1. usage' = usage /\ pc' = [pc EXCEPT ![r] = "cart"] /\ code' = [code EXCEPT ![r] = d]
      BY <1>5 DEF Start, dbVars
    <2> QED
      BY <1>3, <2>1 DEF Pending, InTransaction, TypeOK
  <1>6. ASSUME NEW r \in Request, CheckStock(r) \/ ReadLines(r) \/ Rollback(r)
        PROVE  UsageInvariant'
    <2>1. usage' = usage /\ code' = code /\ \A s \in Request : s # r => pc'[s] = pc[s]
      BY <1>6 DEF CheckStock, ReadLines, Rollback, dbVars, reqVars, TypeOK
    <2>2. pc'[r] = "refused" \/ pc[r] \in {"payload"} \union InTransaction
      BY <1>6 DEF CheckStock, ReadLines, Rollback, TypeOK, InTransaction
    <2> QED
      BY <1>3, <2>1, <2>2 DEF Pending, InTransaction
  <1>7. ASSUME NEW r \in Request, Answer(r) PROVE UsageInvariant'
    <2>1. usage' = usage /\ pc' = [pc EXCEPT ![r] = "idle"] /\ code' = [code EXCEPT ![r] = NoCode]
      BY <1>7 DEF Answer, dbVars
    <2> QED
      BY <1>3, <2>1 DEF Pending, InTransaction, TypeOK
  <1> QED
    BY <1>1, <1>2, <1>4, <1>5, <1>6, <1>7
    DEF Next, Progress, Quiet, Decrement, Fail, Busy, DeadlockAbort, EditLine, SetStock,
        vars, dbVars, reqVars

\* On either engine a code is overspent by at most one use per other thread.
THEOREM OverrunBounded == Spec => []UsageOverrunBounded
  <1>1. TypeOK /\ UsageInvariant => UsageOverrunBounded
    BY PendingFinite, CodeAssumption DEF UsageInvariant, UsageOverrunBounded, TypeOK
  <1> QED
    BY <1>1, InitTypeOK, NextTypeOK, UsageInit, UsageNext, PTL DEF Spec
-----------------------------------------------------------------------------
\* All or nothing: the commit appends the order, counts its code's use and spends
\* its cart in one step, and no other step does any of the three.

LEMMA OrderAppended ==
  ASSUME TypeOK, NEW r \in Request, CommitOrder(r)
  PROVE  /\ DOMAIN orders' = DOMAIN orders \union {Len(orders) + 1}
         /\ Len(orders) + 1 \notin DOMAIN orders
         /\ \A i \in DOMAIN orders : orders'[i] = orders[i]
         /\ orders'[Len(orders) + 1].cart = cart[r]
         /\ orders'[Len(orders) + 1].code = code[r]
  <1> DEFINE o == [cart |-> cart[r], entries |-> entries[r], taken |-> taken[r],
                   code |-> code[r]]
  <1>1. orders' = Append(orders, o)
    BY DEF CommitOrder
  <1>2. o \in Order /\ orders \in Seq(Order)
    BY ElementTypes DEF TypeOK, Order
  <1>3. o.cart = cart[r] /\ o.code = code[r]
    OBVIOUS
  <1> HIDE DEF o
  <1> QED
    BY <1>1, <1>2, <1>3

LEMMA OrdersFinite ==
  ASSUME TypeOK, NEW d \in Code
  PROVE  /\ IsFiniteSet({i \in DOMAIN orders : orders[i].code = d})
         /\ OrdersWith(d) \in Nat
  <1>1. DOMAIN orders = 1 .. Len(orders) /\ Len(orders) \in Nat
    BY DEF TypeOK
  <1>2. IsFiniteSet(1 .. Len(orders))
    BY <1>1, FS_Interval
  <1>3. IsFiniteSet({i \in DOMAIN orders : orders[i].code = d})
    BY <1>1, <1>2, FS_Subset
  <1> QED
    BY <1>3, FS_CardinalityType DEF OrdersWith

LEMMA CommitAllOrNothing ==
  ASSUME TypeOK, AllOrNothing, NEW r \in Request, CommitOrder(r)
  PROVE  AllOrNothing'
  <1> DEFINE n == Len(orders) + 1
             With(d) == {i \in DOMAIN orders : orders[i].code = d}
  <1>1. ASSUME NEW d \in Code PROVE usage'[d] = OrdersWith(d)'
    <2>1. OrdersWith(d)' = Cardinality({i \in DOMAIN orders' : orders'[i].code = d})
      BY DEF OrdersWith
    <2>2. IsFiniteSet(With(d)) /\ n \notin With(d)
      BY OrdersFinite, OrderAppended
    <2>3. usage[d] = Cardinality(With(d))
      BY DEF AllOrNothing, OrdersWith
    <2>4. CASE code[r] = d
      <3>1. {i \in DOMAIN orders' : orders'[i].code = d} = With(d) \union {n}
        BY <2>4, OrderAppended
      <3>2. Cardinality(With(d) \union {n}) = Cardinality(With(d)) + 1
        BY <2>2, FS_AddElement
      <3>3. usage'[d] = usage[d] + 1
        BY <2>4, CodeAssumption DEF CommitOrder, ConsumeDiscount, TypeOK
      <3> QED
        BY <2>1, <2>3, <3>1, <3>2, <3>3
    <2>5. CASE code[r] # d
      <3>1. {i \in DOMAIN orders' : orders'[i].code = d} = With(d)
        BY <2>5, OrderAppended
      <3>2. usage'[d] = usage[d]
        BY <2>5 DEF CommitOrder, ConsumeDiscount, TypeOK
      <3> QED
        BY <2>1, <2>3, <3>1, <3>2
    <2> QED
      BY <2>4, <2>5
  <1>2. ASSUME NEW c \in Cart PROVE cartStatus'[c] = "converted" <=> OrdersOf(c)' # {}
    <2>1. cartStatus'[c] = IF c = cart[r] THEN "converted" ELSE cartStatus[c]
      BY DEF CommitOrder, TypeOK
    <2>2. OrdersOf(c)' = OrdersOf(c) \union (IF c = cart[r] THEN {n} ELSE {})
      BY OrderAppended DEF OrdersOf
    <2> QED
      BY <2>1, <2>2 DEF AllOrNothing
  <1> QED
    BY <1>1, <1>2 DEF AllOrNothing

\* create_order.rb's header, on either engine: an order, its discount use and its
\* spent cart exist together or not at all, whichever step failed.
THEOREM WholeOrders == Spec => []AllOrNothing
  <1>1. Init => AllOrNothing
    <2> SUFFICES ASSUME Init PROVE AllOrNothing
      OBVIOUS
    <2>1. orders = <<>>
      BY DEF Init
    <2>2. \A d \in Code : {i \in DOMAIN orders : orders[i].code = d} = {}
      BY <2>1
    <2>3. \A d \in Code : OrdersWith(d) = 0
      BY <2>2, FS_EmptySet DEF OrdersWith
    <2>4. \A c \in Cart : OrdersOf(c) = {}
      BY <2>1 DEF OrdersOf
    <2> QED
      BY <2>3, <2>4 DEF Init, AllOrNothing
  <1>2. TypeOK /\ AllOrNothing /\ [Next]_vars => AllOrNothing'
    <2> SUFFICES ASSUME TypeOK, AllOrNothing, [Next]_vars PROVE AllOrNothing'
      OBVIOUS
    <2>1. CASE \E r \in Request : CommitOrder(r)
      BY <2>1, CommitAllOrNothing
    <2>2. CASE ~\E r \in Request : CommitOrder(r)
      <3>1. UNCHANGED <<orders, usage, cartStatus>>
        BY <2>2 DEF Next, Progress, Quiet, Start, ReadPayload, CheckStock, ReadLines,
             Decrement, Rollback, Fail, Busy, DeadlockAbort, Answer, EditLine, SetStock,
             vars, dbVars
      <3> QED
        BY <3>1 DEF AllOrNothing, OrdersWith, OrdersOf
    <2> QED
      BY <2>1, <2>2
  <1> QED
    BY <1>1, <1>2, InitTypeOK, NextTypeOK, PTL DEF Spec
-----------------------------------------------------------------------------
\* Every unit is accounted for: a commit moves the units its loop decremented from
\* the stock into its order, and a rollback moves none.

SoldFinite == \A v \in Variant : IsFiniteSet(UnitsSold(v))

\* The units of one more order, all of them new.
LEMMA UnitsOfTheOrder ==
  ASSUME TypeOK, SoldFinite, NEW r \in Request, CommitOrder(r), NEW v \in Variant
  PROVE  /\ IsFiniteSet(UnitsSold(v)')
         /\ Sold(v)' = Sold(v) + taken[r][v]
  <1> DEFINE n == Len(orders) + 1
             New == {n} \X (1 .. taken[r][v])
  <1>1. taken[r][v] \in Nat
    BY ElementTypes
  <1>2. orders'[n].taken = taken[r]
    <2> DEFINE o == [cart |-> cart[r], entries |-> entries[r], taken |-> taken[r],
                     code |-> code[r]]
    <2>1. orders' = Append(orders, o) /\ o \in Order /\ orders \in Seq(Order)
      BY ElementTypes DEF CommitOrder, TypeOK, Order
    <2>2. o.taken = taken[r]
      OBVIOUS
    <2> HIDE DEF o
    <2> QED
      BY <2>1, <2>2
  <1>3. UnitsSold(v)' = UnitsSold(v) \union New
    <2>1. UnitsSold(v)' = UNION {{i} \X (1 .. orders'[i].taken[v]) : i \in DOMAIN orders'}
      BY DEF UnitsSold
    <2>2. {{i} \X (1 .. orders'[i].taken[v]) : i \in DOMAIN orders'}
            = {{i} \X (1 .. orders[i].taken[v]) : i \in DOMAIN orders} \union {New}
      BY <1>2, OrderAppended
    <2> QED
      BY <2>1, <2>2 DEF UnitsSold
  <1>4. UnitsSold(v) \intersect New = {}
    <2>1. n \notin DOMAIN orders
      BY OrderAppended
    <2> QED
      BY <2>1 DEF UnitsSold
  <1>5. IsFiniteSet(New) /\ Cardinality(New) = taken[r][v]
    <2>1. IsFiniteSet({n}) /\ Cardinality({n}) = 1
      BY FS_Singleton
    <2>2. IsFiniteSet(1 .. taken[r][v]) /\ Cardinality(1 .. taken[r][v]) = taken[r][v]
      <3>1. /\ IsFiniteSet(1 .. taken[r][v])
            /\ Cardinality(1 .. taken[r][v])
                 = IF 1 > taken[r][v] THEN 0 ELSE taken[r][v] - 1 + 1
        BY <1>1, FS_Interval
      <3> QED
        BY <1>1, <3>1
    <2>3. IsFiniteSet(New) /\ Cardinality(New) = 1 * taken[r][v]
      BY <2>1, <2>2, FS_Product
    <2> QED
      BY <1>1, <2>3
  <1>6. IsFiniteSet(UnitsSold(v)) /\ Cardinality(UnitsSold(v)) \in Nat
    BY FS_CardinalityType DEF SoldFinite
  <1> HIDE DEF New
  <1>7. /\ IsFiniteSet(UnitsSold(v) \union New)
        /\ Cardinality(UnitsSold(v) \union New)
             = Cardinality(UnitsSold(v)) + Cardinality(New) - Cardinality({})
    BY <1>4, <1>5, <1>6, FS_Union
  <1> QED
    BY <1>1, <1>3, <1>5, <1>6, <1>7, FS_EmptySet DEF Sold

LEMMA UnitsInit == Init => SoldFinite /\ UnitsAccounted
  <1> SUFFICES ASSUME Init, NEW v \in Variant
               PROVE  IsFiniteSet(UnitsSold(v)) /\ stock[v] = supplied[v] - Sold(v)
    BY DEF SoldFinite, UnitsAccounted
  <1>1. UnitsSold(v) = {}
    BY DEF Init, UnitsSold
  <1>2. stock[v] \in Int /\ supplied[v] = stock[v]
    BY StockAssumption DEF Init
  <1> QED
    BY <1>1, <1>2, FS_EmptySet DEF Sold

LEMMA UnitsNext ==
  ASSUME TypeOK, SoldFinite, UnitsAccounted, [Next]_vars
  PROVE  SoldFinite' /\ UnitsAccounted'
  <1>1. \A v \in Variant : Sold(v) \in Nat
    BY FS_CardinalityType DEF SoldFinite, Sold
  <1>2. ASSUME NEW r \in Request, CommitOrder(r)
        PROVE  SoldFinite' /\ UnitsAccounted'
    <2> SUFFICES ASSUME NEW v \in Variant
                 PROVE  IsFiniteSet(UnitsSold(v)') /\ stock'[v] = supplied'[v] - Sold(v)'
      BY DEF SoldFinite, UnitsAccounted
    <2>1. stock'[v] = stock[v] - taken[r][v] /\ supplied' = supplied
      BY <1>2 DEF CommitOrder
    <2>2. stock[v] = supplied[v] - Sold(v)
      BY DEF UnitsAccounted
    <2>3. supplied[v] \in Int /\ taken[r][v] \in Nat
      BY ElementTypes DEF TypeOK
    <2> QED
      BY <1>1, <1>2, <2>1, <2>2, <2>3, UnitsOfTheOrder
  <1>3. ASSUME NEW w \in Variant, NEW n \in 0 .. MaxStock, SetStock(w, n)
        PROVE  SoldFinite' /\ UnitsAccounted'
    <2>1. orders' = orders
      BY <1>3 DEF SetStock
    <2>2. \A v \in Variant : UnitsSold(v)' = UnitsSold(v) /\ Sold(v)' = Sold(v)
      BY <2>1 DEF UnitsSold, Sold
    <2>3. n \in Int
      BY BoundAssumption
    <2>4. \A v \in Variant :
             /\ stock'[v] = IF v = w THEN n ELSE stock[v]
             /\ supplied'[v] = IF v = w THEN supplied[v] + n - stock[v] ELSE supplied[v]
      BY <1>3 DEF SetStock, TypeOK
    <2>5. \A v \in Variant : stock[v] \in Int /\ supplied[v] \in Int
      BY DEF TypeOK
    <2> QED
      BY <1>1, <2>2, <2>3, <2>4, <2>5 DEF SoldFinite, UnitsAccounted
  <1>4. CASE UNCHANGED <<stock, supplied, orders>>
    BY <1>4 DEF SoldFinite, UnitsAccounted, UnitsSold, Sold
  <1> QED
    BY <1>2, <1>3, <1>4
    DEF Next, Progress, Quiet, Start, ReadPayload, CheckStock, ReadLines, Decrement,
        Rollback, Fail, Busy, DeadlockAbort, Answer, EditLine, vars, dbVars

\* On either engine, what is in stock is what was supplied and is in no order, also
\* when transactions run side by side and some of them are rolled back.
THEOREM EveryUnitAccounted == Spec => []UnitsAccounted
  BY InitTypeOK, NextTypeOK, UnitsInit, UnitsNext, PTL DEF Spec

-----------------------------------------------------------------------------
(* Payments *)

\* What Payments starts from has its types.
LEMMA PaymentsInitTypeOK == PaymentsInit => PaymentsTypeOK
  BY AttemptAssumption, FaultAssumption
  DEF PaymentsInit, PaymentsTypeOK, OrderStatus, InFlight, Terminal, Verdict

LEMMA PaymentsNextTypeOK == PaymentsTypeOK /\ [PaymentsNext]_paymentsVars => PaymentsTypeOK'
  <1> SUFFICES ASSUME PaymentsTypeOK, [PaymentsNext]_paymentsVars PROVE PaymentsTypeOK'
    OBVIOUS
  <1> USE OrderAssumption, FaultAssumption
      DEF PaymentsTypeOK, OrderStatus, InFlight, Terminal, Verdict, rows, memory,
          bounds, Goto, Load, Done, Fault, SetAttempt
  <1>1. CASE UNCHANGED paymentsVars
    BY <1>1 DEF paymentsVars
  <1>2. ASSUME NEW w \in Worker, Initiate(w) \/ FinishStart(w) PROVE PaymentsTypeOK'
    BY <1>2 DEF Initiate, FinishStart
  <1>3. ASSUME NEW w \in Worker, Poll(w) PROVE PaymentsTypeOK'
    BY <1>3 DEF Poll, PollAnswer
  <1>4. ASSUME NEW w \in Worker, SettleIgnored(w) \/ SettleFailure(w) PROVE PaymentsTypeOK'
    BY <1>4 DEF SettleIgnored, SettleFailure
  <1>5. ASSUME NEW w \in Worker, SettleSuccess(w) PROVE PaymentsTypeOK'
    BY <1>5 DEF SettleSuccess, MarkPaid
  <1>6. ASSUME NEW w \in Worker, EmitPaid(w) PROVE PaymentsTypeOK'
    BY <1>6 DEF EmitPaid
  <1>7. ASSUME NEW w \in Worker, InitiateFails(w) PROVE PaymentsTypeOK'
    BY <1>7 DEF InitiateFails
  <1>8. ASSUME NEW w \in Worker, PollRaises(w) \/ Crash(w) PROVE PaymentsTypeOK'
    BY <1>8 DEF PollRaises, Crash
  <1>9. ASSUME NEW w \in Worker, NEW a \in Attempt, StartAttempt(w, a) PROVE PaymentsTypeOK'
    BY <1>9 DEF StartAttempt
  <1>10. ASSUME NEW w \in Worker, NEW a \in Attempt, Callback(w, a) PROVE PaymentsTypeOK'
    BY <1>10 DEF Callback, Decided
  <1>11. ASSUME NEW w \in Worker, NEW a \in Attempt, LoadForPoll(w, a) PROVE PaymentsTypeOK'
    BY <1>11 DEF LoadForPoll
  <1>12. ASSUME NEW a \in Attempt, Decide(a) PROVE PaymentsTypeOK'
    BY <1>12 DEF Decide
  <1>13. ASSUME NEW o \in OrderId, NEW s \in OrderStatus, AdminSetStatus(o, s)
         PROVE  PaymentsTypeOK'
    BY <1>13 DEF AdminSetStatus
  <1> QED
    BY <1>1, <1>2, <1>3, <1>4, <1>5, <1>6, <1>7, <1>8, <1>9, <1>10, <1>11,
       <1>12, <1>13
    DEF PaymentsNext, Work, PaymentsQuiet

\* Every variable of the payments keeps its type.
THEOREM PaymentsTypeCorrect == PaymentsSpec => []PaymentsTypeOK
  BY PaymentsInitTypeOK, PaymentsNextTypeOK, PTL DEF PaymentsSpec

-----------------------------------------------------------------------------
\* Only the provider pays.  The verdict a worker carries was the provider's,
\* and the provider never withdraws a success: only the worker that created
\* an attempt asks for its charge, and it asks once.
HeldVerdicts ==
    \A w \in Worker :
        /\ result[w] = "succeeded" => verdict[at[w]] = "succeeded"
        /\ stage[w] \notin {"settle", "emit"} => result[w] = "none"
UnaskedBeforeRow ==
    \A a \in Attempt : attempt[a] = "none" => verdict[a] = "unasked"
OneInitiator ==
    \A w \in Worker : stage[w] = "initiate" =>
        /\ attempt[at[w]] # "none"
        /\ verdict[at[w]] = "unasked"
        /\ \A u \in Worker : stage[u] = "initiate" /\ at[u] = at[w] => u = w
PaymentInvariant ==
    /\ HeldVerdicts
    /\ UnaskedBeforeRow
    /\ OneInitiator
    /\ PaidOnlyByProvider
    /\ SettledTogether

LEMMA PaymentInit == PaymentsInit => PaymentInvariant
  BY AttemptAssumption, OrderAssumption
  DEF PaymentsInit, PaymentInvariant, HeldVerdicts, UnaskedBeforeRow, OneInitiator,
      PaidOnlyByProvider, SettledTogether

\* Where verdicts come from: a step keeps every success.
LEMMA VerdictStands ==
  ASSUME PaymentsTypeOK, OneInitiator, [PaymentsNext]_paymentsVars, NEW a \in Attempt,
         verdict[a] = "succeeded"
  PROVE  verdict'[a] = "succeeded"
  <1> USE DEF rows, memory, bounds
  <1>1. ASSUME NEW w \in Worker, Initiate(w) \/ InitiateFails(w)
        PROVE  verdict'[a] = "succeeded"
    BY <1>1 DEF Initiate, InitiateFails, OneInitiator, PaymentsTypeOK
  <1>2. ASSUME NEW b \in Attempt, Decide(b) PROVE verdict'[a] = "succeeded"
    BY <1>2 DEF Decide, PaymentsTypeOK
  <1>3. CASE UNCHANGED verdict
    BY <1>3
  <1> QED
    BY <1>1, <1>2, <1>3
    DEF PaymentsNext, Work, PaymentsQuiet, paymentsVars, FinishStart, Poll, SettleIgnored, SettleFailure,
        SettleSuccess, EmitPaid, PollRaises, Crash, StartAttempt, Callback,
        LoadForPoll, AdminSetStatus

\* A worker takes a verdict to settle only from the provider.
LEMMA HeldNext ==
  ASSUME PaymentsTypeOK, PaymentInvariant, [PaymentsNext]_paymentsVars PROVE HeldVerdicts'
  <1> SUFFICES ASSUME NEW u \in Worker
               PROVE  /\ result'[u] = "succeeded" => verdict'[at'[u]] = "succeeded"
                      /\ stage'[u] \notin {"settle", "emit"} => result'[u] = "none"
    BY DEF HeldVerdicts
  <1> DEFINE Held == /\ result'[u] = "succeeded" => verdict'[at'[u]] = "succeeded"
                     /\ stage'[u] \notin {"settle", "emit"} => result'[u] = "none"
  <1>0. HeldVerdicts /\ OneInitiator /\ at[u] \in Attempt
    BY DEF PaymentInvariant, PaymentsTypeOK
  <1>1. CASE result'[u] = result[u] /\ at'[u] = at[u]
             /\ (stage'[u] \in {"settle", "emit"} \/ stage'[u] = stage[u] \/ result[u] = "none")
    BY <1>0, <1>1, VerdictStands DEF HeldVerdicts
  <1>2. CASE result'[u] = "none"
    BY <1>2
  <1> USE DEF rows, memory, bounds, Done, Load, Goto, PaymentsTypeOK
  <1>3. CASE UNCHANGED <<stage, memory>>
    BY <1>1, <1>3
  <1>4. ASSUME NEW w \in Worker, Poll(w) PROVE Held
    BY <1>1, <1>2, <1>4 DEF Poll, PollAnswer
  <1>5. ASSUME NEW w \in Worker, NEW a \in Attempt, Callback(w, a) PROVE Held
    <2>1. CASE u = w
      BY <1>5, <2>1 DEF Callback
    <2>2. CASE u # w
      BY <1>1, <1>5, <2>2 DEF Callback
    <2> QED
      BY <2>1, <2>2
  <1>6. ASSUME NEW w \in Worker, NEW a \in Attempt,
               StartAttempt(w, a) \/ LoadForPoll(w, a)
        PROVE  Held
    <2>1. stage[w] = "idle" /\ result' = result
      BY <1>6 DEF StartAttempt, LoadForPoll
    <2>2. CASE u = w
      BY <1>0, <1>2, <2>1, <2>2 DEF HeldVerdicts
    <2>3. CASE u # w
      BY <1>1, <1>6, <2>3 DEF StartAttempt, LoadForPoll
    <2> QED
      BY <2>2, <2>3
  <1>7. ASSUME NEW w \in Worker, Initiate(w) \/ InitiateFails(w) PROVE Held
    <2>1. stage[w] = "initiate" /\ memory' = memory
      BY <1>7 DEF Initiate, InitiateFails
    <2>2. CASE u = w
      BY <1>0, <1>2, <2>1, <2>2 DEF HeldVerdicts
    <2>3. CASE u # w
      BY <1>1, <1>7, <2>3 DEF Initiate, InitiateFails
    <2> QED
      BY <2>2, <2>3
  <1>8. ASSUME NEW w \in Worker, SettleSuccess(w) PROVE Held
    BY <1>1, <1>8 DEF SettleSuccess
  <1>9. ASSUME NEW w \in Worker,
               \/ FinishStart(w) \/ SettleIgnored(w) \/ SettleFailure(w)
               \/ EmitPaid(w) \/ PollRaises(w) \/ Crash(w)
        PROVE  Held
    <2>1. Done(w)
      BY <1>9 DEF FinishStart, SettleIgnored, SettleFailure, EmitPaid, PollRaises, Crash
    <2>2. CASE u = w
      BY <1>2, <2>1, <2>2
    <2>3. CASE u # w
      BY <1>1, <2>1, <2>3
    <2> QED
      BY <2>2, <2>3
  <1> QED
    BY <1>3, <1>4, <1>5, <1>6, <1>7, <1>8, <1>9
    DEF PaymentsNext, Work, PaymentsQuiet, paymentsVars, Decide, AdminSetStatus

\* Asking for the charge of the one's own row leaves the others' as they are.
LEMMA ChargeAskedOnce ==
  ASSUME PaymentsTypeOK, UnaskedBeforeRow, OneInitiator,
         NEW w \in Worker, Initiate(w) \/ InitiateFails(w)
  PROVE  UnaskedBeforeRow' /\ OneInitiator'
  <1>1. stage[w] = "initiate" /\ attempt' = attempt /\ at' = at
    BY DEF Initiate, InitiateFails, rows, memory
  <1>2. \A a \in Attempt : a # at[w] => verdict'[a] = verdict[a]
    BY DEF Initiate, InitiateFails, PaymentsTypeOK
  <1>3. \A u \in Worker : stage'[u] = "initiate" => u # w /\ stage[u] = "initiate"
    BY DEF Initiate, InitiateFails, Goto, PaymentsTypeOK
  <1>4. \A u \in Worker : at[u] \in Attempt
    BY DEF PaymentsTypeOK
  <1>5. attempt[at[w]] # "none"
    BY <1>1 DEF OneInitiator
  <1>6. UnaskedBeforeRow'
    BY <1>1, <1>2, <1>5 DEF UnaskedBeforeRow
  <1>7. OneInitiator'
    BY <1>1, <1>2, <1>3, <1>4 DEF OneInitiator
  <1> QED
    BY <1>6, <1>7

\* A new row is asked for by the worker that wrote it and by no other.
LEMMA NewRowHasOneInitiator ==
  ASSUME PaymentsTypeOK, UnaskedBeforeRow, OneInitiator,
         NEW w \in Worker, NEW a \in Attempt, StartAttempt(w, a)
  PROVE  UnaskedBeforeRow' /\ OneInitiator'
  <1>1. attempt[a] = "none" /\ verdict' = verdict
    BY DEF StartAttempt
  <1>2. \A b \in Attempt : attempt'[b] = IF b = a THEN "pending" ELSE attempt[b]
    BY DEF StartAttempt, SetAttempt, PaymentsTypeOK
  <1>3. at'[w] = a
    BY DEF StartAttempt, PaymentsTypeOK
  <1>4. \A u \in Worker : u # w => stage'[u] = stage[u] /\ at'[u] = at[u]
    BY DEF StartAttempt, Goto, PaymentsTypeOK
  <1>5. \A u \in Worker : at[u] \in Attempt
    BY DEF PaymentsTypeOK
  <1>6. verdict[a] = "unasked"
    BY <1>1 DEF UnaskedBeforeRow
  <1>7. \A u \in Worker : u # w /\ stage'[u] = "initiate" => stage[u] = "initiate" /\ at[u] # a
    BY <1>1, <1>4 DEF OneInitiator
  <1>8. UnaskedBeforeRow'
    BY <1>1, <1>2 DEF UnaskedBeforeRow
  <1>9. OneInitiator'
    <2> SUFFICES ASSUME NEW u \in Worker, stage'[u] = "initiate"
                 PROVE  /\ attempt'[at'[u]] # "none"
                        /\ verdict'[at'[u]] = "unasked"
                        /\ \A x \in Worker :
                              stage'[x] = "initiate" /\ at'[x] = at'[u] => x = u
      BY DEF OneInitiator
    <2>1. CASE u = w
      BY <1>1, <1>2, <1>3, <1>4, <1>6, <1>7, <2>1
    <2>2. CASE u # w
      BY <1>1, <1>2, <1>3, <1>4, <1>5, <1>7, <2>2 DEF OneInitiator
    <2> QED
      BY <2>1, <2>2
  <1> QED
    BY <1>8, <1>9

\* A row exists before its charge is asked for, and one worker asks.
LEMMA InitiatorNext ==
  ASSUME PaymentsTypeOK, PaymentInvariant, [PaymentsNext]_paymentsVars
  PROVE  UnaskedBeforeRow' /\ OneInitiator'
  <1> USE DEF rows, memory, bounds, Done, Load, Goto, SetAttempt, PaymentsTypeOK,
              UnaskedBeforeRow, OneInitiator, InFlight
  <1>0. UnaskedBeforeRow /\ OneInitiator
    BY DEF PaymentInvariant
  <1>1. CASE UNCHANGED paymentsVars
    BY <1>0, <1>1 DEF paymentsVars
  <1>2. ASSUME NEW w \in Worker, Initiate(w) \/ InitiateFails(w)
        PROVE  UnaskedBeforeRow' /\ OneInitiator'
    BY <1>0, <1>2, ChargeAskedOnce
  <1>3. ASSUME NEW w \in Worker, NEW a \in Attempt, StartAttempt(w, a)
        PROVE  UnaskedBeforeRow' /\ OneInitiator'
    BY <1>0, <1>3, NewRowHasOneInitiator
  <1>4. ASSUME NEW a \in Attempt, Decide(a)
        PROVE  UnaskedBeforeRow' /\ OneInitiator'
    BY <1>0, <1>4 DEF Decide
  <1>5. ASSUME verdict' = verdict,
               \A a \in Attempt : attempt'[a] = "none" => attempt[a] = "none",
               \A u \in Worker : stage'[u] = "initiate" => stage[u] = "initiate" /\ at'[u] = at[u]
        PROVE  UnaskedBeforeRow' /\ OneInitiator'
    BY <1>0, <1>5
  <1>6. ASSUME NEW w \in Worker,
               \/ FinishStart(w) \/ SettleIgnored(w) \/ SettleFailure(w)
               \/ SettleSuccess(w) \/ EmitPaid(w) \/ PollRaises(w) \/ Crash(w)
        PROVE  UnaskedBeforeRow' /\ OneInitiator'
    <2>1. verdict' = verdict
      BY <1>6 DEF FinishStart, SettleIgnored, SettleFailure, SettleSuccess, EmitPaid,
                  PollRaises, Crash
    <2>2. \A u \in Worker : stage'[u] = "initiate" => stage[u] = "initiate" /\ at'[u] = at[u]
      BY <1>6 DEF FinishStart, SettleIgnored, SettleFailure, SettleSuccess, EmitPaid,
                  PollRaises, Crash
    <2>3. \A a \in Attempt : attempt'[a] = "none" => attempt[a] = "none"
      BY <1>6 DEF FinishStart, SettleIgnored, SettleFailure, SettleSuccess, EmitPaid,
                  PollRaises, Crash
    <2> QED
      BY <1>5, <2>1, <2>2, <2>3
  <1>7. ASSUME NEW w \in Worker, Poll(w)
        PROVE  UnaskedBeforeRow' /\ OneInitiator'
    BY <1>5, <1>7 DEF Poll
  <1>8. ASSUME NEW w \in Worker, NEW a \in Attempt, Callback(w, a) \/ LoadForPoll(w, a)
        PROVE  UnaskedBeforeRow' /\ OneInitiator'
    BY <1>5, <1>8 DEF Callback, LoadForPoll
  <1>9. ASSUME NEW o \in OrderId, NEW st \in OrderStatus, AdminSetStatus(o, st)
        PROVE  UnaskedBeforeRow' /\ OneInitiator'
    BY <1>5, <1>9 DEF AdminSetStatus
  <1> QED
    BY <1>1, <1>2, <1>3, <1>4, <1>6, <1>7, <1>8, <1>9 DEF PaymentsNext, Work, PaymentsQuiet

\* What an order's status and an attempt's success rest on.
LEMMA PaidNext ==
  ASSUME PaymentsTypeOK, PaymentInvariant, [PaymentsNext]_paymentsVars
  PROVE  PaidOnlyByProvider' /\ SettledTogether'
  <1> USE OrderAssumption DEF rows, memory, bounds, PaymentsTypeOK
  <1>0. HeldVerdicts /\ PaidOnlyByProvider /\ SettledTogether /\ OneInitiator
    BY DEF PaymentInvariant
  <1>1. ASSUME UNCHANGED <<order, byHand>>,
               \A a \in Attempt : attempt'[a] = "succeeded" => attempt[a] = "succeeded"
        PROVE  PaidOnlyByProvider' /\ SettledTogether'
    <2>1. PaidOnlyByProvider'
      BY <1>0, <1>1, VerdictStands DEF PaidOnlyByProvider
    <2>2. SettledTogether'
      BY <1>0, <1>1 DEF SettledTogether
    <2> QED
      BY <2>1, <2>2
  <1>2. CASE UNCHANGED <<rows, byHand>>
    BY <1>1, <1>2
  <1>3. ASSUME NEW w \in Worker, SettleSuccess(w)
        PROVE  PaidOnlyByProvider' /\ SettledTogether'
    <2>1. verdict[at[w]] = "succeeded" /\ verdict' = verdict /\ byHand' = byHand
      BY <1>0, <1>3 DEF SettleSuccess, HeldVerdicts
    <2>2. /\ order' = [order EXCEPT ![OrderOf[at[w]]] = "paid"]
          /\ attempt' = [attempt EXCEPT ![at[w]] = "succeeded"]
      BY <1>3 DEF SettleSuccess, MarkPaid, SetAttempt
    <2>3. PaidOnlyByProvider'
      BY <1>0, <2>1, <2>2 DEF PaidOnlyByProvider
    <2>4. SettledTogether'
      BY <1>0, <2>1, <2>2 DEF SettledTogether
    <2> QED
      BY <2>3, <2>4
  <1>4. ASSUME NEW w \in Worker, NEW a \in Attempt, StartAttempt(w, a)
        PROVE  PaidOnlyByProvider' /\ SettledTogether'
    BY <1>1, <1>4 DEF StartAttempt, SetAttempt
  <1>5. ASSUME NEW w \in Worker, FinishStart(w) \/ SettleFailure(w)
        PROVE  PaidOnlyByProvider' /\ SettledTogether'
    BY <1>1, <1>5 DEF FinishStart, SettleFailure, SetAttempt
  <1>6. ASSUME NEW o \in OrderId, NEW st \in OrderStatus, AdminSetStatus(o, st)
        PROVE  PaidOnlyByProvider' /\ SettledTogether'
    <2>1. /\ order' = [order EXCEPT ![o] = st] /\ byHand' = [byHand EXCEPT ![o] = TRUE]
          /\ attempt' = attempt /\ verdict' = verdict
      BY <1>6 DEF AdminSetStatus
    <2>2. PaidOnlyByProvider'
      BY <1>0, <2>1 DEF PaidOnlyByProvider
    <2>3. SettledTogether'
      BY <1>0, <2>1 DEF SettledTogether
    <2> QED
      BY <2>2, <2>3
  <1> QED
    BY <1>2, <1>3, <1>4, <1>5, <1>6
    DEF PaymentsNext, Work, PaymentsQuiet, paymentsVars, Initiate, Poll, SettleIgnored, EmitPaid, InitiateFails,
        PollRaises, Crash, Callback, LoadForPoll, Decide

LEMMA PaymentAlways == PaymentsSpec => []PaymentInvariant
  <1>1. PaymentsTypeOK /\ PaymentInvariant /\ [PaymentsNext]_paymentsVars => PaymentInvariant'
    BY HeldNext, InitiatorNext, PaidNext DEF PaymentInvariant
  <1> QED
    BY <1>1, PaymentsInitTypeOK, PaymentsNextTypeOK, PaymentInit, PTL DEF PaymentsSpec

\* However callbacks, polls, crashes and administrators interleave, an order
\* that nobody marked by hand is paid only when the provider says so.
THEOREM OnlyTheProviderPays == PaymentsSpec => []PaidOnlyByProvider
  <1>1. PaymentInvariant => PaidOnlyByProvider
    BY DEF PaymentInvariant
  <1> QED
    BY <1>1, PaymentAlways, PTL

\* A crash cannot separate a succeeded attempt from its paid order.
THEOREM AttemptAndOrderTogether == PaymentsSpec => []SettledTogether
  <1>1. PaymentInvariant => SettledTogether
    BY DEF PaymentInvariant
  <1> QED
    BY <1>1, PaymentAlways, PTL
=============================================================================
