----------------------- MODULE CartsAndJobs_proofs -------------------------
(***************************************************************************)
(* What TLAPS proves of two small components that share nothing.           *)
(*                                                                         *)
(* CartVerbs, for any requests in flight, variants, stock and bounds: the  *)
(* types; that the visitor has one cart and never meets an unhandled       *)
(* exception; and that the cart and the code are what the carried-out      *)
(* verbs make them, as long as none of the known ways to be wrong is taken.*)
(*                                                                         *)
(* Jobs, for any number of processes and jobs, any period and any time to  *)
(* live: a pass that is not older than its lease is alone.                 *)
(***************************************************************************)
EXTENDS CartVerbs, Jobs, FiniteSetTheorems, TLAPS

-----------------------------------------------------------------------------
\* Types, and what a request holds at each step of its handler

\* It made a cart; it set the code; it placed the order.
Maker(r) ==
    /\ Op(r) = "add"
    /\ sent[r].key = NoKey
    /\ sess[r].key \in Key
    /\ sess[r].code = sent[r].code
Setter(r) == Op(r) \in {"clear", "apply", "unapply"} /\ sess[r].key = sent[r].key
Buyer(r)  == Op(r) = "order" /\ sess[r] = NoSession /\ sent[r].key \in Key

Held(r) ==
    /\ pc[r] = "idle" => sent[r] = NoSession
    /\ pc[r] \in {"idle", "read", "cart"} => sess[r] = sent[r]
    /\ pc[r] = "cart" => Op(r) = "add"
    /\ pc[r] = "write" =>
          /\ at[r] = sess[r].key /\ at[r] \in Key /\ cart[at[r]] # "none"
          /\ Op(r) \in LineVerb \union {"order"}
          /\ sess[r] = sent[r] \/ Maker(r)
    /\ pc[r] = "answer" => sess[r] = sent[r] \/ Maker(r) \/ Setter(r) \/ Buyer(r)
HeldByStep == \A r \in Request : Held(r)

\* What a request is about to write fits the stock it was checked against.
Fits(r) ==
    pc[r] \in {"cart", "write"} /\ Op(r) \in LineVerb =>
        seen[r] = Gone \/ NewQuantity(r, seen[r]) \in 0 .. Stock
QuantityFits == \A r \in Request : Fits(r)

UndrawnEmpty == \A k \in Key : cart[k] = "none" => line[k] = Empty

BaseInv == TypeOK /\ HeldByStep /\ QuantityFits /\ UndrawnEmpty

LEMMA NoVerbIsVerb == NoVerb \in Verb /\ NoVerb.op = "clear"
<1>1. PICK v \in Variant : TRUE
  BY VariantAssumption
<1>2. [op |-> "clear", variant |-> v, n |-> 0] \in Verb
  BY DEF Verb
<1> DEFINE e == [op |-> "clear", variant |-> v, n |-> 0]
<1>3. e \in Verb /\ e.op = "clear"
  BY <1>2
<1> QED
  BY <1>3 DEF NoVerb

LEMMA VerbFields ==
    ASSUME NEW v \in Verb
    PROVE  /\ v.variant \in Variant
           /\ v.op \in LineVerb \union {"clear", "apply", "unapply", "order"}
           /\ v.n \in {-1, 0, 1, Stock}
           /\ v.op = "add" => v.n = 1
           /\ v.op = "step" => v.n \in {-1, 1}
           /\ v.op = "set" => v.n \in {0, Stock}
           /\ v.op = "remove" => v.n = 0
BY DEF Verb, LineVerb

LEMMA SessionsEqual ==
    ASSUME NEW s \in Session, NEW t \in Session, s.key = t.key, s.code = t.code
    PROVE  s = t
BY DEF Session

LEMMA SessionType ==
    /\ NoSession \in Session
    /\ NoSession.key = NoKey
    /\ NoSession.code = FALSE
    /\ \A s \in Session : s.key \in Key \union {NoKey} /\ s.code \in BOOLEAN
BY DEF Session, NoSession

LEMMA SpentSession == ASSUME NEW s \in Session PROVE AllSpent(s) = NoSession
<1>1. AllSpent(s) \in Session
  BY DEF Session, AllSpent
<1>2. AllSpent(s).key = NoKey
  BY DEF Session, AllSpent
<1>3. AllSpent(s).code = FALSE
  BY DEF Session, AllSpent
<1> QED
  BY <1>1, <1>2, <1>3, SessionType, SessionsEqual

LEMMA InitBase == Init => BaseInv
<1> SUFFICES ASSUME Init PROVE BaseInv
  OBVIOUS
<1>1. TypeOK
  <2>1. Empty \in [Variant -> 0 .. Stock] /\ Empty \in [Variant -> Int]
    BY CartBounds DEF Empty
  <2>2. /\ cookie \in Session /\ sent \in [Request -> Session] /\ sess \in [Request -> Session]
        /\ verb \in [Request -> Verb]
    BY NoVerbIsVerb, SessionType DEF Init
  <2>3. line \in [Key -> [Variant -> 0 .. Stock]] /\ wanted \in [Variant -> Int]
    BY <2>1 DEF Init
  <2>4. sends \in 0 .. MaxSends /\ losses \in 0 .. MaxLosses /\ seen \in [Request -> {Gone} \union 0 .. Stock]
    BY CartBounds DEF Init
  <2> QED
    BY <2>2, <2>3, <2>4 DEF Init, TypeOK
<1>2. HeldByStep
  BY DEF Init, HeldByStep, Held
<1>3. QuantityFits
  BY DEF Init, QuantityFits, Fits
<1>4. UndrawnEmpty
  BY DEF Init, UndrawnEmpty
<1> QED
  BY <1>1, <1>2, <1>3, <1>4 DEF BaseInv


\* A request's step leaves the others where they are; at most a line one of
\* them read is deleted.
OthersStay(r) ==
    \A q \in Request \ {r} :
        /\ pc'[q] = pc[q] /\ verb'[q] = verb[q] /\ sent'[q] = sent[q] /\ sess'[q] = sess[q]
        /\ at'[q] = at[q] /\ seen'[q] \in {seen[q], Gone}

CartsStay == \A k \in Key : cart[k] # "none" => cart'[k] # "none"

LEMMA HeldByOthers ==
    ASSUME HeldByStep, QuantityFits, NEW r \in Request, OthersStay(r), CartsStay, Held(r)', Fits(r)'
    PROVE  HeldByStep' /\ QuantityFits'
<1>1. ASSUME NEW q \in Request \ {r} PROVE Held(q)'
  <2>1. /\ pc'[q] = pc[q] /\ verb'[q] = verb[q] /\ sent'[q] = sent[q] /\ sess'[q] = sess[q]
        /\ at'[q] = at[q]
    BY DEF OthersStay
  <2>2. Held(q)
    BY DEF HeldByStep
  <2> QED
    BY <2>1, <2>2 DEF Held, CartsStay, Op, Maker, Setter, Buyer
<1>2. ASSUME NEW q \in Request \ {r} PROVE Fits(q)'
  BY DEF QuantityFits, Fits, OthersStay, Op, NewQuantity
<1> QED
  BY <1>1, <1>2 DEF HeldByStep, QuantityFits

LEMMA DoneForgets ==
    ASSUME TypeOK, NEW r \in Request, Done(r)
    PROVE  /\ pc' \in [Request -> {"idle", "read", "cart", "write", "answer"}]
           /\ verb' \in [Request -> Verb]
           /\ sent' \in [Request -> Session] /\ sess' \in [Request -> Session]
           /\ at' \in [Request -> Key \union {NoKey}]
           /\ seen' \in [Request -> {Gone} \union 0 .. Stock]
           /\ OthersStay(r)
           /\ pc'[r] = "idle" /\ sent'[r] = NoSession /\ sess'[r] = NoSession
           /\ Held(r)' /\ Fits(r)'
<1>1. /\ verb' \in [Request -> Verb]
      /\ pc' \in [Request -> {"idle", "read", "cart", "write", "answer"}]
  BY NoVerbIsVerb DEF Done, Goto, TypeOK
<1>2. sent' \in [Request -> Session] /\ sess' \in [Request -> Session]
  BY SessionType DEF Done, TypeOK
<1>3. at' \in [Request -> Key \union {NoKey}] /\ seen' \in [Request -> {Gone} \union 0 .. Stock]
  BY CartBounds DEF Done, TypeOK
<1>4. OthersStay(r)
  BY DEF Done, Goto, TypeOK, OthersStay
<1>5. pc'[r] = "idle" /\ sent'[r] = NoSession /\ sess'[r] = NoSession
  BY DEF Done, Goto, TypeOK
<1>6. Held(r)' /\ Fits(r)'
  BY <1>5 DEF Held, Fits
<1> QED
  BY <1>1, <1>2, <1>3, <1>4, <1>5, <1>6

LEMMA CurrentCartType ==
    ASSUME TypeOK, NEW s \in Session
    PROVE  /\ CurrentCart(s) \in Key \union {NoKey}
           /\ CurrentCart(s) # NoKey =>
                 CurrentCart(s) = s.key /\ s.key \in Key /\ cart[s.key] = "active"
BY KeyAssumption, SessionType DEF CurrentCart

\* Each of these changes one request, and no row.
LEMMA SendBase ==
    ASSUME BaseInv, NEW r \in Request, NEW v \in Verb, Send(r, v)
    PROVE  BaseInv'
<1> USE DEF BaseInv
<1>1. TypeOK'
  <2>1. known' \subseteq Ways
    BY DEF Send, TypeOK, Admit, If, Ways
  <2>2. sends' \in 0 .. MaxSends
    BY CartBounds DEF Send, TypeOK
  <2> QED
    BY <2>1, <2>2 DEF Send, TypeOK, Goto, tables
<1>2. OthersStay(r)
  BY DEF Send, TypeOK, Goto, OthersStay
<1>3. pc'[r] = "read" /\ sent'[r] = cookie /\ sess'[r] = cookie
  BY DEF Send, TypeOK, Goto
<1>4. Held(r)' /\ Fits(r)'
  BY <1>3 DEF Held, Fits
<1>5. CartsStay /\ UndrawnEmpty'
  BY DEF Send, tables, CartsStay, UndrawnEmpty
<1> QED
  BY <1>1, <1>2, <1>4, <1>5, HeldByOthers

LEMMA EndBase ==
    ASSUME BaseInv, NEW r \in Request,
           Deliver(r) \/ Lose(r) \/ KeyTaken(r) \/ WriteFails(r)
    PROVE  BaseInv'
<1> USE DEF BaseInv
<1>1. Done(r) /\ UNCHANGED tables
  BY DEF Deliver, Lose, KeyTaken, WriteFails, Raise
<1>2. cookie' \in Session
  BY DEF Deliver, Lose, KeyTaken, WriteFails, TypeOK
<1>3. known' \subseteq Ways
  BY DEF Deliver, Lose, KeyTaken, WriteFails, TypeOK, Admit, If, Ways
<1>4. UNCHANGED <<wanted, code, sends>>
  BY DEF Deliver, Lose, KeyTaken, WriteFails, counts
<1>5. broken' \in BOOLEAN
  BY DEF Deliver, Lose, KeyTaken, WriteFails, Raise, TypeOK
<1>6. losses' \in 0 .. MaxLosses
  BY CartBounds DEF Deliver, Lose, KeyTaken, WriteFails, TypeOK, counts
<1>7. TypeOK'
  BY <1>1, <1>2, <1>3, <1>4, <1>5, <1>6, DoneForgets DEF TypeOK, tables
<1>8. CartsStay /\ UndrawnEmpty'
  BY <1>1 DEF tables, CartsStay, UndrawnEmpty
<1> QED
  BY <1>1, <1>7, <1>8, DoneForgets, HeldByOthers

LEMMA ReadForAddBase ==
    ASSUME BaseInv, NEW r \in Request, ReadForAdd(r)
    PROVE  BaseInv'
<1> USE DEF BaseInv
<1>1. Found(r) \in 0 .. Stock /\ verb[r] \in Verb
  BY CurrentCartType, VerbFields, CartBounds DEF Found, TypeOK, Item
<1>2. TypeOK'
  BY <1>1 DEF ReadForAdd, TypeOK, Goto, tables, ghosts, counts
<1>3. OthersStay(r)
  BY DEF ReadForAdd, TypeOK, Goto, OthersStay
<1>4. /\ pc'[r] \in {"answer", "cart"} /\ sent'[r] = sent[r] /\ sess'[r] = sess[r] /\ Op(r)' = "add"
      /\ sess[r] = sent[r]
  BY DEF ReadForAdd, TypeOK, Goto, HeldByStep, Held, Op
<1>5. Held(r)'
  BY <1>4 DEF Held
<1>6. Fits(r)'
  <2>1. CASE NewQuantity(r, Found(r)) > Stock
    BY <2>1 DEF ReadForAdd, TypeOK, Goto, Fits
  <2>2. CASE ~(NewQuantity(r, Found(r)) > Stock)
    <3>1. seen'[r] = Found(r) /\ verb'[r] = verb[r]
      BY <2>2 DEF ReadForAdd, TypeOK
    <3>2. NewQuantity(r, Found(r)) \in 0 .. Stock
      BY <1>1, <2>2, CartBounds, VerbFields DEF NewQuantity, Op, ReadForAdd
    <3> QED
      BY <3>1, <3>2 DEF Fits, NewQuantity, Op
  <2> QED
    BY <2>1, <2>2
<1>7. CartsStay /\ UndrawnEmpty'
  BY DEF ReadForAdd, tables, CartsStay, UndrawnEmpty
<1> QED
  BY <1>2, <1>3, <1>5, <1>6, <1>7, HeldByOthers

LEMMA ReadForLineBase ==
    ASSUME BaseInv, NEW r \in Request, ReadForLine(r)
    PROVE  BaseInv'
<1> USE DEF BaseInv
<1>1. /\ Found(r) \in 0 .. Stock /\ verb[r] \in Verb /\ Op(r) \in LineVerb
      /\ CurrentCart(sess[r]) \in Key \union {NoKey}
  BY CurrentCartType, VerbFields, CartBounds DEF Found, TypeOK, Item, ReadForLine, LineVerb
<1>2. TypeOK'
  BY <1>1 DEF ReadForLine, TypeOK, Goto, tables, ghosts, counts
<1>3. OthersStay(r)
  BY DEF ReadForLine, TypeOK, Goto, OthersStay
<1>4. /\ sent'[r] = sent[r] /\ sess'[r] = sess[r] /\ sess[r] = sent[r]
      /\ Op(r)' = Op(r) /\ verb'[r] = verb[r]
  BY DEF ReadForLine, TypeOK, HeldByStep, Held, Op
<1>5. Held(r)' /\ Fits(r)'
  <2>1. CASE Found(r) = 0 \/ NewQuantity(r, Found(r)) > Stock
    <3>1. pc'[r] = "answer"
      BY <2>1 DEF ReadForLine, TypeOK, Goto
    <3> QED
      BY <3>1, <1>4 DEF Held, Fits
  <2>2. CASE ~(Found(r) = 0 \/ NewQuantity(r, Found(r)) > Stock)
    <3>1. pc'[r] = "write" /\ at'[r] = CurrentCart(sess[r]) /\ seen'[r] = Found(r)
      BY <2>2 DEF ReadForLine, TypeOK, Goto
    <3>2. /\ CurrentCart(sess[r]) = sess[r].key /\ sess[r].key \in Key
          /\ cart[sess[r].key] # "none"
      BY <2>2, CurrentCartType DEF Found, TypeOK
    <3>3. Held(r)'
      BY <3>1, <3>2, <1>1, <1>4 DEF Held, ReadForLine, tables
    <3>4. NewQuantity(r, Found(r)) \in 0 .. Stock
      BY <1>1, <2>2, CartBounds, VerbFields DEF NewQuantity, Op, ReadForLine
    <3>5. Fits(r)'
      BY <3>1, <3>4, <1>4 DEF Fits, NewQuantity, Op
    <3> QED
      BY <3>3, <3>5
  <2> QED
    BY <2>1, <2>2
<1>7. CartsStay /\ UndrawnEmpty'
  BY DEF ReadForLine, tables, CartsStay, UndrawnEmpty
<1> QED
  BY <1>2, <1>3, <1>5, <1>7, HeldByOthers

LEMMA ReadForOrderBase ==
    ASSUME BaseInv, NEW r \in Request, ReadForOrder(r)
    PROVE  BaseInv'
<1> USE DEF BaseInv
<1>1. CurrentCart(sess[r]) \in Key \union {NoKey}
  BY CurrentCartType DEF TypeOK
<1>2. TypeOK'
  BY <1>1 DEF ReadForOrder, TypeOK, Goto, tables, ghosts, counts
<1>3. OthersStay(r)
  BY DEF ReadForOrder, TypeOK, Goto, OthersStay
<1>4. /\ sent'[r] = sent[r] /\ sess'[r] = sess[r] /\ sess[r] = sent[r]
      /\ Op(r)' = "order"
  BY DEF ReadForOrder, TypeOK, HeldByStep, Held, Op
<1>5. \/ pc'[r] = "answer"
      \/ /\ pc'[r] = "write" /\ at'[r] = CurrentCart(sess[r]) /\ CurrentCart(sess[r]) # NoKey
  BY DEF ReadForOrder, TypeOK, Goto
<1>6. Held(r)' /\ Fits(r)'
  <2>1. CASE pc'[r] = "answer"
    BY <2>1, <1>4 DEF Held, Fits
  <2>2. CASE pc'[r] = "write" /\ at'[r] = CurrentCart(sess[r]) /\ CurrentCart(sess[r]) # NoKey
    <3>1. sess[r].key = CurrentCart(sess[r]) /\ sess[r].key \in Key /\ cart[sess[r].key] # "none"
      BY <2>2, CurrentCartType DEF TypeOK
    <3> QED
      BY <2>2, <3>1, <1>4 DEF Held, Fits, LineVerb, ReadForOrder, tables
  <2> QED
    BY <1>5, <2>1, <2>2
<1>7. CartsStay /\ UndrawnEmpty'
  BY DEF ReadForOrder, tables, CartsStay, UndrawnEmpty
<1> QED
  BY <1>2, <1>3, <1>6, <1>7, HeldByOthers

LEMMA FindCartBase ==
    ASSUME BaseInv, NEW r \in Request, FindCart(r)
    PROVE  BaseInv'
<1> USE DEF BaseInv
<1>1. /\ CurrentCart(sess[r]) = sess[r].key /\ sess[r].key \in Key
      /\ cart[sess[r].key] # "none"
  BY CurrentCartType DEF TypeOK, FindCart
<1>2. TypeOK'
  BY <1>1 DEF FindCart, TypeOK, Goto, tables, ghosts, counts
<1>3. OthersStay(r)
  BY DEF FindCart, TypeOK, Goto, OthersStay
<1>4. /\ sent'[r] = sent[r] /\ sess'[r] = sess[r] /\ sess[r] = sent[r] /\ verb'[r] = verb[r]
      /\ Op(r)' = Op(r) /\ Op(r) = "add" /\ pc'[r] = "write" /\ at'[r] = sess[r].key /\ seen'[r] = seen[r]
  BY <1>1 DEF FindCart, TypeOK, HeldByStep, Held, Op, Goto
<1>5. Held(r)'
  BY <1>1, <1>4 DEF Held, LineVerb, FindCart, tables
<1>6. Fits(r)'
  BY <1>4 DEF Fits, QuantityFits, NewQuantity, Op, FindCart
<1>7. CartsStay /\ UndrawnEmpty'
  BY DEF FindCart, tables, CartsStay, UndrawnEmpty
<1> QED
  BY <1>2, <1>3, <1>5, <1>6, <1>7, HeldByOthers

LEMMA MakeCartBase ==
    ASSUME BaseInv, NEW r \in Request, MakeCart(r)
    PROVE  BaseInv'
<1> USE DEF BaseInv
<1>1. PICK k \in Key : /\ cart[k] = "none"
                       /\ cart' = [cart EXCEPT ![k] = "active"]
                       /\ sess' = [sess EXCEPT ![r].key = k]
                       /\ at' = [at EXCEPT ![r] = k]
  BY DEF MakeCart
<1>2. sess' \in [Request -> Session]
  BY <1>1 DEF TypeOK, Session
<1>3. known' \subseteq Ways
  BY DEF MakeCart, TypeOK, Admit, If, Ways
<1>4. TypeOK'
  BY <1>1, <1>2, <1>3 DEF MakeCart, TypeOK, Goto, counts
<1>5. OthersStay(r)
  BY <1>1 DEF MakeCart, TypeOK, Goto, OthersStay
<1>6. /\ sent'[r] = sent[r] /\ sess[r] = sent[r] /\ sess'[r].key = k /\ sess'[r].code = sess[r].code
      /\ Op(r)' = Op(r) /\ Op(r) = "add" /\ pc'[r] = "write" /\ at'[r] = k /\ seen'[r] = seen[r]
      /\ sent[r].key = NoKey /\ verb'[r] = verb[r]
  BY <1>1 DEF MakeCart, TypeOK, HeldByStep, Held, Op, Goto, Session
<1>7. CartsStay /\ UndrawnEmpty' /\ cart'[k] = "active"
  BY <1>1 DEF MakeCart, TypeOK, CartsStay, UndrawnEmpty
<1>8. Held(r)'
  BY <1>6, <1>7 DEF Held, Maker, LineVerb
<1>9. Fits(r)'
  BY <1>6 DEF Fits, QuantityFits, NewQuantity, Op, MakeCart
<1> QED
  BY <1>4, <1>5, <1>7, <1>8, <1>9, HeldByOthers

LEMMA DeletedSeen ==
    ASSUME TypeOK, NEW k, NEW items
    PROVE  /\ Deleted(k, items) \in [Request -> {Gone} \union 0 .. Stock]
           /\ \A q \in Request : Deleted(k, items)[q] \in {seen[q], Gone}
BY DEF Deleted, TypeOK

LEMMA WriteLineBase ==
    ASSUME BaseInv, NEW r \in Request, WriteLine(r)
    PROVE  BaseInv'
<1> USE DEF BaseInv
<1>1. /\ at[r] = sess[r].key /\ at[r] \in Key /\ cart[at[r]] # "none"
      /\ sess[r] = sent[r] \/ Maker(r)
  BY DEF WriteLine, HeldByStep, Held
<1>2. /\ NewQuantity(r, seen[r]) \in 0 .. Stock /\ Item(r) \in Variant
      /\ verb[r].n \in Int
  BY VerbFields, CartBounds DEF WriteLine, QuantityFits, Fits, RowMoved, TypeOK, Item
<1>3. line' \in [Key -> [Variant -> 0 .. Stock]]
  <2>1. [line[at[r]] EXCEPT ![Item(r)] = NewQuantity(r, seen[r])] \in [Variant -> 0 .. Stock]
    BY <1>1, <1>2 DEF TypeOK
  <2>2. line' = [line EXCEPT ![at[r]] = [line[at[r]] EXCEPT ![Item(r)] = NewQuantity(r, seen[r])]]
    BY DEF WriteLine
  <2> QED
    BY <2>1, <2>2, <1>1 DEF TypeOK
<1>4. wanted' \in [Variant -> Int]
  BY <1>2 DEF WriteLine, TypeOK
<1>5. seen' \in [Request -> {Gone} \union 0 .. Stock] /\ \A q \in Request : seen'[q] \in {seen[q], Gone}
  BY DeletedSeen DEF WriteLine, TypeOK
<1>6. known' \subseteq Ways
  BY DEF WriteLine, TypeOK, Admit, If, Ways
<1>7. TypeOK'
  BY <1>3, <1>4, <1>5, <1>6 DEF WriteLine, TypeOK, Goto, counts
<1>8. OthersStay(r)
  BY <1>5 DEF WriteLine, TypeOK, Goto, OthersStay
<1>9. /\ sent'[r] = sent[r] /\ sess'[r] = sess[r] /\ Op(r)' = Op(r) /\ pc'[r] = "answer"
  BY DEF WriteLine, TypeOK, Op, Goto
<1>10. Held(r)' /\ Fits(r)'
  BY <1>1, <1>9 DEF Held, Maker, Fits
<1>11. CartsStay /\ UndrawnEmpty'
  BY <1>1, <1>7 DEF WriteLine, TypeOK, CartsStay, UndrawnEmpty
<1> QED
  BY <1>7, <1>8, <1>10, <1>11, HeldByOthers

LEMMA ClearBase ==
    ASSUME BaseInv, NEW r \in Request, Clear(r)
    PROVE  BaseInv'
<1> USE DEF BaseInv
<1> DEFINE k == CurrentCart(sess[r])
<1>1. k \in Key \union {NoKey}
  BY CurrentCartType DEF TypeOK
<1>2. Empty \in [Variant -> 0 .. Stock] /\ Empty \in [Variant -> Int]
  BY CartBounds DEF Empty
<1>3. line' \in [Key -> [Variant -> 0 .. Stock]]
  BY <1>1, <1>2 DEF Clear, TypeOK
<1>4. sess' \in [Request -> Session]
  BY DEF Clear, TypeOK, Session
<1>5. seen' \in [Request -> {Gone} \union 0 .. Stock] /\ \A q \in Request : seen'[q] \in {seen[q], Gone}
  BY DeletedSeen DEF Clear
<1>6. known' \subseteq Ways
  BY DEF Clear, TypeOK, Admit, If, Ways
<1>7. TypeOK'
  BY <1>2, <1>3, <1>4, <1>5, <1>6 DEF Clear, TypeOK, Goto, counts
<1>8. OthersStay(r)
  BY <1>5 DEF Clear, TypeOK, Goto, OthersStay
<1>9. /\ sent'[r] = sent[r] /\ sess'[r].key = sent[r].key /\ Op(r)' = "clear" /\ pc'[r] = "answer"
  BY DEF Clear, TypeOK, Op, Goto, HeldByStep, Held, Session
<1>10. Held(r)' /\ Fits(r)'
  BY <1>9 DEF Held, Setter, Fits
<1>11. CartsStay /\ UndrawnEmpty'
  BY <1>1 DEF Clear, TypeOK, CartsStay, UndrawnEmpty
<1> QED
  BY <1>7, <1>8, <1>10, <1>11, HeldByOthers

LEMMA SetCodeBase ==
    ASSUME BaseInv, NEW r \in Request, SetCode(r)
    PROVE  BaseInv'
<1> USE DEF BaseInv
<1>1. PICK ok \in BOOLEAN : sess' = [sess EXCEPT ![r].code = ok] /\ code' = ok
  BY DEF SetCode
<1>2. sess' \in [Request -> Session]
  BY <1>1 DEF TypeOK, Session
<1>3. known' \subseteq Ways
  BY DEF SetCode, TypeOK, Admit, If, Ways
<1>4. code' \in BOOLEAN
  BY <1>1
<1>5. TypeOK'
  BY <1>2, <1>3, <1>4 DEF SetCode, TypeOK, Goto, counts, tables
<1>6. OthersStay(r)
  BY <1>1 DEF SetCode, TypeOK, Goto, OthersStay
<1>7. /\ sent'[r] = sent[r] /\ sess'[r].key = sent[r].key /\ pc'[r] = "answer"
      /\ Op(r)' \in {"apply", "unapply"}
  BY <1>1 DEF SetCode, TypeOK, Op, Goto, HeldByStep, Held, Session
<1>8. Held(r)' /\ Fits(r)'
  BY <1>7 DEF Held, Setter, Fits
<1>9. CartsStay /\ UndrawnEmpty'
  BY DEF SetCode, tables, CartsStay, UndrawnEmpty
<1> QED
  BY <1>5, <1>6, <1>8, <1>9, HeldByOthers

LEMMA OrderBase ==
    ASSUME BaseInv, NEW r \in Request, Order(r)
    PROVE  BaseInv'
<1> USE DEF BaseInv
<1>1. /\ at[r] = sess[r].key /\ at[r] \in Key /\ sess[r] = sent[r] /\ sess[r] \in Session
  <2>1. Held(r) /\ pc[r] = "write" /\ Op(r) = "order"
    BY DEF Order, HeldByStep
  <2>2. ~Maker(r)
    BY <2>1 DEF Maker
  <2> QED
    BY <2>1, <2>2 DEF Held, TypeOK
<1>2. AllSpent(sess[r]) = NoSession
  BY <1>1, SpentSession
<1>3. sess' \in [Request -> Session]
  BY <1>2, SessionType DEF Order, TypeOK
<1>4. known' \subseteq Ways
  BY DEF Order, TypeOK, Admit, If, Ways
<1>5. Empty \in [Variant -> Int]
  BY DEF Empty
<1>6. TypeOK'
  BY <1>3, <1>4, <1>5 DEF Order, TypeOK, Goto, counts
<1>7. OthersStay(r)
  BY DEF Order, TypeOK, Goto, OthersStay
<1>8. /\ sent'[r] = sent[r] /\ sess'[r] = NoSession /\ Op(r)' = "order" /\ pc'[r] = "answer"
      /\ sent[r].key \in Key
  BY <1>1, <1>2 DEF Order, TypeOK, Op, Goto
<1>9. Held(r)' /\ Fits(r)'
  BY <1>8 DEF Held, Buyer, Fits
<1>10. CartsStay /\ UndrawnEmpty'
  BY <1>1 DEF Order, TypeOK, CartsStay, UndrawnEmpty
<1> QED
  BY <1>6, <1>7, <1>9, <1>10, HeldByOthers

LEMMA RefuseBase ==
    ASSUME BaseInv, NEW r \in Request, Refuse(r)
    PROVE  BaseInv'
<1> USE DEF BaseInv
<1>1. TypeOK'
  BY DEF Refuse, TypeOK, Goto, tables, ghosts, counts
<1>2. OthersStay(r)
  BY DEF Refuse, TypeOK, Goto, OthersStay
<1>3. sent'[r] = sent[r] /\ sess'[r] = sess[r] /\ pc'[r] = "answer" /\ sess[r] = sent[r]
  BY DEF Refuse, TypeOK, Goto, HeldByStep, Held, Maker
<1>4. Held(r)' /\ Fits(r)'
  BY <1>3 DEF Held, Fits
<1>5. CartsStay /\ UndrawnEmpty'
  BY DEF Refuse, tables, CartsStay, UndrawnEmpty
<1> QED
  BY <1>1, <1>2, <1>4, <1>5, HeldByOthers

LEMMA BaseStep == BaseInv /\ [Next]_vars => BaseInv'
<1> SUFFICES ASSUME BaseInv, [Next]_vars PROVE BaseInv'
  OBVIOUS
<1>1. CASE UNCHANGED vars
  BY <1>1 DEF BaseInv, TypeOK, HeldByStep, Held, QuantityFits, Fits, UndrawnEmpty, Op, Item,
     NewQuantity, Maker, Setter, Buyer, vars, tables, request, ghosts, counts
<1>2. ASSUME NEW r \in Request, NEW v \in Verb, Send(r, v) PROVE BaseInv'
  BY <1>2, SendBase
<1>3. ASSUME NEW r \in Request, Handle(r) PROVE BaseInv'
  BY <1>3, ReadForAddBase, ReadForLineBase, ReadForOrderBase, FindCartBase, MakeCartBase, EndBase,
     WriteLineBase, ClearBase, SetCodeBase, OrderBase, RefuseBase DEF Handle
<1>4. ASSUME NEW r \in Request, Deliver(r) \/ Lose(r) PROVE BaseInv'
  BY <1>4, EndBase
<1> QED
  BY <1>1, <1>2, <1>3, <1>4 DEF Next

\* Types: the quantity a request will write is in the stock it was checked
\* against, also when a line it read is deleted under it.
THEOREM TypeCorrect == Spec => []TypeOK
<1>1. BaseInv => TypeOK
  BY DEF BaseInv
<1> QED
  BY <1>1, InitBase, BaseStep, PTL DEF Spec

-----------------------------------------------------------------------------
\* One cart, and what is in it

Bought(r) == Op(r) = "order" /\ sess[r] # sent[r]

\* A key a request travels with is the cookie's, of a cart that is alive or
\* has just been bought, by this request alone.
KeysSent ==
    \A r \in Request : sent[r].key # NoKey =>
        /\ cookie.key = sent[r].key
        /\ cart[sent[r].key] = IF Bought(r) THEN "converted" ELSE "active"
        /\ Bought(r) => \A q \in Request : sent[q].key = sent[r].key => q = r

CookieKey ==
    cookie.key # NoKey =>
        \/ cart[cookie.key] = "active"
        \/ \E r \in Request : Bought(r) /\ sent[r].key = cookie.key

\* The key of a cart just made is known to its request only.
KeysMade ==
    \A r \in Request : sent[r].key = NoKey /\ sess[r].key # NoKey =>
        /\ cart[sess[r].key] = "active"
        /\ cookie.key # sess[r].key
        /\ \A q \in Request \ {r} : sess[q].key # sess[r].key

OneHome == \A j, k \in Home : j = k

WantedAtHome ==
    /\ Home = {} => wanted = Empty
    /\ \A k \in Home : wanted = line[k]

\* The code is the cookie's, or that of the one answer that will set it.
Sets(r) == Op(r) # "add" /\ sess[r] # sent[r]
CodeUnderWay ==
    /\ (\A r \in Request : ~Sets(r)) => cookie.code = code
    /\ \A r \in Request : Sets(r) => /\ sess[r].code = code
                                     /\ \A q \in Request : Sets(q) => q = r

Honest ==
    ~broken /\ KeysSent /\ CookieKey /\ KeysMade /\ OneHome /\ WantedAtHome /\ CodeUnderWay

HonestInv == BaseInv /\ (known = {} => Honest)

LEMMA InitHonest == Init => Honest
<1> SUFFICES ASSUME Init PROVE Honest
  OBVIOUS
<1>1. ~broken /\ KeysSent /\ CookieKey /\ KeysMade
  BY SessionType DEF Init, KeysSent, CookieKey, KeysMade
<1>2. Home = {}
  BY DEF Init, Home
<1>3. OneHome /\ WantedAtHome
  BY <1>2 DEF OneHome, WantedAtHome, Init
<1>4. CodeUnderWay
  BY SessionType DEF Init, CodeUnderWay, Sets
<1> QED
  BY <1>1, <1>3, <1>4 DEF Honest

LEMMA NoWayTaken ==
    ASSUME NEW ways, Admit(ways), known' = {}
    PROVE  known = {} /\ ways = {}
BY DEF Admit

LEMMA IfNot == ASSUME NEW P, NEW way, If(P, way) = {} PROVE ~P
BY DEF If

\* An idle request has no key, so that it does not matter to the home.
HomeByKeys ==
    \A k : k \in Home <=>
       /\ k \in Key /\ cart[k] = "active"
       /\ cookie.key = k \/ \E r \in Request : sess[r].key = k

LEMMA HomeKeys == BaseInv => HomeByKeys
<1> SUFFICES ASSUME BaseInv PROVE HomeByKeys
  OBVIOUS
<1>1. \A r \in Request : pc[r] = "idle" => sess[r].key = NoKey
  BY SessionType DEF BaseInv, HeldByStep, Held
<1> QED
  BY <1>1, KeyAssumption DEF Home, InFlight, HomeByKeys

LEMMA HomeKeysNext == BaseInv' => HomeByKeys'
BY HomeKeys, PTL

LEMMA SessionKinds ==
    ASSUME BaseInv, NEW r \in Request
    PROVE  /\ sess[r] = sent[r] \/ Maker(r) \/ Setter(r) \/ Buyer(r)
           /\ sess[r] \in Session /\ sent[r] \in Session
           /\ sess[r].key \in Key \union {NoKey} /\ sent[r].key \in Key \union {NoKey}
           /\ pc[r] = "idle" => sess[r] = sent[r] /\ sess[r].key = NoKey
BY SessionType DEF BaseInv, HeldByStep, Held, TypeOK

\* What a read leaves alone.
LEMMA ReadsHonest ==
    ASSUME BaseInv, Honest, NEW r \in Request,
           ReadForAdd(r) \/ ReadForLine(r) \/ ReadForOrder(r) \/ FindCart(r) \/ Refuse(r)
    PROVE  Honest'
<1>1. UNCHANGED <<cookie, cart, line, verb, sent, sess, wanted, code, broken>>
  BY DEF ReadForAdd, ReadForLine, ReadForOrder, FindCart, Refuse, tables, ghosts
<1>2. InFlight' = InFlight
  BY DEF ReadForAdd, ReadForLine, ReadForOrder, FindCart, Refuse, InFlight, Goto, BaseInv, TypeOK
<1>3. Home' = Home
  BY <1>1, <1>2 DEF Home
<1> QED
  BY <1>1, <1>3 DEF Honest, KeysSent, CookieKey, KeysMade, OneHome, WantedAtHome, CodeUnderWay,
     Bought, Sets, Op, Empty

\* A click: the request knows what the cookie knows.
LEMMA SendHonest ==
    ASSUME BaseInv, BaseInv', Honest, NEW r \in Request, NEW v \in Verb, Send(r, v), known' = {}
    PROVE  Honest'
<1> USE DEF Honest
<1>1. /\ UNCHANGED <<cookie, cart, line, wanted, code, broken>>
      /\ pc[r] = "idle" /\ sess[r] = sent[r] /\ sess[r].key = NoKey /\ sent[r].key = NoKey
  BY SessionKinds DEF Send, tables
<1>2. /\ sent'[r] = cookie /\ sess'[r] = cookie
      /\ \A q \in Request \ {r} : sent'[q] = sent[q] /\ sess'[q] = sess[q] /\ verb'[q] = verb[q]
  BY DEF Send, BaseInv, TypeOK
<1>3. \A q \in Request \ {r} : Bought(q)' = Bought(q) /\ Sets(q)' = Sets(q)
  BY <1>2 DEF Bought, Sets, Op
<1>4. ~Bought(r) /\ ~Bought(r)' /\ ~Sets(r) /\ ~Sets(r)'
  BY <1>1, <1>2 DEF Bought, Sets
<1>5. cookie.key # NoKey => cart[cookie.key] = "active"
  <2> SUFFICES ASSUME cookie.key # NoKey, cart[cookie.key] # "active" PROVE FALSE
    OBVIOUS
  <2>1. PICK q \in Request : Bought(q) /\ sent[q].key = cookie.key
    BY DEF CookieKey
  <2>2. q \in InFlight
    BY <2>1, SessionKinds DEF Bought, InFlight
  <2>3. CurrentCart(cookie) = NoKey
    BY DEF CurrentCart
  <2>4. ~(cookie.key # NoKey /\ CurrentCart(cookie) = NoKey
            /\ \E p \in InFlight : sent[p].key = cookie.key)
    BY NoWayTaken, IfNot DEF Send
  <2> QED
    BY <2>1, <2>2, <2>3, <2>4
<1>6. KeysSent'
  BY <1>1, <1>2, <1>3, <1>4, <1>5 DEF KeysSent
<1>7. CookieKey'
  BY <1>1, <1>5 DEF CookieKey
<1>8. KeysMade'
  BY <1>1, <1>2 DEF KeysMade
<1>9. Home' = Home
  <2>1. \A j : j \in Home' <=> j \in Home
    BY <1>1, <1>2, HomeKeys, HomeKeysNext, KeyAssumption DEF HomeByKeys
  <2> QED
    BY <2>1
<1>10. CodeUnderWay'
  BY <1>1, <1>2, <1>3, <1>4 DEF CodeUnderWay
<1> QED
  BY <1>1, <1>6, <1>7, <1>8, <1>9, <1>10 DEF OneHome, WantedAtHome, Empty

\* An answer without a cookie.
LEMMA SilentHonest ==
    ASSUME BaseInv, BaseInv', Honest, NEW r \in Request, Done(r), sess[r] = sent[r],
           UNCHANGED <<cookie, cart, line, wanted, code, broken>>
    PROVE  Honest'
<1> USE DEF Honest
<1>1. /\ sent'[r] = NoSession /\ sess'[r] = NoSession
      /\ \A q \in Request \ {r} : sent'[q] = sent[q] /\ sess'[q] = sess[q] /\ verb'[q] = verb[q]
  BY DoneForgets DEF BaseInv, OthersStay
<1>2. \A q \in Request \ {r} : Bought(q)' = Bought(q) /\ Sets(q)' = Sets(q)
  BY <1>1 DEF Bought, Sets, Op
<1>3. ~Bought(r) /\ ~Bought(r)' /\ ~Sets(r) /\ ~Sets(r)'
  BY <1>1 DEF Bought, Sets
<1>4. KeysSent'
  BY <1>1, <1>2, <1>3, SessionType DEF KeysSent
<1>5. CookieKey'
  <2>1. ASSUME NEW q \in Request, Bought(q), sent[q].key = cookie.key
        PROVE  Bought(q)' /\ sent'[q].key = cookie.key
    BY <2>1, <1>1, <1>2, <1>3
  <2> QED
    BY <2>1 DEF CookieKey
<1>6. KeysMade'
  BY <1>1, SessionType DEF KeysMade
<1>7. sess[r].key # NoKey => cookie.key = sess[r].key
  BY DEF KeysSent
<1>8. NoKey \notin Key
  BY KeyAssumption
<1>9. \A j : j \in Home' <=> j \in Home
  BY <1>1, <1>7, <1>8, HomeKeys, HomeKeysNext, SessionType DEF HomeByKeys
<1>10. Home' = Home
  BY <1>9
<1>11. CodeUnderWay'
  BY <1>1, <1>2, <1>3 DEF CodeUnderWay
<1> QED
  BY <1>4, <1>5, <1>6, <1>10, <1>11 DEF OneHome, WantedAtHome, Empty

\* An answer that brings the session its handler changed: nothing else did.
LEMMA DeliverHonest ==
    ASSUME BaseInv, BaseInv', Honest, NEW r \in Request, Deliver(r), known' = {}
    PROVE  Honest'
<1> USE DEF Honest
<1>1. CASE sess[r] = sent[r]
  BY <1>1, SilentHonest DEF Deliver, tables
<1>2. CASE sess[r] # sent[r]
  <2>1. cookie = sent[r] /\ cookie' = sess[r] /\ UNCHANGED <<cart, line, wanted, code, broken>>
    BY <1>2, NoWayTaken, IfNot DEF Deliver, tables
  <2>2. /\ sent'[r] = NoSession /\ sess'[r] = NoSession
        /\ \A q \in Request \ {r} : sent'[q] = sent[q] /\ sess'[q] = sess[q] /\ verb'[q] = verb[q]
    BY DoneForgets DEF BaseInv, OthersStay, Deliver
  <2>3. \A q \in Request \ {r} : Bought(q)' = Bought(q) /\ Sets(q)' = Sets(q)
    BY <2>2 DEF Bought, Sets, Op
  <2>4. ~Bought(r)' /\ ~Sets(r)'
    BY <2>2 DEF Bought, Sets
  <2>5. \* The key is the cookie's, unless a cart was made or bought.
        \/ sess[r].key = cookie.key /\ ~Bought(r) /\ Sets(r)
        \/ /\ cookie.key = NoKey /\ sess[r].key \in Key /\ cart[sess[r].key] = "active"
           /\ \A q \in Request \ {r} : sess[q].key # sess[r].key
           /\ sess[r].code = cookie.code /\ ~Sets(r)
        \/ /\ sess[r].key = NoKey /\ cookie.key \in Key /\ cart[cookie.key] = "converted"
           /\ \A q \in Request \ {r} : sent[q].key = NoKey
           /\ Sets(r)
    <3>1. CASE Maker(r)
      BY <3>1, <2>1, KeyAssumption DEF Maker, KeysMade, Sets
    <3>2. CASE Setter(r)
      BY <3>2, <2>1, <1>2 DEF Setter, Bought, Sets
    <3>3. CASE Buyer(r)
      <4>1. Bought(r) /\ sent[r].key # NoKey
        BY <3>3, <1>2, KeyAssumption DEF Buyer, Bought
      <4> QED
        BY <4>1, <3>3, <1>2, <2>1, SessionType DEF Buyer, KeysSent, Sets
    <3> QED
      BY <3>1, <3>2, <3>3, <1>2, SessionKinds
  <2>6. KeysSent'
    BY <2>1, <2>2, <2>3, <2>4, <2>5, SessionType DEF KeysSent
  <2>7. CookieKey'
    <3>1. CASE sess[r].key = cookie.key /\ ~Bought(r) /\ cookie.key # NoKey /\ cart[cookie.key] # "active"
      <4>1. PICK q \in Request : Bought(q) /\ sent[q].key = cookie.key
        BY <3>1 DEF CookieKey
      <4>2. Bought(q)' /\ sent'[q].key = cookie'.key
        BY <4>1, <3>1, <2>1, <2>2, <2>3
      <4> QED
        BY <4>2 DEF CookieKey
    <3> QED
      BY <3>1, <2>1, <2>5 DEF CookieKey
  <2>8. KeysMade'
    BY <2>1, <2>2, <2>5, SessionType DEF KeysMade
  <2>9. Home' = Home
    <3>1. \A j : j \in Home' <=> j \in Home
      BY <2>1, <2>2, <2>5, HomeKeys, HomeKeysNext, SessionType, KeyAssumption DEF HomeByKeys
    <3> QED
      BY <3>1
  <2>10. CodeUnderWay'
    BY <2>1, <2>2, <2>3, <2>4, <2>5 DEF CodeUnderWay
  <2> QED
    BY <2>1, <2>6, <2>7, <2>8, <2>9, <2>10 DEF OneHome, WantedAtHome, Empty
<1> QED
  BY <1>1, <1>2

LEMMA LoseHonest ==
    ASSUME BaseInv, BaseInv', Honest, NEW r \in Request, Lose(r), known' = {}
    PROVE  Honest'
<1>1. sess[r] = sent[r]
  BY NoWayTaken, IfNot DEF Lose
<1> QED
  BY <1>1, SilentHonest DEF Lose, tables

\* The key of a request that looks for a cart leads to one.
LEMMA KeyNeverTaken ==
    ASSUME BaseInv, Honest, NEW r \in Request, KeyTaken(r)
    PROVE  FALSE
<1>1. sess[r] = sent[r] /\ sess[r].key # NoKey /\ CurrentCart(sess[r]) = NoKey
  BY DEF KeyTaken, BaseInv, HeldByStep, Held
<1>2. cart[sess[r].key] = "active"
  BY <1>1 DEF Honest, KeysSent, Bought
<1> QED
  BY <1>1, <1>2 DEF CurrentCart

\* Every key in use has been drawn.
LEMMA KeysDrawn ==
    ASSUME BaseInv, Honest
    PROVE  /\ cookie.key # NoKey => cart[cookie.key] # "none"
           /\ \A q \in Request : sess[q].key # NoKey => cart[sess[q].key] # "none"
<1> USE DEF Honest
<1>1. ASSUME NEW q \in Request, sent[q].key # NoKey PROVE cart[sent[q].key] # "none"
  BY <1>1 DEF KeysSent
<1>2. ASSUME NEW q \in Request, sess[q].key # NoKey PROVE cart[sess[q].key] # "none"
  <2>1. CASE sent[q].key = NoKey
    BY <2>1, <1>2 DEF KeysMade
  <2>2. CASE sent[q].key # NoKey
    BY <2>2, <1>1, <1>2, SessionKinds, SessionType DEF Maker, Setter, Buyer
  <2> QED
    BY <2>1, <2>2
<1> QED
  BY <1>1, <1>2 DEF CookieKey

LEMMA MakeCartHonest ==
    ASSUME BaseInv, BaseInv', Honest, NEW r \in Request, MakeCart(r), known' = {}
    PROVE  Honest'
<1> USE DEF Honest
<1>1. PICK k \in Key : /\ cart[k] = "none"
                       /\ cart' = [cart EXCEPT ![k] = "active"]
                       /\ sess' = [sess EXCEPT ![r].key = k]
  BY DEF MakeCart
<1>2. /\ UNCHANGED <<cookie, line, sent, verb, wanted, code, broken>>
      /\ Home = {} /\ sess[r] = sent[r] /\ sent[r].key = NoKey /\ Op(r) = "add"
  BY NoWayTaken, IfNot DEF MakeCart, BaseInv, HeldByStep, Held
<1>3. /\ sess'[r].key = k /\ cart'[k] = "active"
      /\ \A q \in Request \ {r} : sess'[q] = sess[q]
      /\ \A j \in Key \ {k} : cart'[j] = cart[j]
  BY <1>1 DEF BaseInv, TypeOK, Session
<1>4. cookie.key # k /\ \A q \in Request : sess[q].key # k /\ sent[q].key # k
  BY <1>1, KeysDrawn, KeyAssumption DEF KeysSent
<1>5. \A q \in Request : Bought(q)' = Bought(q) /\ Sets(q)' = Sets(q)
  BY <1>2, <1>3 DEF Bought, Sets, Op
<1>6. KeysSent'
  BY <1>2, <1>3, <1>4, <1>5, SessionKinds DEF KeysSent
<1>7. CookieKey'
  <2>1. cookie.key \in Key \union {NoKey}
    BY SessionType DEF BaseInv, TypeOK
  <2> QED
    BY <2>1, <1>2, <1>3, <1>4, <1>5 DEF CookieKey
<1>8. KeysMade'
  BY <1>2, <1>3, <1>4, SessionKinds DEF KeysMade
<1>9. Home' = {k}
  <2>1. \A j : j \in Home' <=> j = k
    BY <1>2, <1>3, HomeKeys, HomeKeysNext DEF HomeByKeys
  <2> QED
    BY <2>1
<1>10. line[k] = Empty /\ wanted = Empty
  BY <1>1, <1>2 DEF BaseInv, UndrawnEmpty, WantedAtHome
<1>11. CodeUnderWay'
  BY <1>2, <1>3, <1>5 DEF CodeUnderWay, Sets
<1> QED
  BY <1>2, <1>6, <1>7, <1>8, <1>9, <1>10, <1>11 DEF OneHome, WantedAtHome

\* A line is written in the visitor's cart, and by as much as the verb says.
LEMMA WriteLineHonest ==
    ASSUME BaseInv, BaseInv', Honest, NEW r \in Request, WriteLine(r), known' = {}
    PROVE  Honest'
<1> USE DEF Honest
<1> DEFINE k == at[r]
           n == NewQuantity(r, seen[r])
<1>1. /\ UNCHANGED <<cookie, cart, sent, sess, verb, code, broken>>
      /\ pc[r] = "write" /\ Op(r) \in LineVerb
      /\ ~(Stale(r) /\ Op(r) \in {"add", "step"})
  BY NoWayTaken, IfNot DEF WriteLine
<1>2. k \in Key /\ k = sess[r].key /\ (sess[r] = sent[r] \/ Maker(r))
  BY <1>1 DEF BaseInv, HeldByStep, Held
<1>3. cart[k] = "active"
  BY <1>2, KeyAssumption DEF KeysSent, KeysMade, Bought, Maker
<1>4. k \in Home
  BY <1>2, <1>3, HomeKeys DEF HomeByKeys
<1>5. Home' = Home
  <2>1. \A j : j \in Home' <=> j \in Home
    BY <1>1, HomeKeys, HomeKeysNext DEF HomeByKeys
  <2> QED
    BY <2>1
<1>6. wanted' = line'[k]
  <2>1. wanted = line[k] /\ wanted \in [Variant -> Int] /\ Item(r) \in Variant
    BY <1>4, VerbFields DEF WantedAtHome, BaseInv, TypeOK, Item
  <2>2. line'[k] = [line[k] EXCEPT ![Item(r)] = n]
    BY <1>2 DEF WriteLine, BaseInv, TypeOK
  <2>3. wanted' = [wanted EXCEPT ![Item(r)] = n]
    <3>1. CASE Op(r) \in {"add", "step"}
      <4>1. seen[r] = wanted[Item(r)]
        BY <3>1, <1>1, <2>1 DEF Stale
      <4> QED
        BY <3>1, <4>1 DEF WriteLine, NewQuantity
    <3>2. CASE Op(r) \notin {"add", "step"}
      BY <3>2 DEF WriteLine, NewQuantity
    <3> QED
      BY <3>1, <3>2
  <2> QED
    BY <2>1, <2>2, <2>3
<1>7. WantedAtHome'
  BY <1>4, <1>5, <1>6 DEF WantedAtHome, OneHome
<1> QED
  BY <1>1, <1>5, <1>7 DEF KeysSent, CookieKey, KeysMade, OneHome, CodeUnderWay, Bought, Sets, Op

\* The session's code is set: no other answer will bring one, and the cookie
\* is the one this request was sent with.
LEMMA CodeSetHonest ==
    ASSUME BaseInv, BaseInv', Honest, NEW r \in Request, pc[r] = "read", ~Crossed(r),
           Op(r) \in {"clear", "apply", "unapply"},
           NEW ok \in BOOLEAN, sess' = [sess EXCEPT ![r].code = ok], code' = ok,
           UNCHANGED <<cookie, cart, verb, sent, broken>>
    PROVE  KeysSent' /\ CookieKey' /\ KeysMade' /\ CodeUnderWay' /\ Home' = Home
<1> USE DEF Honest
<1>1. /\ sess[r] = sent[r] /\ cookie = sent[r]
      /\ \A q \in Request : sess[q] = sent[q]
  BY SessionKinds DEF BaseInv, HeldByStep, Held, Crossed, InFlight
<1>2. /\ sess'[r].key = sess[r].key /\ sess'[r].code = ok
      /\ \A q \in Request \ {r} : sess'[q] = sess[q]
  BY DEF BaseInv, TypeOK, Session
<1>3. \A q \in Request : ~Bought(q) /\ ~Bought(q)'
  BY <1>1, <1>2 DEF Bought, Op
<1>4. \A q \in Request \ {r} : ~Sets(q)'
  BY <1>1, <1>2 DEF Sets
<1>5. KeysSent' /\ CookieKey' /\ KeysMade'
  BY <1>1, <1>2, <1>3 DEF KeysSent, CookieKey, KeysMade
<1>6. Home' = Home
  <2>1. \A j : j \in Home' <=> j \in Home
    BY <1>2, HomeKeys, HomeKeysNext DEF HomeByKeys
  <2> QED
    BY <2>1
<1>7. CodeUnderWay'
  <2>1. CASE Sets(r)'
    BY <2>1, <1>2, <1>4 DEF CodeUnderWay
  <2>2. CASE ~Sets(r)'
    <3>1. cookie'.code = code'
      BY <2>2, <1>1, <1>2 DEF Sets, Op
    <3> QED
      BY <3>1, <2>2, <1>4 DEF CodeUnderWay
  <2> QED
    BY <2>1, <2>2
<1> QED
  BY <1>5, <1>6, <1>7

LEMMA ClearHonest ==
    ASSUME BaseInv, BaseInv', Honest, NEW r \in Request, Clear(r), known' = {}
    PROVE  Honest'
<1> USE DEF Honest
<1> DEFINE k == CurrentCart(sess[r])
<1>1. ~(k = NoKey /\ Home # {}) /\ ~Crossed(r)
  BY NoWayTaken, IfNot DEF Clear
<1>2. KeysSent' /\ CookieKey' /\ KeysMade' /\ CodeUnderWay' /\ Home' = Home
  BY <1>1, CodeSetHonest DEF Clear
<1>3. k = NoKey \/ k \in Home
  BY HomeKeys, CurrentCartType DEF HomeByKeys, BaseInv, TypeOK
<1>4. k # NoKey => k \in Key /\ line'[k] = Empty
  BY CurrentCartType DEF Clear, BaseInv, TypeOK
<1>5. wanted' = Empty
  BY DEF Clear
<1>6. WantedAtHome'
  BY <1>1, <1>2, <1>3, <1>4, <1>5 DEF WantedAtHome, OneHome
<1> QED
  BY <1>2, <1>6 DEF OneHome, Clear

LEMMA SetCodeHonest ==
    ASSUME BaseInv, BaseInv', Honest, NEW r \in Request, SetCode(r), known' = {}
    PROVE  Honest'
<1>1. PICK ok \in BOOLEAN : sess' = [sess EXCEPT ![r].code = ok] /\ code' = ok
  BY DEF SetCode
<1>2. ~Crossed(r)
  BY NoWayTaken, IfNot DEF SetCode
<1>3. KeysSent' /\ CookieKey' /\ KeysMade' /\ CodeUnderWay' /\ Home' = Home
  BY <1>1, <1>2, CodeSetHonest DEF SetCode, tables
<1> QED
  BY <1>3 DEF Honest, OneHome, WantedAtHome, SetCode, tables, Empty

\* The order takes the one cart along, and every key of it.
LEMMA OrderHonest ==
    ASSUME BaseInv, BaseInv', Honest, NEW r \in Request, Order(r), known' = {}
    PROVE  Honest'
<1> USE DEF Honest
<1>1. /\ UNCHANGED <<cookie, sent, verb, broken, line>> /\ wanted' = Empty /\ code' = FALSE
      /\ pc[r] = "write" /\ Op(r) = "order" /\ cart' = [cart EXCEPT ![at[r]] = "converted"]
      /\ ~Crossed(r) /\ ~\E q \in InFlight \ {r} : sess[q].key = at[r]
  BY NoWayTaken, IfNot DEF Order
<1>2. at[r] \in Key /\ at[r] = sess[r].key /\ sess[r] = sent[r]
  <2>1. Held(r) /\ ~Maker(r)
    BY <1>1 DEF BaseInv, HeldByStep, Maker
  <2> QED
    BY <2>1, <1>1 DEF Held
<1>3. /\ cookie = sent[r] /\ \A q \in Request : sess[q] = sent[q]
      /\ \A q \in Request \ {r} : sess[q].key # at[r]
  BY <1>1, <1>2, SessionKinds, KeyAssumption DEF Crossed, InFlight
<1>4. \A q \in Request \ {r} : sent[q].key = NoKey
  BY <1>2, <1>3 DEF KeysSent
<1>5. /\ sess'[r] = NoSession /\ cart'[at[r]] = "converted"
      /\ \A q \in Request \ {r} : sess'[q] = sess[q]
      /\ \A j \in Key \ {at[r]} : cart'[j] = cart[j]
  BY <1>2, SpentSession DEF Order, BaseInv, TypeOK
<1>6. Bought(r)' /\ Sets(r)' /\ \A q \in Request \ {r} : ~Bought(q)' /\ ~Sets(q)'
  BY <1>1, <1>2, <1>3, <1>5, SessionType, KeyAssumption DEF Bought, Sets, Op
<1>7. KeysSent' /\ CookieKey'
  BY <1>1, <1>2, <1>3, <1>4, <1>5, <1>6 DEF KeysSent, CookieKey
<1>8. KeysMade'
  BY <1>1, <1>2, <1>3, <1>5, SessionType, KeyAssumption DEF KeysMade
<1>9. Home' = {}
  <2>1. \A j : j \notin Home'
    BY <1>1, <1>2, <1>3, <1>4, <1>5, HomeKeysNext, SessionType, KeyAssumption DEF HomeByKeys
  <2> QED
    BY <2>1
<1>10. CodeUnderWay'
  BY <1>1, <1>5, <1>6, SessionType DEF CodeUnderWay
<1> QED
  BY <1>1, <1>7, <1>8, <1>9, <1>10 DEF OneHome, WantedAtHome, Empty

LEMMA HonestStep == HonestInv /\ [Next]_vars => HonestInv'
<1> SUFFICES ASSUME HonestInv, [Next]_vars PROVE HonestInv'
  OBVIOUS
<1>1. BaseInv /\ BaseInv'
  BY BaseStep DEF HonestInv
<1> SUFFICES ASSUME known' = {} PROVE Honest'
  BY <1>1 DEF HonestInv
<1>2. CASE UNCHANGED vars
  <2>1. InFlight' = InFlight /\ Home' = Home
    BY <1>2 DEF vars, request, tables, InFlight, Home
  <2> QED
    BY <1>2, <2>1 DEF HonestInv, Honest, KeysSent, CookieKey, KeysMade, OneHome, WantedAtHome,
       CodeUnderWay, Bought, Sets, Op, Empty, vars, tables, request, ghosts
<1>3. CASE Next
  <2>1. PICK r \in Request :
            (\E v \in Verb : Send(r, v)) \/ Handle(r) \/ Deliver(r) \/ Lose(r)
    BY <1>3 DEF Next
  <2>2. known = {}
    BY <2>1, NoWayTaken DEF Send, Handle, Deliver, Lose, ReadForAdd, ReadForLine, ReadForOrder,
       FindCart, MakeCart, KeyTaken, WriteLine, WriteFails, Clear, SetCode, Order, Refuse, ghosts
  <2>3. Honest
    BY <2>2 DEF HonestInv
  <2>4. ~WriteFails(r)
    BY NoWayTaken DEF WriteFails
  <2> QED
    BY <1>1, <2>1, <2>3, <2>4, SendHonest, DeliverHonest, LoseHonest, ReadsHonest, MakeCartHonest,
       KeyNeverTaken, WriteLineHonest, ClearHonest, SetCodeHonest, OrderHonest DEF Handle
<1> QED
  BY <1>2, <1>3

LEMMA HonestInvariant == Spec => []HonestInv
<1>1. Init => HonestInv
  BY InitBase, InitHonest DEF HonestInv
<1> QED
  BY <1>1, HonestStep, PTL DEF Spec

-----------------------------------------------------------------------------
\* For any number of requests and variants: until one of the known ways is
\* taken, the visitor has one cart, every add finds or makes one, and a spent
\* key is in the cookie only while the answer to its order is under way.
THEOREM OneCartAlways == Spec => []ShoppingGoesOn
<1>1. HonestInv => ShoppingGoesOn
  <2> SUFFICES ASSUME HonestInv, known = {} PROVE ShoppingGoesOn
    BY DEF ShoppingGoesOn
  <2>1. BaseInv /\ Honest
    BY DEF HonestInv
  <2>2. Cardinality(Home) <= 1
    <3>1. CASE Home = {}
      BY <3>1, FS_EmptySet
    <3>2. CASE Home # {}
      <4>1. PICK k \in Home : TRUE
        BY <3>2
      <4>2. Home = {k}
        BY <4>1, <2>1 DEF Honest, OneHome
      <4> QED
        BY <4>2, FS_Singleton
    <3> QED
      BY <3>1, <3>2
  <2>3. cookie.key # NoKey /\ cart[cookie.key] # "active" =>
            \E r \in InFlight : Op(r) = "order" /\ sent[r].key = cookie.key
    <3> SUFFICES ASSUME cookie.key # NoKey, cart[cookie.key] # "active"
                 PROVE  \E r \in InFlight : Op(r) = "order" /\ sent[r].key = cookie.key
      OBVIOUS
    <3>1. PICK r \in Request : Bought(r) /\ sent[r].key = cookie.key
      BY <2>1 DEF Honest, CookieKey
    <3>2. r \in InFlight
      BY <3>1, <2>1, SessionKinds DEF Bought, InFlight
    <3> QED
      BY <3>1, <3>2 DEF Bought
  <2> QED
    BY <2>1, <2>2, <2>3 DEF ShoppingGoesOn, Honest
<1> QED
  BY <1>1, HonestInvariant, PTL

\* The cart is what the verbs carried out so far make it, however they
\* overlap, until one of the known ways is taken; so is the code, when no
\* answer is under way.
THEOREM CartAsOrdered == Spec => []CartIsHonest
<1>1. HonestInv => CartIsHonest
  <2> SUFFICES ASSUME HonestInv, known = {} PROVE CartIsHonest
    BY DEF CartIsHonest
  <2>1. BaseInv /\ Honest
    BY DEF HonestInv
  <2>2. ASSUME NEW v \in Variant
        PROVE  wanted[v] = IF Home = {} THEN 0 ELSE line[CHOOSE k \in Home : TRUE][v]
    <3>1. CASE Home = {}
      BY <3>1, <2>1 DEF Honest, WantedAtHome, Empty
    <3>2. CASE Home # {}
      <4>1. (CHOOSE k \in Home : TRUE) \in Home
        BY <3>2
      <4> QED
        BY <4>1, <3>2, <2>1 DEF Honest, WantedAtHome
    <3> QED
      BY <3>1, <3>2
  <2>3. InFlight = {} => cookie.code = code
    <3> SUFFICES ASSUME InFlight = {} PROVE cookie.code = code
      OBVIOUS
    <3>1. \A r \in Request : ~Sets(r)
      BY <2>1, SessionKinds DEF Sets, InFlight
    <3> QED
      BY <3>1, <2>1 DEF Honest, CodeUnderWay
  <2> QED
    BY <2>2, <2>3 DEF CartIsHonest
<1> QED
  BY <1>1, HonestInvariant, PTL

-----------------------------------------------------------------------------
\* The scheduler

USE TimeAssumption, HolderAssumption

LEMMA JobsAreNumbers == Jobs \subseteq Nat
  BY DEF Jobs

LEMMA OldestIsANumber == \A j \in Jobs : Oldest(j) \in Nat /\ Every[j] <= Oldest(j)
  BY DEF Oldest

-----------------------------------------------------------------------------
\* Type correctness

LEMMA InitTypes == JobsInit => JobsTypeOK
<1> SUFFICES ASSUME JobsInit PROVE JobsTypeOK
  OBVIOUS
<1>1. age \in [Jobs -> Nat] /\ \A j \in Jobs : age[j] <= Oldest(j)
  BY OldestIsANumber DEF JobsInit
<1>2. holder \in {p \in Process : stage[p] # "down"} \union {Nobody, Departed}
  BY DEF JobsInit
<1>3. beat \in 0 .. TTL + 1 /\ faults \in 0 .. MaxFaults
  BY DEF JobsInit
<1>6. overran \in BOOLEAN
  BY DEF JobsInit
<1>4. /\ stage \in [Process -> {"down", "asleep", "looking", "running"}]
      /\ \A p \in Process : stage[p] = "running" => next[p] \in Jobs
  BY DEF JobsInit
<1>5. /\ wait \in [Process -> 0 .. Interval]
      /\ since \in [Process -> 0 .. Longest]
      /\ next \in [Process -> Nat]
  BY DEF JobsInit
<1> QED
  BY <1>1, <1>2, <1>3, <1>4, <1>5, <1>6 DEF JobsTypeOK

LEMMA ThreadTypes ==
    ASSUME JobsTypeOK, NEW p \in Process,
           Step(p) \/ Rescue(p) \/ JobFails(p) \/ Crash(p) \/ Boot(p)
    PROVE  JobsTypeOK'
<1> USE JobsAreNumbers, OldestIsANumber DEF JobsTypeOK, lock, thread, MoveTo, Forget, Fault
<1>1. CASE Claim(p)
  BY <1>1 DEF Claim, Awake, Claimable, Renew
<1>2. CASE LoseClaim(p)
  BY <1>2 DEF LoseClaim, Awake, Sleep
<1>3. CASE Fire(p)
  BY <1>3 DEF Fire
<1>4. CASE Skip(p)
  BY <1>4 DEF Skip
<1>5. CASE EndPass(p)
  BY <1>5 DEF EndPass, Sleep
<1>6. CASE Stamp(p)
  BY <1>6 DEF Stamp
<1>7. CASE Rescue(p)
  BY <1>7 DEF Rescue, Sleep, Awake
<1>8. CASE JobFails(p)
  BY <1>8 DEF JobFails
<1>9. CASE Crash(p)
  BY <1>9 DEF Crash, HolderAfter
<1>10. CASE Boot(p)
  BY <1>10 DEF Boot
<1> QED
  BY <1>1, <1>2, <1>3, <1>4, <1>5, <1>6, <1>7, <1>8, <1>9, <1>10 DEF Step

LEMMA OlderInBounds ==
    ASSUME NEW n \in Nat, NEW cap \in Nat, n <= cap
    PROVE  Older(n, cap) \in Nat /\ Older(n, cap) <= cap /\ n <= Older(n, cap)
  BY DEF Older

LEMMA TickTypes == JobsTypeOK /\ Tick => JobsTypeOK'
<1> SUFFICES ASSUME JobsTypeOK, Tick PROVE JobsTypeOK'
  OBVIOUS
<1>1. beat' \in 0 .. TTL + 1
  BY DEF JobsTypeOK, Tick, Older
<1>2. age' \in [Jobs -> Nat] /\ \A j \in Jobs : age'[j] <= Oldest(j)
  <2>1. \A j \in Jobs : /\ Older(age[j], Oldest(j)) \in Nat
                        /\ Older(age[j], Oldest(j)) <= Oldest(j)
    BY OlderInBounds, OldestIsANumber DEF JobsTypeOK
  <2> QED
    BY <2>1 DEF Tick
<1>3. wait' \in [Process -> 0 .. Interval]
  BY DEF JobsTypeOK, Tick
<1>4. since' \in [Process -> 0 .. Longest]
  BY DEF JobsTypeOK, Tick, InPass
<1>5. overran' \in BOOLEAN
  BY DEF Tick
<1> QED
  BY <1>1, <1>2, <1>3, <1>4, <1>5 DEF JobsTypeOK, Tick, InPass

LEMMA StepTypes == JobsTypeOK /\ [JobsNext]_jobsVars => JobsTypeOK'
  BY ThreadTypes, TickTypes DEF JobsNext, JobsTypeOK, jobsVars, lock, thread

\* Every variable of the scheduler keeps its type; in particular the lock's
\* holder is never a process that is down.
THEOREM JobsTypeCorrect == JobsSpec => []JobsTypeOK
  BY InitTypes, StepTypes, PTL DEF JobsSpec

-----------------------------------------------------------------------------
\* The lease

\* Whoever leads holds the row, and the row was last written when its pass began.
LeaseHeld == \A p \in Process : Leading(p) => holder = p /\ beat = since[p]

\* As long as no pass has outlived its lease every pass is within it ...
PassesYoung == ~overran => \A p \in Process : InPass(p) => since[p] <= TTL

\* ... and nobody else stamps the job that it is running.
StillDue ==
    ~overran => \A p \in Process :
                   stage[p] = "running" => age[next[p]] >= Every[next[p]]

LeaseInv == LeaseHeld /\ PassesYoung /\ StillDue

LEMMA InitLease == JobsInit => LeaseInv
  BY DEF JobsInit, LeaseInv, LeaseHeld, PassesYoung, StillDue, Leading, InPass

\* Two processes never lead at the same time.
LEMMA OneLeader ==
    ASSUME LeaseHeld, NEW p \in Process, NEW q \in Process, Leading(p), Leading(q)
    PROVE  p = q
  BY DEF LeaseHeld

LEMMA ThreadKeepsLease ==
    ASSUME JobsTypeOK, LeaseInv, NEW p \in Process,
           Step(p) \/ Rescue(p) \/ JobFails(p) \/ Crash(p) \/ Boot(p)
    PROVE  LeaseInv'
<1>1. CASE Claim(p)
  <2>1. \A q \in Process : q # p => ~Leading(q)
    BY <1>1 DEF Claim, Claimable, LeaseInv, LeaseHeld, Leading, JobsTypeOK
  <2>2. /\ holder' = p /\ beat' = 0 /\ since' = [since EXCEPT ![p] = 0]
        /\ stage' = [stage EXCEPT ![p] = "looking"]
        /\ next' = [next EXCEPT ![p] = 1]
        /\ UNCHANGED <<age, overran>>
    BY <1>1 DEF Claim, Renew, MoveTo, Forget
  <2>3. LeaseHeld'
    BY <2>1, <2>2 DEF LeaseHeld, Leading, InPass, JobsTypeOK
  <2>4. PassesYoung'
    BY <2>2 DEF LeaseInv, PassesYoung, InPass, JobsTypeOK
  <2>5. StillDue'
    BY <2>2 DEF LeaseInv, StillDue, JobsTypeOK
  <2> QED
    BY <2>3, <2>4, <2>5 DEF LeaseInv
<1>2. CASE LoseClaim(p) \/ EndPass(p) \/ Rescue(p)
  <2>1. /\ stage' = [stage EXCEPT ![p] = "asleep"]
        /\ since' = [since EXCEPT ![p] = 0]
        /\ next' = [next EXCEPT ![p] = 1]
        /\ UNCHANGED <<holder, beat, age, overran>>
    BY <1>2 DEF LoseClaim, EndPass, Rescue, Sleep, MoveTo, Forget, lock
  <2> QED
    BY <2>1 DEF LeaseInv, LeaseHeld, PassesYoung, StillDue, Leading, InPass, JobsTypeOK
<1>3. CASE Fire(p)
  <2>1. /\ stage' = [stage EXCEPT ![p] = "running"]
        /\ stage[p] = "looking" /\ next[p] \in Jobs
        /\ age[next[p]] - since[p] >= Every[next[p]]
        /\ UNCHANGED <<holder, beat, age, since, next, overran>>
    BY <1>3 DEF Fire, Due, MoveTo, lock
  <2>2. age[next[p]] >= Every[next[p]]
    BY <2>1 DEF JobsTypeOK
  <2>3. LeaseHeld' /\ PassesYoung'
    BY <2>1 DEF LeaseInv, LeaseHeld, PassesYoung, Leading, InPass, JobsTypeOK
  <2>4. StillDue'
    BY <2>1, <2>2 DEF LeaseInv, StillDue, JobsTypeOK
  <2> QED
    BY <2>3, <2>4 DEF LeaseInv
<1>4. CASE Skip(p)
  <2>1. /\ stage[p] = "looking"
        /\ next' = [next EXCEPT ![p] = @ + 1]
        /\ UNCHANGED <<holder, beat, age, stage, since, overran>>
    BY <1>4 DEF Skip, lock
  <2>2. LeaseHeld' /\ PassesYoung'
    BY <2>1 DEF LeaseInv, LeaseHeld, PassesYoung, Leading, InPass
  <2>3. StillDue'
    BY <2>1 DEF LeaseInv, StillDue, JobsTypeOK
  <2> QED
    BY <2>2, <2>3 DEF LeaseInv
<1>5. CASE Stamp(p)
  <2>1. /\ stage' = [stage EXCEPT ![p] = "looking"] /\ stage[p] = "running"
        /\ next' = [next EXCEPT ![p] = @ + 1]
        /\ age' = [age EXCEPT ![next[p]] = 0]
        /\ UNCHANGED <<holder, beat, since, overran>>
    BY <1>5 DEF Stamp, MoveTo, lock
  <2>2. LeaseHeld' /\ PassesYoung'
    BY <2>1 DEF LeaseInv, LeaseHeld, PassesYoung, Leading, InPass, JobsTypeOK
  <2>3. ASSUME ~overran, NEW q \in Process, q # p
        PROVE  stage[q] # "running"
    BY <2>1, <2>3, OneLeader DEF LeaseInv, PassesYoung, Leading, InPass
  <2>4. StillDue'
    BY <2>1, <2>3 DEF StillDue, JobsTypeOK
  <2> QED
    BY <2>2, <2>4 DEF LeaseInv
<1>6. CASE JobFails(p)
  BY <1>6 DEF JobFails, MoveTo, lock, LeaseInv, LeaseHeld, PassesYoung, StillDue, Leading,
              InPass, JobsTypeOK
<1>7. CASE Crash(p)
  BY <1>7 DEF Crash, HolderAfter, MoveTo, Forget, LeaseInv, LeaseHeld, PassesYoung, StillDue,
              Leading, InPass, JobsTypeOK
<1>8. CASE Boot(p)
  BY <1>8 DEF Boot, MoveTo, lock, LeaseInv, LeaseHeld, PassesYoung, StillDue, Leading, InPass,
              JobsTypeOK
<1> QED
  BY <1>1, <1>2, <1>3, <1>4, <1>5, <1>6, <1>7, <1>8 DEF Step

LEMMA TickKeepsLease == ASSUME JobsTypeOK, LeaseInv, Tick PROVE LeaseInv'
<1>1. LeaseHeld'
  BY DEF Tick, Older, LeaseInv, LeaseHeld, Leading, InPass, JobsTypeOK
<1>2. PassesYoung'
  <2>1. \A p \in Process : InPass(p)' <=> InPass(p)
    BY DEF Tick, InPass
  <2>2. \A p \in Process : InPass(p) => since'[p] = since[p] + 1
    BY DEF Tick
  <2>3. ~overran' => ~overran /\ \A p \in Process : InPass(p) => ~(since[p] >= TTL)
    BY Zenon DEF Tick
  <2>4. \A p \in Process : since[p] \in Nat
    BY DEF JobsTypeOK
  <2> QED
    BY <2>1, <2>2, <2>3, <2>4 DEF PassesYoung
<1>3. StillDue'
  <2>1. \A j \in Jobs : age[j] <= age'[j]
    BY OlderInBounds, OldestIsANumber DEF Tick, JobsTypeOK
  <2>2. stage' = stage /\ next' = next /\ (overran => overran')
    BY DEF Tick
  <2>3. ASSUME ~overran', NEW p \in Process, stage'[p] = "running"
        PROVE  age'[next'[p]] >= Every[next'[p]]
    <3>1. age[next[p]] >= Every[next[p]] /\ next[p] \in Jobs
      BY <2>2, <2>3 DEF LeaseInv, StillDue, JobsTypeOK
    <3>2. age'[next[p]] \in Nat
      BY <3>1, TickTypes DEF JobsTypeOK
    <3> QED
      BY <2>1, <2>2, <3>1, <3>2 DEF JobsTypeOK
  <2> QED
    BY <2>3 DEF StillDue
<1> QED
  BY <1>1, <1>2, <1>3 DEF LeaseInv

LEMMA LeaseKept == JobsTypeOK /\ LeaseInv /\ [JobsNext]_jobsVars => LeaseInv'
<1> SUFFICES ASSUME JobsTypeOK, LeaseInv, [JobsNext]_jobsVars PROVE LeaseInv'
  OBVIOUS
<1>1. CASE UNCHANGED jobsVars
  BY <1>1 DEF jobsVars, lock, thread, LeaseInv, LeaseHeld, PassesYoung, StillDue, Leading, InPass
<1> QED
  BY <1>1, ThreadKeepsLease, TickKeepsLease DEF JobsNext

LEMMA LeaseInvariant == JobsSpec => []LeaseInv
  BY JobsTypeCorrect, InitLease, LeaseKept, PTL DEF JobsSpec

\* However many processes there are, whatever crashes and however long jobs
\* take: of two that run one job at once, one has outlived its lease.
THEOREM NeverTwiceAtOnce == JobsSpec => []NotTwiceAtOnce
<1>1. JobsTypeOK /\ LeaseInv => NotTwiceAtOnce
  BY DEF JobsTypeOK, LeaseInv, LeaseHeld, Leading, InPass, NotTwiceAtOnce
<1> QED
  BY <1>1, JobsTypeCorrect, LeaseInvariant, PTL

\* Stamps of one job are a period apart until some pass outlives its lease.
THEOREM StampsSpaced == JobsSpec => OncePerPeriod
<1>1. ASSUME LeaseInv
      PROVE  \A p \in Process :
                Stamp(p) /\ ~overran => age[next[p]] >= Every[next[p]]
  BY <1>1 DEF LeaseInv, StillDue, Stamp
<1> QED
  BY <1>1, LeaseInvariant, PTL DEF OncePerPeriod
=============================================================================
