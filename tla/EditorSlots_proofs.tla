------------------------- MODULE EditorSlots_proofs -------------------------
(***************************************************************************)
(* For any site, ids, modules and bound on the edits that satisfy Editor's *)
(* assumptions: every ref to a component still served has exactly the      *)
(* slots of its component's outlets.                                       *)
(*                                                                         *)
(* This needs neither forests nor a true cache: a page whose cache is      *)
(* stale keeps its slots too. But it is not inductive either. Slotful says *)
(* that every ref to a component still served owns what it lists (locked   *)
(* slots that name it as their parent and that no other node lists), that  *)
(* nothing but a slot has such a ref for its parent, in any document or in *)
(* the clipboard, and that no id is mentioned in two documents or before   *)
(* it is handed out. Fit says it of one node map, Kept of an edit of one,  *)
(* Calm of an edit that makes no ref, Carved of a document made from       *)
(* another; Underway follows a sweep ref by ref: those done have the new   *)
(* names, those to come still own the old slots.                           *)
(***************************************************************************)
EXTENDS EditorTrees_proofs

-----------------------------------------------------------------------------
\* Refs and their slots.

Below(n) == {i \in Nat : i < n}

\* The ids a node map mentions.
IdsOf(nodes) == DOMAIN nodes \union UNION {Held(nodes, p) : p \in DOMAIN nodes}

\* What a ref lists is slots, each its own alone.
Own(nodes, r) ==
    /\ IsInjective(nodes[r].children)
    /\ \A k \in Held(nodes, r) :
          /\ k \in DOMAIN nodes /\ nodes[k].moduleId = "slot-instance"
          /\ nodes[k].locked /\ nodes[k].parentId = r
    /\ \A p \in DOMAIN nodes : p # r => Held(nodes, p) \intersect Held(nodes, r) = {}

RefsIn(nodes, C) == {r \in DOMAIN nodes : nodes[r].moduleId = "ref" /\ nodes[r].componentId \in C}

\* A node map with ids below n, where every ref to a component in C owns what it
\* lists. R is such refs, of other maps too: only slots have one for a parent.
Owning(nodes, n, C, R) ==
    /\ IdsOf(nodes) \subseteq Below(n)
    /\ R \subseteq 1..(n - 1) /\ R \intersect DOMAIN nodes = RefsIn(nodes, C)
    /\ \A r \in RefsIn(nodes, C) : Own(nodes, r)
    /\ \A x \in DOMAIN nodes : /\ nodes[x].parentId \in Below(n)
                               /\ nodes[x].parentId \in R => nodes[x].moduleId = "slot-instance"

Calls(nodes, C, want) == \A r \in RefsIn(nodes, C) : SlotNames(nodes, r) = want[nodes[r].componentId]

Fit(nodes, n, C, want, R) == Owning(nodes, n, C, R) /\ Calls(nodes, C, want)

\* An edit of old that hands out the ids from n to m - 1.
Kept(new, old, n, m, C, want, R) ==
    /\ Fit(new, m, C, want, R \union RefsIn(new, C))
    /\ IdsOf(new) \subseteq IdsOf(old) \union n..(m - 1)
    /\ RefsIn(new, C) \subseteq RefsIn(old, C) \union n..(m - 1)

\* An edit that makes no ref and lets every ref that stays keep its slots.
Calm(new, old, n, m, C, R) ==
    /\ \A x \in DOMAIN new : x \in DOMAIN old \/ (x \in n..(m - 1) /\ new[x].moduleId # "ref")
    /\ \A x \in DOMAIN new \intersect DOMAIN old :
          /\ new[x].moduleId = old[x].moduleId /\ new[x].componentId = old[x].componentId
          /\ new[x].locked = old[x].locked
          /\ old[x].moduleId = "slot-instance" => new[x].slotName = old[x].slotName
    /\ \A p \in DOMAIN new : Held(new, p) \subseteq IdsOf(old) \union n..(m - 1)
    /\ \A r \in RefsIn(old, C) \intersect DOMAIN new :
          /\ new[r].children = old[r].children
          /\ \A k \in Held(old, r) : k \in DOMAIN new /\ new[k].parentId = old[k].parentId
          /\ \A p \in DOMAIN new : p # r => Held(new, p) \intersect Held(old, r) = {}
    /\ \A x \in DOMAIN new : /\ new[x].parentId \in Below(m)
                             /\ new[x].parentId \in R => new[x].moduleId = "slot-instance"

\* Such an edit leaves every ref its slots.
LEMMA CalmKept ==
  ASSUME NEW n \in Nat, NEW m \in Nat, n <= m, NEW C, NEW want, NEW R, NEW old, Fit(old, n, C, want, R),
         NEW new, Calm(new, old, n, m, C, R)
  PROVE  Kept(new, old, n, m, C, want, R) /\ RefsIn(new, C) \subseteq RefsIn(old, C)
<1>1. RefsIn(new, C) \subseteq RefsIn(old, C) \intersect DOMAIN new
  BY DEF RefsIn, Calm
<1>2. ASSUME NEW r \in RefsIn(new, C) PROVE Own(new, r) /\ SlotNames(new, r) = want[new[r].componentId]
  <2>1. /\ r \in RefsIn(old, C) /\ r \in DOMAIN new /\ r \in DOMAIN old
        /\ Own(old, r) /\ SlotNames(old, r) = want[old[r].componentId]
    BY <1>1 DEF Fit, Owning, Calls, RefsIn
  <2>2. /\ new[r].children = old[r].children /\ Held(new, r) = Held(old, r)
        /\ new[r].componentId = old[r].componentId
        /\ \A k \in Held(old, r) : k \in DOMAIN new /\ new[k].parentId = old[k].parentId
        /\ \A p \in DOMAIN new : p # r => Held(new, p) \intersect Held(old, r) = {}
    BY <2>1 DEF Calm, Held
  <2>3. \A k \in Held(old, r) : /\ new[k].moduleId = "slot-instance" /\ new[k].locked
                                /\ new[k].slotName = old[k].slotName
    BY <2>1, <2>2 DEF Calm, Own
  <2>4. Own(new, r)
    BY <2>1, <2>2, <2>3 DEF Own
  <2>5. \A i \in DOMAIN old[r].children : old[r].children[i] \in Held(old, r)
    BY DEF Held, ToSet
  <2> QED BY <2>1, <2>2, <2>3, <2>4, <2>5 DEF SlotNames
<1>3. IdsOf(new) \subseteq IdsOf(old) \union n..(m - 1)
  BY DEF IdsOf, Calm
<1>4. IdsOf(old) \subseteq Below(n) /\ R \subseteq 1..(n - 1) /\ R \intersect DOMAIN old = RefsIn(old, C)
  BY DEF Fit, Owning
<1>5. IdsOf(new) \subseteq Below(m)
  BY <1>3, <1>4 DEF Below
<1>6. R \intersect DOMAIN new \subseteq RefsIn(new, C)
  <2> SUFFICES ASSUME NEW r \in R, r \in DOMAIN new PROVE r \in RefsIn(new, C)
    OBVIOUS
  <2>1. r \in DOMAIN old
    BY <1>4 DEF Calm
  <2> QED BY <1>4, <2>1 DEF RefsIn, Calm
<1>7. R \union RefsIn(new, C) = R /\ R \subseteq 1..(m - 1)
  BY <1>1, <1>4
<1>8. Owning(new, m, C, R)
  BY <1>1, <1>2, <1>4, <1>5, <1>6, <1>7 DEF Owning, Calm, RefsIn
<1>9. Calls(new, C, want)
  BY <1>2 DEF Calls
<1> QED BY <1>1, <1>3, <1>7, <1>8, <1>9 DEF Kept, Fit

\* Nodes of one's own, some of them hung under a node that is no such ref.
Hangs(new, a, b, parent, ids, C, R) ==
    /\ DOMAIN a \intersect DOMAIN b = {} /\ parent \in DOMAIN a /\ parent \notin R /\ ids \subseteq DOMAIN b
    /\ \A r \in RefsIn(b, C) : Held(b, r) \intersect ids = {}
    /\ DOMAIN new = DOMAIN a \union DOMAIN b
    /\ Held(new, parent) \subseteq Held(a, parent) \union ids
    /\ \A x \in DOMAIN a :
          /\ new[x].moduleId = a[x].moduleId /\ new[x].componentId = a[x].componentId
          /\ new[x].locked = a[x].locked /\ new[x].slotName = a[x].slotName
          /\ new[x].parentId = a[x].parentId
          /\ x # parent => new[x].children = a[x].children
    /\ \A x \in DOMAIN b :
          /\ new[x].moduleId = b[x].moduleId /\ new[x].componentId = b[x].componentId
          /\ new[x].locked = b[x].locked /\ new[x].slotName = b[x].slotName
          /\ new[x].children = b[x].children
          /\ new[x].parentId = b[x].parentId \/ (x \in ids /\ new[x].parentId = parent)

\* What is hung brings its own slots.
Hung(new, a, b, n, m, C, R) ==
    /\ Owning(new, m, C, R \union RefsIn(b, C))
    /\ IdsOf(new) \subseteq IdsOf(a) \union n..(m - 1)
    /\ RefsIn(b, C) \subseteq n..(m - 1)
    /\ RefsIn(new, C) = RefsIn(a, C) \union RefsIn(b, C)
    /\ \A r \in RefsIn(a, C) : SlotNames(new, r) = SlotNames(a, r) /\ new[r].componentId = a[r].componentId
    /\ \A r \in RefsIn(b, C) : SlotNames(new, r) = SlotNames(b, r) /\ new[r].componentId = b[r].componentId

LEMMA HungOwning ==
  ASSUME NEW n \in Nat, NEW m \in Nat, n <= m, NEW C, NEW R, NEW a, Owning(a, n, C, R),
         NEW b, Owning(b, m, C, R \union RefsIn(b, C)), IdsOf(b) \subseteq n..(m - 1),
         NEW parent, NEW ids, NEW new, Hangs(new, a, b, parent, ids, C, R)
  PROVE  Hung(new, a, b, n, m, C, R)
<1> DEFINE S == R \union RefsIn(b, C)
<1>1. /\ IdsOf(a) \subseteq Below(n) /\ R \subseteq 1..(n - 1) /\ R \intersect DOMAIN a = RefsIn(a, C)
      /\ S \intersect DOMAIN b = RefsIn(b, C) /\ S \subseteq 1..(m - 1)
      /\ RefsIn(a, C) \subseteq DOMAIN a /\ RefsIn(b, C) \subseteq DOMAIN b
      /\ \A p \in DOMAIN a : Held(a, p) \subseteq Below(n) /\ p \in Below(n)
      /\ \A p \in DOMAIN b : Held(b, p) \subseteq n..(m - 1) /\ p \in n..(m - 1)
  BY DEF Owning, IdsOf, RefsIn
<1>2. RefsIn(new, C) = RefsIn(a, C) \union RefsIn(b, C)
  BY DEF RefsIn, Hangs
<1>3. parent \notin RefsIn(a, C) /\ Below(n) \intersect n..(m - 1) = {} /\ ids \subseteq n..(m - 1)
  BY <1>1 DEF Hangs, Below
<1>4. /\ \A p \in DOMAIN a : p # parent => Held(new, p) = Held(a, p)
      /\ \A p \in DOMAIN b : Held(new, p) = Held(b, p)
      /\ Held(new, parent) \subseteq Held(a, parent) \union ids
      /\ DOMAIN new = DOMAIN a \union DOMAIN b /\ DOMAIN a \intersect DOMAIN b = {}
  BY DEF Hangs, Held
<1>5. ASSUME NEW r \in RefsIn(a, C) PROVE Own(new, r) /\ SlotNames(new, r) = SlotNames(a, r) /\ new[r].componentId = a[r].componentId
  <2>1. Own(a, r) /\ r \in DOMAIN a /\ r # parent
    BY <1>1, <1>3 DEF Owning
  <2>2. new[r].children = a[r].children /\ Held(new, r) = Held(a, r) /\ new[r].componentId = a[r].componentId
    BY <1>4, <2>1 DEF Hangs
  <2>3. \A k \in Held(a, r) : k \in DOMAIN a
    BY <2>1 DEF Own
  <2>4. \A k \in Held(a, r) :
           /\ k \in DOMAIN new /\ new[k].moduleId = "slot-instance" /\ new[k].locked
           /\ new[k].parentId = r /\ new[k].slotName = a[k].slotName
    BY <1>4, <2>1, <2>3 DEF Own, Hangs
  <2>5. ASSUME NEW p \in DOMAIN new, p # r PROVE Held(new, p) \intersect Held(a, r) = {}
    <3>1. CASE p \in DOMAIN a
      <4>1. Held(a, p) \intersect Held(a, r) = {}
        BY <2>1, <2>5, <3>1 DEF Own
      <4>2. Held(new, p) \subseteq Held(a, p) \union ids
        BY <1>4, <3>1
      <4>3. ids \intersect Held(a, r) = {}
        BY <1>1, <1>3, <2>1
      <4> QED BY <4>1, <4>2, <4>3
    <3>2. CASE p \in DOMAIN b
      <4>1. Held(new, p) \subseteq n..(m - 1) /\ Held(a, r) \subseteq Below(n)
        BY <1>1, <1>4, <2>1, <3>2
      <4> QED BY <1>3, <4>1
    <3> QED BY <1>4, <3>1, <3>2
  <2>6. Own(new, r)
    BY <2>1, <2>2, <2>4, <2>5 DEF Own
  <2>7. \A i \in DOMAIN a[r].children : a[r].children[i] \in Held(a, r)
    BY DEF Held, ToSet
  <2> QED BY <2>1, <2>2, <2>4, <2>6, <2>7 DEF SlotNames
<1>6. ASSUME NEW r \in RefsIn(b, C) PROVE Own(new, r) /\ SlotNames(new, r) = SlotNames(b, r) /\ new[r].componentId = b[r].componentId
  <2>1. Own(b, r) /\ r \in DOMAIN b
    BY <1>1 DEF Owning
  <2>2. new[r].children = b[r].children /\ Held(new, r) = Held(b, r) /\ new[r].componentId = b[r].componentId
    BY <1>4, <2>1 DEF Hangs
  <2>3. \A k \in Held(b, r) : k \in DOMAIN b /\ k \notin ids
    BY <2>1 DEF Own, Hangs
  <2>4. \A k \in Held(b, r) :
           /\ k \in DOMAIN new /\ new[k].moduleId = "slot-instance" /\ new[k].locked
           /\ new[k].parentId = r /\ new[k].slotName = b[k].slotName
    BY <1>4, <2>1, <2>3 DEF Own, Hangs
  <2>5. ASSUME NEW p \in DOMAIN new, p # r PROVE Held(new, p) \intersect Held(b, r) = {}
    <3>1. CASE p \in DOMAIN b
      BY <1>4, <2>1, <2>5, <3>1 DEF Own
    <3>2. CASE p \in DOMAIN a
      <4>1. Held(new, p) \subseteq Below(n) \union ids /\ Held(b, r) \subseteq n..(m - 1)
        BY <1>1, <1>4, <2>1, <3>2
      <4> QED BY <1>3, <2>3, <4>1
    <3> QED BY <1>4, <3>1, <3>2
  <2>6. Own(new, r)
    BY <2>1, <2>2, <2>4, <2>5 DEF Own
  <2>7. \A i \in DOMAIN b[r].children : b[r].children[i] \in Held(b, r)
    BY DEF Held, ToSet
  <2> QED BY <2>1, <2>2, <2>4, <2>6, <2>7 DEF SlotNames
<1>7. IdsOf(new) \subseteq IdsOf(a) \union n..(m - 1)
  <2>1. \A p \in DOMAIN new : p \in IdsOf(a) \union n..(m - 1)
    BY <1>1, <1>4 DEF IdsOf
  <2>2. \A p \in DOMAIN a : Held(a, p) \subseteq IdsOf(a)
    BY DEF IdsOf
  <2>3. parent \in DOMAIN a
    BY DEF Hangs
  <2>4. \A p \in DOMAIN new : Held(new, p) \subseteq IdsOf(a) \union n..(m - 1)
    BY <1>1, <1>3, <1>4, <2>2, <2>3
  <2> QED BY <2>1, <2>4 DEF IdsOf
<1>8. IdsOf(new) \subseteq Below(m)
  BY <1>1, <1>7 DEF Below
<1>9. S \intersect DOMAIN new = RefsIn(new, C)
  <2>1. RefsIn(b, C) \intersect DOMAIN a = {}
    BY <1>1, <1>4
  <2>2. R \intersect DOMAIN b \subseteq RefsIn(b, C)
    BY <1>1
  <2> QED BY <1>1, <1>2, <1>4, <2>1, <2>2
<1>10. ASSUME NEW x \in DOMAIN new
       PROVE  new[x].parentId \in Below(m) /\ (new[x].parentId \in S => new[x].moduleId = "slot-instance")
  <2>1. CASE x \in DOMAIN a
    <3>1. /\ new[x].parentId = a[x].parentId /\ new[x].moduleId = a[x].moduleId
          /\ a[x].parentId \in Below(n) /\ (a[x].parentId \in R => a[x].moduleId = "slot-instance")
      BY <2>1 DEF Hangs, Owning
    <3>2. RefsIn(b, C) \intersect Below(n) = {}
      BY <1>1, <1>3
    <3> QED BY <3>1, <3>2 DEF Below
  <2>2. CASE x \in DOMAIN b
    <3>1. /\ b[x].parentId \in Below(m) /\ (b[x].parentId \in S => b[x].moduleId = "slot-instance")
          /\ new[x].moduleId = b[x].moduleId
          /\ new[x].parentId = b[x].parentId \/ new[x].parentId = parent
      BY <2>2 DEF Hangs, Owning
    <3>2. parent \in Below(n) /\ parent \notin S
      BY <1>1, <1>3, <1>4 DEF Hangs
    <3> QED BY <3>1, <3>2 DEF Below
  <2> QED BY <1>4, <2>1, <2>2
<1>11. R \union RefsIn(new, C) = S
  BY <1>1, <1>2
<1>12. Owning(new, m, C, S)
  BY <1>1, <1>2, <1>5, <1>6, <1>8, <1>9, <1>10 DEF Owning
<1>13. RefsIn(b, C) \subseteq n..(m - 1)
  BY <1>1
<1> QED BY <1>2, <1>5, <1>6, <1>7, <1>12, <1>13 DEF Hung

LEMMA HungKept ==
  ASSUME NEW n \in Nat, NEW m \in Nat, n <= m, NEW C, NEW want, NEW R, NEW a, Fit(a, n, C, want, R),
         NEW b, Fit(b, m, C, want, R \union RefsIn(b, C)), IdsOf(b) \subseteq n..(m - 1),
         NEW parent, NEW ids, NEW new, Hangs(new, a, b, parent, ids, C, R)
  PROVE  Kept(new, a, n, m, C, want, R)
<1>1. Hung(new, a, b, n, m, C, R)
  <2>1. Owning(a, n, C, R) /\ Owning(b, m, C, R \union RefsIn(b, C))
    BY DEF Fit
  <2> QED BY <2>1, HungOwning
<1>2. Calls(new, C, want)
  BY <1>1 DEF Hung, Fit, Calls
<1>3. RefsIn(a, C) \subseteq R
  BY DEF Fit, Owning
<1>4. R \union RefsIn(new, C) = R \union RefsIn(b, C)
  BY <1>1, <1>3 DEF Hung
<1>5. /\ Owning(new, m, C, R \union RefsIn(b, C))
      /\ IdsOf(new) \subseteq IdsOf(a) \union n..(m - 1)
      /\ RefsIn(new, C) \subseteq RefsIn(a, C) \union n..(m - 1)
  BY <1>1 DEF Hung
<1> QED BY <1>2, <1>4, <1>5 DEF Kept, Fit

\* A list all of which is wanted is kept as it is.
LEMMA KeepAll ==
  ASSUME NEW E, NEW list \in Seq(E), NEW set, ToSet(list) \subseteq set
  PROVE  Keep(list, set) = list
<1>1. Len(list) \in Nat /\ \A i \in 1..Len(list) : list[i] \in set
  BY DEF ToSet
<1>2. PICK f : /\ f = [k \in 0..Len(list) |-> IF k = 0 THEN <<>>
                         ELSE IF list[k] \in set THEN Append(f[k - 1], list[k]) ELSE f[k - 1]]
               /\ Keep(list, set) = f[Len(list)]
  BY <1>1, KeepTurns
<1> DEFINE S == {k \in 0..Len(list) : /\ f[k] \in Seq(E) /\ Len(f[k]) = k
                                       /\ \A i \in 1..k : f[k][i] = list[i]}
<1>3. 0 \in S
  BY <1>1, <1>2
<1>4. ASSUME NEW k \in 0..(Len(list) - 1), k \in S PROVE k + 1 \in S
  <2>1. k + 1 \in 1..Len(list) /\ k + 1 \in 0..Len(list) /\ k + 1 # 0 /\ (k + 1) - 1 = k /\ list[k + 1] \in E
    BY <1>1
  <2>2. f[k + 1] = IF list[k + 1] \in set THEN Append(f[k], list[k + 1]) ELSE f[k]
    BY <1>2, <2>1
  <2>3. f[k] \in Seq(E) /\ Len(f[k]) = k /\ \A i \in 1..k : f[k][i] = list[i]
    BY <1>4
  <2>4. list[k + 1] \in set
    BY <1>1, <2>1
  <2>5. f[k + 1] = Append(f[k], list[k + 1])
    BY <2>2, <2>4
  <2>6. /\ Append(f[k], list[k + 1]) \in Seq(E) /\ Len(Append(f[k], list[k + 1])) = k + 1
        /\ \A i \in 1..(k + 1) : Append(f[k], list[k + 1])[i] = list[i]
    <3>1. k \in Nat
      OBVIOUS
    <3> QED BY <2>1, <2>3, <3>1
  <2> QED BY <2>1, <2>5, <2>6
<1>5. \A k \in 0..Len(list) : k \in S
  <2> HIDE DEF S
  <2> QED BY <1>1, <1>3, <1>4, UpTo
<1>6. Len(list) \in S
  BY <1>1, <1>5
<1>7. /\ Keep(list, set) \in Seq(E) /\ Len(Keep(list, set)) = Len(list)
      /\ \A i \in 1..Len(list) : Keep(list, set)[i] = list[i]
  BY <1>2, <1>6
<1> QED BY <1>7

\* What edits of a node's children or parent leave alone.
OneKind(new, old) ==
    /\ new.moduleId = old.moduleId /\ new.componentId = old.componentId
    /\ new.locked = old.locked /\ new.slotName = old.slotName

LEMMA Relist ==
  ASSUME NEW n, NEW node \in Node(n), NEW kids
  PROVE  /\ [node EXCEPT !.children = kids].moduleId = node.moduleId
         /\ [node EXCEPT !.children = kids].componentId = node.componentId
         /\ [node EXCEPT !.children = kids].locked = node.locked
         /\ [node EXCEPT !.children = kids].slotName = node.slotName
         /\ [node EXCEPT !.children = kids].children = kids
         /\ [node EXCEPT !.children = kids].parentId = node.parentId
  BY DEF Node

LEMMA Rehang ==
  ASSUME NEW n, NEW node \in Node(n), NEW p
  PROVE  /\ [node EXCEPT !.parentId = p].moduleId = node.moduleId
         /\ [node EXCEPT !.parentId = p].componentId = node.componentId
         /\ [node EXCEPT !.parentId = p].locked = node.locked
         /\ [node EXCEPT !.parentId = p].slotName = node.slotName
         /\ [node EXCEPT !.parentId = p].children = node.children
         /\ [node EXCEPT !.parentId = p].parentId = p
  BY DEF Node

\* Edits of edits.
LEMMA KeptOn ==
  ASSUME NEW n \in Nat, NEW m \in Nat, NEW o \in Nat, n <= m, m <= o, NEW C, NEW want, NEW R, NEW a, NEW b, NEW c,
         Kept(b, a, n, m, C, want, R), Kept(c, b, m, o, C, want, R \union RefsIn(b, C)),
         RefsIn(b, C) \subseteq RefsIn(c, C)
  PROVE  Kept(c, a, n, o, C, want, R)
<1>1. /\ IdsOf(b) \subseteq IdsOf(a) \union n..(m - 1) /\ IdsOf(c) \subseteq IdsOf(b) \union m..(o - 1)
      /\ RefsIn(b, C) \subseteq RefsIn(a, C) \union n..(m - 1)
      /\ RefsIn(c, C) \subseteq RefsIn(b, C) \union m..(o - 1)
      /\ Fit(c, o, C, want, (R \union RefsIn(b, C)) \union RefsIn(c, C))
  BY DEF Kept
<1>2. n..(m - 1) \subseteq n..(o - 1) /\ m..(o - 1) \subseteq n..(o - 1)
  OBVIOUS
<1>3. (R \union RefsIn(b, C)) \union RefsIn(c, C) = R \union RefsIn(c, C)
  OBVIOUS
<1> QED BY <1>1, <1>2, <1>3 DEF Kept

\* Among fewer refs and more ids.
LEMMA FitLess ==
  ASSUME NEW n \in Nat, NEW m \in Nat, n <= m, n # 0, NEW C, NEW want, NEW R, NEW nodes,
         Fit(nodes, n, C, want, R), NEW S, S \subseteq R \union n..(m - 1), RefsIn(nodes, C) \subseteq S
  PROVE  Fit(nodes, m, C, want, S)
<1>1. /\ IdsOf(nodes) \subseteq Below(n) /\ R \subseteq 1..(n - 1) /\ R \intersect DOMAIN nodes = RefsIn(nodes, C)
      /\ \A x \in DOMAIN nodes : /\ nodes[x].parentId \in Below(n)
                                 /\ nodes[x].parentId \in R => nodes[x].moduleId = "slot-instance"
      /\ \A r \in RefsIn(nodes, C) : Own(nodes, r)
  BY DEF Fit, Owning
<1>2. Below(n) \subseteq Below(m) /\ Below(n) \intersect n..(m - 1) = {} /\ DOMAIN nodes \subseteq Below(n)
  BY <1>1 DEF Below, IdsOf
<1>3. S \subseteq 1..(m - 1)
  BY <1>1
<1>4. S \intersect DOMAIN nodes = RefsIn(nodes, C)
  BY <1>1, <1>2 DEF RefsIn
<1>5. \A x \in DOMAIN nodes : /\ nodes[x].parentId \in Below(m)
                              /\ nodes[x].parentId \in S => nodes[x].moduleId = "slot-instance"
  BY <1>1, <1>2
<1> QED BY <1>1, <1>2, <1>3, <1>4, <1>5 DEF Fit, Owning

\* A document's refs and their slots, spelt out.
Tidy(tree, n, C, R) ==
    /\ Lists(tree.nodes) /\ tree.rootNodeId \in DOMAIN tree.nodes /\ tree.rootNodeId \notin R
    /\ tree = [rootNodeId |-> tree.rootNodeId, nodes |-> tree.nodes]
    /\ tree.nodes = [x \in DOMAIN tree.nodes |-> tree.nodes[x]]
    /\ tree.nodes[tree.rootNodeId].moduleId = "body"
    /\ \A x \in DOMAIN tree.nodes :
          /\ x \in Nat /\ x # Null /\ x \in Below(n) /\ tree.nodes[x] \in Node(n)
          /\ tree.nodes[x].children \in Seq(Nat) /\ Held(tree.nodes, x) = ToSet(tree.nodes[x].children)
          /\ tree.nodes[x].parentId \in Below(n)
          /\ tree.nodes[x].parentId \in R => tree.nodes[x].moduleId = "slot-instance"
          /\ Held(tree.nodes, x) \subseteq Below(n) /\ Held(tree.nodes, x) \subseteq IdsOf(tree.nodes)
          /\ x \in R => tree.nodes[x].moduleId = "ref" /\ tree.nodes[x].componentId \in C
          /\ x \in R <=> x \in RefsIn(tree.nodes, C)
    /\ \A r \in RefsIn(tree.nodes, C) : r \in DOMAIN tree.nodes /\ r \in R /\ Own(tree.nodes, r)
    /\ Null \notin R /\ Null \notin DOMAIN tree.nodes /\ R \subseteq 1..(n - 1)
    /\ IdsOf(tree.nodes) \subseteq Below(n) /\ DOMAIN tree.nodes \subseteq Below(n)

LEMMA FitIs ==
  ASSUME NEW n \in Nat, NEW C, NEW want, NEW R, NEW tree, IsDocument(tree, n), Fit(tree.nodes, n, C, want, R)
  PROVE  Tidy(tree, n, C, R)
<1>1. /\ tree = [rootNodeId |-> tree.rootNodeId, nodes |-> tree.nodes]
      /\ Sound(tree.nodes, tree.rootNodeId, n)
  BY DocumentIs
<1>2. /\ Lists(tree.nodes) /\ tree.rootNodeId \in DOMAIN tree.nodes
      /\ \A id \in DOMAIN tree.nodes : id \in Nat /\ tree.nodes[id] \in Node(n)
                                       /\ tree.nodes[id].children \in Seq(Nat)
  BY DocumentLists
<1>3. /\ tree.nodes = [x \in DOMAIN tree.nodes |-> tree.nodes[x]] /\ DOMAIN tree.nodes \subseteq 1..(n - 1)
      /\ tree.nodes[tree.rootNodeId].moduleId = "body"
  BY <1>1 DEF Sound
<1>4. /\ IdsOf(tree.nodes) \subseteq Below(n) /\ R \subseteq 1..(n - 1) /\ R \intersect DOMAIN tree.nodes = RefsIn(tree.nodes, C)
      /\ \A x \in DOMAIN tree.nodes : /\ tree.nodes[x].parentId \in Below(n)
                                      /\ tree.nodes[x].parentId \in R => tree.nodes[x].moduleId = "slot-instance"
      /\ \A r \in RefsIn(tree.nodes, C) : Own(tree.nodes, r)
  BY DEF Fit, Owning
<1>5. tree.rootNodeId \notin R
  BY <1>2, <1>3, <1>4 DEF RefsIn
<1>6. \A x \in DOMAIN tree.nodes : Held(tree.nodes, x) \subseteq IdsOf(tree.nodes) /\ x \in IdsOf(tree.nodes)
  BY DEF IdsOf
<1>7. Null \notin 1..(n - 1)
  BY DEF Null
<1>8. Lists(tree.nodes) /\ Null \notin R /\ Null \notin DOMAIN tree.nodes /\ DOMAIN tree.nodes \subseteq Below(n)
  BY <1>2, <1>3, <1>4, <1>6, <1>7
<1>9. \A x \in DOMAIN tree.nodes : (x \in R => tree.nodes[x].moduleId = "ref" /\ tree.nodes[x].componentId \in C)
                                  /\ (x \in R <=> x \in RefsIn(tree.nodes, C))
  BY <1>4 DEF RefsIn
<1>10. \A r \in RefsIn(tree.nodes, C) : r \in DOMAIN tree.nodes /\ r \in R /\ Own(tree.nodes, r)
  BY <1>4
<1>11. \A x \in DOMAIN tree.nodes : /\ x \in Nat /\ x # Null /\ x \in Below(n) /\ tree.nodes[x] \in Node(n)
                                    /\ tree.nodes[x].children \in Seq(Nat)
                                    /\ Held(tree.nodes, x) \subseteq Below(n) /\ Held(tree.nodes, x) \subseteq IdsOf(tree.nodes)
  BY <1>2, <1>4, <1>6, <1>8
<1> QED BY <1>1, <1>2, <1>3, <1>4, <1>5, <1>8, <1>9, <1>10, <1>11 DEF Held, Tidy

\* A ref's slots are in a subtree if the ref is, and but for its root only then.
LEMMA SlotsUnder ==
  ASSUME NEW tree, Lists(tree.nodes), NEW root \in Nat, NEW r \in DOMAIN tree.nodes, Own(tree.nodes, r)
  PROVE  /\ r \in Subtree(tree, root) => Held(tree.nodes, r) \subseteq Subtree(tree, root)
         /\ \A k \in Held(tree.nodes, r) : k \in Subtree(tree, root) => k = root \/ r \in Subtree(tree, root)
<1>1. /\ Subtree(tree, root) \subseteq DOMAIN tree.nodes
      /\ \A x \in Subtree(tree, root) : x = root \/ \E p \in Subtree(tree, root) : x \in Held(tree.nodes, p)
      /\ \A p \in Subtree(tree, root) : \A c \in Held(tree.nodes, p) :
            c \in DOMAIN tree.nodes => c \in Subtree(tree, root)
  BY SubtreeIs DEF Has, Kids, Held
<1>2. \A k \in Held(tree.nodes, r) : k \in DOMAIN tree.nodes
  BY DEF Own
<1>3. \A p \in DOMAIN tree.nodes : p # r => Held(tree.nodes, p) \intersect Held(tree.nodes, r) = {}
  BY DEF Own
<1> QED BY <1>1, <1>2, <1>3

\* Who lists what is no slot is no such ref.
LEMMA NotListed ==
  ASSUME NEW n \in Nat, NEW C, NEW want, NEW R, NEW tree, IsDocument(tree, n), Fit(tree.nodes, n, C, want, R),
         NEW p \in DOMAIN tree.nodes, NEW x \in Held(tree.nodes, p),
         x \in DOMAIN tree.nodes => tree.nodes[x].moduleId # "slot-instance"
  PROVE  p \notin R
<1>0. Tidy(tree, n, C, R)
  BY FitIs
<1> QED BY <1>0 DEF Tidy, Own

\* Nor is the parent of what is none, or of what no such ref has for a slot.
LEMMA ParentFree ==
  ASSUME NEW n \in Nat, NEW C, NEW want, NEW R, NEW tree, IsDocument(tree, n), Fit(tree.nodes, n, C, want, R),
         NEW id, id \in DOMAIN tree.nodes => tree.nodes[id].moduleId # "slot-instance"
  PROVE  Parent(tree, id) \notin R
<1>0. Tidy(tree, n, C, R)
  BY FitIs
<1> QED BY <1>0 DEF Tidy, Parent, Has

\* insertLocation.ts: nothing goes beside a slot but into it.
LEMMA SiblingFree ==
  ASSUME NEW n \in Nat, NEW C, NEW want, NEW R, NEW tree, IsDocument(tree, n), Fit(tree.nodes, n, C, want, R),
         NEW target \in DOMAIN tree.nodes, tree.nodes[target].moduleId # "slot-instance"
  PROVE  SiblingAfter(tree, target).parentId \notin R
<1>0. Tidy(tree, n, C, R)
  BY FitIs
<1>1. CASE SiblingAfter(tree, target).parentId = Null
  BY <1>1, <1>0 DEF Tidy
<1>2. CASE SiblingAfter(tree, target).parentId # Null
  <2> DEFINE p == SiblingAfter(tree, target).parentId
  <2>1. p \in DOMAIN tree.nodes /\ Contains(tree.nodes[p].children, target)
    BY <1>2, SiblingListed
  <2>2. target \in Held(tree.nodes, p)
    BY <2>1, <1>0, ContainsIs DEF Tidy
  <2> QED BY <2>1, <2>2, NotListed
<1> QED BY <1>1, <1>2

LEMMA InsertLocationFree ==
  ASSUME NEW n \in Nat, NEW C, NEW want, NEW R, NEW tree, IsDocument(tree, n), Fit(tree.nodes, n, C, want, R),
         NEW target \in DOMAIN tree.nodes
  PROVE  InsertLocation(tree, target).parentId \notin R
<1>0. Tidy(tree, n, C, R)
  BY FitIs
<1> DEFINE node == tree.nodes[target]
           slots == Keep(node.children, Slots(tree))
           atEnd(id) == [parentId |-> id, index |-> Len(tree.nodes[id].children)]
<1>1. InsertLocation(tree, target) =
        CASE target # tree.rootNodeId /\ ~CanHaveChildren(node) -> SiblingAfter(tree, target)
          [] node.moduleId = "ref" -> IF slots # <<>> THEN atEnd(slots[1]) ELSE SiblingAfter(tree, target)
          [] OTHER -> atEnd(target)
  BY DEF InsertLocation
<1>2. \A id : atEnd(id).parentId = id
  OBVIOUS
<1>3. tree.nodes[tree.rootNodeId].moduleId = "body"
  BY DEF IsDocument
<1>4. CASE target # tree.rootNodeId /\ ~CanHaveChildren(node)
  <2>1. node.moduleId # "slot-instance"
    BY <1>4 DEF CanHaveChildren
  <2>2. InsertLocation(tree, target) = SiblingAfter(tree, target)
    BY <1>1, <1>3, <1>4 DEF CanHaveChildren
  <2> QED BY <2>1, <2>2, SiblingFree
<1>5. CASE ~(target # tree.rootNodeId /\ ~CanHaveChildren(node)) /\ node.moduleId = "ref"
  <2>1. CASE slots = <<>>
    <3>1. InsertLocation(tree, target) = SiblingAfter(tree, target)
      BY <1>1, <1>5, <2>1, <1>3 DEF CanHaveChildren
    <3> QED BY <1>5, <3>1, SiblingFree
  <2>2. CASE slots # <<>>
    <3>1. InsertLocation(tree, target) = atEnd(slots[1])
      BY <1>1, <1>5, <2>2, <1>3 DEF CanHaveChildren
    <3>2. slots \in Seq(Nat) /\ ToSet(slots) = ToSet(node.children) \intersect Slots(tree)
      BY <1>0, KeepIs DEF Tidy
    <3>3. slots[1] \in Slots(tree)
      BY <2>2, <3>2, EndsOf
    <3>4. slots[1] \notin R
      BY <3>3, <1>0 DEF Tidy, Slots, RefsIn
    <3> QED BY <1>2, <3>1, <3>4
  <2> QED BY <2>1, <2>2
<1>6. CASE ~(target # tree.rootNodeId /\ ~CanHaveChildren(node)) /\ node.moduleId # "ref"
  <2>1. InsertLocation(tree, target) = atEnd(target)
    BY <1>1, <1>6
  <2>2. target \notin R
    BY <1>6, <1>0 DEF Tidy, RefsIn
  <2> QED BY <1>2, <2>1, <2>2
<1> QED BY <1>4, <1>5, <1>6

\* dnd.ts: nor does anything drop into a ref.
LEMMA DropTargetFree ==
  ASSUME NEW n \in Nat, NEW C, NEW want, NEW R, NEW tree, IsDocument(tree, n), Fit(tree.nodes, n, C, want, R),
         NEW dragged, NEW ids \in Seq(Nat), NEW over \in DOMAIN tree.nodes, NEW zone,
         ResolveDropTarget(tree, dragged, ids, over, zone) # Nowhere
  PROVE  /\ ResolveDropTarget(tree, dragged, ids, over, zone).parentId \notin R
         /\ \A id \in ToSet(ids) : Has(tree, id) /\ ~tree.nodes[id].locked
<1>0. Tidy(tree, n, C, R)
  BY FitIs
<1> DEFINE parent == IF zone = "inside" THEN over ELSE Parent(tree, over)
           to == ResolveDropTarget(tree, dragged, ids, over, zone)
<1>1. /\ to.parentId = parent /\ tree.nodes[parent].moduleId # "ref"
      /\ \A id \in ToSet(ids) : Has(tree, id) /\ ~tree.nodes[id].locked
  BY DEF ResolveDropTarget
<1>2. parent \notin R
  BY <1>1, <1>0 DEF Tidy, RefsIn, Parent, Has
<1> QED BY <1>1, <1>2

\* A calm edit that brings no node and leaves every parent.
Pared(new, old, n, C, R) ==
    /\ Calm(new, old, n, n, C, R)
    /\ DOMAIN new \subseteq DOMAIN old
    /\ \A x \in DOMAIN new : new[x].parentId = old[x].parentId

\* subtreeRemoval.ts: a ref that stays keeps its slots, unless one of them is
\* what is deleted.
LEMMA DeleteSubtreeCalm ==
  ASSUME NEW n \in Nat, NEW C, NEW want, NEW R, NEW tree, IsDocument(tree, n), Fit(tree.nodes, n, C, want, R),
         NEW id \in Nat, Parent(tree, id) \notin R
  PROVE  Pared(DeleteSubtree(tree, id).nodes, tree.nodes, n, C, R)
<1>0. Tidy(tree, n, C, R)
  BY FitIs
<1> DEFINE nodes == tree.nodes
           gone == Subtree(tree, id)
           parent == Parent(tree, id)
           left == [x \in DOMAIN nodes \ gone |->
                      IF x = parent
                      THEN [nodes[x] EXCEPT !.children = Keep(nodes[x].children, ToSet(nodes[x].children) \ {id})]
                      ELSE nodes[x]]
<1>1. DeleteSubtree(tree, id).nodes = left
  BY <1>0 DEF Tidy, DeleteSubtree
<1> DEFINE fewer(x) == Keep(nodes[x].children, ToSet(nodes[x].children) \ {id})
<1>a. /\ DOMAIN left = DOMAIN nodes \ gone
      /\ \A x \in DOMAIN left : left[x] = IF x = parent THEN [nodes[x] EXCEPT !.children = fewer(x)] ELSE nodes[x]
  OBVIOUS
<1> HIDE DEF left, fewer
<1>2. \A x \in DOMAIN left : /\ OneKind(left[x], nodes[x]) /\ left[x].parentId = nodes[x].parentId
                             /\ x # parent => left[x] = nodes[x]
                             /\ Held(left, x) \subseteq Held(nodes, x)
  <2> SUFFICES ASSUME NEW x \in DOMAIN left
               PROVE  /\ OneKind(left[x], nodes[x]) /\ left[x].parentId = nodes[x].parentId
                      /\ x # parent => left[x] = nodes[x]
                      /\ Held(left, x) \subseteq Held(nodes, x)
    OBVIOUS
  <2>1. x \in DOMAIN nodes /\ nodes[x] \in Node(n) /\ nodes[x].children \in Seq(Nat)
    BY <1>0, <1>a DEF Tidy
  <2>2. CASE x # parent
    BY <1>a, <2>2 DEF OneKind, Held
  <2>3. CASE x = parent
    <3>1. left[x] = [nodes[x] EXCEPT !.children = fewer(x)]
      BY <1>a, <2>3
    <3>2. ToSet(fewer(x)) \subseteq ToSet(nodes[x].children)
      BY <2>1, KeepIs DEF fewer
    <3>3. OneKind(left[x], nodes[x]) /\ left[x].parentId = nodes[x].parentId /\ left[x].children = fewer(x)
      BY <2>1, <3>1, Relist DEF OneKind
    <3> QED BY <2>3, <3>2, <3>3 DEF Held
  <2> QED BY <2>2, <2>3
<1>3. ASSUME NEW r \in RefsIn(nodes, C) \intersect DOMAIN left
      PROVE  /\ left[r] = nodes[r]
             /\ \A k \in Held(nodes, r) : k \in DOMAIN left
  <2>1. r \in DOMAIN nodes /\ r \in R /\ Own(nodes, r) /\ Lists(nodes) /\ r \notin gone /\ r # parent
    BY <1>0, <1>a DEF Tidy
  <2>2. \A k \in Held(nodes, r) : k \in DOMAIN nodes /\ nodes[k].parentId = r
    BY <2>1 DEF Own
  <2>3. id \notin Held(nodes, r)
    BY <2>1, <2>2 DEF Parent, Has
  <2>4. \A k \in Held(nodes, r) : k \in gone => k = id \/ r \in gone
    BY <2>1, SlotsUnder
  <2> QED BY <1>a, <1>2, <2>1, <2>2, <2>3, <2>4
<1>4. ASSUME NEW r \in RefsIn(nodes, C) \intersect DOMAIN left, NEW p \in DOMAIN left, p # r
      PROVE  Held(left, p) \intersect Held(nodes, r) = {}
  <2>1. Held(nodes, p) \intersect Held(nodes, r) = {}
    BY <1>a, <1>4, <1>0 DEF Tidy, Own
  <2> QED BY <1>2, <2>1
<1>5. \A x \in DOMAIN left : /\ Held(left, x) \subseteq IdsOf(nodes) /\ x \in DOMAIN nodes
                             /\ left[x].parentId \in Below(n)
                             /\ left[x].parentId \in R => left[x].moduleId = "slot-instance"
  <2>1. \A x \in DOMAIN nodes : /\ Held(nodes, x) \subseteq IdsOf(nodes) /\ nodes[x].parentId \in Below(n)
                                /\ nodes[x].parentId \in R => nodes[x].moduleId = "slot-instance"
    BY <1>0 DEF Tidy
  <2>2. \A x \in DOMAIN left : x \in DOMAIN nodes /\ left[x].moduleId = nodes[x].moduleId
    BY <1>a, <1>2 DEF OneKind
  <2>3. \A x \in DOMAIN left : Held(left, x) \subseteq Held(nodes, x) /\ left[x].parentId = nodes[x].parentId
    BY <1>2
  <2> SUFFICES ASSUME NEW x \in DOMAIN left
               PROVE  /\ Held(left, x) \subseteq IdsOf(nodes) /\ x \in DOMAIN nodes
                      /\ left[x].parentId \in Below(n)
                      /\ left[x].parentId \in R => left[x].moduleId = "slot-instance"
    OBVIOUS
  <2>4. x \in DOMAIN nodes /\ left[x].moduleId = nodes[x].moduleId /\ left[x].parentId = nodes[x].parentId
    BY <2>2, <2>3
  <2>5. Held(left, x) \subseteq IdsOf(nodes)
    BY <2>1, <2>3, <2>4
  <2> QED BY <2>1, <2>4, <2>5
<1>6. Calm(left, nodes, n, n, C, R)
  BY <1>2, <1>3, <1>4, <1>5 DEF Calm, OneKind
<1> QED BY <1>1, <1>2, <1>5, <1>6 DEF Pared

\* An edit that brings no ref.
Trim(new, old, n, m, C, want, R) ==
    /\ Fit(new, m, C, want, R)
    /\ IdsOf(new) \subseteq IdsOf(old) \union n..(m - 1)
    /\ RefsIn(new, C) \subseteq RefsIn(old, C)

LEMMA CalmTrim ==
  ASSUME NEW n \in Nat, NEW m \in Nat, n <= m, NEW C, NEW want, NEW R, NEW old, Fit(old, n, C, want, R),
         NEW new, Calm(new, old, n, m, C, R)
  PROVE  Trim(new, old, n, m, C, want, R)
<1>1. Kept(new, old, n, m, C, want, R) /\ RefsIn(new, C) \subseteq RefsIn(old, C)
  BY CalmKept
<1>2. RefsIn(old, C) \subseteq R
  BY DEF Fit, Owning
<1>3. R \union RefsIn(new, C) = R
  BY <1>1, <1>2
<1> QED BY <1>1, <1>3 DEF Kept, Trim

LEMMA TrimKept ==
  ASSUME NEW n, NEW m, NEW C, NEW want, NEW R, NEW old, Fit(old, n, C, want, R),
         NEW new, Trim(new, old, n, m, C, want, R)
  PROVE  Kept(new, old, n, m, C, want, R)
<1>1. RefsIn(new, C) \subseteq RefsIn(old, C) /\ RefsIn(old, C) \subseteq R
  BY DEF Fit, Owning, Trim
<1>2. R \union RefsIn(new, C) = R
  BY <1>1
<1> QED BY <1>1, <1>2 DEF Kept, Trim

\* One deletion after the other.
LEMMA DeleteSubtreesTrim ==
  ASSUME NEW n \in Nat, NEW C, NEW want, NEW R, NEW tree, IsDocument(tree, n), Fit(tree.nodes, n, C, want, R),
         NEW ids \in Seq(Nat), tree.rootNodeId \notin ToSet(ids),
         \A id \in ToSet(ids) : Parent(tree, id) \notin R
  PROVE  Trim(DeleteSubtrees(tree, ids).nodes, tree.nodes, n, n, C, want, R)
<1> DEFINE Now(t) == /\ IsDocument(t, n) /\ t.rootNodeId = tree.rootNodeId
                     /\ Trim(t.nodes, tree.nodes, n, n, C, want, R)
                     /\ DOMAIN t.nodes \subseteq DOMAIN tree.nodes
                     /\ \A x \in DOMAIN t.nodes : t.nodes[x].parentId = tree.nodes[x].parentId
<1>1. Len(ids) \in Nat /\ \A k \in 1..Len(ids) : ids[k] \in Nat /\ ids[k] \in ToSet(ids)
  BY DEF ToSet
<1>2. PICK f : /\ f[0] = tree
               /\ \A k \in 1..Len(ids) : f[k] = DeleteSubtree(f[k - 1], ids[k])
               /\ DeleteSubtrees(tree, ids) = f[Len(ids)]
  BY <1>1, DeleteTurns
<1> DEFINE S == {k \in 0..Len(ids) : Now(f[k])}
<1>3. 0 \in S
  <2>1. Trim(tree.nodes, tree.nodes, n, n, C, want, R)
    BY DEF Trim
  <2>2. 0 \in 0..Len(ids)
    BY <1>1
  <2> QED BY <1>2, <2>1, <2>2
<1>4. ASSUME NEW k \in 0..(Len(ids) - 1), k \in S PROVE k + 1 \in S
  <2>1. k + 1 \in 1..Len(ids) /\ k + 1 \in 0..Len(ids) /\ (k + 1) - 1 = k
    BY <1>1
  <2>2. f[k + 1] = DeleteSubtree(f[k], ids[k + 1])
    BY <1>2, <2>1
  <2> DEFINE now == f[k]
             id == ids[k + 1]
             new == DeleteSubtree(now, id)
  <2>3. Now(now)
    BY <1>4
  <2>4. id \in Nat /\ id \in ToSet(ids) /\ id # tree.rootNodeId
    BY <1>1, <2>1
  <2> HIDE DEF now, id
  <2>5. IsDocument(now, n) /\ Fit(now.nodes, n, C, want, R) /\ id # now.rootNodeId
    BY <2>3, <2>4 DEF Trim
  <2>6. Parent(now, id) \notin R
    <3>1. Parent(tree, id) \notin R /\ Null \notin R
      <4>1. Tidy(tree, n, C, R)
        BY FitIs
      <4> QED BY <2>4, <4>1 DEF Tidy
    <3> QED BY <2>3, <3>1 DEF Parent, Has
  <2>7. /\ Calm(new.nodes, now.nodes, n, n, C, R)
        /\ DOMAIN new.nodes \subseteq DOMAIN now.nodes
        /\ \A x \in DOMAIN new.nodes : new.nodes[x].parentId = now.nodes[x].parentId
    <3>1. Pared(new.nodes, now.nodes, n, C, R)
      BY <2>4, <2>5, <2>6, DeleteSubtreeCalm
    <3> QED BY <3>1 DEF Pared
  <2>8. Like(new, now, n)
    BY <2>4, <2>5, DeleteSubtreeIs
  <2>9. Trim(new.nodes, now.nodes, n, n, C, want, R)
    BY <2>5, <2>7, CalmTrim
  <2>10. Trim(new.nodes, tree.nodes, n, n, C, want, R)
    <3>1. n..(n - 1) = {}
      OBVIOUS
    <3> QED BY <2>3, <2>9, <3>1 DEF Trim
  <2>11. Now(new)
    BY <2>3, <2>7, <2>8, <2>10 DEF Like, Grows
  <2> QED BY <2>1, <2>2, <2>11 DEF now, id
<1>5. \A k \in 0..Len(ids) : k \in S
  <2> HIDE DEF S
  <2> QED BY <1>1, <1>3, <1>4, UpTo
<1> QED BY <1>1, <1>2, <1>5

\* vcTreeOps.ts: a ref goes with its slots.
LEMMA CascadeTrim ==
  ASSUME NEW n \in Nat, NEW C, NEW want, NEW R, NEW tree, IsDocument(tree, n), Fit(tree.nodes, n, C, want, R),
         NEW comp
  PROVE  Trim(CascadeRemoveRefs(tree, comp).nodes, tree.nodes, n, n, C, want, R)
<1>0. Tidy(tree, n, C, R)
  BY FitIs
<1> DEFINE refs == Refs(tree, comp)
<1>1. refs \subseteq DOMAIN tree.nodes /\ \A r \in refs : tree.nodes[r].moduleId = "ref"
  BY DEF Refs, IsRefTo
<1>2. refs \subseteq 1..(n - 1)
  <2>1. Sound(tree.nodes, tree.rootNodeId, n)
    BY DocumentLists
  <2>2. DOMAIN tree.nodes \subseteq 1..(n - 1)
    BY <2>1 DEF Sound
  <2> HIDE DEF refs
  <2> QED BY <1>1, <2>2
<1>3. Ascending(refs) \in Seq(refs) /\ ToSet(Ascending(refs)) = refs
  <2> DEFINE b == n - 1
  <2>1. b \in Int /\ refs \subseteq 1..b
    BY <1>2
  <2> HIDE DEF refs, b
  <2> QED BY <2>1, AscendingIs
<1>4. Ascending(refs) \in Seq(Nat)
  BY <1>2, <1>3, SeqOver
<1>5. tree.rootNodeId \notin refs
  BY <1>0, <1>1 DEF Tidy
<1>6. \A r \in refs : Parent(tree, r) \notin R
  BY <1>1, ParentFree
<1> HIDE DEF refs
<1> QED BY <1>3, <1>4, <1>5, <1>6, DeleteSubtreesTrim DEF CascadeRemoveRefs, refs

\* moveNodes: slots are locked, and stay where they are.
LEMMA MoveNodesCalm ==
  ASSUME NEW n \in Nat, NEW C, NEW want, NEW R, NEW tree, IsDocument(tree, n), Fit(tree.nodes, n, C, want, R),
         NEW ids \in Seq(Nat), \A id \in ToSet(ids) : Has(tree, id) /\ ~tree.nodes[id].locked,
         NEW parent \in DOMAIN tree.nodes, parent \notin R, NEW index \in Int
  PROVE  Calm(MoveNodes(tree, ids, parent, index).nodes, tree.nodes, n, n, C, R)
<1>0. Tidy(tree, n, C, R)
  BY FitIs
<1> DEFINE new == MoveNodes(tree, ids, parent, index).nodes
           old == tree.nodes
           tops == TopLevel(tree, ids)
<1>1. tops \in Seq(Nat) /\ ToSet(tops) \subseteq ToSet(ids)
  BY TopLevelIs
<1>2. \A t \in ToSet(tops) : t \in DOMAIN old /\ ~old[t].locked
  BY <1>1 DEF Has
<1>3. Moved(MoveNodes(tree, ids, parent, index), tree, tops, parent, index)
  BY MovedAre
<1>4. /\ DOMAIN new = DOMAIN old
      /\ \A p \in DOMAIN old : /\ OneKind(new[p], old[p])
                               /\ new[p].parentId = IF p \in ToSet(tops) THEN parent ELSE old[p].parentId
                               /\ new[p].children = Gathered(tree, tops, parent, index, p)
  BY <1>3 DEF Moved, OneKind
<1> DEFINE stay(p) == Left(tree, tops, p)
<1> HIDE DEF new, tops
<1>5. \A p \in DOMAIN old : /\ stay(p) \in Seq(Nat) /\ ToSet(stay(p)) \subseteq Held(old, p)
                            /\ (\A c \in Held(old, p) : c \notin ToSet(tops)) => stay(p) = old[p].children
  <2> SUFFICES ASSUME NEW p \in DOMAIN old
               PROVE  /\ stay(p) \in Seq(Nat) /\ ToSet(stay(p)) \subseteq Held(old, p)
                      /\ (\A c \in Held(old, p) : c \notin ToSet(tops)) => stay(p) = old[p].children
    OBVIOUS
  <2> DEFINE set == {c \in ToSet(old[p].children) : ~(Contains(tops, c) /\ Parent(tree, c) = p)}
  <2>1. old[p].children \in Seq(Nat) /\ Held(old, p) = ToSet(old[p].children)
    BY <1>0 DEF Tidy
  <2>2. stay(p) = Keep(old[p].children, set)
    BY DEF Left
  <2>3. (\A c \in Held(old, p) : c \notin ToSet(tops)) => ToSet(old[p].children) \subseteq set
    BY <1>1, <2>1, ContainsIs
  <2> HIDE DEF set, stay
  <2>4. /\ Keep(old[p].children, set) \in Seq(Nat)
        /\ ToSet(Keep(old[p].children, set)) = ToSet(old[p].children) \intersect set
    BY <2>1, KeepIs
  <2>5. ToSet(old[p].children) \subseteq set => Keep(old[p].children, set) = old[p].children
    BY <2>1, KeepAll
  <2> QED BY <2>1, <2>2, <2>3, <2>4, <2>5
<1>6. \A p \in DOMAIN old : /\ Held(new, p) \subseteq Held(old, p) \union ToSet(tops)
                            /\ p # parent => new[p].children = stay(p)
  <2> SUFFICES ASSUME NEW p \in DOMAIN old
               PROVE  /\ Held(new, p) \subseteq Held(old, p) \union ToSet(tops)
                      /\ p # parent => new[p].children = stay(p)
    OBVIOUS
  <2>1. new[p].children = IF p = parent THEN Splice(stay(p), index, tops) ELSE stay(p)
    BY <1>4 DEF Gathered
  <2>2. stay(p) \in Seq(Nat) /\ ToSet(stay(p)) \subseteq Held(old, p)
    BY <1>5
  <2>3. ToSet(Splice(stay(p), index, tops)) = ToSet(stay(p)) \union ToSet(tops)
    BY <1>1, <2>2, SpliceIs
  <2> QED BY <2>1, <2>2, <2>3 DEF Held
<1> HIDE DEF stay
<1>7. ASSUME NEW r \in RefsIn(old, C) \intersect DOMAIN new
      PROVE  /\ new[r].children = old[r].children
             /\ \A k \in Held(old, r) : k \in DOMAIN new /\ new[k].parentId = old[k].parentId
             /\ \A p \in DOMAIN new : p # r => Held(new, p) \intersect Held(old, r) = {}
  <2>1. r \in DOMAIN old /\ r \in R /\ Own(old, r) /\ r # parent
    BY <1>0 DEF Tidy
  <2>2. \A k \in Held(old, r) : k \in DOMAIN old /\ k \notin ToSet(tops)
    BY <1>2, <2>1 DEF Own
  <2>3. \A p \in DOMAIN old : p # r => Held(old, p) \intersect Held(old, r) = {}
    BY <2>1 DEF Own
  <2> QED BY <1>4, <1>5, <1>6, <2>1, <2>2, <2>3
<1>8. ASSUME NEW x \in DOMAIN new
      PROVE  /\ x \in DOMAIN old /\ Held(new, x) \subseteq IdsOf(old) /\ new[x].parentId \in Below(n)
             /\ (new[x].parentId \in R => new[x].moduleId = "slot-instance")
  <2>1. x \in DOMAIN old /\ Held(old, x) \subseteq IdsOf(old) /\ ToSet(tops) \subseteq IdsOf(old)
    BY <1>0, <1>2, <1>4 DEF Tidy, IdsOf
  <2>2. parent \in Below(n) /\ old[x].parentId \in Below(n) /\ (old[x].parentId \in R => old[x].moduleId = "slot-instance")
    BY <1>0, <2>1 DEF Tidy
  <2>3. new[x].parentId \in {parent, old[x].parentId} /\ new[x].moduleId = old[x].moduleId
    BY <1>4, <2>1 DEF OneKind
  <2> QED BY <1>6, <2>1, <2>2, <2>3
<1>9. Calm(new, old, n, n, C, R)
  BY <1>4, <1>7, <1>8 DEF Calm, OneKind
<1> QED BY <1>9 DEF new

\* wrapNodes: the wrapper goes under a node that is no such ref.
LEMMA WrapNodesCalm ==
  ASSUME NEW n \in Nat, NEW C, NEW want, NEW R, NEW tree, IsDocument(tree, n), Fit(tree.nodes, n, C, want, R),
         NEW ids \in Seq(Nat), ids # <<>>, CanWrap(tree, ids),
         Len(ids) = 1 => Parent(tree, ids[1]) \notin R,
         Len(ids) # 1 => ClosestCommonAncestor(tree, TopLevel(tree, ids)) \notin R
  PROVE  Calm(WrapNodes(tree, ids, n).nodes, tree.nodes, n, n + 1, C, R)
<1>0. Tidy(tree, n, C, R)
  BY FitIs
<1> DEFINE nodes == tree.nodes
           tops == TopLevel(tree, ids)
           above == IF Len(ids) = 1 THEN Parent(tree, ids[1])
                    ELSE ClosestCommonAncestor(tree, tops)
           kids == nodes[above].children
           inside == IF Len(ids) = 1 THEN ids ELSE Branches(tree, tops, above)
           rest == Keep(kids, ToSet(kids) \ ToSet(inside))
           after == IF Len(ids) = 1 THEN Replace(kids, ids[1], n)
                    ELSE Splice(rest, IndexOf(kids, inside[1]), <<n>>)
           I == ToSet(inside)
           new == WrapNodes(tree, ids, n).nodes
<1>1. Lists(nodes) /\ n \notin DOMAIN nodes /\ tops \in Seq(Nat)
  <2>1. n \notin DOMAIN nodes
    BY <1>0 DEF Tidy, Below
  <2> QED BY <1>0, <2>1, TopLevelIs DEF Tidy
<1>2. above \in DOMAIN nodes /\ above \notin R
  <2>1. CASE Len(ids) = 1
    <3>1. Parent(tree, ids[1]) # Null
      BY <2>1 DEF CanWrap
    <3>2. Parent(tree, ids[1]) \in DOMAIN nodes \union {Null}
      BY <1>1, ParentIs
    <3> QED BY <2>1, <3>1, <3>2
  <2>2. CASE Len(ids) # 1
    <3>1. ClosestCommonAncestor(tree, tops) # Null
      BY <2>2 DEF CanWrap
    <3>2. ClosestCommonAncestor(tree, tops) \in DOMAIN nodes \union {Null}
      <4> HIDE DEF tops
      <4> QED BY <1>1, ClosestIs
    <3> QED BY <2>2, <3>1, <3>2
  <2> QED BY <2>1, <2>2
<1>3. kids \in Seq(Nat) /\ ToSet(kids) = Held(nodes, above)
  <2> HIDE DEF above
  <2> QED BY <1>0, <1>2 DEF Tidy
<1>4. /\ inside \in Seq(Nat) /\ after \in Seq(Nat)
      /\ ToSet(after) \subseteq Held(nodes, above) \union {n}
      /\ I \subseteq IdsOf(nodes)
      /\ \A r \in RefsIn(nodes, C) : Held(nodes, r) \intersect I = {}
  <2>1. CASE Len(ids) = 1
    <3>1. inside = ids /\ above = Parent(tree, ids[1]) /\ after = Replace(kids, ids[1], n)
      BY <2>1
    <3>2. I = {ids[1]} /\ ids[1] \in DOMAIN nodes /\ ids[1] \in Nat
      BY <2>1, <3>1 DEF ToSet, CanWrap, Has
    <3> HIDE DEF kids, after, inside, above, I
    <3>3. after \in Seq(Nat) /\ ToSet(after) \subseteq ToSet(kids) \union {n}
      BY <1>3, <3>1, ReplaceIs
    <3>4. ASSUME NEW r \in RefsIn(nodes, C), ids[1] \in Held(nodes, r) PROVE FALSE
      <4>1. r \in R /\ Own(nodes, r) /\ r \in DOMAIN nodes
        BY <1>0 DEF Tidy
      <4>2. nodes[ids[1]].parentId = r
        BY <3>4, <4>1 DEF Own
      <4>3. Parent(tree, ids[1]) = r
        BY <3>2, <4>1, <4>2 DEF Parent, Has
      <4> QED BY <2>1, <4>1, <4>3
    <3>5. ids[1] \in IdsOf(nodes)
      BY <3>2 DEF IdsOf
    <3> QED BY <1>3, <3>1, <3>2, <3>3, <3>4, <3>5
  <2>2. CASE Len(ids) # 1
    <3> DEFINE set == {BranchOf(tree, tops[i], above) : i \in DOMAIN tops}
               first == inside[1]
               at == IndexOf(kids, first)
               one == <<n>>
    <3>1. inside = Keep(kids, set)
      BY <2>2 DEF Branches
    <3>2. after = Splice(rest, at, one)
      BY <2>2
    <3> HIDE DEF inside, kids, set, after, I, first
    <3>3. inside \in Seq(Nat) /\ I \subseteq Held(nodes, above)
      BY <1>3, <3>1, KeepIs DEF I
    <3>4. rest \in Seq(Nat) /\ ToSet(rest) \subseteq ToSet(kids)
      BY <1>3, KeepIs
    <3>5. one \in Seq(Nat) /\ ToSet(one) = {n}
      BY OneId
    <3>6. at \in Int
      BY <1>3, IndexOfIs
    <3> HIDE DEF rest, at, one, above
    <3>10. rest \in Seq(Nat) /\ one \in Seq(Nat)
      BY <3>4, <3>5
    <3>11. Splice(rest, at, one) \in Seq(Nat)
      BY <3>6, <3>10, SpliceIs
    <3>12. ToSet(Splice(rest, at, one)) = ToSet(rest) \union ToSet(one)
      BY <3>6, <3>10, SpliceIs
    <3>7. after \in Seq(Nat) /\ ToSet(after) = ToSet(rest) \union ToSet(one)
      BY <3>2, <3>11, <3>12
    <3>8. Held(nodes, above) \subseteq IdsOf(nodes)
      BY <1>2 DEF IdsOf
    <3>9. \A r \in RefsIn(nodes, C) : Held(nodes, r) \intersect Held(nodes, above) = {}
      <4> SUFFICES ASSUME NEW r \in RefsIn(nodes, C) PROVE Held(nodes, r) \intersect Held(nodes, above) = {}
        OBVIOUS
      <4>1. r \in R /\ Own(nodes, r)
        BY <1>0 DEF Tidy
      <4>2. above # r
        BY <1>2, <4>1
      <4>3. Held(nodes, above) \intersect Held(nodes, r) = {}
        BY <1>2, <4>1, <4>2 DEF Own
      <4> QED BY <4>3
    <3> QED BY <1>3, <3>3, <3>4, <3>5, <3>7, <3>8, <3>9
  <2> QED BY <2>1, <2>2
<1>5. \A x : Contains(inside, x) <=> x \in I
  <2> HIDE DEF inside
  <2> QED BY <1>4, ContainsIs
<1> DEFINE node == [NewNode("container") EXCEPT !.children = inside, !.parentId = above]
<1>6. /\ DOMAIN new = DOMAIN nodes \union {n}
      /\ new[n] = IF n \in I THEN [node EXCEPT !.parentId = n] ELSE node
      /\ new[above] = IF above \in I
                      THEN [[nodes[above] EXCEPT !.children = after] EXCEPT !.parentId = n]
                      ELSE [nodes[above] EXCEPT !.children = after]
      /\ \A p \in DOMAIN nodes \ {above} :
            new[p] = IF p \in I THEN [nodes[p] EXCEPT !.parentId = n] ELSE nodes[p]
  <2> DEFINE placed == [With(nodes, n, node) EXCEPT ![above].children = after]
  <2>1. tree = [rootNodeId |-> tree.rootNodeId, nodes |-> nodes]
    BY <1>0 DEF Tidy
  <2>2. new = [tree EXCEPT !.nodes =
                 [id \in DOMAIN placed |->
                    IF Contains(inside, id) THEN [placed[id] EXCEPT !.parentId = n] ELSE placed[id]]].nodes
    BY DEF WrapNodes
  <2> HIDE DEF new, node, after, inside, above, I
  <2>3. /\ DOMAIN placed = DOMAIN nodes \union {n}
        /\ placed[n] = node
        /\ placed[above] = [nodes[above] EXCEPT !.children = after]
        /\ \A p \in DOMAIN nodes \ {above} : placed[p] = nodes[p]
    BY <1>1, <1>2 DEF With
  <2> HIDE DEF placed
  <2> QED BY <1>1, <1>2, <1>4, <1>5, <2>1, <2>2, <2>3
<1>7. node.children = inside /\ node.parentId = above /\ node.moduleId = "container"
  BY DEF NewNode
<1>8. /\ new[n].children = inside /\ new[n].parentId \in {above, n} /\ new[n].moduleId = "container"
  <2>1. /\ [node EXCEPT !.parentId = n].children = node.children
        /\ [node EXCEPT !.parentId = n].parentId = n
        /\ [node EXCEPT !.parentId = n].moduleId = "container"
    BY DEF NewNode
  <2> HIDE DEF new, node, inside, above, I
  <2> QED BY <1>6, <1>7, <2>1
<1> HIDE DEF new, node, after, kids, inside, above, I
<1>9. ASSUME NEW p \in DOMAIN nodes
      PROVE  /\ new[p].children = IF p = above THEN after ELSE nodes[p].children
             /\ new[p].parentId = IF p \in I THEN n ELSE nodes[p].parentId
             /\ OneKind(new[p], nodes[p])
  <2>1. nodes[p] \in Node(n)
    BY <1>0 DEF Tidy
  <2>2. CASE p = above
    <3> DEFINE listed == [nodes[p] EXCEPT !.children = after]
    <3>1. /\ listed.children = after /\ listed.parentId = nodes[p].parentId
          /\ OneKind(listed, nodes[p])
      BY <2>1 DEF Node, OneKind
    <3>2. /\ [listed EXCEPT !.parentId = n].children = after
          /\ [listed EXCEPT !.parentId = n].parentId = n
          /\ OneKind([listed EXCEPT !.parentId = n], nodes[p])
      BY <2>1 DEF Node, OneKind
    <3> HIDE DEF listed
    <3>3. new[p] = IF p \in I THEN [listed EXCEPT !.parentId = n] ELSE listed
      BY <1>6, <2>2 DEF listed
    <3> QED BY <2>2, <3>1, <3>2, <3>3
  <2>3. CASE p # above
    <3>1. /\ [nodes[p] EXCEPT !.parentId = n].children = nodes[p].children
          /\ [nodes[p] EXCEPT !.parentId = n].parentId = n
          /\ OneKind([nodes[p] EXCEPT !.parentId = n], nodes[p])
      BY <2>1 DEF Node, OneKind
    <3> QED BY <1>6, <2>3, <3>1 DEF OneKind
  <2> QED BY <2>2, <2>3
<1>10. ASSUME NEW r \in RefsIn(nodes, C) \intersect DOMAIN new
       PROVE  /\ new[r].children = nodes[r].children
              /\ \A k \in Held(nodes, r) : k \in DOMAIN new /\ new[k].parentId = nodes[k].parentId
              /\ \A p \in DOMAIN new : p # r => Held(new, p) \intersect Held(nodes, r) = {}
  <2>1. r \in DOMAIN nodes /\ r \in R /\ Own(nodes, r) /\ r # above /\ Held(nodes, r) \intersect I = {}
    BY <1>0, <1>2, <1>4 DEF Tidy
  <2>2. /\ \A k \in Held(nodes, r) : k \in DOMAIN nodes
        /\ \A p \in DOMAIN nodes : p # r => Held(nodes, p) \intersect Held(nodes, r) = {}
    BY <2>1 DEF Own
  <2>3. n \notin Held(nodes, r)
    BY <1>1, <2>2
  <2>4. ASSUME NEW p \in DOMAIN new, p # r PROVE Held(new, p) \intersect Held(nodes, r) = {}
    <3>1. CASE p = n
      BY <1>8, <2>1, <3>1 DEF Held, I
    <3>2. CASE p # n
      <4>1. p \in DOMAIN nodes /\ Held(nodes, p) \intersect Held(nodes, r) = {}
        BY <1>6, <2>2, <2>4, <3>2
      <4>2. Held(new, p) \subseteq Held(nodes, p) \union {n}
        BY <1>4, <1>9, <4>1 DEF Held
      <4> QED BY <2>3, <4>1, <4>2
    <3> QED BY <3>1, <3>2
  <2> QED BY <1>6, <1>9, <2>1, <2>2, <2>4
<1>11. ASSUME NEW x \in DOMAIN new
       PROVE  /\ Held(new, x) \subseteq IdsOf(nodes) \union n..n
              /\ x \in DOMAIN nodes \/ (x \in n..n /\ new[x].moduleId # "ref")
              /\ new[x].parentId \in Below(n + 1)
              /\ new[x].parentId \in R => new[x].moduleId = "slot-instance"
  <2>1. n \in Below(n + 1) /\ n \notin R /\ Below(n) \subseteq Below(n + 1) /\ above \in Below(n) /\ n \in n..n
    BY <1>0, <1>2 DEF Tidy, Below
  <2>2. CASE x = n
    <3>1. Held(new, x) = I /\ new[x].parentId \in {above, n} /\ new[x].moduleId = "container"
      BY <1>8, <2>2 DEF Held, I
    <3> QED BY <1>2, <1>4, <2>1, <2>2, <3>1
  <2>3. CASE x # n
    <3>1. x \in DOMAIN nodes
      BY <1>6, <2>3
    <3>2. /\ nodes[x].parentId \in Below(n) /\ Held(nodes, x) \subseteq IdsOf(nodes)
          /\ nodes[x].parentId \in R => nodes[x].moduleId = "slot-instance"
      BY <1>0, <3>1 DEF Tidy
    <3>3. Held(new, x) \subseteq Held(nodes, x) \union {n}
      BY <1>4, <1>9, <3>1 DEF Held
    <3>4. new[x].parentId \in {n, nodes[x].parentId} /\ new[x].moduleId = nodes[x].moduleId
      BY <1>9, <3>1 DEF OneKind
    <3> QED BY <2>1, <3>1, <3>2, <3>3, <3>4
  <2> QED BY <2>2, <2>3
<1>12. (n + 1) - 1 = n
  OBVIOUS
<1>13. \A x \in DOMAIN new \intersect DOMAIN nodes : OneKind(new[x], nodes[x])
  BY <1>9
<1>14. Calm(new, nodes, n, n + 1, C, R)
  BY <1>10, <1>11, <1>12, <1>13 DEF Calm, OneKind
<1> QED BY <1>14 DEF new

\* updateNodeProps of an outlet, which is nobody's slot.
LEMMA RenamedCalm ==
  ASSUME NEW n \in Nat, NEW C, NEW want, NEW R, NEW tree, IsDocument(tree, n), Fit(tree.nodes, n, C, want, R),
         NEW id \in DOMAIN tree.nodes, tree.nodes[id].moduleId = "slot-outlet", NEW name
  PROVE  Calm([tree EXCEPT !.nodes[id].slotName = name].nodes, tree.nodes, n, n, C, R)
<1>0. Tidy(tree, n, C, R)
  BY FitIs
<1> DEFINE nodes == tree.nodes
           new == [tree EXCEPT !.nodes[id].slotName = name].nodes
<1>1. new = [nodes EXCEPT ![id].slotName = name]
  BY <1>0 DEF Tidy
<1>2. /\ DOMAIN new = DOMAIN nodes /\ new[id] = [nodes[id] EXCEPT !.slotName = name]
      /\ \A x \in DOMAIN nodes : x # id => new[x] = nodes[x]
  BY <1>1
<1> HIDE DEF new
<1>3. ASSUME NEW x \in DOMAIN nodes
      PROVE  /\ new[x].moduleId = nodes[x].moduleId /\ new[x].componentId = nodes[x].componentId
             /\ new[x].locked = nodes[x].locked /\ new[x].children = nodes[x].children
             /\ new[x].parentId = nodes[x].parentId
             /\ nodes[x].moduleId = "slot-instance" => new[x].slotName = nodes[x].slotName
  <2>1. nodes[x] \in Node(n)
    BY <1>0 DEF Tidy
  <2> QED BY <1>2, <2>1 DEF Node
<1>4. \A x \in DOMAIN new : Held(new, x) = Held(nodes, x)
  BY <1>2, <1>3 DEF Held
<1>5. \A r \in RefsIn(nodes, C) : /\ r \in DOMAIN nodes
                                  /\ \A k \in Held(nodes, r) : k \in DOMAIN nodes
                                  /\ \A p \in DOMAIN nodes : p # r => Held(nodes, p) \intersect Held(nodes, r) = {}
  BY <1>0 DEF Tidy, Own
<1>6. \A x \in DOMAIN nodes : /\ nodes[x].parentId \in Below(n) /\ Held(nodes, x) \subseteq IdsOf(nodes)
                              /\ nodes[x].parentId \in R => nodes[x].moduleId = "slot-instance"
  BY <1>0 DEF Tidy
<1>7. \A x \in DOMAIN new : /\ new[x].parentId \in Below(n)
                            /\ new[x].parentId \in R => new[x].moduleId = "slot-instance"
  BY <1>2, <1>3, <1>6
<1>8. \A p \in DOMAIN new : Held(new, p) \subseteq IdsOf(nodes)
  BY <1>2, <1>4, <1>6
<1>9. ASSUME NEW r \in RefsIn(nodes, C) \intersect DOMAIN new
      PROVE  /\ new[r].children = nodes[r].children
             /\ \A k \in Held(nodes, r) : k \in DOMAIN new /\ new[k].parentId = nodes[k].parentId
             /\ \A p \in DOMAIN new : p # r => Held(new, p) \intersect Held(nodes, r) = {}
  BY <1>2, <1>3, <1>4, <1>5
<1>10. Calm(new, nodes, n, n, C, R)
  <2>1. ASSUME NEW x \in DOMAIN new
        PROVE  /\ x \in DOMAIN nodes /\ Held(new, x) \subseteq IdsOf(nodes)
               /\ new[x].parentId \in Below(n)
               /\ new[x].parentId \in R => new[x].moduleId = "slot-instance"
    BY <1>2, <1>7, <1>8
  <2> QED BY <1>3, <1>9, <2>1 DEF Calm
<1> QED BY <1>10 DEF new

\* A copied ref has the copies of its slots.
Cloning(new, nodes, ids, map, from, m, C, want, R) ==
    /\ Fit(new, m, C, want, R \union RefsIn(new, C))
    /\ IdsOf(new) \subseteq from..(m - 1)
    /\ DOMAIN new = {map[i] : i \in ids}
    /\ \A i \in ids : /\ new[map[i]].moduleId = nodes[i].moduleId
                      /\ Held(new, map[i]) = {map[c] : c \in Held(nodes, i) \intersect ids}

\* The copy of one node.
Mate(copy, nodes, ids, map, p) ==
    /\ copy.children \in Seq(Nat)
    /\ ToSet(copy.children) = {map[c] : c \in Held(nodes, p) \intersect ids}
    /\ (Held(nodes, p) \subseteq ids) =>
          /\ Len(copy.children) = Len(nodes[p].children)
          /\ \A i \in DOMAIN nodes[p].children : copy.children[i] = map[nodes[p].children[i]]
    /\ copy.moduleId = nodes[p].moduleId /\ copy.componentId = nodes[p].componentId
    /\ copy.locked = nodes[p].locked /\ copy.slotName = nodes[p].slotName
    /\ \/ \E q \in ids : p \in Held(nodes, q) /\ copy.parentId = map[q]
       \/ (\A q \in ids : p \notin Held(nodes, q)) /\ copy.parentId = nodes[p].parentId

LEMMA MateIs ==
  ASSUME NEW n, NEW nodes, NEW ids, ids \subseteq DOMAIN nodes, \A x \in ids : nodes[x] \in Node(n),
         NEW map, map \in [ids -> Nat], NEW p \in ids
  PROVE  Mate(Copy(nodes, ids, map, p), nodes, ids, map, p)
<1> DEFINE list == nodes[p].children
           kept == Keep(list, ids)
           kids == [i \in DOMAIN kept |-> map[kept[i]]]
           lister == CHOOSE q \in ids : Contains(nodes[q].children, p)
           up == IF \E q \in ids : Contains(nodes[q].children, p) THEN map[lister] ELSE nodes[p].parentId
           copy == Copy(nodes, ids, map, p)
<1>1. copy = [nodes[p] EXCEPT !.children = kids, !.parentId = up]
  <2>1. DOMAIN map = ids
    OBVIOUS
  <2> QED BY <2>1 DEF Copy
<1>2. list \in Seq(Nat) /\ ToSet(list) = Held(nodes, p) /\ nodes[p] \in Node(n)
  BY DEF Held, Node
<1>a. \A q \in ids : nodes[q].children \in Seq(Nat)
  BY DEF Node
<1> HIDE DEF list
<1>3. kept \in Seq(Nat) /\ ToSet(kept) = Held(nodes, p) \intersect ids
  BY <1>2, KeepIs
<1>4. Held(nodes, p) \subseteq ids => kept = list
  BY <1>2, KeepAll
<1> HIDE DEF kept
<1>5. /\ Len(kept) \in Nat /\ DOMAIN kept = 1..Len(kept)
      /\ \A i \in 1..Len(kept) : kept[i] \in ids /\ map[kept[i]] \in Nat
  <2>1. Len(kept) \in Nat /\ DOMAIN kept = 1..Len(kept)
    BY <1>3
  <2>2. \A i \in 1..Len(kept) : kept[i] \in ids
    BY <1>3, <2>1 DEF ToSet
  <2> QED BY <2>1, <2>2
<1>6. kids \in Seq(Nat) /\ ToSet(kids) = {map[c] : c \in Held(nodes, p) \intersect ids}
      /\ Len(kids) = Len(kept) /\ \A i \in 1..Len(kept) : kids[i] = map[kept[i]]
  <2>1. kids \in [1..Len(kept) -> Nat]
    BY <1>5
  <2>2. kids \in Seq(Nat) /\ Len(kids) = Len(kept)
    <3> HIDE DEF kids
    <3> QED BY <1>5, <2>1
  <2>3. Held(nodes, p) \intersect ids = {kept[i] : i \in 1..Len(kept)}
    BY <1>3, <1>5 DEF ToSet
  <2>4. ToSet(kids) = {map[c] : c \in Held(nodes, p) \intersect ids}
    BY <1>5, <2>3 DEF ToSet
  <2>5. \A i \in 1..Len(kept) : kids[i] = map[kept[i]]
    BY <1>5
  <2> QED BY <2>2, <2>4, <2>5
<1>7. \/ \E q \in ids : p \in Held(nodes, q) /\ up = map[q]
      \/ (\A q \in ids : p \notin Held(nodes, q)) /\ up = nodes[p].parentId
  <2>1. \A q \in ids : Contains(nodes[q].children, p) <=> p \in Held(nodes, q)
    BY <1>a, ContainsIs DEF Held
  <2>2. (\E q \in ids : Contains(nodes[q].children, p)) => lister \in ids /\ Contains(nodes[lister].children, p)
    OBVIOUS
  <2> HIDE DEF lister
  <2> QED BY <2>1, <2>2
<1> HIDE DEF kids, up, copy
<1>8. /\ copy.children = kids /\ copy.parentId = up
      /\ copy.moduleId = nodes[p].moduleId /\ copy.componentId = nodes[p].componentId
      /\ copy.locked = nodes[p].locked /\ copy.slotName = nodes[p].slotName
  BY <1>1, <1>2 DEF Node
<1>9. Held(nodes, p) \subseteq ids =>
        Len(kids) = Len(list) /\ \A i \in DOMAIN list : kids[i] = map[list[i]]
  BY <1>4, <1>5, <1>6
<1>10. Mate(copy, nodes, ids, map, p)
  BY <1>6, <1>7, <1>8, <1>9 DEF Mate, list
<1> QED BY <1>10 DEF copy

LEMMA CopiesFit ==
  ASSUME NEW n \in Nat, NEW from \in Nat, NEW m \in Nat, n <= from, from <= m, NEW C, NEW want,
         NEW R, R \subseteq 1..(n - 1), n # 0,
         NEW nodes, NEW ids, ids \subseteq DOMAIN nodes, \A x \in ids : nodes[x] \in Node(n),
         \A x \in ids : nodes[x].parentId \in Below(n) /\ (nodes[x].parentId \in R => nodes[x].moduleId = "slot-instance"),
         \A r \in RefsIn(nodes, C) \intersect ids :
            Own(nodes, r) /\ Held(nodes, r) \subseteq ids /\ SlotNames(nodes, r) = want[nodes[r].componentId],
         NEW map, map \in [ids -> from..(m - 1)], \A i, j \in ids : map[i] = map[j] => i = j
  PROVE  Cloning(Copies(nodes, ids, map), nodes, ids, map, from, m, C, want, R)
<1> DEFINE new == Copies(nodes, ids, map)
           range == {map[i] : i \in ids}
<1>0. map \in [ids -> Nat] /\ \A i \in ids : map[i] \in from..(m - 1)
  BY DEF Below
<1>1. new = [x \in range |-> Copy(nodes, ids, map, CHOOSE id \in ids : map[id] = x)]
  BY DEF Copies, Copy
<1>2. DOMAIN new = range
  BY <1>1
<1> HIDE DEF new
<1>3. ASSUME NEW p \in ids PROVE Mate(new[map[p]], nodes, ids, map, p)
  <2>1. map[p] \in range /\ (CHOOSE i \in ids : map[i] = map[p]) = p
    OBVIOUS
  <2> HIDE DEF range
  <2>2. new[map[p]] = Copy(nodes, ids, map, p)
    BY <1>1, <2>1
  <2> QED BY <1>0, <2>2, MateIs
<1>4. \A p \in ids : /\ Held(new, map[p]) = {map[c] : c \in Held(nodes, p) \intersect ids}
                     /\ new[map[p]].moduleId = nodes[p].moduleId
                     /\ new[map[p]].componentId = nodes[p].componentId
                     /\ new[map[p]].locked = nodes[p].locked
                     /\ new[map[p]].slotName = nodes[p].slotName
  BY <1>3 DEF Mate, Held
<1>5. \A x \in DOMAIN new : \E p \in ids : x = map[p]
  BY <1>2
<1>6. range \subseteq from..(m - 1)
  BY <1>0
<1>7. RefsIn(new, C) \subseteq range /\ \A p \in ids : map[p] \in RefsIn(new, C) <=> p \in RefsIn(nodes, C)
  BY <1>2, <1>4 DEF RefsIn
<1> HIDE DEF range
<1>8. IdsOf(new) \subseteq from..(m - 1)
  <2>1. \A x \in DOMAIN new : Held(new, x) \subseteq from..(m - 1) /\ x \in from..(m - 1)
    BY <1>0, <1>4, <1>5
  <2> QED BY <2>1 DEF IdsOf
<1>9. IdsOf(new) \subseteq Below(m)
  <2>1. from..(m - 1) \subseteq Below(m)
    BY DEF Below
  <2> QED BY <1>8, <2>1
<1> DEFINE S == R \union RefsIn(new, C)
<1>10. S \subseteq 1..(m - 1) /\ S \intersect DOMAIN new = RefsIn(new, C)
  <2>1. R \intersect range = {}
    BY <1>6
  <2>2. RefsIn(new, C) \subseteq from..(m - 1)
    BY <1>6, <1>7
  <2>3. from..(m - 1) \subseteq 1..(m - 1) /\ 1..(n - 1) \subseteq 1..(m - 1)
    OBVIOUS
  <2>4. S \subseteq 1..(m - 1)
    BY <2>2, <2>3
  <2> QED BY <1>2, <1>7, <2>1, <2>4
<1>11. ASSUME NEW p \in ids, p \in RefsIn(nodes, C)
       PROVE  Own(new, map[p]) /\ SlotNames(new, map[p]) = want[new[map[p]].componentId]
  <2> DEFINE r == map[p]
  <2>1. /\ Own(nodes, p) /\ Held(nodes, p) \subseteq ids /\ SlotNames(nodes, p) = want[nodes[p].componentId]
    BY <1>11
  <2>2. /\ new[r].children \in Seq(Nat) /\ Len(new[r].children) = Len(nodes[p].children)
        /\ \A i \in DOMAIN nodes[p].children : new[r].children[i] = map[nodes[p].children[i]]
    BY <1>3, <2>1 DEF Mate
  <2>3. nodes[p].children \in Seq(Nat) /\ \A i \in DOMAIN nodes[p].children : nodes[p].children[i] \in Held(nodes, p)
    BY DEF Held, ToSet, Node
  <2>4. DOMAIN new[r].children = DOMAIN nodes[p].children
    BY <2>2, <2>3
  <2>5. Held(new, r) = {map[c] : c \in Held(nodes, p)}
    BY <1>4, <2>1
  <2>6. IsInjective(new[r].children)
    <3> SUFFICES ASSUME NEW i \in DOMAIN nodes[p].children, NEW j \in DOMAIN nodes[p].children,
                        new[r].children[i] = new[r].children[j]
                 PROVE  i = j
      BY <2>4 DEF IsInjective
    <3>1. map[nodes[p].children[i]] = map[nodes[p].children[j]]
      BY <2>2
    <3>2. nodes[p].children[i] = nodes[p].children[j]
      BY <2>1, <2>3, <3>1
    <3> QED BY <2>1, <3>2 DEF Own, IsInjective
  <2>7. ASSUME NEW c \in Held(nodes, p)
        PROVE  /\ map[c] \in DOMAIN new /\ new[map[c]].moduleId = "slot-instance"
               /\ new[map[c]].locked /\ new[map[c]].parentId = r
    <3>1. c \in ids /\ nodes[c].moduleId = "slot-instance" /\ nodes[c].locked
      BY <2>1 DEF Own
    <3>2. \A q \in ids : c \in Held(nodes, q) => q = p
      BY <2>1 DEF Own
    <3>3. new[map[c]].parentId = r
      BY <1>3, <3>1, <3>2 DEF Mate
    <3> QED BY <1>2, <1>4, <3>1, <3>3 DEF range
  <2>8. ASSUME NEW x \in DOMAIN new, x # r PROVE Held(new, x) \intersect Held(new, r) = {}
    <3>1. PICK q \in ids : x = map[q]
      BY <1>5
    <3>2. Held(nodes, q) \intersect Held(nodes, p) = {}
      BY <2>1, <2>8, <3>1 DEF Own
    <3>3. Held(new, x) = {map[c] : c \in Held(nodes, q) \intersect ids}
      BY <1>4, <3>1
    <3> QED BY <2>1, <2>5, <3>2, <3>3
  <2>9. Own(new, r)
    <3>1. \A k \in Held(new, r) : /\ k \in DOMAIN new /\ new[k].moduleId = "slot-instance"
                                  /\ new[k].locked /\ new[k].parentId = r
      BY <2>5, <2>7
    <3> QED BY <2>6, <2>8, <3>1 DEF Own
  <2>10. \A i \in DOMAIN nodes[p].children : new[new[r].children[i]].slotName = nodes[nodes[p].children[i]].slotName
    BY <1>4, <2>1, <2>2, <2>3
  <2>11. SlotNames(new, r) = SlotNames(nodes, p)
    BY <2>4, <2>10 DEF SlotNames
  <2> QED BY <1>4, <2>1, <2>9, <2>11
<1>12. \A r \in RefsIn(new, C) : Own(new, r) /\ SlotNames(new, r) = want[new[r].componentId]
  BY <1>2, <1>5, <1>7, <1>11
<1>13. ASSUME NEW x \in DOMAIN new
       PROVE  new[x].parentId \in Below(m) /\ (new[x].parentId \in S => new[x].moduleId = "slot-instance")
  <2>1. PICK p \in ids : x = map[p]
    BY <1>5
  <2>2. CASE \E q \in ids : p \in Held(nodes, q) /\ new[x].parentId = map[q]
    <3>1. PICK q \in ids : p \in Held(nodes, q) /\ new[x].parentId = map[q]
      BY <2>2
    <3>2. map[q] \in from..(m - 1) /\ map[q] \notin R
      BY <1>0
    <3>3. map[q] \in RefsIn(new, C) => nodes[p].moduleId = "slot-instance"
      BY <1>7, <3>1 DEF Own
    <3>4. map[q] \in Below(m)
      BY <3>2 DEF Below
    <3> QED BY <1>4, <2>1, <3>1, <3>2, <3>3, <3>4
  <2>3. CASE new[x].parentId = nodes[p].parentId
    <3>1. nodes[p].parentId \in Below(n) /\ (nodes[p].parentId \in R => nodes[p].moduleId = "slot-instance")
      OBVIOUS
    <3>2. nodes[p].parentId \notin RefsIn(new, C) /\ nodes[p].parentId \in Below(m)
      <4>1. \A y \in from..(m - 1) : y \notin Below(n)
        BY DEF Below
      <4>2. map[p] \in from..(m - 1)
        BY <1>0
      <4>3. n <= m
        BY <4>2
      <4>4. RefsIn(new, C) \subseteq from..(m - 1)
        BY <1>6, <1>7
      <4>5. nodes[p].parentId \notin RefsIn(new, C)
        BY <3>1, <4>1, <4>4
      <4> QED BY <3>1, <4>3, <4>5 DEF Below
    <3> QED BY <1>4, <2>1, <2>3, <3>1, <3>2
  <2> QED BY <1>3, <2>1, <2>2, <2>3 DEF Mate
<1>14. Owning(new, m, C, S)
  BY <1>9, <1>10, <1>12, <1>13 DEF Owning
<1>15. Calls(new, C, want)
  BY <1>12 DEF Calls
<1>16. Cloning(new, nodes, ids, map, from, m, C, want, R)
  BY <1>2, <1>4, <1>8, <1>14, <1>15 DEF Cloning, Fit, range
<1> QED BY <1>16 DEF new

\* What one ref's turn does, wherever it stands: some of what it lists goes, with
\* all below, new slots come, and nothing else changes.
Synchronised(new, nodes, ref, H, gone, F, names, n) ==
    /\ F \subseteq (n + 1)..(n + Len(names)) /\ F \intersect DOMAIN nodes = {}
    /\ gone \subseteq DOMAIN nodes
    /\ DOMAIN new = (DOMAIN nodes \ gone) \union F
    /\ \A x \in gone : x \in H \/ \E p \in gone : x \in Held(nodes, p)
    /\ \A x \in F : /\ new[x].moduleId = "slot-instance" /\ new[x].children = <<>>
                    /\ new[x].parentId = ref /\ new[x].locked
    /\ \A p \in DOMAIN nodes \ gone :
          /\ new[p].moduleId = nodes[p].moduleId /\ new[p].componentId = nodes[p].componentId
          /\ new[p].locked = nodes[p].locked
          /\ p # ref => new[p].children = nodes[p].children
          /\ p \notin H => new[p].slotName = nodes[p].slotName /\ new[p].parentId = nodes[p].parentId
          /\ \/ new[p].parentId = nodes[p].parentId
             \/ new[p].parentId = ref /\ nodes[p].moduleId = "slot-instance"
    /\ ref \in DOMAIN nodes \ gone =>
          /\ ToSet(new[ref].children) \subseteq H \union F
          /\ Own(nodes, ref) =>
                /\ IsInjective(new[ref].children) /\ DOMAIN new[ref].children = DOMAIN names
                /\ \A k \in DOMAIN names : LET x == new[ref].children[k]
                                           IN  /\ x \in DOMAIN new /\ new[x].moduleId = "slot-instance"
                                               /\ new[x].locked /\ new[x].parentId = ref
                                               /\ new[x].slotName = names[k]

LEMMA SyncIs ==
  ASSUME NEW b \in Nat, NEW n \in Nat, b <= n + 1, NEW nodes, Lists(nodes),
         DOMAIN nodes \subseteq 1..(b - 1), \A id \in DOMAIN nodes : nodes[id] \in Node(b),
         NEW ref \in 1..n, ref \in DOMAIN nodes => nodes[ref].moduleId = "ref", NEW refNode, refNode.children \in Seq(Nat),
         ref \in DOMAIN nodes => refNode.children = nodes[ref].children,
         NEW names \in Seq(Name), IsInjective(names)
  PROVE  \E gone, F : Synchronised(SyncSlotInstances(nodes, ref, refNode, names, n), nodes, ref,
                                   ToSet(refNode.children), gone, F, names, n)
<1> DEFINE here == [nodes |-> nodes]
           all == Slots(here)
           kids == refNode.children
           H == ToSet(kids)
           slots == Keep(kids, all)
           Named(name) == Keep(slots, {c \in ToSet(slots) : nodes[c].slotName = name})
           spareSet == {c \in ToSet(slots) :
                     LET name == nodes[c].slotName
                     IN  ~Contains(names, name) \/ Head(Named(name)) # c}
           spare == Keep(slots, spareSet)
           missing == Keep(names, {name \in ToSet(names) : Named(name) = <<>>})
           paired == {i \in DOMAIN missing : i <= Len(spare)}
           made == DOMAIN missing \ paired
           IdOf(i) == IF i \in paired THEN spare[i] ELSE n + i
           Taken(name) == IF Named(name) # <<>> THEN Head(Named(name))
                             ELSE IdOf(IndexOf(missing, name) + 1)
           outdated == (ToSet(kids) \ all) \union {spare[i] : i \in DOMAIN spare \ paired}
           gone == UNION {Subtree(here, c) : c \in outdated}
           fresh == [id \in {IdOf(i) : i \in made} |-> NewSlot(missing[id - n], ref)]
           listed == [k \in DOMAIN names |-> Taken(names[k])]
           Inst(id) == \E k \in DOMAIN names : Taken(names[k]) = id
           nameOf(id) == names[CHOOSE k \in DOMAIN names : Taken(names[k]) = id]
           new == [id \in (DOMAIN nodes \ gone) \union DOMAIN fresh |->
                     IF id \in DOMAIN fresh THEN fresh[id]
                     ELSE IF id = ref THEN [nodes[id] EXCEPT !.children = listed]
                     ELSE IF Inst(id)
                     THEN [nodes[id] EXCEPT !.parentId = ref, !.slotName = nameOf(id)]
                     ELSE nodes[id]]
           F == DOMAIN fresh
<1>1. SyncSlotInstances(nodes, ref, refNode, names, n) = new
  BY DEF SyncSlotInstances, ApplySlotSync, UnmatchedInstances, UnmatchedNames, SlotsNamed
<1>2. /\ kids \in Seq(Nat) /\ Len(names) \in Nat /\ DOMAIN names = 1..Len(names)
      /\ \A x \in all : x \in DOMAIN nodes /\ nodes[x].moduleId = "slot-instance"
  BY DEF Slots
<1> HIDE DEF all, kids
<1>3. slots \in Seq(Nat) /\ ToSet(slots) = H \intersect all
  BY <1>2, KeepIs
<1>a. IsInjective(kids) => IsInjective(slots)
  BY <1>2, KeptOnce
<1> HIDE DEF slots
<1>4. ASSUME NEW name
      PROVE  /\ Named(name) # <<>> => Head(Named(name)) \in ToSet(slots) /\ nodes[Head(Named(name))].slotName = name
             /\ Named(name) = <<>> => \A c \in ToSet(slots) : nodes[c].slotName # name
  <2> DEFINE set == {c \in ToSet(slots) : nodes[c].slotName = name}
             some == Keep(slots, set)
  <2>1. Named(name) = some /\ set \subseteq ToSet(slots)
    OBVIOUS
  <2> HIDE DEF set
  <2>2. some \in Seq(Nat)
    BY <1>3, KeepIs
  <2>3. ToSet(some) = ToSet(slots) \intersect set
    BY <1>3, KeepIs
  <2> HIDE DEF some, Named
  <2>4. some # <<>> => Head(some) \in ToSet(some)
    BY <2>2, EndsOf
  <2>5. some = <<>> => ToSet(some) = {}
    BY DEF ToSet
  <2>6. \A c : c \in set <=> c \in ToSet(slots) /\ nodes[c].slotName = name
    BY DEF set
  <2> QED BY <2>1, <2>3, <2>4, <2>5, <2>6
<1>5. /\ spare \in Seq(Nat) /\ ToSet(spare) = spareSet
      /\ DOMAIN spare = 1..Len(spare) /\ Len(spare) \in Nat
      /\ IsInjective(kids) => IsInjective(spare)
  <2>1. spareSet \subseteq ToSet(slots)
    OBVIOUS
  <2> HIDE DEF spareSet
  <2>2. Keep(slots, spareSet) \in Seq(Nat)
    BY <1>3, KeepIs
  <2>3. ToSet(Keep(slots, spareSet)) = ToSet(slots) \intersect spareSet
    BY <1>3, KeepIs
  <2>4. IsInjective(slots) => IsInjective(Keep(slots, spareSet))
    BY <1>3, KeptOnce
  <2> QED BY <1>a, <2>1, <2>2, <2>3, <2>4
<1>6. \A c : c \in spareSet <=> /\ c \in ToSet(slots)
                                /\ nodes[c].slotName \in ToSet(names) => Head(Named(nodes[c].slotName)) # c
  <2> HIDE DEF Named
  <2>1. \A x : Contains(names, x) <=> x \in ToSet(names)
    BY ContainsIs
  <2> QED BY <2>1
<1> HIDE DEF spare, spareSet
<1> DEFINE lacking == {name \in ToSet(names) : Named(name) = <<>>}
<1>7. /\ missing \in Seq(Name) /\ ToSet(missing) = lacking /\ IsInjective(missing)
      /\ Len(missing) <= Len(names) /\ Len(missing) \in Nat /\ DOMAIN missing = 1..Len(missing)
  <2>1. lacking \subseteq ToSet(names) /\ missing = Keep(names, lacking)
    OBVIOUS
  <2> HIDE DEF lacking, missing
  <2>2. Keep(names, lacking) \in Seq(Name)
    BY KeepIs
  <2>3. ToSet(Keep(names, lacking)) = ToSet(names) \intersect lacking
    BY KeepIs
  <2>4. Len(Keep(names, lacking)) <= Len(names)
    BY KeepIs
  <2>5. IsInjective(Keep(names, lacking))
    BY KeepOnce
  <2> QED BY <2>1, <2>2, <2>3, <2>4, <2>5
<1>8. \A i \in DOMAIN missing : missing[i] \in lacking /\ IndexOf(missing, missing[i]) + 1 = i
  <2> HIDE DEF missing, lacking
  <2> QED BY <1>7, FoundAt DEF ToSet
<1>9. \A name \in lacking : \E i \in DOMAIN missing : missing[i] = name
  <2> HIDE DEF missing, lacking
  <2> QED BY <1>7 DEF ToSet
<1>10. \A name : name \in lacking <=> name \in ToSet(names) /\ Named(name) = <<>>
  OBVIOUS
<1> HIDE DEF missing, Named, lacking
<1>11. \A i \in DOMAIN missing : /\ i \in Nat /\ missing[i] \in lacking
                                 /\ i \in paired <=> i \in DOMAIN spare
                                 /\ Taken(missing[i]) = IF i \in paired THEN spare[i] ELSE n + i
  BY <1>5, <1>7, <1>8, <1>10
<1>12. F = {n + i : i \in made}
  OBVIOUS
<1>13. \A i \in made : fresh[n + i] = NewSlot(missing[i], ref)
  <2>1. \A i \in made : i \in Nat /\ (n + i) - n = i
    BY <1>7
  <2> QED BY <1>12, <2>1
<1>14. paired \subseteq DOMAIN missing /\ made = DOMAIN missing \ paired
  OBVIOUS
<1> HIDE DEF fresh, paired, made, IdOf
<1>15. \A name \in ToSet(names) : Named(name) # <<>> => Taken(name) = Head(Named(name))
  OBVIOUS
<1> HIDE DEF Taken
<1>16. /\ F \subseteq (n + 1)..(n + Len(names)) /\ F \intersect DOMAIN nodes = {}
  BY <1>2, <1>7, <1>12, <1>14
<1> HIDE DEF F
<1>17. outdated \subseteq H
  BY <1>2, <1>3, <1>5, <1>6 DEF ToSet
<1>c. \A c \in outdated : c \in Nat
  <2> HIDE DEF outdated
  <2> QED BY <1>2, <1>17 DEF ToSet
<1>18. /\ gone \subseteq DOMAIN nodes
       /\ \A x \in gone : x \in H \/ \E p \in gone : x \in Held(nodes, p)
  <2>2. here.nodes = nodes
    OBVIOUS
  <2> HIDE DEF outdated, here
  <2>3. ASSUME NEW c \in outdated
        PROVE  /\ Subtree(here, c) \subseteq DOMAIN nodes
               /\ \A x \in Subtree(here, c) : x = c \/ \E p \in Subtree(here, c) : x \in Held(nodes, p)
    BY <1>c, <2>2, SubtreeIs DEF Has, Kids, Held
  <2> QED BY <1>17, <2>3
<1>19. ASSUME NEW name \in ToSet(names)
       PROVE  \/ /\ Taken(name) \in ToSet(slots) \ spareSet
                 /\ nodes[Taken(name)].slotName = name
              \/ \E i \in paired : name = missing[i] /\ Taken(name) = spare[i]
              \/ \E i \in made : name = missing[i] /\ Taken(name) = n + i
  <2>1. CASE Named(name) # <<>>
    BY <1>4, <1>6, <1>15, <2>1
  <2>2. CASE Named(name) = <<>>
    <3>1. PICK i \in DOMAIN missing : missing[i] = name
      BY <1>9, <1>10, <2>2
    <3> QED BY <1>11, <1>14, <3>1
  <2> QED BY <2>1, <2>2
<1>20. \A i \in paired : i \in DOMAIN spare /\ spare[i] \in spareSet /\ spare[i] \in ToSet(slots)
  BY <1>5, <1>6, <1>11, <1>14 DEF ToSet
<1>21. \A i \in made : n + i \in F /\ n + i \notin DOMAIN nodes /\ i \in Nat
  BY <1>11, <1>12, <1>14, <1>16
<1>22. \A name \in ToSet(names) : Taken(name) \in (H \intersect all) \union F
  BY <1>3, <1>19, <1>20, <1>21
<1>23. \A k \in DOMAIN names : names[k] \in ToSet(names) /\ listed[k] = Taken(names[k])
  BY DEF ToSet
<1>24. DOMAIN listed = DOMAIN names
  OBVIOUS
<1>25. \A id \in DOMAIN nodes : Inst(id) => id \in H /\ nodes[id].moduleId = "slot-instance"
  BY <1>2, <1>16, <1>22, <1>23
<1>26. \A id : Inst(id) => \E k \in DOMAIN names : Taken(names[k]) = id /\ nameOf(id) = names[k]
  OBVIOUS
<1>b. \A k \in DOMAIN names : Inst(Taken(names[k]))
  OBVIOUS
<1> HIDE DEF listed, Inst, nameOf, gone, H
<1>27. /\ DOMAIN new = (DOMAIN nodes \ gone) \union F
       /\ \A id \in F : new[id] = fresh[id]
       /\ \A id \in DOMAIN nodes \ gone :
             new[id] = IF id = ref THEN [nodes[id] EXCEPT !.children = listed]
                       ELSE IF Inst(id) THEN [nodes[id] EXCEPT !.parentId = ref, !.slotName = nameOf(id)]
                       ELSE nodes[id]
  BY <1>16 DEF F
<1> HIDE DEF new
<1>d. F \subseteq DOMAIN new /\ DOMAIN nodes \ gone \subseteq DOMAIN new
  BY <1>27
<1>28. ASSUME NEW i \in made
       PROVE  /\ n + i \in F /\ new[n + i].moduleId = "slot-instance" /\ new[n + i].children = <<>>
              /\ new[n + i].parentId = ref /\ new[n + i].locked /\ new[n + i].slotName = missing[i]
  <2>1. /\ NewSlot(missing[i], ref).moduleId = "slot-instance" /\ NewSlot(missing[i], ref).children = <<>>
        /\ NewSlot(missing[i], ref).parentId = ref /\ NewSlot(missing[i], ref).locked
        /\ NewSlot(missing[i], ref).slotName = missing[i]
    BY DEF NewSlot, NewNode
  <2>2. n + i \in F /\ new[n + i] = NewSlot(missing[i], ref)
    BY <1>13, <1>21, <1>27
  <2> QED BY <2>1, <2>2
<1>29. ASSUME NEW p \in DOMAIN nodes \ gone
       PROVE  /\ new[p].moduleId = nodes[p].moduleId /\ new[p].componentId = nodes[p].componentId
              /\ new[p].locked = nodes[p].locked
              /\ p # ref => new[p].children = nodes[p].children
              /\ p = ref => new[p].children = listed
              /\ p \notin H => new[p].slotName = nodes[p].slotName /\ new[p].parentId = nodes[p].parentId
              /\ \/ new[p].parentId = nodes[p].parentId
                 \/ new[p].parentId = ref /\ nodes[p].moduleId = "slot-instance"
              /\ p # ref /\ Inst(p) => new[p].slotName = nameOf(p) /\ new[p].parentId = ref
  <2>1. nodes[p] \in Node(b)
    OBVIOUS
  <2>2. CASE p = ref
    <3>1. new[p] = [nodes[p] EXCEPT !.children = listed]
      BY <1>27, <2>2
    <3>2. /\ [nodes[p] EXCEPT !.children = listed].children = listed
          /\ OneKind([nodes[p] EXCEPT !.children = listed], nodes[p])
          /\ [nodes[p] EXCEPT !.children = listed].parentId = nodes[p].parentId
      BY <2>1, Relist DEF OneKind
    <3> QED BY <2>2, <3>1, <3>2 DEF OneKind
  <2>3. CASE p # ref /\ Inst(p)
    <3>1. new[p] = [nodes[p] EXCEPT !.parentId = ref, !.slotName = nameOf(p)]
      BY <1>27, <2>3
    <3>2. p \in H /\ nodes[p].moduleId = "slot-instance"
      BY <1>25, <2>3
    <3>3. /\ new[p].moduleId = nodes[p].moduleId /\ new[p].componentId = nodes[p].componentId
          /\ new[p].locked = nodes[p].locked /\ new[p].children = nodes[p].children
          /\ new[p].parentId = ref /\ new[p].slotName = nameOf(p)
      BY <2>1, <3>1 DEF Node
    <3> QED BY <2>3, <3>2, <3>3
  <2>4. CASE p # ref /\ ~Inst(p)
    BY <1>27, <2>4
  <2> QED BY <2>2, <2>3, <2>4
<1>30. ASSUME ref \in DOMAIN nodes \ gone PROVE ToSet(new[ref].children) \subseteq H \union F
  <2>1. new[ref].children = listed
    BY <1>29, <1>30
  <2> QED BY <1>22, <1>23, <1>24, <2>1 DEF ToSet
<1>31. ASSUME ref \in DOMAIN nodes \ gone, Own(nodes, ref)
       PROVE  /\ IsInjective(new[ref].children) /\ DOMAIN new[ref].children = DOMAIN names
              /\ \A k \in DOMAIN names : LET x == new[ref].children[k]
                                         IN  /\ x \in DOMAIN new /\ new[x].moduleId = "slot-instance"
                                             /\ new[x].locked /\ new[x].parentId = ref
                                             /\ new[x].slotName = names[k]
  <2>1. /\ kids = nodes[ref].children /\ IsInjective(kids) /\ H = Held(nodes, ref)
        /\ \A c \in H : c \in DOMAIN nodes /\ c \in all /\ nodes[c].locked
    BY <1>31 DEF Own, kids, H, Held, Slots, all
  <2>2. \A i, j \in DOMAIN spare : spare[i] = spare[j] => i = j
    BY <1>5, <2>1 DEF IsInjective
  <2>3. \A c : c \in outdated <=> c \in spareSet /\ \A i \in paired : spare[i] # c
    <3>1. \A c : c \in spareSet <=> \E i \in DOMAIN spare : spare[i] = c
      BY <1>5 DEF ToSet
    <3>2. paired \subseteq DOMAIN spare
      BY <1>20
    <3>3. ToSet(kids) \ all = {}
      BY <2>1 DEF H
    <3> QED BY <2>2, <3>1, <3>2, <3>3
  <2>4. ASSUME NEW c \in H, c \notin outdated PROVE c \notin gone
    <3> SUFFICES ASSUME c \in gone PROVE FALSE
      OBVIOUS
    <3>1. here.nodes = nodes
      OBVIOUS
    <3>2. \A o \in outdated : o \in Nat
      BY <1>c
    <3>3. PICK o \in outdated : c \in Subtree(here, o)
      BY DEF gone
    <3> HIDE DEF here
    <3>4. c \in Held(here.nodes, ref) /\ ref \in DOMAIN here.nodes /\ Own(here.nodes, ref) /\ Lists(here.nodes)
      BY <1>31, <2>1, <3>1
    <3>7. o \in Nat /\ o # c
      BY <2>4, <3>2
    <3>8. \A k \in Held(here.nodes, ref) : k \in Subtree(here, o) => k = o \/ ref \in Subtree(here, o)
      BY <3>4, <3>7, SlotsUnder
    <3>5. ref \in Subtree(here, o)
      BY <3>3, <3>4, <3>7, <3>8
    <3>6. ref \in gone
      BY <3>5 DEF gone
    <3> QED BY <1>31, <3>6
  <2> HIDE DEF outdated
  <2>5. ASSUME NEW x \in ToSet(names), NEW y \in ToSet(names), Taken(x) = Taken(y) PROVE x = y
    <3>1. \A z \in ToSet(slots) : z \in DOMAIN nodes
      BY <1>2, <1>3
    <3>2. \A i, j \in paired : spare[i] = spare[j] => i = j
      BY <1>20, <2>2
    <3>3. \A i, j \in made : n + i = n + j => i = j
      BY <1>21
    <3>4. CASE Taken(x) \in ToSet(slots) \ spareSet /\ nodes[Taken(x)].slotName = x
      BY <1>19, <1>20, <1>21, <2>5, <3>1, <3>4
    <3>5. CASE \E i \in paired : x = missing[i] /\ Taken(x) = spare[i]
      BY <1>19, <1>20, <1>21, <2>5, <3>1, <3>2, <3>5
    <3>6. CASE \E i \in made : x = missing[i] /\ Taken(x) = n + i
      BY <1>19, <1>20, <1>21, <2>5, <3>1, <3>3, <3>6
    <3> QED BY <1>19, <3>4, <3>5, <3>6
  <2>6. new[ref].children = listed
    BY <1>29, <1>31
  <2>7. \A j, k \in DOMAIN names : names[j] = names[k] => j = k
    BY DEF IsInjective
  <2>8. \A j, k \in DOMAIN names : Taken(names[j]) = Taken(names[k]) => j = k
    BY <1>23, <2>5, <2>7
  <2>9. IsInjective(listed)
    BY <1>23, <1>24, <2>8 DEF IsInjective
  <2>10. \A c \in H : c # ref
    BY <1>2, <1>31, <2>1
  <2>11. ASSUME NEW k \in DOMAIN names
         PROVE  LET x == listed[k]
                IN  /\ x \in DOMAIN new /\ new[x].moduleId = "slot-instance"
                    /\ new[x].locked /\ new[x].parentId = ref /\ new[x].slotName = names[k]
    <3> DEFINE name == names[k]
               x == Taken(name)
    <3>1. name \in ToSet(names) /\ listed[k] = x
      BY <1>23
    <3>2. CASE x \in F
      <4>1. PICK i \in made : name = missing[i] /\ x = n + i
        <5>1. F \intersect ToSet(slots) = {}
          BY <1>2, <1>3, <1>16
        <5>2. \/ x \in ToSet(slots)
              \/ \E i \in made : name = missing[i] /\ x = n + i
          BY <1>19, <1>20, <3>1
        <5> QED BY <3>2, <5>1, <5>2
      <4>2. listed[k] = n + i /\ missing[i] = names[k]
        BY <3>1, <4>1
      <4> QED BY <1>d, <1>28, <4>2
    <3>3. CASE x \notin F
      <4>1. x \in H /\ x \in all
        BY <1>22, <3>1, <3>3
      <4>2. x \notin outdated
        <5>1. x \in spareSet => \E i \in paired : spare[i] = x
          BY <1>19, <1>21, <3>1, <3>3
        <5> QED BY <2>3, <5>1
      <4>3. x \in DOMAIN nodes \ gone /\ x # ref /\ nodes[x].locked /\ nodes[x].moduleId = "slot-instance"
        BY <1>2, <2>1, <2>4, <2>10, <4>1, <4>2
      <4>4. Inst(x) /\ nameOf(x) = name
        <5>1. Inst(x)
          BY <1>b
        <5>2. PICK j \in DOMAIN names : Taken(names[j]) = x /\ nameOf(x) = names[j]
          BY <1>26, <5>1
        <5>3. j = k
          BY <2>8, <5>2
        <5> QED BY <5>1, <5>2, <5>3
      <4> QED BY <1>27, <1>29, <3>1, <4>3, <4>4
    <3> QED BY <3>2, <3>3
  <2> QED BY <1>24, <2>6, <2>9, <2>11
<1>32. Synchronised(new, nodes, ref, H, gone, F, names, n)
  <2>1. \A x \in F : \E i \in made : x = n + i
    BY <1>12
  <2>2. \A x \in F : /\ new[x].moduleId = "slot-instance" /\ new[x].children = <<>>
                     /\ new[x].parentId = ref /\ new[x].locked
    BY <1>28, <2>1
  <2> QED BY <1>16, <1>18, <1>27, <1>29, <1>30, <1>31, <2>2 DEF Synchronised
<1> QED BY <1>1, <1>32 DEF H, kids

\* The refs that one ref's turn leaves all have their slots still, and it has its own.
Attuned(new, nodes, ref, H, names, n, C, R) ==
    /\ Owning(new, n + 1 + Len(names), C, R)
    /\ RefsIn(new, C) \subseteq RefsIn(nodes, C)
    /\ IdsOf(new) \subseteq IdsOf(nodes) \union H \union (n + 1)..(n + Len(names))
    /\ \A s \in RefsIn(new, C) : s # ref => new[s].children = nodes[s].children /\ SlotNames(new, s) = SlotNames(nodes, s)
    /\ ref \in DOMAIN new => Held(new, ref) \subseteq H \union (n + 1)..(n + Len(names))
    /\ ref \in RefsIn(new, C) => SlotNames(new, ref) = names
    /\ \A x \in DOMAIN new : \/ x \in DOMAIN nodes /\ new[x].moduleId = nodes[x].moduleId
                                                   /\ new[x].componentId = nodes[x].componentId
                             \/ x \in (n + 1)..(n + Len(names)) /\ new[x].moduleId = "slot-instance"

LEMMA SynchronisedAttuned ==
  ASSUME NEW b \in Nat, NEW n \in Nat, b <= n + 1, NEW C, NEW R, NEW nodes, Owning(nodes, b, C, R),
         NEW ref \in 1..n, NEW H, ref \in DOMAIN nodes => H = Held(nodes, ref),
         \A s \in RefsIn(nodes, C) : s # ref => Held(nodes, s) \intersect H = {},
         H \subseteq Below(b), NEW names \in Seq(Name),
         NEW new, NEW gone, NEW F, Synchronised(new, nodes, ref, H, gone, F, names, n)
  PROVE  Attuned(new, nodes, ref, H, names, n, C, R)
<1> DEFINE m == n + 1 + Len(names)
<1>1. Len(names) \in Nat /\ m \in Nat /\ b <= m /\ (n + 1)..(n + Len(names)) = (n + 1)..(m - 1) /\ n + Len(names) = m - 1
  OBVIOUS
<1>2. /\ IdsOf(nodes) \subseteq Below(b) /\ R \subseteq 1..(b - 1) /\ R \intersect DOMAIN nodes = RefsIn(nodes, C)
      /\ \A r \in RefsIn(nodes, C) : r \in DOMAIN nodes /\ Own(nodes, r)
      /\ \A x \in DOMAIN nodes : nodes[x].parentId \in Below(b)
      /\ \A x \in DOMAIN nodes : nodes[x].parentId \in R => nodes[x].moduleId = "slot-instance"
      /\ \A p \in DOMAIN nodes : Held(nodes, p) \subseteq IdsOf(nodes) /\ p \in IdsOf(nodes)
  BY DEF Owning, IdsOf, RefsIn
<1>3. /\ F \subseteq (n + 1)..(m - 1) /\ F \intersect DOMAIN nodes = {} /\ gone \subseteq DOMAIN nodes
      /\ DOMAIN new = (DOMAIN nodes \ gone) \union F
      /\ \A x \in gone : x \in H \/ \E p \in gone : x \in Held(nodes, p)
      /\ \A x \in F : /\ new[x].moduleId = "slot-instance" /\ new[x].children = <<>>
                      /\ new[x].parentId = ref /\ new[x].locked
  BY <1>1 DEF Synchronised
<1>4. \A p \in DOMAIN nodes \ gone :
          /\ new[p].moduleId = nodes[p].moduleId /\ new[p].componentId = nodes[p].componentId
          /\ new[p].locked = nodes[p].locked
          /\ p # ref => new[p].children = nodes[p].children
          /\ p \notin H => new[p].slotName = nodes[p].slotName /\ new[p].parentId = nodes[p].parentId
          /\ \/ new[p].parentId = nodes[p].parentId
             \/ new[p].parentId = ref /\ nodes[p].moduleId = "slot-instance"
  BY DEF Synchronised
<1>5. ref \in DOMAIN nodes \ gone => Held(new, ref) \subseteq H \union F
  BY DEF Synchronised, Held
<1>6. F \intersect Below(b) = {} /\ Below(b) \subseteq Below(m) /\ F \subseteq Below(m)
  BY <1>1, <1>3 DEF Below
<1>7. \A x \in F : Held(new, x) = {}
  BY <1>3 DEF Held, ToSet
<1>8. \A p \in DOMAIN nodes \ gone : p # ref => Held(new, p) = Held(nodes, p)
  BY <1>4 DEF Held
<1>9. RefsIn(new, C) \subseteq RefsIn(nodes, C) \ gone
  BY <1>3, <1>4 DEF RefsIn
<1>10. \A x \in DOMAIN new : \/ x \in DOMAIN nodes /\ new[x].moduleId = nodes[x].moduleId
                                                   /\ new[x].componentId = nodes[x].componentId
                             \/ x \in (n + 1)..(m - 1) /\ new[x].moduleId = "slot-instance"
  BY <1>3, <1>4
<1>11. \A p \in DOMAIN new : Held(new, p) \subseteq IdsOf(nodes) \union H \union F
  BY <1>2, <1>3, <1>5, <1>7, <1>8
<1>12. IdsOf(new) \subseteq IdsOf(nodes) \union H \union F
  BY <1>2, <1>3, <1>11 DEF IdsOf
<1>13. IdsOf(new) \subseteq Below(m) /\ IdsOf(new) \subseteq IdsOf(nodes) \union H \union (n + 1)..(m - 1)
  BY <1>2, <1>3, <1>6, <1>12
<1>14. ASSUME NEW s \in RefsIn(new, C), s # ref
       PROVE  Own(new, s) /\ new[s].children = nodes[s].children /\ SlotNames(new, s) = SlotNames(nodes, s)
  <2>1. s \in RefsIn(nodes, C) /\ s \in DOMAIN nodes \ gone /\ Own(nodes, s) /\ s \in DOMAIN nodes
    BY <1>2, <1>9, <1>14
  <2>2. new[s].children = nodes[s].children /\ Held(new, s) = Held(nodes, s)
    BY <1>4, <1>8, <1>14, <2>1
  <2>3. /\ \A k \in Held(nodes, s) : /\ k \in DOMAIN nodes /\ nodes[k].moduleId = "slot-instance"
                                     /\ nodes[k].locked /\ nodes[k].parentId = s
        /\ \A p \in DOMAIN nodes : p # s => Held(nodes, p) \intersect Held(nodes, s) = {}
        /\ IsInjective(nodes[s].children) /\ Held(nodes, s) \intersect H = {}
    BY <1>14, <2>1 DEF Own
  <2>4. \A k \in Held(nodes, s) : k \notin gone /\ k \notin H
    BY <1>3, <2>1, <2>3
  <2>5. \A k \in Held(nodes, s) : /\ k \in DOMAIN new /\ new[k].moduleId = "slot-instance"
                                  /\ new[k].locked /\ new[k].parentId = s /\ new[k].slotName = nodes[k].slotName
    BY <1>3, <1>4, <2>3, <2>4
  <2>6. ASSUME NEW p \in DOMAIN new, p # s PROVE Held(new, p) \intersect Held(nodes, s) = {}
    <3>1. CASE p \in F
      BY <1>7, <3>1
    <3>2. CASE p = ref /\ p \notin F
      <4>1. Held(new, p) \subseteq H \union F
        BY <1>3, <1>5, <3>2
      <4>2. F \intersect Held(nodes, s) = {}
        BY <1>3, <2>3
      <4> QED BY <2>3, <4>1, <4>2
    <3>3. CASE p # ref /\ p \notin F
      <4>1. p \in DOMAIN nodes \ gone
        BY <1>3, <3>3
      <4>2. Held(new, p) = Held(nodes, p)
        BY <1>8, <3>3, <4>1
      <4> QED BY <2>3, <2>6, <4>1, <4>2
    <3> QED BY <3>1, <3>2, <3>3
  <2>7. Own(new, s)
    BY <2>2, <2>3, <2>5, <2>6 DEF Own
  <2>8. \A i \in DOMAIN nodes[s].children : nodes[s].children[i] \in Held(nodes, s)
    BY DEF Held, ToSet
  <2>9. SlotNames(new, s) = SlotNames(nodes, s)
    BY <2>2, <2>5, <2>8 DEF SlotNames
  <2> QED BY <2>2, <2>7, <2>9
<1>15. ASSUME ref \in RefsIn(new, C) PROVE Own(new, ref) /\ SlotNames(new, ref) = names
  <2>1. ref \in RefsIn(nodes, C) /\ ref \in DOMAIN nodes \ gone /\ Own(nodes, ref) /\ ref \in DOMAIN nodes /\ H = Held(nodes, ref)
    BY <1>2, <1>9, <1>15
  <2>2. /\ IsInjective(new[ref].children) /\ DOMAIN new[ref].children = DOMAIN names
        /\ \A k \in DOMAIN names : LET x == new[ref].children[k]
                                   IN  /\ x \in DOMAIN new /\ new[x].moduleId = "slot-instance"
                                       /\ new[x].locked /\ new[x].parentId = ref
                                       /\ new[x].slotName = names[k]
    BY <2>1 DEF Synchronised
  <2>3. \A k \in Held(new, ref) : /\ k \in DOMAIN new /\ new[k].moduleId = "slot-instance"
                                  /\ new[k].locked /\ new[k].parentId = ref
    BY <2>2 DEF Held, ToSet
  <2>4. ASSUME NEW p \in DOMAIN new, p # ref PROVE Held(new, p) \intersect Held(new, ref) = {}
    <3>1. CASE p \in F
      BY <1>7, <3>1
    <3>2. CASE p \notin F
      <4>1. p \in DOMAIN nodes \ gone
        BY <1>3, <3>2
      <4>2. Held(new, p) = Held(nodes, p) /\ Held(nodes, p) \subseteq Below(b)
        BY <1>2, <1>8, <2>4, <4>1
      <4>3. Held(nodes, p) \intersect H = {}
        BY <2>1, <2>4, <4>1 DEF Own
      <4>4. Held(new, ref) \subseteq H \union F
        BY <1>5, <2>1
      <4> QED BY <1>6, <4>2, <4>3, <4>4
    <3> QED BY <3>1, <3>2
  <2>5. Own(new, ref)
    BY <2>2, <2>3, <2>4 DEF Own
  <2>6. SlotNames(new, ref) = names
    BY <2>2 DEF SlotNames
  <2> QED BY <2>5, <2>6
<1>16. R \intersect DOMAIN new = RefsIn(new, C) /\ R \subseteq 1..(m - 1)
  <2>1. R \intersect F = {} /\ R \subseteq 1..(m - 1)
    BY <1>1, <1>2, <1>3
  <2>2. \A x \in R \intersect DOMAIN new : x \in RefsIn(new, C)
    BY <1>2, <1>3, <1>4, <2>1 DEF RefsIn
  <2> QED BY <1>2, <1>9, <2>1, <2>2 DEF RefsIn
<1>17. \A x \in DOMAIN new : /\ new[x].parentId \in Below(m)
                             /\ new[x].parentId \in R => new[x].moduleId = "slot-instance"
  <2>1. ref \in Below(m)
    BY <1>1 DEF Below
  <2> QED BY <1>2, <1>3, <1>4, <1>6, <2>1
<1>18. Owning(new, m, C, R)
  BY <1>13, <1>14, <1>15, <1>16, <1>17 DEF Owning
<1>19. ref \in DOMAIN new => Held(new, ref) \subseteq H \union (n + 1)..(m - 1)
  BY <1>3, <1>5, <1>7
<1>20. RefsIn(new, C) \subseteq RefsIn(nodes, C)
  BY <1>9
<1> QED BY <1>1, <1>10, <1>13, <1>14, <1>15, <1>18, <1>19, <1>20 DEF Attuned

\* mutations.ts: a new node in a list of a node that is no such ref.
LEMMA InsertHangs ==
  ASSUME NEW n \in Nat, NEW C, NEW R, NEW tree, IsDocument(tree, n), NEW m, NEW node \in Node(m), node.children = <<>>,
         NEW parent \in DOMAIN tree.nodes, parent \notin R, NEW index \in Int,
         NEW b, b = [id \in {n} |-> [node EXCEPT !.parentId = parent]]
  PROVE  Hangs(InsertNode(tree, n, node, parent, index).nodes, tree.nodes, b, parent, {n}, C, R)
<1> DEFINE nodes == tree.nodes
           kids == Splice(nodes[parent].children, index, <<n>>)
           new == InsertNode(tree, n, node, parent, index)
<1>1. /\ n \notin DOMAIN nodes /\ parent \in DOMAIN nodes /\ parent # n
      /\ \A id \in DOMAIN nodes : nodes[id] \in Node(n) /\ nodes[id].children \in Seq(Nat)
  <2>1. DOMAIN nodes \subseteq 1..(n - 1)
    BY DocumentLists DEF Sound
  <2> QED BY <2>1, DocumentLists
<1>2. tree = [rootNodeId |-> tree.rootNodeId, nodes |-> nodes]
  BY DocumentIs
<1>3. DOMAIN b = {n} /\ OneKind(b[n], node) /\ b[n].children = <<>> /\ b[n].parentId = parent
  <2>1. b[n] = [node EXCEPT !.parentId = parent] /\ DOMAIN b = {n}
    OBVIOUS
  <2>2. /\ OneKind([node EXCEPT !.parentId = parent], node)
        /\ [node EXCEPT !.parentId = parent].children = node.children
        /\ [node EXCEPT !.parentId = parent].parentId = parent
    BY Rehang DEF OneKind
  <2> QED BY <2>1, <2>2
<1>4. ToSet(kids) = Held(nodes, parent) \union {n}
  <2> DEFINE one == <<n>>
             list == nodes[parent].children
  <2>1. list \in Seq(Nat)
    BY <1>1
  <2>2. one \in Seq(Nat) /\ ToSet(one) = {n}
    BY OneId
  <2> HIDE DEF one, list
  <2>3. ToSet(Splice(list, index, one)) = ToSet(list) \union ToSet(one)
    BY <2>1, <2>2, SplicedSet
  <2> QED BY <2>2, <2>3 DEF Held, one, list
<1> HIDE DEF kids
<1>5. /\ DOMAIN new.nodes = DOMAIN nodes \union {n}
      /\ new.nodes[n] = b[n]
      /\ new.nodes[parent] = [nodes[parent] EXCEPT !.children = kids]
      /\ \A id \in DOMAIN nodes \ {parent} : new.nodes[id] = nodes[id]
  BY <1>1, <1>2 DEF InsertNode, With, kids
<1> HIDE DEF new
<1>6. /\ OneKind(new.nodes[parent], nodes[parent]) /\ new.nodes[parent].parentId = nodes[parent].parentId
      /\ new.nodes[parent].children = kids
  <2>1. nodes[parent] \in Node(n)
    BY <1>1
  <2>2. /\ OneKind([nodes[parent] EXCEPT !.children = kids], nodes[parent])
        /\ [nodes[parent] EXCEPT !.children = kids].parentId = nodes[parent].parentId
        /\ [nodes[parent] EXCEPT !.children = kids].children = kids
    BY <2>1, Relist DEF OneKind
  <2> QED BY <1>5, <2>2
<1>7. \A x \in DOMAIN nodes : /\ OneKind(new.nodes[x], nodes[x]) /\ new.nodes[x].parentId = nodes[x].parentId
                              /\ x # parent => new.nodes[x].children = nodes[x].children
  BY <1>5, <1>6 DEF OneKind
<1>8. Held(new.nodes, parent) \subseteq Held(nodes, parent) \union {n}
  BY <1>4, <1>6 DEF Held
<1>9. \A r \in RefsIn(b, C) : Held(b, r) \intersect {n} = {}
  BY <1>3 DEF RefsIn, Held, ToSet
<1>10. \A x \in DOMAIN b : OneKind(new.nodes[x], b[x]) /\ new.nodes[x].children = b[x].children
                           /\ new.nodes[x].parentId = b[x].parentId
  BY <1>3, <1>5 DEF OneKind
<1>11. DOMAIN nodes \intersect DOMAIN b = {} /\ {n} \subseteq DOMAIN b /\ DOMAIN new.nodes = DOMAIN nodes \union DOMAIN b
  BY <1>1, <1>3, <1>5
<1> QED BY <1>1, <1>7, <1>8, <1>9, <1>10, <1>11 DEF Hangs, new, OneKind

\* A node on its own.
Single(b, n, node, C, R) ==
    /\ Owning(b, n + 1, C, R \union RefsIn(b, C)) /\ IdsOf(b) \subseteq n..((n + 1) - 1)
    /\ b[n].children = <<>> /\ b[n].moduleId = node.moduleId /\ b[n].componentId = node.componentId
    /\ DOMAIN b = {n}

LEMMA AloneOwning ==
  ASSUME NEW n \in Nat, NEW C, NEW R, R \subseteq 1..(n - 1), n # 0, NEW m, NEW node \in Node(m), node.children = <<>>,
         NEW parent \in 1..(n - 1), parent \notin R, NEW b, b = [id \in {n} |-> [node EXCEPT !.parentId = parent]]
  PROVE  Single(b, n, node, C, R)
<1>1. /\ DOMAIN b = {n} /\ b[n].moduleId = node.moduleId /\ b[n].componentId = node.componentId
      /\ b[n].children = <<>> /\ b[n].parentId = parent
  <2>1. b[n] = [node EXCEPT !.parentId = parent] /\ DOMAIN b = {n}
    OBVIOUS
  <2>2. /\ OneKind([node EXCEPT !.parentId = parent], node)
        /\ [node EXCEPT !.parentId = parent].children = node.children
        /\ [node EXCEPT !.parentId = parent].parentId = parent
    BY Rehang DEF OneKind
  <2> QED BY <2>1, <2>2 DEF OneKind
<1>2. Held(b, n) = {} /\ IsInjective(b[n].children)
  BY <1>1 DEF Held, ToSet, IsInjective
<1>3. IdsOf(b) = {n} /\ RefsIn(b, C) \subseteq {n}
  BY <1>1, <1>2 DEF IdsOf, RefsIn
<1>4. \A r \in RefsIn(b, C) : Own(b, r)
  BY <1>1, <1>2, <1>3 DEF Own
<1>5. n \notin R /\ parent \notin R \union RefsIn(b, C)
  BY <1>3
<1>6. Owning(b, n + 1, C, R \union RefsIn(b, C))
  <2>1. {n} \subseteq Below(n + 1) /\ R \union RefsIn(b, C) \subseteq 1..((n + 1) - 1) /\ parent \in Below(n + 1)
    BY <1>3 DEF Below
  <2>2. (R \union RefsIn(b, C)) \intersect DOMAIN b = RefsIn(b, C)
    BY <1>1, <1>3, <1>5
  <2> QED BY <1>1, <1>3, <1>4, <1>5, <2>1, <2>2 DEF Owning
<1> QED BY <1>1, <1>3, <1>6 DEF Single

LEMMA InsertNodeKept ==
  ASSUME NEW n \in Nat, NEW C, NEW want, NEW R, NEW tree, IsDocument(tree, n), Fit(tree.nodes, n, C, want, R),
         NEW m, NEW node \in Node(m), node.children = <<>>, node.moduleId # "ref",
         NEW parent \in DOMAIN tree.nodes, parent \notin R, NEW index \in Int
  PROVE  Kept(InsertNode(tree, n, node, parent, index).nodes, tree.nodes, n, n + 1, C, want, R)
<1> DEFINE b == [id \in {n} |-> [node EXCEPT !.parentId = parent]]
<1>1. parent \in 1..(n - 1) /\ n # 0 /\ R \subseteq 1..(n - 1)
  <2>1. R \subseteq 1..(n - 1)
    BY DEF Fit, Owning
  <2>2. DOMAIN tree.nodes \subseteq 1..(n - 1)
    BY DocumentLists DEF Sound
  <2> QED BY <2>1, <2>2
<1>2. Hangs(InsertNode(tree, n, node, parent, index).nodes, tree.nodes, b, parent, {n}, C, R)
  BY InsertHangs
<1>3. /\ Owning(b, n + 1, C, R \union RefsIn(b, C)) /\ IdsOf(b) \subseteq n..((n + 1) - 1)
      /\ b[n].moduleId = node.moduleId /\ DOMAIN b = {n}
  <2>1. Single(b, n, node, C, R)
    BY <1>1, AloneOwning
  <2> QED BY <2>1 DEF Single
<1> HIDE DEF b
<1>4. RefsIn(b, C) = {}
  BY <1>3 DEF RefsIn
<1>5. Fit(b, n + 1, C, want, R \union RefsIn(b, C))
  BY <1>3, <1>4 DEF Fit, Calls
<1>6. n + 1 \in Nat /\ n <= n + 1
  OBVIOUS
<1> QED BY <1>2, <1>3, <1>5, <1>6, HungKept

\* One ref's turn, for the refs whose slots are kept.
LEMMA SyncAttuned ==
  ASSUME NEW b \in Nat, NEW n \in Nat, b <= n + 1, NEW C, NEW R, NEW nodes, Owning(nodes, b, C, R), Lists(nodes),
         DOMAIN nodes \subseteq 1..(b - 1), \A id \in DOMAIN nodes : nodes[id] \in Node(b),
         NEW ref \in 1..n, ref \in DOMAIN nodes => nodes[ref].moduleId = "ref",
         NEW refNode, refNode.children \in Seq(Nat), ToSet(refNode.children) \subseteq Below(b),
         ref \in DOMAIN nodes => refNode.children = nodes[ref].children,
         \A s \in RefsIn(nodes, C) : s # ref => Held(nodes, s) \intersect ToSet(refNode.children) = {},
         NEW names \in Seq(Name), IsInjective(names)
  PROVE  Attuned(SyncSlotInstances(nodes, ref, refNode, names, n), nodes, ref, ToSet(refNode.children), names, n, C, R)
<1> DEFINE H == ToSet(refNode.children)
           new == SyncSlotInstances(nodes, ref, refNode, names, n)
<1>1. PICK gone, F : Synchronised(new, nodes, ref, H, gone, F, names, n)
  BY SyncIs
<1>2. ref \in DOMAIN nodes => H = Held(nodes, ref)
  BY DEF Held
<1>3. H \subseteq Below(b) /\ \A s \in RefsIn(nodes, C) : s # ref => Held(nodes, s) \intersect H = {}
  OBVIOUS
<1> HIDE DEF H, new
<1>4. Attuned(new, nodes, ref, H, names, n, C, R)
  BY <1>1, <1>2, <1>3, SynchronisedAttuned
<1> QED BY <1>4 DEF H, new

\* insertComponentRef: a ref comes with its slots.
LEMMA RefKept ==
  ASSUME NEW n \in Nat, NEW C, NEW want, NEW R, NEW tree, IsDocument(tree, n), Fit(tree.nodes, n, C, want, R),
         NEW node \in Node(n + 1), node.children = <<>>, node.moduleId = "ref",
         NEW parent \in DOMAIN tree.nodes, parent \notin R, NEW index \in Int,
         NEW names \in Seq(Name), IsInjective(names), node.componentId \in C => want[node.componentId] = names,
         NEW placed, placed = InsertNode(tree, n, node, parent, index), IsDocument(placed, n + 1)
  PROVE  Kept(SyncSlotInstances(placed.nodes, n, node, names, n), tree.nodes, n, n + 1 + Len(names), C, want, R)
<1> DEFINE b == [id \in {n} |-> [node EXCEPT !.parentId = parent]]
           S == R \union RefsIn(b, C)
           new == SyncSlotInstances(placed.nodes, n, node, names, n)
           m == n + 1 + Len(names)
<1>1. parent \in 1..(n - 1) /\ n # 0 /\ R \subseteq 1..(n - 1)
  <2>1. R \subseteq 1..(n - 1)
    BY DEF Fit, Owning
  <2>2. DOMAIN tree.nodes \subseteq 1..(n - 1)
    BY DocumentLists DEF Sound
  <2> QED BY <2>1, <2>2
<1>2. Hangs(placed.nodes, tree.nodes, b, parent, {n}, C, R)
  BY InsertHangs
<1>3. Single(b, n, node, C, R)
  BY <1>1, AloneOwning
<1> HIDE DEF b
<1>4. Hung(placed.nodes, tree.nodes, b, n, n + 1, C, R)
  <2>1. Owning(tree.nodes, n, C, R)
    BY DEF Fit
  <2>2. Owning(b, n + 1, C, R \union RefsIn(b, C)) /\ IdsOf(b) \subseteq n..((n + 1) - 1)
    BY <1>3 DEF Single
  <2>3. n + 1 \in Nat /\ n <= n + 1
    OBVIOUS
  <2> QED BY <1>2, <2>1, <2>2, <2>3, HungOwning
<1>5. /\ Owning(placed.nodes, n + 1, C, S) /\ RefsIn(placed.nodes, C) = RefsIn(tree.nodes, C) \union RefsIn(b, C)
      /\ IdsOf(placed.nodes) \subseteq IdsOf(tree.nodes) \union {n}
      /\ RefsIn(b, C) \subseteq {n}
      /\ \A r \in RefsIn(tree.nodes, C) : SlotNames(placed.nodes, r) = SlotNames(tree.nodes, r)
                                          /\ placed.nodes[r].componentId = tree.nodes[r].componentId
  BY <1>4 DEF Hung
<1>6. /\ placed.nodes[n].moduleId = "ref" /\ placed.nodes[n].children = <<>>
      /\ placed.nodes[n].componentId = node.componentId
      /\ n \in DOMAIN placed.nodes
  BY <1>2, <1>3 DEF Hangs, Single
<1>7. /\ Lists(placed.nodes) /\ DOMAIN placed.nodes \subseteq 1..((n + 1) - 1)
      /\ \A id \in DOMAIN placed.nodes : placed.nodes[id] \in Node(n + 1)
  <2>1. n + 1 \in Nat
    OBVIOUS
  <2> QED BY <2>1, DocumentLists DEF Sound
<1>8. Attuned(new, placed.nodes, n, {}, names, n, C, S)
  <2>1. n + 1 \in Nat /\ n + 1 <= n + 1 /\ n \in 1..n
    BY <1>1
  <2>2. node.children \in Seq(Nat) /\ ToSet(node.children) = {} /\ ToSet(node.children) \subseteq Below(n + 1)
    BY DEF ToSet
  <2>3. \A s \in RefsIn(placed.nodes, C) : s # n => Held(placed.nodes, s) \intersect ToSet(node.children) = {}
    BY <2>2
  <2>4. n \in DOMAIN placed.nodes => node.children = placed.nodes[n].children
    BY <1>6
  <2>5. n \in DOMAIN placed.nodes => placed.nodes[n].moduleId = "ref"
    BY <1>6
  <2>6. Owning(placed.nodes, n + 1, C, S)
    BY <1>5
  <2> HIDE DEF S
  <2>7. Attuned(new, placed.nodes, n, ToSet(node.children), names, n, C, S)
    BY <1>7, <2>1, <2>2, <2>3, <2>4, <2>5, <2>6, SyncAttuned
  <2> QED BY <2>2, <2>7
<1> HIDE DEF new
<1>9. /\ Owning(new, m, C, S) /\ RefsIn(new, C) \subseteq RefsIn(placed.nodes, C)
      /\ IdsOf(new) \subseteq IdsOf(placed.nodes) \union (n + 1)..(n + Len(names))
      /\ \A s \in RefsIn(new, C) : s # n => SlotNames(new, s) = SlotNames(placed.nodes, s)
      /\ n \in RefsIn(new, C) => SlotNames(new, n) = names
      /\ \A x \in DOMAIN new : \/ x \in DOMAIN placed.nodes /\ new[x].componentId = placed.nodes[x].componentId
                               \/ new[x].moduleId = "slot-instance"
  BY <1>8 DEF Attuned
<1>10. Len(names) \in Nat /\ m \in Nat /\ n <= m /\ m # 0 /\ n + Len(names) = m - 1
  OBVIOUS
<1>11. Calls(new, C, want)
  <2> SUFFICES ASSUME NEW r \in RefsIn(new, C) PROVE SlotNames(new, r) = want[new[r].componentId]
    BY DEF Calls
  <2>1. r \in RefsIn(placed.nodes, C) /\ new[r].componentId = placed.nodes[r].componentId /\ new[r].componentId \in C
    BY <1>9 DEF RefsIn
  <2>2. CASE r = n
    BY <1>6, <1>9, <2>1, <2>2
  <2>3. CASE r # n
    <3>1. r \in RefsIn(tree.nodes, C)
      BY <1>5, <2>1, <2>3
    <3>2. SlotNames(tree.nodes, r) = want[tree.nodes[r].componentId]
      BY <3>1 DEF Fit, Calls
    <3> QED BY <1>5, <1>9, <2>1, <2>3, <3>1, <3>2
  <2> QED BY <2>2, <2>3
<1>12. Fit(new, m, C, want, S)
  BY <1>9, <1>11 DEF Fit
<1>13. RefsIn(new, C) \subseteq RefsIn(tree.nodes, C) \union {n} /\ RefsIn(new, C) \subseteq S
  <2>1. RefsIn(tree.nodes, C) \subseteq R
    BY DEF Fit, Owning
  <2> QED BY <1>5, <1>9, <2>1
<1>14. Fit(new, m, C, want, R \union RefsIn(new, C))
  <2>1. R \union RefsIn(new, C) \subseteq S \union m..(m - 1) /\ m <= m
    BY <1>10, <1>13
  <2>2. RefsIn(new, C) \subseteq R \union RefsIn(new, C)
    OBVIOUS
  <2> HIDE DEF S, m
  <2> QED BY <1>10, <1>12, <2>1, <2>2, FitLess
<1>15. {n} \subseteq n..(m - 1) /\ (n + 1)..(n + Len(names)) \subseteq n..(m - 1)
  BY <1>10
<1>16. IdsOf(new) \subseteq IdsOf(tree.nodes) \union n..(m - 1)
  BY <1>5, <1>9, <1>15
<1>17. RefsIn(new, C) \subseteq RefsIn(tree.nodes, C) \union n..(m - 1)
  BY <1>13, <1>15
<1> QED BY <1>14, <1>16, <1>17 DEF Kept, new

-----------------------------------------------------------------------------
\* Copies put into a document.

\* One node, no such ref's slot, is given another parent.
LEMMA RehungFit ==
  ASSUME NEW m \in Nat, NEW C, NEW want, NEW S, NEW old, Fit(old, m, C, want, S), \A x \in DOMAIN old : old[x] \in Node(m),
         NEW x \in DOMAIN old, \A r \in RefsIn(old, C) : x \notin Held(old, r),
         NEW p \in Below(m), p \in S => old[x].moduleId = "slot-instance",
         NEW new, DOMAIN new = DOMAIN old, new[x] = [old[x] EXCEPT !.parentId = p],
         \A y \in DOMAIN old : y # x => new[y] = old[y]
  PROVE  Fit(new, m, C, want, S) /\ RefsIn(new, C) = RefsIn(old, C) /\ IdsOf(new) = IdsOf(old)
<1>1. OneKind(new[x], old[x]) /\ new[x].children = old[x].children /\ new[x].parentId = p
  <2>1. old[x] \in Node(m)
    OBVIOUS
  <2>2. /\ OneKind([old[x] EXCEPT !.parentId = p], old[x])
        /\ [old[x] EXCEPT !.parentId = p].children = old[x].children
        /\ [old[x] EXCEPT !.parentId = p].parentId = p
    BY <2>1, Rehang DEF OneKind
  <2> QED BY <2>2
<1>2. \A y \in DOMAIN old : /\ new[y].moduleId = old[y].moduleId /\ new[y].componentId = old[y].componentId
                            /\ new[y].locked = old[y].locked /\ new[y].slotName = old[y].slotName
                            /\ new[y].children = old[y].children
                            /\ y # x => new[y].parentId = old[y].parentId
  BY <1>1 DEF OneKind
<1>3. RefsIn(new, C) = RefsIn(old, C)
  BY <1>2 DEF RefsIn
<1>4. \A y \in DOMAIN old : Held(new, y) = Held(old, y)
  BY <1>2 DEF Held
<1>5. IdsOf(new) = IdsOf(old)
  BY <1>4 DEF IdsOf
<1>6. /\ IdsOf(old) \subseteq Below(m) /\ S \subseteq 1..(m - 1) /\ S \intersect DOMAIN old = RefsIn(old, C)
      /\ \A r \in RefsIn(old, C) : r \in DOMAIN old /\ Own(old, r) /\ SlotNames(old, r) = want[old[r].componentId]
      /\ \A y \in DOMAIN old : old[y].parentId \in Below(m)
      /\ \A y \in DOMAIN old : old[y].parentId \in S => old[y].moduleId = "slot-instance"
  BY DEF Fit, Owning, Calls, RefsIn
<1>7. ASSUME NEW r \in RefsIn(old, C) PROVE Own(new, r) /\ SlotNames(new, r) = want[new[r].componentId]
  <2>1. \A k \in Held(old, r) : k # x /\ k \in DOMAIN old
    BY <1>6 DEF Own
  <2>2. r \in DOMAIN old /\ Held(new, r) = Held(old, r) /\ new[r].children = old[r].children
    BY <1>2, <1>4, <1>6
  <2>3. Own(new, r)
    BY <1>2, <1>4, <1>6, <2>1, <2>2 DEF Own
  <2>4. \A i \in DOMAIN old[r].children : old[r].children[i] \in Held(old, r)
    BY DEF Held, ToSet
  <2> QED BY <1>2, <1>6, <2>1, <2>2, <2>3, <2>4 DEF SlotNames
<1>8. \A y \in DOMAIN new : /\ new[y].parentId \in Below(m)
                            /\ new[y].parentId \in S => new[y].moduleId = "slot-instance"
  BY <1>1, <1>2, <1>6
<1>9. Owning(new, m, C, S)
  BY <1>3, <1>5, <1>6, <1>7, <1>8 DEF Owning
<1>10. Calls(new, C, want)
  BY <1>3, <1>7 DEF Calls
<1> QED BY <1>3, <1>5, <1>9, <1>10 DEF Fit

\* The copies of a subtree, of which no such ref's slot is the root.
LEMMA SubtreeCopies ==
  ASSUME NEW n \in Nat, NEW C, NEW want, NEW R, NEW tree, IsDocument(tree, n), Fit(tree.nodes, n, C, want, R),
         NEW id \in DOMAIN tree.nodes, NEW ids, ids = Subtree(tree, id), NEW from \in Nat, n <= from,
         NEW map, map = FreshIds(ids, from), NEW m, m = from + Cardinality(ids)
  PROVE  /\ m \in Nat /\ from <= m
         /\ Cloning(Copies(tree.nodes, ids, map), tree.nodes, ids, map, from, m, C, want, R)
<1>1. Tidy(tree, n, C, R)
  BY FitIs
<1>2. /\ Lists(tree.nodes) /\ id \in Nat /\ IsFiniteSet(DOMAIN tree.nodes) /\ R \subseteq 1..(n - 1)
      /\ DOMAIN tree.nodes \subseteq Nat /\ n # 0
      /\ \A x \in DOMAIN tree.nodes : tree.nodes[x] \in Node(n) /\ tree.nodes[x].parentId \in Below(n)
                                      /\ (tree.nodes[x].parentId \in R => tree.nodes[x].moduleId = "slot-instance")
      /\ \A r \in RefsIn(tree.nodes, C) : r \in DOMAIN tree.nodes /\ Own(tree.nodes, r)
  BY <1>1 DEF Tidy, Lists, Below
<1>3. ids \subseteq DOMAIN tree.nodes
  BY <1>2, SubtreeIs
<1>4. IsFiniteSet(ids) /\ ids \subseteq Nat
  BY <1>2, <1>3, FS_Subset
<1>5. /\ Cardinality(ids) \in Nat
      /\ map \in [ids -> from..(from + Cardinality(ids) - 1)]
      /\ \A i, j \in ids : map[i] = map[j] => i = j
  <2>1. Cardinality(ids) \in Nat
    BY <1>4, FS_CardinalityType
  <2>2. FreshIds(ids, from) \in [ids -> from..(from + Cardinality(ids) - 1)]
    BY <1>4, FreshIs
  <2>3. \A i, j \in ids : FreshIds(ids, from)[i] = FreshIds(ids, from)[j] => i = j
    <3>1. Renames(FreshIds(ids, from), ids)
      BY <1>4, FreshRenames
    <3> QED BY <3>1 DEF Renames
  <2> QED BY <2>1, <2>2, <2>3
<1>6. m \in Nat /\ from <= m /\ from + Cardinality(ids) - 1 = m - 1
  BY <1>5
<1>7. ASSUME NEW r \in RefsIn(tree.nodes, C) \intersect ids
      PROVE  Own(tree.nodes, r) /\ Held(tree.nodes, r) \subseteq ids /\ SlotNames(tree.nodes, r) = want[tree.nodes[r].componentId]
  <2>1. Own(tree.nodes, r) /\ r \in DOMAIN tree.nodes
    BY <1>2
  <2>2. Held(tree.nodes, r) \subseteq ids
    BY <1>2, <2>1, SlotsUnder
  <2> QED BY <2>1, <2>2 DEF Fit, Calls
<1>8. map \in [ids -> from..(m - 1)]
  BY <1>5, <1>6
<1>9. \A x \in ids : /\ tree.nodes[x] \in Node(n)
                     /\ tree.nodes[x].parentId \in Below(n)
                        /\ (tree.nodes[x].parentId \in R => tree.nodes[x].moduleId = "slot-instance")
  BY <1>2, <1>3
<1>10. Cloning(Copies(tree.nodes, ids, map), tree.nodes, ids, map, from, m, C, want, R)
  BY <1>2, <1>3, <1>5, <1>6, <1>7, <1>8, <1>9, CopiesFit
<1> QED BY <1>6, <1>10

\* What a duplicate adds to a document.
Doubled(new, old, n, m, C, want, R) ==
    /\ Kept(new, old, n, m, C, want, R)
    /\ DOMAIN old \subseteq DOMAIN new /\ DOMAIN new \subseteq DOMAIN old \union n..(m - 1)
    /\ \A x \in DOMAIN old : /\ new[x].moduleId = old[x].moduleId /\ new[x].componentId = old[x].componentId
                             /\ new[x].parentId = old[x].parentId

\* mutations.ts: the copy stands right behind its original.
LEMMA DuplicateNodeDoubled ==
  ASSUME NEW n \in Nat, NEW C, NEW want, NEW R, NEW tree, IsDocument(tree, n), Fit(tree.nodes, n, C, want, R),
         NEW id \in DOMAIN tree.nodes, Parent(tree, id) \notin R, NEW m, m = n + Cardinality(Subtree(tree, id))
  PROVE  Doubled(DuplicateNode(tree, id, n).nodes, tree.nodes, n, m, C, want, R)
<1> DEFINE nodes == tree.nodes
           ids == Subtree(tree, id)
           map == FreshIds(ids, n)
           at0 == map[id]
           parent == Parent(tree, id)
           copies == Copies(nodes, ids, map)
           up == IF parent # Null THEN parent ELSE nodes[id].parentId
           b == [copies EXCEPT ![at0].parentId = up]
           kids == nodes[parent].children
           joined == Splice(kids, IndexOf(kids, id) + 1, <<at0>>)
           new == DuplicateNode(tree, id, n)
           S == R \union RefsIn(copies, C)
<1>1. Tidy(tree, n, C, R)
  BY FitIs
<1>2. /\ Lists(nodes) /\ id \in Nat /\ R \subseteq 1..(n - 1) /\ DOMAIN nodes \subseteq Below(n)
      /\ tree = [rootNodeId |-> tree.rootNodeId, nodes |-> nodes]
      /\ tree.rootNodeId \in DOMAIN nodes /\ tree.rootNodeId \notin R /\ Null \notin DOMAIN nodes
      /\ \A x \in DOMAIN nodes : nodes[x] \in Node(n) /\ nodes[x].parentId \in Below(n)
                                 /\ (nodes[x].parentId \in R => nodes[x].moduleId = "slot-instance")
      /\ \A r \in RefsIn(nodes, C) : r \in DOMAIN nodes /\ r \in R /\ Own(nodes, r)
      /\ \A x \in DOMAIN nodes : nodes[x].children \in Seq(Nat)
  BY <1>1 DEF Tidy
<1>3. m \in Nat /\ n <= m /\ Cloning(copies, nodes, ids, map, n, m, C, want, R)
  <2>1. n <= n
    OBVIOUS
  <2>2. m \in Nat /\ n <= m
    <3>1. IsFiniteSet(Subtree(tree, id))
      BY <1>2, SubtreeIs, FS_Subset DEF Lists
    <3> QED BY <3>1, FS_CardinalityType
  <2> HIDE DEF ids, map
  <2>3. ids = Subtree(tree, id) /\ map = FreshIds(ids, n)
    BY DEF ids, map
  <2>4. m = n + Cardinality(ids)
    BY <2>3
  <2>5. Cloning(Copies(tree.nodes, ids, map), tree.nodes, ids, map, n, m, C, want, R)
    BY <2>1, <2>3, <2>4, SubtreeCopies
  <2> QED BY <2>2, <2>5
<1>4. id \in ids /\ ids \subseteq DOMAIN nodes /\ IsFiniteSet(ids) /\ ids \subseteq Nat
  <2>1. id \in ids /\ ids \subseteq DOMAIN nodes
    BY <1>2, SubtreeIs DEF Has
  <2> QED BY <1>2, <2>1, FS_Subset DEF Lists
<1>5. Renames(map, ids)
  BY <1>4, FreshRenames
<1>6. Fresh(copies, n, m) /\ Cloned(copies, nodes, ids, map)
  <2>1. DOMAIN nodes \subseteq 1..(n - 1)
    BY DocumentLists DEF Sound
  <2>2. n <= n /\ \A x \in DOMAIN nodes : nodes[x] \in Node(n)
    BY <1>2
  <2> QED BY <1>3, <1>4, <2>1, <2>2, CopiesAre
<1> HIDE DEF ids, map, copies
<1>7. /\ at0 \in DOMAIN copies /\ at0 \in Nat /\ DOMAIN copies \subseteq n..(m - 1)
      /\ DOMAIN copies \intersect DOMAIN nodes = {}
      /\ \A x \in DOMAIN copies : copies[x] \in Node(m)
      /\ copies[at0].moduleId = nodes[id].moduleId
      /\ copies = [x \in DOMAIN copies |-> copies[x]]
  <2>1. at0 \in DOMAIN copies /\ at0 \in Nat /\ copies[at0].moduleId = nodes[id].moduleId
    BY <1>4, <1>6 DEF Cloned
  <2>2. DOMAIN copies \subseteq n..(m - 1) /\ (\A x \in DOMAIN copies : copies[x] \in Node(m))
        /\ copies = [x \in DOMAIN copies |-> copies[x]]
    BY <1>6 DEF Fresh
  <2>3. n..(m - 1) \intersect DOMAIN nodes = {}
    BY <1>2 DEF Below
  <2> QED BY <2>1, <2>2, <2>3
<1>8. ASSUME NEW r \in RefsIn(copies, C) PROVE at0 \notin Held(copies, r)
  <2> SUFFICES ASSUME at0 \in Held(copies, r) PROVE FALSE
    OBVIOUS
  <2>1. PICK p \in ids : r = map[p]
    BY <1>6 DEF Cloned, RefsIn
  <2>2. p \in RefsIn(nodes, C) /\ p \in DOMAIN nodes
    BY <1>4, <1>6, <2>1 DEF Cloned, RefsIn
  <2>3. Held(copies, r) = {map[c] : c \in Held(nodes, p) \intersect ids}
    BY <1>3, <2>1 DEF Cloning
  <2>4. id \in Held(nodes, p)
    BY <1>4, <1>5, <2>3 DEF Renames
  <2>5. nodes[id].parentId = p
    BY <1>2, <2>2, <2>4 DEF Own
  <2>6. parent = p
    BY <2>2, <2>5 DEF Parent, Has
  <2> QED BY <1>2, <2>2, <2>6
<1>9. parent \in DOMAIN nodes \union {Null}
  BY <1>2, ParentIs
<1> HIDE DEF parent
<1>10. up \in Below(m) /\ (up \in S => copies[at0].moduleId = "slot-instance")
  <2>1. RefsIn(copies, C) \intersect Below(n) = {}
    BY <1>7 DEF RefsIn, Below
  <2>2. Below(n) \subseteq Below(m)
    BY <1>3 DEF Below
  <2>3. CASE parent # Null
    <3>1. parent \in Below(n) /\ parent \notin R
      BY <1>2, <1>9, <2>3 DEF parent
    <3> QED BY <2>1, <2>2, <2>3, <3>1
  <2>4. CASE parent = Null
    BY <1>2, <1>7, <2>1, <2>2, <2>4
  <2> QED BY <2>3, <2>4
<1>11. Fit(copies, m, C, want, S) /\ IdsOf(copies) \subseteq n..(m - 1)
  BY <1>3 DEF Cloning
<1> HIDE DEF at0, up
<1>12. /\ DOMAIN b = DOMAIN copies /\ b[at0] = [copies[at0] EXCEPT !.parentId = up]
       /\ \A y \in DOMAIN copies : y # at0 => b[y] = copies[y]
  BY <1>7
<1> HIDE DEF b, S
<1>13. Fit(b, m, C, want, S) /\ RefsIn(b, C) = RefsIn(copies, C) /\ IdsOf(b) = IdsOf(copies)
  <2>1. \A x \in DOMAIN copies : copies[x] \in Node(m)
    BY <1>7
  <2> QED BY <1>3, <1>7, <1>8, <1>10, <1>11, <1>12, <2>1, RehungFit
<1>14. Fit(b, m, C, want, R \union RefsIn(b, C)) /\ IdsOf(b) \subseteq n..(m - 1)
  BY <1>11, <1>13 DEF S
<1>15. /\ DOMAIN new.nodes = DOMAIN nodes \union DOMAIN b
       /\ \A x \in DOMAIN b : new.nodes[x] = b[x]
       /\ \A p \in DOMAIN nodes : new.nodes[p] = IF p = parent THEN [nodes[p] EXCEPT !.children = joined] ELSE nodes[p]
  <2> DEFINE copied == Over(copies, nodes)
             linked == [copied EXCEPT ![at0].parentId = up]
  <2>1. /\ DOMAIN copied = DOMAIN nodes \union DOMAIN copies
        /\ \A x \in DOMAIN copies : copied[x] = copies[x]
        /\ \A p \in DOMAIN nodes : copied[p] = nodes[p]
    BY <1>7 DEF Over
  <2>2. new = [tree EXCEPT !.nodes = IF parent = Null THEN linked
                 ELSE [linked EXCEPT ![parent].children =
                         Splice(@, IndexOf(@, id) + 1, <<at0>>)]]
    BY DEF DuplicateNode, ids, map, copies, at0, up, parent
  <2> HIDE DEF new, copied
  <2>3. /\ DOMAIN linked = DOMAIN nodes \union DOMAIN copies
        /\ linked[at0] = [copies[at0] EXCEPT !.parentId = up]
        /\ \A x \in DOMAIN copies \ {at0} : linked[x] = copies[x]
        /\ \A p \in DOMAIN nodes : linked[p] = nodes[p]
    BY <1>7, <2>1
  <2> HIDE DEF linked
  <2>4. /\ DOMAIN linked = DOMAIN nodes \union DOMAIN b
        /\ \A x \in DOMAIN b : linked[x] = b[x]
    BY <1>12, <2>3
  <2>5. CASE parent = Null
    BY <1>2, <2>2, <2>3, <2>4, <2>5
  <2>6. CASE parent # Null
    <3>1. new = [tree EXCEPT !.nodes = [linked EXCEPT ![parent].children = joined]]
      BY <1>9, <2>2, <2>3, <2>6
    <3>2. parent \in DOMAIN nodes /\ parent \notin DOMAIN b
      BY <1>7, <1>9, <1>12, <2>6
    <3> HIDE DEF joined
    <3> QED BY <1>2, <1>7, <1>12, <2>3, <2>4, <2>6, <3>1, <3>2
  <2> QED BY <2>5, <2>6
<1> HIDE DEF new
<1>16. ASSUME NEW p \in DOMAIN nodes
       PROVE  /\ OneKind(new.nodes[p], nodes[p]) /\ new.nodes[p].parentId = nodes[p].parentId
              /\ new.nodes[p].children = IF p = parent THEN joined ELSE nodes[p].children
  <2> HIDE DEF joined
  <2>1. CASE p = parent
    <3>1. nodes[p] \in Node(n)
      BY <1>2
    <3>2. /\ OneKind([nodes[p] EXCEPT !.children = joined], nodes[p])
          /\ [nodes[p] EXCEPT !.children = joined].children = joined
          /\ [nodes[p] EXCEPT !.children = joined].parentId = nodes[p].parentId
      BY <3>1, Relist DEF OneKind
    <3> QED BY <1>15, <2>1, <3>2
  <2>2. CASE p # parent
    BY <1>15, <2>2 DEF OneKind
  <2> QED BY <2>1, <2>2
<1>17. DOMAIN nodes \intersect DOMAIN b = {} /\ DOMAIN b \subseteq n..(m - 1)
  BY <1>7, <1>12
<1>18. Kept(new.nodes, nodes, n, m, C, want, R)
  <2>1. CASE parent # Null
    <3>1. parent \in DOMAIN nodes /\ parent \notin R
      BY <1>9, <2>1 DEF parent
    <3>2. ToSet(joined) = Held(nodes, parent) \union {at0}
      <4> DEFINE one == <<at0>>
                 spot == IndexOf(kids, id) + 1
      <4>1. kids \in Seq(Nat)
        BY <1>2, <3>1
      <4>2. one \in Seq(Nat) /\ ToSet(one) = {at0} /\ spot \in Int
        BY <1>7, <4>1, OneId, IndexOfIs
      <4> HIDE DEF one, spot, kids
      <4>3. ToSet(Splice(kids, spot, one)) = ToSet(kids) \union ToSet(one)
        BY <4>1, <4>2, SplicedSet
      <4> QED BY <4>2, <4>3 DEF one, spot, kids, Held
    <3> HIDE DEF joined
    <3>3. Held(new.nodes, parent) \subseteq Held(nodes, parent) \union {at0}
      BY <1>16, <3>1, <3>2 DEF Held
    <3>4. \A r \in RefsIn(b, C) : Held(b, r) \intersect {at0} = {}
      <4>1. \A r \in RefsIn(b, C) : Held(b, r) = Held(copies, r)
        <5>1. copies[at0] \in Node(m)
          BY <1>7
        <5>2. [copies[at0] EXCEPT !.parentId = up].children = copies[at0].children
          BY <5>1, Rehang
        <5>3. \A x \in DOMAIN copies : b[x].children = copies[x].children
          BY <1>12, <5>2
        <5> QED BY <1>12, <5>3 DEF Held, RefsIn
      <4> QED BY <1>8, <1>13, <4>1
    <3>5. \A x \in DOMAIN nodes : /\ OneKind(new.nodes[x], nodes[x]) /\ new.nodes[x].parentId = nodes[x].parentId
                                  /\ x # parent => new.nodes[x].children = nodes[x].children
      BY <1>16
    <3>6. Hangs(new.nodes, nodes, b, parent, {at0}, C, R)
      BY <1>7, <1>12, <1>15, <1>17, <3>1, <3>3, <3>4, <3>5 DEF Hangs, OneKind
    <3> QED BY <1>3, <1>14, <3>6, HungKept
  <2>2. CASE parent = Null
    <3> DEFINE root == tree.rootNodeId
    <3>1. root \in DOMAIN nodes /\ root \notin R /\ \A x \in DOMAIN nodes : x # parent
      BY <1>2, <2>2
    <3> HIDE DEF joined, root
    <3>2. \A x \in DOMAIN nodes : /\ OneKind(new.nodes[x], nodes[x]) /\ new.nodes[x].parentId = nodes[x].parentId
                                  /\ new.nodes[x].children = nodes[x].children
      BY <1>16, <3>1
    <3>3. Held(new.nodes, root) \subseteq Held(nodes, root) \union {}
      BY <3>1, <3>2 DEF Held
    <3>4. Hangs(new.nodes, nodes, b, root, {}, C, R)
      BY <1>15, <1>17, <3>1, <3>2, <3>3 DEF Hangs, OneKind
    <3> QED BY <1>3, <1>14, <3>4, HungKept
  <2> QED BY <2>1, <2>2
<1> QED BY <1>15, <1>16, <1>17, <1>18 DEF Doubled, OneKind, new

\* A duplicate after others.
LEMMA DoubledOn ==
  ASSUME NEW n \in Nat, NEW m \in Nat, NEW o \in Nat, n <= m, m <= o, NEW C, NEW want, NEW R, NEW a, NEW b, NEW c,
         Doubled(b, a, n, m, C, want, R), Doubled(c, b, m, o, C, want, R \union RefsIn(b, C))
  PROVE  Doubled(c, a, n, o, C, want, R)
<1>1. Kept(b, a, n, m, C, want, R) /\ Kept(c, b, m, o, C, want, R \union RefsIn(b, C))
  BY DEF Doubled
<1>2. /\ DOMAIN a \subseteq DOMAIN b /\ DOMAIN b \subseteq DOMAIN a \union n..(m - 1)
      /\ DOMAIN b \subseteq DOMAIN c /\ DOMAIN c \subseteq DOMAIN b \union m..(o - 1)
      /\ \A x \in DOMAIN a : /\ b[x].moduleId = a[x].moduleId /\ b[x].componentId = a[x].componentId
                             /\ b[x].parentId = a[x].parentId
      /\ \A x \in DOMAIN b : /\ c[x].moduleId = b[x].moduleId /\ c[x].componentId = b[x].componentId
                             /\ c[x].parentId = b[x].parentId
  BY DEF Doubled
<1>3. RefsIn(b, C) \subseteq RefsIn(c, C)
  BY <1>2 DEF RefsIn
<1>4. Kept(c, a, n, o, C, want, R)
  BY <1>1, <1>3, KeptOn
<1>5. n..(m - 1) \subseteq n..(o - 1) /\ m..(o - 1) \subseteq n..(o - 1)
  OBVIOUS
<1>6. DOMAIN a \subseteq DOMAIN c /\ DOMAIN c \subseteq DOMAIN a \union n..(o - 1)
  BY <1>2, <1>5
<1>7. \A x \in DOMAIN a : /\ c[x].moduleId = a[x].moduleId /\ c[x].componentId = a[x].componentId
                          /\ c[x].parentId = a[x].parentId
  BY <1>2
<1> QED BY <1>4, <1>6, <1>7 DEF Doubled

\* What was no such ref's slot is none after duplicates.
LEMMA DoubledParent ==
  ASSUME NEW n \in Nat, NEW m \in Nat, n <= m, NEW C, NEW want, NEW R, NEW tree, IsDocument(tree, n),
         Fit(tree.nodes, n, C, want, R), NEW now, Doubled(now.nodes, tree.nodes, n, m, C, want, R),
         NEW id \in DOMAIN tree.nodes, Parent(tree, id) \notin R
  PROVE  Parent(now, id) \notin R \union RefsIn(now.nodes, C)
<1>1. Tidy(tree, n, C, R)
  BY FitIs
<1>2. /\ R \subseteq 1..(n - 1) /\ tree.nodes[id].parentId \in Below(n)
      /\ \A x \in DOMAIN tree.nodes : x \in RefsIn(tree.nodes, C) => x \in R
      /\ DOMAIN tree.nodes \subseteq 1..(n - 1)
  BY <1>1, DocumentLists DEF Tidy, Sound
<1>3. /\ DOMAIN tree.nodes \subseteq DOMAIN now.nodes /\ DOMAIN now.nodes \subseteq DOMAIN tree.nodes \union n..(m - 1)
      /\ \A x \in DOMAIN tree.nodes : /\ now.nodes[x].moduleId = tree.nodes[x].moduleId
                                      /\ now.nodes[x].componentId = tree.nodes[x].componentId
                                      /\ now.nodes[x].parentId = tree.nodes[x].parentId
  BY DEF Doubled
<1> DEFINE p == tree.nodes[id].parentId
<1>4. p \notin n..(m - 1) /\ Null \notin R /\ Null \notin DOMAIN now.nodes
  BY <1>2, <1>3 DEF Below, Null
<1>5. CASE p \in DOMAIN now.nodes
  <2>1. p \in DOMAIN tree.nodes /\ Parent(now, id) = p /\ Parent(tree, id) = p
    BY <1>3, <1>4, <1>5 DEF Parent, Has
  <2>2. p \in RefsIn(now.nodes, C) => p \in RefsIn(tree.nodes, C)
    BY <1>3, <2>1 DEF RefsIn
  <2> QED BY <1>2, <2>1, <2>2
<1>6. CASE p \notin DOMAIN now.nodes
  <2>1. Parent(now, id) = Null
    BY <1>3, <1>6 DEF Parent, Has
  <2> QED BY <1>4, <2>1 DEF RefsIn
<1> QED BY <1>5, <1>6

\* nodeActions.ts: duplicateNodes, one copy after the other.
LEMMA DuplicateAllDoubled ==
  ASSUME NEW n \in Nat, NEW C, NEW want, NEW R, NEW tree, IsDocument(tree, n), Fit(tree.nodes, n, C, want, R),
         NEW ids \in Seq(DOMAIN tree.nodes),
         \A id \in ToSet(ids) : id # tree.rootNodeId /\ ~SubtreeHasOutlet(tree, id) /\ Parent(tree, id) \notin R
  PROVE  LET done == DuplicateAll(tree, ids, n)
         IN  Doubled(done.tree.nodes, tree.nodes, n, done.next, C, want, R)
<1>1. PICK f : /\ f[0] = [tree |-> tree, next |-> n]
               /\ \A k \in 1..Len(ids) : f[k] = [tree |-> DuplicateNode(f[k - 1].tree, ids[k], f[k - 1].next),
                            next |-> f[k - 1].next + Cardinality(Subtree(f[k - 1].tree, ids[k]))]
               /\ DuplicateAll(tree, ids, n) = f[Len(ids)]
  BY DuplicateTurns
<1> DEFINE N == Len(ids)
           Good(now) == /\ now.next \in Nat /\ n <= now.next
                        /\ IsDocument(now.tree, now.next) /\ now.tree.rootNodeId = tree.rootNodeId
                        /\ \A id \in ToSet(ids) : ~SubtreeHasOutlet(now.tree, id)
                        /\ Doubled(now.tree.nodes, tree.nodes, n, now.next, C, want, R)
           T == {k \in 0..N : Good(f[k])}
<1>2. N \in Nat /\ N \in 0..N /\ 0 \in 0..N
  OBVIOUS
<1>3. Good(f[0])
  <2>1. RefsIn(tree.nodes, C) \subseteq R
    BY DEF Fit, Owning
  <2>2. R \union RefsIn(tree.nodes, C) = R
    BY <2>1
  <2>3. Doubled(tree.nodes, tree.nodes, n, n, C, want, R)
    BY <2>2 DEF Doubled, Kept
  <2> QED BY <1>1, <2>3
<1>4. ASSUME NEW k \in 0..(N - 1), Good(f[k]) PROVE Good(f[k + 1])
  <2> DEFINE now == f[k]
             id == ids[k + 1]
             m == now.next + Cardinality(Subtree(now.tree, id))
             S == R \union RefsIn(now.tree.nodes, C)
  <2>1. k + 1 \in 1..N /\ (k + 1) - 1 = k /\ k + 1 \in DOMAIN ids
    BY <1>2
  <2>2. f[k + 1] = [tree |-> DuplicateNode(now.tree, id, now.next), next |-> m]
    BY <1>1, <2>1
  <2>3. id \in ToSet(ids) /\ id \in DOMAIN tree.nodes
    BY <2>1 DEF ToSet
  <2>4. Good(now)
    BY <1>4
  <2> HIDE DEF now, id
  <2>5. id \in DOMAIN now.tree.nodes /\ id # now.tree.rootNodeId /\ ~SubtreeHasOutlet(now.tree, id)
    BY <2>3, <2>4 DEF Doubled
  <2>6. /\ m \in Nat /\ now.next <= m
        /\ Like(DuplicateNode(now.tree, id, now.next), now.tree, m)
        /\ DOMAIN now.tree.nodes \subseteq DOMAIN DuplicateNode(now.tree, id, now.next).nodes
        /\ \A b \in DOMAIN now.tree.nodes :
               ~SubtreeHasOutlet(now.tree, b) => ~SubtreeHasOutlet(DuplicateNode(now.tree, id, now.next), b)
    BY <2>4, <2>5, DuplicateNodeIs
  <2>7. Parent(now.tree, id) \notin S
    <3>1. Parent(tree, id) \notin R
      BY <2>3
    <3> QED BY <2>3, <2>4, <3>1, DoubledParent
  <2>8. Fit(now.tree.nodes, now.next, C, want, S)
    BY <2>4 DEF Doubled, Kept
  <2> DEFINE dup == DuplicateNode(now.tree, id, now.next)
  <2>9. Doubled(dup.nodes, now.tree.nodes, now.next, m, C, want, S)
    <3> HIDE DEF S
    <3>1. m = now.next + Cardinality(Subtree(now.tree, id)) /\ now.next \in Nat /\ IsDocument(now.tree, now.next)
      BY <2>4
    <3> HIDE DEF m
    <3> QED BY <2>5, <2>7, <2>8, <3>1, DuplicateNodeDoubled
  <2> HIDE DEF m
  <2>10. f[k + 1].tree = dup /\ f[k + 1].next = m
    BY <2>2
  <2>11. \A i \in ToSet(ids) : i \in DOMAIN now.tree.nodes /\ ~SubtreeHasOutlet(now.tree, i)
    BY <2>4 DEF ToSet, Doubled
  <2> HIDE DEF dup
  <2>12. ASSUME NEW i \in ToSet(ids) PROVE ~SubtreeHasOutlet(dup, i)
    BY <2>6, <2>11 DEF dup
  <2>13. IsDocument(dup, m) /\ dup.rootNodeId = now.tree.rootNodeId
    BY <2>6 DEF Like, Grows, dup
  <2>14. Doubled(dup.nodes, tree.nodes, n, m, C, want, R)
    <3>1. Doubled(now.tree.nodes, tree.nodes, n, now.next, C, want, R) /\ now.next \in Nat /\ n <= now.next
      BY <2>4
    <3> QED BY <2>6, <2>9, <3>1, DoubledOn
  <2> QED BY <2>4, <2>6, <2>10, <2>12, <2>13, <2>14
<1>5. N \in T
  <2> HIDE DEF Good, N
  <2>1. 0 \in T /\ \A k \in 0..(N - 1) : k \in T => k + 1 \in T
    BY <1>2, <1>3, <1>4
  <2> HIDE DEF T
  <2> QED BY <1>2, <2>1, UpTo
<1> QED BY <1>1, <1>5

-----------------------------------------------------------------------------
\* The clipboard's refs.

\* The refs of a clipboard own their slots too; R is refs of the documents.
Clip(nodes, n, C, R) ==
    /\ \A r \in RefsIn(nodes, C) : Own(nodes, r)
    /\ \A x \in DOMAIN nodes : /\ nodes[x].parentId \in Below(n)
                               /\ nodes[x].parentId \in R => nodes[x].moduleId = "slot-instance"

LEMMA ClipLess ==
  ASSUME NEW n \in Nat, NEW m \in Nat, n <= m, NEW C, NEW D, D \subseteq C, NEW R, NEW nodes, Clip(nodes, n, C, R),
         NEW S, S \subseteq R \union n..(m - 1)
  PROVE  Clip(nodes, m, D, S)
<1>1. RefsIn(nodes, D) \subseteq RefsIn(nodes, C)
  BY DEF RefsIn
<1>2. Below(n) \subseteq Below(m) /\ Below(n) \intersect n..(m - 1) = {}
  BY DEF Below
<1> QED BY <1>1, <1>2 DEF Clip

\* What is known of refs to fewer components.
LEMMA FitFewer ==
  ASSUME NEW n \in Nat, NEW C, NEW want, NEW R, NEW nodes, Fit(nodes, n, C, want, R), NEW D, D \subseteq C,
         NEW S, S \subseteq R, S \intersect DOMAIN nodes = RefsIn(nodes, D), NEW wish, \A c \in D : wish[c] = want[c]
  PROVE  Fit(nodes, n, D, wish, S)
<1>1. RefsIn(nodes, D) \subseteq RefsIn(nodes, C) /\ \A r \in RefsIn(nodes, D) : nodes[r].componentId \in D
  BY DEF RefsIn
<1>2. Owning(nodes, n, D, S)
  BY <1>1 DEF Fit, Owning
<1>3. Calls(nodes, D, wish)
  BY <1>1 DEF Fit, Calls
<1> QED BY <1>2, <1>3 DEF Fit

\* copy: what lies under a ref comes with it.
LEMMA SnapshotClip ==
  ASSUME NEW n \in Nat, NEW C, NEW want, NEW R, NEW tree, IsDocument(tree, n), Fit(tree.nodes, n, C, want, R),
         NEW roots \in Seq(DOMAIN tree.nodes)
  PROVE  Clip(Snapshot(tree, roots).nodes, n, C, R)
<1> DEFINE nodes == tree.nodes
           new == Snapshot(tree, roots).nodes
           S == UNION {Subtree(tree, r) : r \in ToSet(roots)}
<1>1. Tidy(tree, n, C, R)
  BY FitIs
<1>2. /\ Lists(nodes) /\ DOMAIN nodes \subseteq Nat
      /\ \A x \in DOMAIN nodes : nodes[x].parentId \in Below(n)
                                 /\ (nodes[x].parentId \in R => nodes[x].moduleId = "slot-instance")
      /\ \A r \in RefsIn(nodes, C) : r \in DOMAIN nodes /\ Own(nodes, r)
  BY <1>1 DEF Tidy
<1>3. ToSet(roots) \subseteq DOMAIN nodes
  BY DEF ToSet
<1>4. \A r \in ToSet(roots) : r \in Nat /\ Subtree(tree, r) \subseteq DOMAIN nodes
  BY <1>2, <1>3, SubtreeIs DEF Lists
<1>5. S \subseteq DOMAIN nodes
  BY <1>4
<1>6. new = Restrict(nodes, S)
  BY DEF Snapshot
<1>7. DOMAIN new = S /\ \A x \in S : new[x] = nodes[x]
  BY <1>6 DEF Restrict
<1>8. ASSUME NEW r \in RefsIn(nodes, C), r \in S PROVE Held(nodes, r) \subseteq S
  <2>1. r \in DOMAIN nodes /\ Own(nodes, r)
    BY <1>2
  <2>2. PICK t \in ToSet(roots) : r \in Subtree(tree, t)
    BY <1>8
  <2>3. Held(nodes, r) \subseteq Subtree(tree, t)
    BY <1>2, <1>4, <2>1, <2>2, SlotsUnder
  <2> QED BY <2>3
<1> HIDE DEF S, new
<1>9. ASSUME NEW r \in RefsIn(new, C) PROVE Own(new, r)
  <2>1. r \in RefsIn(nodes, C) /\ r \in S /\ r \in DOMAIN nodes /\ new[r] = nodes[r]
    BY <1>5, <1>7 DEF RefsIn
  <2>2. Own(nodes, r) /\ Held(nodes, r) \subseteq S
    BY <1>2, <1>8, <2>1
  <2>3. \A p \in S : Held(new, p) = Held(nodes, p)
    BY <1>7 DEF Held
  <2> QED BY <1>5, <1>7, <2>1, <2>2, <2>3 DEF Own
<1> QED BY <1>2, <1>5, <1>7, <1>9 DEF Clip, new

\* pasteSubtree: what the clipboard's refs hold comes with them.
LEMMA PasteKept ==
  ASSUME NEW n \in Nat, NEW C, NEW want, NEW R, NEW tree, IsDocument(tree, n), Fit(tree.nodes, n, C, want, R),
         NEW snapshot, IsSnapshot(snapshot, n), Clip(snapshot.nodes, n, C, R), snapshot.rootNodeIds # <<>>,
         \A r \in RefsIn(snapshot.nodes, C) :
            /\ SlotNames(snapshot.nodes, r) = want[snapshot.nodes[r].componentId]
            /\ Held(snapshot.nodes, r) \intersect ToSet(snapshot.rootNodeIds) = {},
         NEW parent \in DOMAIN tree.nodes, parent \notin R, NEW index \in Int,
         NEW m, m = n + Cardinality(DOMAIN snapshot.nodes)
  PROVE  Kept(PasteSnapshot(tree, snapshot, parent, index, n).nodes, tree.nodes, n, m, C, want, R)
<1> DEFINE old == tree.nodes
           nodes == snapshot.nodes
           ids == DOMAIN nodes
           tops == snapshot.rootNodeIds
           map == FreshIds(ids, n)
           copies == Copies(nodes, ids, map)
           roots == [i \in DOMAIN tops |-> map[tops[i]]]
           last1 == Last(roots)
           kids == old[parent].children
           joined == Splice(kids, index, roots)
           new == PasteSnapshot(tree, snapshot, parent, index, n)
<1>1. Tidy(tree, n, C, R)
  BY FitIs
<1>2. /\ R \subseteq 1..(n - 1) /\ DOMAIN old \subseteq Below(n) /\ n # 0
      /\ tree = [rootNodeId |-> tree.rootNodeId, nodes |-> old]
      /\ \A x \in DOMAIN old : old[x] \in Node(n) /\ old[x].children \in Seq(Nat)
  BY <1>1 DEF Tidy, Below
<1>3. /\ ids \subseteq 1..(n - 1) /\ tops \in Seq(ids)
      /\ \A x \in ids : nodes[x] \in Node(n)
  BY DEF IsSnapshot, IsNodes
<1>4. IsFiniteSet(ids) /\ ids \subseteq Nat
  <2>1. IsFiniteSet(1..(n - 1))
    BY FS_Interval
  <2>2. IsFiniteSet(ids)
    BY <1>3, <2>1, FS_Subset
  <2> QED BY <1>3, <2>2
<1>5. m \in Nat /\ n <= m
  BY <1>4, FS_CardinalityType
<1>6. Renames(map, ids)
  BY <1>4, FreshRenames
<1>7. Fresh(copies, n, m) /\ Cloned(copies, nodes, ids, map)
  <2>1. n <= n
    OBVIOUS
  <2> QED BY <1>3, <1>5, <2>1, CopiesAre
<1>8. /\ map \in [ids -> n..(m - 1)] /\ \A i, j \in ids : map[i] = map[j] => i = j
  <2>1. Cardinality(ids) \in Nat
    BY <1>4, FS_CardinalityType
  <2>2. map \in [ids -> n..(n + Cardinality(ids) - 1)]
    BY <1>4, FreshIs
  <2>3. n + Cardinality(ids) - 1 = m - 1
    BY <2>1
  <2> QED BY <1>6, <2>2, <2>3 DEF Renames
<1> HIDE DEF map
<1>9. Cloning(copies, nodes, ids, map, n, m, C, want, R)
  <2>1. \A r \in RefsIn(nodes, C) \intersect ids :
            Own(nodes, r) /\ Held(nodes, r) \subseteq ids /\ SlotNames(nodes, r) = want[nodes[r].componentId]
    BY DEF Clip, Own
  <2>2. \A x \in ids : nodes[x].parentId \in Below(n) /\ (nodes[x].parentId \in R => nodes[x].moduleId = "slot-instance")
    BY DEF Clip
  <2>3. n <= n /\ ids \subseteq DOMAIN nodes
    OBVIOUS
  <2> HIDE DEF nodes
  <2> QED BY <1>2, <1>3, <1>5, <1>8, <2>1, <2>2, <2>3, CopiesFit
<1>10. /\ DOMAIN copies \subseteq n..(m - 1) /\ DOMAIN copies \intersect DOMAIN old = {}
       /\ \A x \in DOMAIN copies : copies[x] \in Node(m)
       /\ \A i \in ids : map[i] \in DOMAIN copies
  <2>1. n..(m - 1) \intersect DOMAIN old = {}
    BY <1>2 DEF Below
  <2> QED BY <1>7, <2>1 DEF Fresh, Cloned
<1>11. /\ tops # <<>> /\ Len(tops) \in Nat \ {0} /\ DOMAIN tops = 1..Len(tops)
       /\ \A i \in 1..Len(tops) : tops[i] \in ids
  BY <1>3
<1>12. /\ roots \in Seq(Nat) /\ Len(roots) = Len(tops)
       /\ ToSet(roots) = {map[t] : t \in ToSet(tops)} /\ ToSet(roots) \subseteq DOMAIN copies
       /\ last1 \in ToSet(roots)
  <2> HIDE DEF copies, tops, nodes
  <2>1. Len(roots) = Len(tops) /\ roots \in Seq(Nat) /\ DOMAIN roots = 1..Len(tops)
    BY <1>6, <1>11 DEF Renames
  <2>2. ToSet(roots) = {map[t] : t \in ToSet(tops)}
    BY <1>11, <2>1 DEF ToSet
  <2>3. ToSet(roots) \subseteq DOMAIN copies
    BY <1>10, <1>11, <2>1 DEF ToSet
  <2>4. last1 \in ToSet(roots)
    BY <1>11, <2>1 DEF Last, ToSet
  <2> QED BY <2>1, <2>2, <2>3, <2>4
<1> HIDE DEF copies
<1>13. ASSUME NEW r \in RefsIn(copies, C) PROVE Held(copies, r) \intersect ToSet(roots) = {}
  <2>1. PICK p \in ids : r = map[p]
    BY <1>7 DEF Cloned, RefsIn
  <2>2. p \in RefsIn(nodes, C)
    BY <1>7, <2>1 DEF Cloned, RefsIn
  <2>3. Held(copies, r) = {map[c] : c \in Held(nodes, p) \intersect ids}
    BY <1>9, <2>1 DEF Cloning
  <2>4. Held(nodes, p) \intersect ToSet(tops) = {}
    BY <2>2
  <2>5. ToSet(tops) \subseteq ids
    BY <1>11 DEF ToSet
  <2> HIDE DEF nodes, tops, roots
  <2> QED BY <1>8, <1>12, <2>3, <2>4, <2>5
<1>14. /\ DOMAIN new.nodes = DOMAIN old \union DOMAIN copies
       /\ \A x \in DOMAIN copies : new.nodes[x] = IF x = last1 THEN [copies[x] EXCEPT !.parentId = parent] ELSE copies[x]
       /\ \A p \in DOMAIN old : new.nodes[p] = IF p = parent THEN [old[p] EXCEPT !.children = joined] ELSE old[p]
  <2> DEFINE copied == Over(copies, old)
             placed == [copied EXCEPT ![parent].children = Splice(@, index, roots)]
  <2>1. /\ DOMAIN copied = DOMAIN old \union DOMAIN copies
        /\ \A x \in DOMAIN copies : copied[x] = copies[x]
        /\ \A p \in DOMAIN old : copied[p] = old[p]
    BY <1>10 DEF Over
  <2>2. new = [tree EXCEPT !.nodes = [placed EXCEPT ![Last(roots)].parentId = parent]]
    BY DEF PasteSnapshot, map, copies
  <2> HIDE DEF new, copied, roots
  <2>3. /\ DOMAIN placed = DOMAIN old \union DOMAIN copies
        /\ \A x \in DOMAIN copies : placed[x] = copies[x]
        /\ \A p \in DOMAIN old : placed[p] = IF p = parent THEN [old[p] EXCEPT !.children = joined] ELSE old[p]
    BY <1>10, <2>1
  <2> HIDE DEF placed, joined
  <2>4. last1 \in DOMAIN copies /\ last1 \notin DOMAIN old
    BY <1>10, <1>12
  <2> QED BY <1>2, <1>10, <2>2, <2>3, <2>4
<1> HIDE DEF new, roots, last1
<1>15. ASSUME NEW p \in DOMAIN old
       PROVE  /\ OneKind(new.nodes[p], old[p]) /\ new.nodes[p].parentId = old[p].parentId
              /\ new.nodes[p].children = IF p = parent THEN joined ELSE old[p].children
  <2> HIDE DEF joined
  <2>1. old[p] \in Node(n)
    BY <1>2
  <2>2. /\ OneKind([old[p] EXCEPT !.children = joined], old[p])
        /\ [old[p] EXCEPT !.children = joined].children = joined
        /\ [old[p] EXCEPT !.children = joined].parentId = old[p].parentId
    BY <2>1, Relist DEF OneKind
  <2>3. OneKind(old[p], old[p])
    BY DEF OneKind
  <2> QED BY <1>14, <2>2, <2>3
<1>16. ASSUME NEW x \in DOMAIN copies
       PROVE  /\ OneKind(new.nodes[x], copies[x]) /\ new.nodes[x].children = copies[x].children
              /\ new.nodes[x].parentId = copies[x].parentId \/ (x \in ToSet(roots) /\ new.nodes[x].parentId = parent)
  <2>1. copies[x] \in Node(m)
    BY <1>10
  <2>2. /\ OneKind([copies[x] EXCEPT !.parentId = parent], copies[x])
        /\ [copies[x] EXCEPT !.parentId = parent].children = copies[x].children
        /\ [copies[x] EXCEPT !.parentId = parent].parentId = parent
    BY <2>1, Rehang DEF OneKind
  <2>3. OneKind(copies[x], copies[x])
    BY DEF OneKind
  <2>4. CASE x = last1
    BY <1>12, <1>14, <2>2, <2>4
  <2>5. CASE x # last1
    BY <1>14, <2>3, <2>5
  <2> QED BY <2>4, <2>5
<1>17. ToSet(joined) = Held(old, parent) \union ToSet(roots)
  <2>1. kids \in Seq(Nat) /\ roots \in Seq(Nat)
    BY <1>2, <1>12
  <2> HIDE DEF kids
  <2>2. ToSet(joined) = ToSet(kids) \union ToSet(roots)
    BY <2>1, SplicedSet
  <2> QED BY <2>2 DEF Held, kids
<1> HIDE DEF joined
<1>18. Hangs(new.nodes, old, copies, parent, ToSet(roots), C, R)
  <2>1. Held(new.nodes, parent) \subseteq Held(old, parent) \union ToSet(roots)
    BY <1>15, <1>17 DEF Held
  <2>2. \A x \in DOMAIN old : /\ OneKind(new.nodes[x], old[x]) /\ new.nodes[x].parentId = old[x].parentId
                              /\ x # parent => new.nodes[x].children = old[x].children
    BY <1>15
  <2> QED BY <1>10, <1>12, <1>13, <1>14, <1>16, <2>1, <2>2 DEF Hangs, OneKind
<1>19. Fit(copies, m, C, want, R \union RefsIn(copies, C)) /\ IdsOf(copies) \subseteq n..(m - 1)
  BY <1>9 DEF Cloning
<1>20. Kept(new.nodes, old, n, m, C, want, R)
  BY <1>5, <1>18, <1>19, HungKept
<1> QED BY <1>20 DEF new

-----------------------------------------------------------------------------
\* Conversion.

\* parentIndex.ts: slots are listed by their ref alone.
LEMMA ReindexCalm ==
  ASSUME NEW n \in Nat, n # 0, NEW C, NEW want, NEW R, NEW nodes, Fit(nodes, n, C, want, R), Lists(nodes),
         \A x \in DOMAIN nodes : nodes[x] \in Node(n)
  PROVE  Calm(ReindexNodeParents(nodes), nodes, n, n, C, R)
<1> DEFINE new == ReindexNodeParents(nodes)
           Listing(x) == {p \in DOMAIN nodes : Contains(nodes[p].children, x)}
           Up(x) == IF Listing(x) = {} THEN Null ELSE CHOOSE p \in Listing(x) : TRUE
<1>1. DOMAIN new = DOMAIN nodes /\ \A x \in DOMAIN nodes : new[x] = [nodes[x] EXCEPT !.parentId = Up(x)]
  BY DEF ReindexNodeParents
<1>2. \A x, p : p \in Listing(x) <=> p \in DOMAIN nodes /\ x \in Held(nodes, p)
  BY ContainsIs DEF Held, Lists
<1>3. \A x \in DOMAIN nodes : Up(x) = Null \/ (Up(x) \in DOMAIN nodes /\ x \in Held(nodes, Up(x)))
  <2> SUFFICES ASSUME NEW x \in DOMAIN nodes PROVE Up(x) = Null \/ (Up(x) \in DOMAIN nodes /\ x \in Held(nodes, Up(x)))
    OBVIOUS
  <2>1. Listing(x) # {} => (CHOOSE p \in Listing(x) : TRUE) \in Listing(x)
    OBVIOUS
  <2> HIDE DEF Listing
  <2> QED BY <1>2, <2>1
<1>4. /\ IdsOf(nodes) \subseteq Below(n) /\ R \subseteq 1..(n - 1) /\ R \intersect DOMAIN nodes = RefsIn(nodes, C)
      /\ \A r \in RefsIn(nodes, C) : r \in DOMAIN nodes /\ Own(nodes, r)
      /\ DOMAIN nodes \subseteq Below(n) /\ \A p \in DOMAIN nodes : Held(nodes, p) \subseteq IdsOf(nodes)
  BY DEF Fit, Owning, RefsIn, IdsOf
<1>5. ASSUME NEW r \in RefsIn(nodes, C), NEW k \in Held(nodes, r) PROVE k \in DOMAIN nodes /\ Up(k) = r /\ nodes[k].parentId = r
  <2>1. /\ k \in DOMAIN nodes /\ nodes[k].parentId = r /\ r \in DOMAIN nodes
        /\ \A p \in DOMAIN nodes : p # r => k \notin Held(nodes, p)
    BY <1>4 DEF Own
  <2>2. Listing(k) = {r}
    <3> HIDE DEF Listing
    <3> QED BY <1>2, <2>1
  <2>3. Up(k) = r
    <3> HIDE DEF Listing
    <3> QED BY <2>2
  <2> QED BY <2>1, <2>3
<1>6. \A x \in DOMAIN nodes : /\ Up(x) \in Below(n)
                              /\ Up(x) \in R => nodes[x].moduleId = "slot-instance"
  <2> HIDE DEF Up
  <2>1. Null \in Below(n) /\ Null \notin R
    BY <1>4 DEF Below, Null
  <2>2. \A x \in DOMAIN nodes : Up(x) \in R => nodes[x].moduleId = "slot-instance"
    BY <1>3, <1>4, <2>1 DEF Own
  <2> QED BY <1>3, <1>4, <2>1, <2>2
<1> HIDE DEF Up, new
<1>7. ASSUME NEW x \in DOMAIN nodes
      PROVE  OneKind(new[x], nodes[x]) /\ new[x].children = nodes[x].children /\ new[x].parentId = Up(x)
  <2> DEFINE up == Up(x)
  <2> HIDE DEF up
  <2>1. /\ OneKind([nodes[x] EXCEPT !.parentId = up], nodes[x])
        /\ [nodes[x] EXCEPT !.parentId = up].children = nodes[x].children
        /\ [nodes[x] EXCEPT !.parentId = up].parentId = up
    BY Rehang DEF OneKind
  <2>2. new[x] = [nodes[x] EXCEPT !.parentId = up]
    BY <1>1 DEF up
  <2> QED BY <2>1, <2>2 DEF up
<1>8. \A p \in DOMAIN nodes : Held(new, p) = Held(nodes, p)
  BY <1>7 DEF Held
<1>9. ASSUME NEW r \in RefsIn(nodes, C)
      PROVE  /\ new[r].children = nodes[r].children
             /\ \A k \in Held(nodes, r) : k \in DOMAIN new /\ new[k].parentId = nodes[k].parentId
             /\ \A p \in DOMAIN new : p # r => Held(new, p) \intersect Held(nodes, r) = {}
  <2>1. r \in DOMAIN nodes /\ \A p \in DOMAIN nodes : p # r => Held(nodes, p) \intersect Held(nodes, r) = {}
    BY <1>4 DEF Own
  <2>2. new[r].children = nodes[r].children
    BY <1>7, <2>1
  <2>3. \A k \in Held(nodes, r) : k \in DOMAIN new /\ new[k].parentId = nodes[k].parentId
    BY <1>1, <1>5, <1>7
  <2>4. \A p \in DOMAIN new : p # r => Held(new, p) \intersect Held(nodes, r) = {}
    BY <1>1, <1>8, <2>1
  <2> QED BY <2>2, <2>3, <2>4
<1>10. \A p \in DOMAIN new : Held(new, p) \subseteq IdsOf(nodes) \union n..(n - 1)
  BY <1>1, <1>4, <1>8
<1>11. \A x \in DOMAIN new : /\ new[x].parentId \in Below(n)
                             /\ new[x].parentId \in R => new[x].moduleId = "slot-instance"
  BY <1>1, <1>6, <1>7 DEF OneKind
<1>12. \A x \in DOMAIN new \intersect DOMAIN nodes :
          /\ new[x].moduleId = nodes[x].moduleId /\ new[x].componentId = nodes[x].componentId
          /\ new[x].locked = nodes[x].locked
          /\ nodes[x].moduleId = "slot-instance" => new[x].slotName = nodes[x].slotName
  BY <1>7 DEF OneKind
<1>13. \A x \in DOMAIN new : x \in DOMAIN nodes
  BY <1>1
<1>14. Calm(new, nodes, n, n, C, R)
  BY <1>9, <1>10, <1>11, <1>12, <1>13 DEF Calm
<1> QED BY <1>14 DEF new

\* A subtree taken away, whose root is nobody's slot.
LEMMA LeftCalm ==
  ASSUME NEW n \in Nat, NEW C, NEW want, NEW R, NEW tree, IsDocument(tree, n), Fit(tree.nodes, n, C, want, R),
         NEW id \in DOMAIN tree.nodes, tree.nodes[id].moduleId # "slot-instance",
         NEW new, new = Restrict(tree.nodes, DOMAIN tree.nodes \ Subtree(tree, id))
  PROVE  Calm(new, tree.nodes, n, n, C, R)
<1> DEFINE nodes == tree.nodes
           D == DOMAIN tree.nodes \ Subtree(tree, id)
<1>1. Tidy(tree, n, C, R)
  BY FitIs
<1>2. /\ Lists(nodes) /\ id \in Nat
      /\ \A x \in DOMAIN nodes : nodes[x].parentId \in Below(n)
                                 /\ (nodes[x].parentId \in R => nodes[x].moduleId = "slot-instance")
                                 /\ Held(nodes, x) \subseteq IdsOf(nodes)
      /\ \A r \in RefsIn(nodes, C) : r \in DOMAIN nodes /\ Own(nodes, r)
  BY <1>1 DEF Tidy
<1>3. DOMAIN new = D /\ D \subseteq DOMAIN nodes /\ \A x \in D : new[x] = nodes[x]
  BY DEF Restrict
<1>4. \A p \in D : Held(new, p) = Held(nodes, p)
  BY <1>3 DEF Held
<1>5. ASSUME NEW r \in RefsIn(nodes, C) \intersect DOMAIN new
      PROVE  /\ new[r].children = nodes[r].children
             /\ \A k \in Held(nodes, r) : k \in DOMAIN new /\ new[k].parentId = nodes[k].parentId
             /\ \A p \in DOMAIN new : p # r => Held(new, p) \intersect Held(nodes, r) = {}
  <2>1. Own(nodes, r) /\ r \in DOMAIN nodes /\ r \notin Subtree(tree, id) /\ r \in D
    BY <1>2, <1>3
  <2>2. \A k \in Held(nodes, r) : k \in DOMAIN nodes /\ k # id
    BY <2>1 DEF Own
  <2>3. \A k \in Held(nodes, r) : k \in Subtree(tree, id) => k = id \/ r \in Subtree(tree, id)
    BY <1>2, <2>1, SlotsUnder
  <2>4. \A k \in Held(nodes, r) : k \in D
    BY <2>1, <2>2, <2>3
  <2>5. \A p \in DOMAIN nodes : p # r => Held(nodes, p) \intersect Held(nodes, r) = {}
    BY <2>1 DEF Own
  <2> HIDE DEF D
  <2> QED BY <1>3, <1>4, <2>1, <2>4, <2>5
<1> HIDE DEF D
<1>6. \A p \in DOMAIN new : Held(new, p) \subseteq IdsOf(nodes) \union n..(n - 1)
  BY <1>2, <1>3, <1>4
<1>7. \A x \in DOMAIN new : /\ new[x].parentId \in Below(n)
                            /\ new[x].parentId \in R => new[x].moduleId = "slot-instance"
  BY <1>2, <1>3
<1>8. \A x \in DOMAIN new \intersect DOMAIN nodes :
          /\ new[x].moduleId = nodes[x].moduleId /\ new[x].componentId = nodes[x].componentId
          /\ new[x].locked = nodes[x].locked
          /\ nodes[x].moduleId = "slot-instance" => new[x].slotName = nodes[x].slotName
  BY <1>3
<1>9. \A x \in DOMAIN new : x \in DOMAIN nodes
  BY <1>3
<1> QED BY <1>5, <1>6, <1>7, <1>8, <1>9 DEF Calm

\* convertNodeToComponent, the page: a ref to a component that has no slots.
LEMMA ReplacedKept ==
  ASSUME NEW n \in Nat, NEW ref \in Nat, n <= ref, NEW m \in Nat, ref < m, NEW C, NEW want, NEW R,
         NEW tree, IsDocument(tree, n), Fit(tree.nodes, n, C, want, R),
         NEW id \in DOMAIN tree.nodes, id # tree.rootNodeId, tree.nodes[id].moduleId # "slot-instance",
         NEW comp, comp \in C => want[comp] = <<>>, SiblingAfter(tree, id).parentId # Null
  PROVE  Kept(ReplacedByRef(tree, id, comp, ref).nodes, tree.nodes, n, m, C, want, R)
<1> DEFINE nodes == tree.nodes
           root == tree.rootNodeId
           D == DOMAIN nodes \ Subtree(tree, id)
           parent == SiblingAfter(tree, id).parentId
           node == [NewNode("ref") EXCEPT !.componentId = comp]
           kids == nodes[parent].children
           after == Replace(kids, id, ref)
           a == Restrict(nodes, D)
           b == [x \in {ref} |-> node]
           new == ReplacedByRef(tree, id, comp, ref).nodes
<1>1. Tidy(tree, n, C, R)
  BY FitIs
<1>2. /\ Lists(nodes) /\ id \in Nat /\ R \subseteq 1..(n - 1) /\ DOMAIN nodes \subseteq Below(n)
      /\ tree = [rootNodeId |-> root, nodes |-> nodes]
      /\ root \in DOMAIN nodes /\ root \notin R /\ n # 0
      /\ \A x \in DOMAIN nodes : nodes[x] \in Node(n) /\ nodes[x].children \in Seq(Nat)
  BY <1>1 DEF Tidy, Below
<1>3. Trim(a, nodes, n, n, C, want, R)
  <2>1. Calm(a, nodes, n, n, C, R)
    BY LeftCalm
  <2>2. n <= n
    OBVIOUS
  <2> HIDE DEF a
  <2> QED BY <2>1, <2>2, CalmTrim
<1>4. DOMAIN a = D /\ D \subseteq DOMAIN nodes /\ \A x \in D : a[x] = nodes[x]
  BY DEF Restrict
<1>5. parent \in DOMAIN nodes /\ parent \notin R
  <2>1. parent \in DOMAIN nodes
    BY SiblingListed
  <2>2. parent \notin R
    BY SiblingFree
  <2> QED BY <2>1, <2>2
<1>6. root \in D
  <2>1. Sound(nodes, root, n)
    BY DocumentLists
  <2> QED BY <1>2, <2>1, RootStays
<1>7. ref \notin DOMAIN nodes /\ ref \notin R /\ ref \in 1..(m - 1) /\ n <= m
  BY <1>2 DEF Below
<1>8. /\ node.moduleId = "ref" /\ node.componentId = comp /\ node.children = <<>> /\ node.parentId = Null
  BY DEF NewNode
<1> HIDE DEF node
<1>9. /\ DOMAIN b = {ref} /\ b[ref].moduleId = "ref" /\ b[ref].componentId = comp
      /\ b[ref].children = <<>> /\ b[ref].parentId = Null
  BY <1>8
<1>10. DOMAIN new = D \union {ref} /\ new[ref] = b[ref]
       /\ \A x \in D : new[x] = IF x = parent THEN [nodes[x] EXCEPT !.children = after] ELSE nodes[x]
  <2> DEFINE swapped == [nodes EXCEPT ![parent].children = Replace(nodes[parent].children, id, ref)]
             left == Restrict(swapped, DOMAIN swapped \ Subtree(tree, id))
  <2>1. new = With(left, ref, node)
    <3>1. ReplacedByRef(tree, id, comp, ref) = [tree EXCEPT !.nodes = With(left, ref, node)]
      BY DEF ReplacedByRef, node
    <3> HIDE DEF left, new
    <3> QED BY <1>2, <3>1 DEF new
  <2>2. DOMAIN swapped = DOMAIN nodes
        /\ \A x \in DOMAIN nodes : swapped[x] = IF x = parent THEN [nodes[x] EXCEPT !.children = after] ELSE nodes[x]
    BY <1>2, <1>5
  <2> HIDE DEF swapped, after
  <2>3. DOMAIN left = D /\ \A x \in D : left[x] = swapped[x]
    BY <2>2 DEF Restrict
  <2> HIDE DEF left
  <2> QED BY <1>7, <1>9, <2>1, <2>2, <2>3 DEF With
<1> HIDE DEF a, b, new, D
<1>11. Held(b, ref) = {} /\ IsInjective(b[ref].children) /\ RefsIn(b, C) \subseteq {ref}
  BY <1>9 DEF Held, ToSet, IsInjective, RefsIn
<1>12. IdsOf(b) = {ref} /\ IdsOf(b) \subseteq n..(m - 1)
  BY <1>7, <1>9, <1>11 DEF IdsOf
<1>13. Fit(b, m, C, want, R \union RefsIn(b, C))
  <2>1. \A r \in RefsIn(b, C) : Own(b, r)
    BY <1>9, <1>11 DEF Own
  <2>2. Null \in Below(m) /\ Null \notin R \union RefsIn(b, C) /\ IdsOf(b) \subseteq Below(m)
    BY <1>2, <1>7, <1>11, <1>12 DEF Null, Below
  <2>3. (R \union RefsIn(b, C)) \intersect DOMAIN b = RefsIn(b, C)
    BY <1>7, <1>9, <1>11
  <2>4. R \union RefsIn(b, C) \subseteq 1..(m - 1)
    BY <1>2, <1>7, <1>11
  <2>5. Owning(b, m, C, R \union RefsIn(b, C))
    BY <1>9, <2>1, <2>2, <2>3, <2>4 DEF Owning
  <2>6. ASSUME NEW r \in RefsIn(b, C) PROVE SlotNames(b, r) = want[b[r].componentId]
    <3>1. r = ref /\ comp \in C /\ want[comp] = <<>>
      BY <1>9, <1>11 DEF RefsIn
    <3>2. DOMAIN b[r].children = {}
      BY <1>9, <3>1
    <3>3. SlotNames(b, r) = <<>>
      BY <3>2 DEF SlotNames
    <3> QED BY <1>9, <3>1, <3>3
  <2> QED BY <2>5, <2>6 DEF Fit, Calls
<1>14. ToSet(after) \subseteq Held(nodes, parent) \union {ref}
  <2>1. kids \in Seq(Nat)
    BY <1>2, <1>5
  <2> HIDE DEF kids
  <2>2. ToSet(after) \subseteq ToSet(kids) \union {ref}
    BY <2>1, ReplaceIs
  <2> QED BY <2>2 DEF Held, kids
<1> HIDE DEF after
<1>15. ASSUME NEW x \in D
       PROVE  /\ OneKind(new[x], a[x]) /\ new[x].parentId = a[x].parentId
              /\ x # parent => new[x].children = a[x].children
              /\ x = parent => new[x].children = after
  <2>1. nodes[x] \in Node(n) /\ a[x] = nodes[x]
    BY <1>2, <1>4
  <2>2. /\ OneKind([nodes[x] EXCEPT !.children = after], nodes[x])
        /\ [nodes[x] EXCEPT !.children = after].children = after
        /\ [nodes[x] EXCEPT !.children = after].parentId = nodes[x].parentId
    BY <2>1, Relist DEF OneKind
  <2>3. OneKind(nodes[x], nodes[x])
    BY DEF OneKind
  <2> QED BY <1>10, <2>1, <2>2, <2>3
<1>16. \A x \in DOMAIN b : OneKind(new[x], b[x]) /\ new[x].children = b[x].children /\ new[x].parentId = b[x].parentId
  BY <1>9, <1>10 DEF OneKind
<1>17. Fit(a, n, C, want, R)
  BY <1>3 DEF Trim
<1>18. DOMAIN a \intersect DOMAIN b = {} /\ DOMAIN new = DOMAIN a \union DOMAIN b
  BY <1>4, <1>7, <1>9, <1>10
<1>19. \A r \in RefsIn(b, C) : Held(b, r) \intersect {ref} = {}
  BY <1>11
<1>20. Kept(new, a, n, m, C, want, R)
  <2>1. CASE parent \in D
    <3>1. Held(new, parent) \subseteq Held(a, parent) \union {ref}
      BY <1>4, <1>14, <1>15, <2>1 DEF Held
    <3>2. Hangs(new, a, b, parent, {ref}, C, R)
      BY <1>4, <1>5, <1>9, <1>15, <1>16, <1>18, <1>19, <2>1, <3>1 DEF Hangs, OneKind
    <3> QED BY <1>7, <1>12, <1>13, <1>17, <3>2, HungKept
  <2>2. CASE parent \notin D
    <3>1. Held(new, root) \subseteq Held(a, root) \union {}
      BY <1>6, <1>15, <2>2 DEF Held
    <3>2. Hangs(new, a, b, root, {}, C, R)
      BY <1>2, <1>4, <1>6, <1>15, <1>16, <1>18, <2>2, <3>1 DEF Hangs, OneKind
    <3> QED BY <1>7, <1>12, <1>13, <1>17, <3>2, HungKept
  <2> QED BY <2>1, <2>2
<1>21. IdsOf(a) \subseteq IdsOf(nodes) \union n..(n - 1) /\ RefsIn(a, C) \subseteq RefsIn(nodes, C)
  BY <1>3 DEF Trim
<1>22. Kept(new, nodes, n, m, C, want, R)
  BY <1>20, <1>21 DEF Kept
<1> QED BY <1>22 DEF new

\* convertNodeToComponent, the component: a document of its own.
Carved(new, from, m, C, want, R) ==
    Fit(new, m, C, want, R \union RefsIn(new, C)) /\ IdsOf(new) \subseteq from..(m - 1)

LEMMA ExtractedCarved ==
  ASSUME NEW n \in Nat, NEW C, NEW want, NEW R, NEW tree, IsDocument(tree, n), Fit(tree.nodes, n, C, want, R),
         NEW id \in DOMAIN tree.nodes, tree.nodes[id].moduleId # "slot-instance", NEW from \in Nat, n <= from,
         NEW m, m = from + 1 + Cardinality(Subtree(tree, id))
  PROVE  Carved(ExtractedComponent(tree, id, from).nodes, from, m, C, want, R)
<1> DEFINE ids == Subtree(tree, id)
           f == from + 1
           map == FreshIds(ids, f)
           nodes == tree.nodes
           copies == Copies(nodes, ids, map)
           at0 == map[id]
           one == <<at0>>
           bare == NewNode("body")
           body == [bare EXCEPT !.children = one]
           a == [x \in {from} |-> bare]
           both == With(copies, from, body)
           indexed == ReindexNodeParents(both)
           new == ExtractedComponent(tree, id, from).nodes
<1>0. new = indexed
  BY DEF ExtractedComponent
<1>1. Tidy(tree, n, C, R)
  BY FitIs
<1>2. /\ Lists(nodes) /\ id \in Nat /\ R \subseteq 1..(n - 1) /\ n # 0
      /\ \A x \in DOMAIN nodes : nodes[x] \in Node(n) /\ x \in 1..(n - 1)
      /\ \A r \in RefsIn(nodes, C) : r \in DOMAIN nodes /\ Own(nodes, r)
  BY <1>1, DocumentLists DEF Tidy, Below, Sound
<1>3. f \in Nat /\ n <= f /\ from < f /\ f - 1 = from
  OBVIOUS
<1>4. id \in ids /\ ids \subseteq DOMAIN nodes /\ IsFiniteSet(ids) /\ ids \subseteq Nat
  <2>1. id \in ids /\ ids \subseteq DOMAIN nodes
    BY <1>2, SubtreeIs DEF Has
  <2> QED BY <1>2, <2>1, FS_Subset DEF Lists
<1>5. m = f + Cardinality(ids) /\ m \in Nat /\ f <= m
  <2>1. Cardinality(ids) \in Nat
    BY <1>4, FS_CardinalityType
  <2>2. m = from + 1 + Cardinality(ids)
    OBVIOUS
  <2> HIDE DEF ids
  <2> QED BY <2>1, <2>2
<1>6. Cloning(copies, nodes, ids, map, f, m, C, want, R)
  <2>1. ids = Subtree(tree, id) /\ map = FreshIds(ids, f)
    OBVIOUS
  <2> HIDE DEF ids, map, f
  <2> QED BY <1>3, <1>5, <2>1, SubtreeCopies
<1>7. Fresh(copies, f, m) /\ Cloned(copies, nodes, ids, map) /\ Renames(map, ids)
  <2>1. DOMAIN nodes \subseteq 1..(n - 1) /\ \A x \in DOMAIN nodes : nodes[x] \in Node(n)
    BY <1>2
  <2>2. map = FreshIds(ids, f)
    OBVIOUS
  <2> HIDE DEF ids, map, f
  <2> QED BY <1>3, <1>4, <1>5, <2>1, <2>2, CopiesAre, FreshRenames
<1> HIDE DEF ids, map, copies, f
<1>8. /\ at0 \in DOMAIN copies /\ at0 \in Nat /\ at0 # from
      /\ DOMAIN copies \subseteq f..(m - 1) /\ from \notin DOMAIN copies
      /\ \A x \in DOMAIN copies : copies[x] \in Node(m)
      /\ copies = [x \in DOMAIN copies |-> copies[x]]
  <2>1. at0 \in DOMAIN copies
    BY <1>4, <1>7 DEF Cloned
  <2>2. DOMAIN copies \subseteq f..(m - 1) /\ (\A x \in DOMAIN copies : copies[x] \in Node(m))
        /\ copies = [x \in DOMAIN copies |-> copies[x]]
    BY <1>7 DEF Fresh
  <2> QED BY <1>3, <1>5, <2>1, <2>2
<1>9. ASSUME NEW r \in RefsIn(copies, C) PROVE at0 \notin Held(copies, r)
  <2> SUFFICES ASSUME at0 \in Held(copies, r) PROVE FALSE
    OBVIOUS
  <2>1. PICK p \in ids : r = map[p]
    BY <1>7 DEF Cloned, RefsIn
  <2>2. p \in RefsIn(nodes, C) /\ p \in DOMAIN nodes
    BY <1>4, <1>7, <2>1 DEF Cloned, RefsIn
  <2>3. Held(copies, r) = {map[c] : c \in Held(nodes, p) \intersect ids}
    BY <1>6, <2>1 DEF Cloning
  <2>4. id \in Held(nodes, p)
    BY <1>4, <1>7, <2>3 DEF Renames
  <2> QED BY <1>2, <2>2, <2>4 DEF Own
<1> HIDE DEF at0
<1>10. one \in Seq(Nat) /\ ToSet(one) = {at0}
  BY <1>8, OneId
<1> HIDE DEF one
<1>11. /\ bare.moduleId = "body" /\ bare.children = <<>> /\ bare.parentId = Null
       /\ bare.moduleId # "ref"
  BY DEF NewNode
<1>12. bare \in Node(m) /\ NodeOK(body, 0, m)
  <2>1. m # 0 /\ "body" \in Module \union {"body", "ref", "slot-instance"}
    BY <1>3, <1>5
  <2>2. NodeOK(bare, 0, m)
    BY <1>5, <2>1, NewNodeOK
  <2>3. 0 \notin ToSet(one)
    BY <1>3, <1>8, <1>10
  <2> HIDE DEF bare
  <2> QED BY <1>5, <1>10, <2>2, <2>3, WithKids DEF NodeOK
<1>13. /\ OneKind(body, bare) /\ body.parentId = bare.parentId /\ body.children = one
       /\ body \in Node(m)
  <2> HIDE DEF bare
  <2> QED BY <1>12, Relist DEF OneKind, NodeOK
<1> HIDE DEF bare, body
<1>14. DOMAIN a = {from} /\ a[from] = bare
  OBVIOUS
<1>15. /\ DOMAIN both = DOMAIN copies \union {from} /\ both[from] = body
       /\ \A i \in DOMAIN copies : both[i] = copies[i]
  BY <1>8 DEF With
<1> HIDE DEF a, both
<1>16. Held(a, from) = {} /\ IdsOf(a) = {from} /\ RefsIn(a, C) = {}
  <2>1. Held(a, from) = {}
    BY <1>11, <1>14 DEF Held, ToSet
  <2> QED BY <1>11, <1>14, <2>1 DEF IdsOf, RefsIn
<1>17. Fit(a, f, C, want, R)
  <2>1. IdsOf(a) \subseteq Below(f) /\ Null \in Below(f) /\ Null \notin R
    BY <1>2, <1>3, <1>16 DEF Below, Null
  <2>2. R \subseteq 1..(f - 1) /\ from \notin R
    BY <1>2, <1>3
  <2>3. Owning(a, f, C, R)
    BY <1>11, <1>14, <1>16, <2>1, <2>2 DEF Owning
  <2> QED BY <1>16, <2>3 DEF Fit, Calls
<1>18. Fit(copies, m, C, want, R \union RefsIn(copies, C)) /\ IdsOf(copies) \subseteq f..(m - 1)
  BY <1>6 DEF Cloning
<1>19. Hangs(both, a, copies, from, {at0}, C, R)
  <2>1. from \notin R
    BY <1>2
  <2>2. Held(both, from) \subseteq Held(a, from) \union {at0}
    BY <1>10, <1>13, <1>15 DEF Held
  <2> QED BY <1>8, <1>9, <1>13, <1>14, <1>15, <2>1, <2>2 DEF Hangs, OneKind
<1>20. Kept(both, a, f, m, C, want, R)
  BY <1>3, <1>5, <1>17, <1>18, <1>19, HungKept
<1> DEFINE S == R \union RefsIn(both, C)
<1>21. Fit(both, m, C, want, S) /\ IdsOf(both) \subseteq from..(m - 1)
  <2>1. from \in from..(m - 1) /\ f..(m - 1) \subseteq from..(m - 1)
    BY <1>3, <1>5
  <2> QED BY <1>16, <1>20, <2>1 DEF Kept
<1>22. \A x \in DOMAIN both : both[x] \in Node(m)
  BY <1>8, <1>13, <1>15
<1>23. Lists(both)
  <2>1. DOMAIN both \subseteq 1..(m - 1)
    BY <1>2, <1>3, <1>5, <1>8, <1>15
  <2>2. m \in Nat
    BY <1>5
  <2> HIDE DEF both
  <2> QED BY <1>22, <2>1, <2>2, NodesList
<1> HIDE DEF S
<1>24. Calm(indexed, both, m, m, C, S)
  <2>1. m # 0
    BY <1>3, <1>5
  <2> QED BY <1>5, <1>21, <1>22, <1>23, <2>1, ReindexCalm
<1> HIDE DEF indexed
<1>25. Trim(indexed, both, m, m, C, want, S)
  <2>1. m <= m
    BY <1>5
  <2> QED BY <1>5, <1>21, <1>24, <2>1, CalmTrim
<1>26. Fit(indexed, m, C, want, S) /\ RefsIn(indexed, C) \subseteq S /\ IdsOf(indexed) \subseteq from..(m - 1)
  <2>1. m..(m - 1) = {}
    BY <1>5
  <2> QED BY <1>21, <1>25, <2>1 DEF Trim, S
<1>27. Fit(indexed, m, C, want, R \union RefsIn(indexed, C))
  <2> DEFINE T == R \union RefsIn(indexed, C)
  <2>1. T \subseteq S \union m..(m - 1) /\ RefsIn(indexed, C) \subseteq T /\ m <= m /\ m # 0
    BY <1>3, <1>5, <1>26 DEF S
  <2> HIDE DEF T
  <2>2. Fit(indexed, m, C, want, T)
    BY <1>5, <1>26, <2>1, FitLess
  <2> QED BY <2>2 DEF T
<1> QED BY <1>0, <1>26, <1>27 DEF Carved

-----------------------------------------------------------------------------
\* Detaching.

\* Lists of one, one after the other.
LEMMA FlattenOnes ==
  ASSUME NEW E, NEW list \in Seq(E), NEW seqs, seqs \in Seq(Seq(E)), Len(seqs) = Len(list),
         \A i \in 1..Len(list) : seqs[i] = <<list[i]>>
  PROVE  FlattenSeq(seqs) = list
<1> DEFINE n == Len(list)
<1>0. n \in Nat /\ \A i \in 1..n : list[i] \in E
  OBVIOUS
<1>1. CASE n = 0
  <2>1. FlattenSeq(seqs) = seqs /\ seqs = <<>> /\ list = <<>>
    BY <1>1 DEF FlattenSeq
  <2> QED BY <2>1
<1>2. CASE n # 0
  <2>1. PICK f : /\ \A i \in 1..n : f[i] = IF i = 1 THEN seqs[i] ELSE f[i - 1] \o seqs[i]
                 /\ FlattenSeq(seqs) = f[n]
    BY <1>0, <1>2, FlattenTurns
  <2> DEFINE Good(k) == f[k] \in Seq(E) /\ Len(f[k]) = k /\ \A i \in 1..k : f[k][i] = list[i]
  <2>2. Good(1)
    <3>1. f[1] = <<list[1]>> /\ list[1] \in E
      BY <1>0, <1>2, <2>1
    <3> QED BY <3>1
  <2>3. ASSUME NEW k \in 1..(n - 1), Good(k) PROVE Good(k + 1)
    <3>0. k + 1 \in 1..n /\ k + 1 # 1 /\ (k + 1) - 1 = k
      BY <1>0
    <3>1. f[k + 1] = f[k] \o <<list[k + 1]>> /\ list[k + 1] \in E
      BY <1>0, <2>1, <3>0
    <3> DEFINE g == f[k]
               x == list[k + 1]
    <3>2. g \in Seq(E) /\ Len(g) = k /\ (\A i \in 1..k : g[i] = list[i]) /\ x \in E
      BY <2>3, <3>1
    <3>3. f[k + 1] = g \o <<x>>
      BY <3>1
    <3> HIDE DEF g, x
    <3>4. /\ g \o <<x>> \in Seq(E) /\ Len(g \o <<x>>) = k + 1
          /\ \A i \in 1..k : (g \o <<x>>)[i] = g[i]
          /\ (g \o <<x>>)[k + 1] = x
      BY <3>2
    <3>5. \A i \in 1..(k + 1) : (g \o <<x>>)[i] = list[i]
      BY <3>2, <3>4 DEF x
    <3> QED BY <3>3, <3>4, <3>5
  <2>4. Good(n)
    <3> HIDE DEF Good
    <3> DEFINE S == {m \in 0..n : m = 0 \/ Good(m)}
    <3>1. 0 \in S /\ \A m \in 0..(n - 1) : m \in S => m + 1 \in S
      BY <2>2, <2>3
    <3>2. n \in 0..n
      BY <1>0
    <3> HIDE DEF S, n
    <3>3. n \in S
      BY <1>0, <3>1, <3>2, UpTo
    <3> QED BY <1>2, <3>3 DEF S
  <2> DEFINE g == f[n]
  <2>5. g \in Seq(E) /\ Len(g) = Len(list) /\ \A i \in 1..Len(list) : g[i] = list[i]
    BY <2>4
  <2>6. FlattenSeq(seqs) = g
    BY <2>1
  <2> HIDE DEF g
  <2> QED BY <2>5, <2>6
<1> QED BY <1>1, <1>2

\* What a component is instantiated with keeps the slots of its refs.
Supplied(inst, comp, n, C, want, R) ==
    /\ \A r \in RefsIn(inst, C) : /\ Own(inst, r) /\ Held(inst, r) \subseteq DOMAIN inst
                                  /\ SlotNames(inst, r) = want[inst[r].componentId]
    /\ \A x \in DOMAIN inst : /\ inst[x].parentId \in Below(n)
                              /\ inst[x].parentId \in R => inst[x].moduleId = "slot-instance"
    /\ comp.rootNodeId \notin Held(inst, comp.rootNodeId)
    /\ inst[comp.rootNodeId].moduleId = "body"

LEMMA InstantiatedSupplied ==
  ASSUME NEW n \in Nat, NEW C, NEW want, NEW R, NEW tree, IsDocument(tree, n), Fit(tree.nodes, n, C, want, R),
         NEW comp, IsDocument(comp, n), Fit(comp.nodes, n, C, want, R),
         IdsOf(tree.nodes) \intersect IdsOf(comp.nodes) = {}, NEW ref \in DOMAIN tree.nodes
  PROVE  Supplied(Instantiated(tree, ref, comp), comp, n, C, want, R)
<1> DEFINE nodes == tree.nodes
           parts == comp.nodes
           root == comp.rootNodeId
           slots == Keep(tree.nodes[ref].children, Slots(tree))
           Tagged(name) == Keep(slots, {c \in ToSet(slots) : tree.nodes[c].slotName = name})
           Filling(name) == IF Tagged(name) = <<>> THEN <<>> ELSE tree.nodes[Last(Tagged(name))].children
           own == Subtree(comp, comp.rootNodeId)
           Filled(id) == /\ comp.nodes[id].moduleId = "slot-outlet"
                         /\ Filling(comp.nodes[id].slotName) # <<>>
           InPlaceOf(id) == IF id \notin own THEN <<>>
                            ELSE IF Filled(id) THEN Filling(comp.nodes[id].slotName)
                            ELSE <<id>>
           content == UNION {Subtree(tree, c) : c \in UNION {ToSet(InPlaceOf(id)) :
                                 id \in {i \in own : Filled(i)}}}
           Kid(id) == [k \in DOMAIN comp.nodes[id].children |-> InPlaceOf(comp.nodes[id].children[k])]
           inst == [id \in {i \in own : ~Filled(i)} \union content |->
                       IF id \notin own THEN tree.nodes[id]
                       ELSE [comp.nodes[id] EXCEPT !.children = FlattenSeq(Kid(id))]]
           Poured == UNION {Held(nodes, s) : s \in Slots(tree)}
<1>1. Instantiated(tree, ref, comp) = inst
  BY DEF Instantiated
<1>2. Tidy(tree, n, C, R) /\ Tidy(comp, n, C, R)
  BY FitIs
<1>3. /\ Lists(nodes) /\ Lists(parts) /\ root \in DOMAIN parts /\ root \in Nat
      /\ parts[root].moduleId = "body"
      /\ \A x \in DOMAIN nodes : /\ x \in Nat /\ nodes[x] \in Node(n) /\ nodes[x].children \in Seq(Nat)
                                 /\ Held(nodes, x) = ToSet(nodes[x].children)
                                 /\ Held(nodes, x) \subseteq IdsOf(nodes)
                                 /\ nodes[x].parentId \in Below(n)
                                 /\ nodes[x].parentId \in R => nodes[x].moduleId = "slot-instance"
      /\ \A x \in DOMAIN parts : /\ x \in Nat /\ parts[x] \in Node(n) /\ parts[x].children \in Seq(Nat)
                                 /\ Held(parts, x) = ToSet(parts[x].children)
                                 /\ Held(parts, x) \subseteq IdsOf(parts)
                                 /\ parts[x].parentId \in Below(n)
                                 /\ parts[x].parentId \in R => parts[x].moduleId = "slot-instance"
      /\ \A r \in RefsIn(nodes, C) : r \in DOMAIN nodes /\ Own(nodes, r) /\ SlotNames(nodes, r) = want[nodes[r].componentId]
      /\ \A r \in RefsIn(parts, C) : r \in DOMAIN parts /\ Own(parts, r) /\ SlotNames(parts, r) = want[parts[r].componentId]
  BY <1>2 DEF Tidy, Fit, Calls
<1>4. DOMAIN nodes \subseteq IdsOf(nodes) /\ DOMAIN parts \subseteq IdsOf(parts)
  BY DEF IdsOf
<1>5. own \subseteq DOMAIN parts /\ root \in own
  BY <1>3, SubtreeIs DEF Has
<1>6. Slots(tree) \subseteq DOMAIN nodes /\ \A s \in Slots(tree) : nodes[s].moduleId = "slot-instance"
  BY DEF Slots
<1>7. slots \in Seq(Nat) /\ ToSet(slots) \subseteq Slots(tree)
  <2> DEFINE list == tree.nodes[ref].children
             all == Slots(tree)
  <2>1. list \in Seq(Nat)
    BY <1>3
  <2> HIDE DEF list, all
  <2>2. Keep(list, all) \in Seq(Nat) /\ ToSet(Keep(list, all)) = ToSet(list) \intersect all
    BY <2>1, KeepIs
  <2> QED BY <2>2 DEF list, all
<1> HIDE DEF slots, own
<1>8. ASSUME NEW name, Tagged(name) # <<>>
      PROVE  Last(Tagged(name)) \in Slots(tree)
  <2> DEFINE set == {c \in ToSet(slots) : tree.nodes[c].slotName = name}
             some == Keep(slots, set)
  <2>1. some = Tagged(name)
    OBVIOUS
  <2> HIDE DEF set
  <2>2. some \in Seq(Nat) /\ ToSet(some) = ToSet(slots) \intersect set
    BY <1>7, KeepIs
  <2>3. some # <<>>
    BY <1>8, <2>1
  <2> HIDE DEF some, Tagged
  <2>4. Last(some) \in ToSet(some)
    BY <2>2, <2>3, EndsOf
  <2> QED BY <1>7, <2>1, <2>2, <2>4
<1> HIDE DEF Tagged
<1>9. ASSUME NEW name
      PROVE  Filling(name) \in Seq(Nat) /\ ToSet(Filling(name)) \subseteq Poured
  <2>1. CASE Tagged(name) = <<>>
    BY <2>1 DEF ToSet
  <2>2. CASE Tagged(name) # <<>>
    <3> DEFINE s == Last(Tagged(name))
    <3>1. s \in Slots(tree) /\ Filling(name) = nodes[s].children
      BY <1>8, <2>2
    <3> HIDE DEF s, Filling
    <3>2. nodes[s].children \in Seq(Nat) /\ ToSet(nodes[s].children) = Held(nodes, s)
      BY <1>3, <1>6, <3>1
    <3> QED BY <3>1, <3>2
  <2> QED BY <2>1, <2>2
<1> HIDE DEF Filling
<1>10. ASSUME NEW id \in own
       PROVE  /\ InPlaceOf(id) \in Seq(Nat) /\ ToSet(InPlaceOf(id)) \subseteq {id} \union Poured
              /\ parts[id].moduleId # "slot-outlet" => ~Filled(id) /\ InPlaceOf(id) = <<id>>
  <2>1. CASE Filled(id)
    <3>1. InPlaceOf(id) = Filling(parts[id].slotName) /\ parts[id].moduleId = "slot-outlet"
      BY <2>1
    <3> QED BY <1>9, <3>1
  <2>2. CASE ~Filled(id)
    <3>1. InPlaceOf(id) = <<id>> /\ id \in Nat
      BY <1>3, <1>5, <2>2
    <3> QED BY <2>2, <3>1, OneId
  <2> QED BY <2>1, <2>2
<1>11. \A id : id \notin own => InPlaceOf(id) = <<>>
  OBVIOUS
<1>12. DOMAIN inst = {i \in own : ~Filled(i)} \union content
       /\ \A x \in DOMAIN inst : inst[x] = IF x \notin own THEN nodes[x]
                                          ELSE [parts[x] EXCEPT !.children = FlattenSeq(Kid(x))]
  OBVIOUS
<1>13. \A x \in content : \E c \in Nat : x \in Subtree(tree, c) /\ Subtree(tree, c) \subseteq content
  <2>1. \A id \in own : ToSet(InPlaceOf(id)) \subseteq Nat
    <3> SUFFICES ASSUME NEW id \in own PROVE ToSet(InPlaceOf(id)) \subseteq Nat
      OBVIOUS
    <3> DEFINE list == InPlaceOf(id)
    <3>1. list \in Seq(Nat)
      BY <1>10
    <3> HIDE DEF list
    <3>2. ToSet(list) \subseteq Nat
      BY <3>1 DEF ToSet
    <3> QED BY <3>2 DEF list
  <2> HIDE DEF InPlaceOf, Filled
  <2> QED BY <2>1
<1>14. \A id : Kid(id) = [k \in DOMAIN parts[id].children |-> InPlaceOf(parts[id].children[k])]
  OBVIOUS
<1>15. \A x : x \in own /\ ~Filled(x) => x \in DOMAIN inst
  OBVIOUS
<1>a. content \subseteq DOMAIN inst /\ \A x \in DOMAIN inst : x \in own \/ x \in content
  OBVIOUS
<1>16. ~Filled(root) /\ root \in DOMAIN inst
  BY <1>3, <1>5, <1>15
<1>b. \A x \in own : ~Filled(x) \/ parts[x].moduleId = "slot-outlet"
  OBVIOUS
<1>17. Poured \subseteq IdsOf(nodes) /\ \A r \in RefsIn(nodes, C) : Poured \intersect Held(nodes, r) = {}
  <2>1. Poured \subseteq IdsOf(nodes)
    BY <1>3, <1>6
  <2>2. ASSUME NEW r \in RefsIn(nodes, C), NEW s \in Slots(tree) PROVE Held(nodes, s) \intersect Held(nodes, r) = {}
    <3>1. s \in DOMAIN nodes /\ s # r
      BY <1>6 DEF RefsIn
    <3> QED BY <1>3, <3>1 DEF Own
  <2> QED BY <2>1, <2>2
<1> HIDE DEF Poured, content, InPlaceOf, Kid, Filled, inst
<1>18. content \subseteq DOMAIN nodes
  <2>1. \A c \in Nat : Subtree(tree, c) \subseteq DOMAIN nodes
    BY <1>3, SubtreeIs
  <2> QED BY <1>13, <2>1
<1>19. ASSUME NEW p \in DOMAIN inst, p \in own
       PROVE  /\ OneKind(inst[p], parts[p]) /\ inst[p].parentId = parts[p].parentId
              /\ Held(inst, p) \subseteq Held(parts, p) \union Poured
              /\ (\A c \in Held(parts, p) : c \in own /\ InPlaceOf(c) = <<c>>) => inst[p].children = parts[p].children
  <2> DEFINE list == parts[p].children
             kid == Kid(p)
             flat == FlattenSeq(kid)
             l == Len(list)
             node == parts[p]
  <2>1. list \in Seq(Nat) /\ ToSet(list) = Held(parts, p) /\ node \in Node(n)
    BY <1>3, <1>5, <1>19
  <2>2. kid = [k \in DOMAIN list |-> InPlaceOf(list[k])]
    BY <1>14
  <2>3. inst[p] = [node EXCEPT !.children = flat]
    BY <1>12, <1>19
  <2> HIDE DEF list, kid, flat, node
  <2>4. DOMAIN list = 1..l /\ l \in Nat
    BY <2>1
  <2>5. \A k \in 1..l : list[k] \in Held(parts, p) /\ kid[k] = InPlaceOf(list[k])
    BY <2>1, <2>2, <2>4 DEF ToSet
  <2>6. \A id : InPlaceOf(id) \in Seq(Nat) /\ ToSet(InPlaceOf(id)) \subseteq {id} \union Poured
    <3>1. <<>> \in Seq(Nat) /\ ToSet(<<>>) = {}
      BY DEF ToSet
    <3> QED BY <1>10, <1>11, <3>1
  <2>7. kid \in [1..l -> Seq(Nat)]
    BY <2>2, <2>4, <2>6
  <2> HIDE DEF l
  <2>8. kid \in Seq(Seq(Nat)) /\ Len(kid) = l
    BY <2>4, <2>7
  <2>9. flat \in Seq(Nat) /\ ToSet(flat) = UNION {ToSet(kid[k]) : k \in 1..l}
    BY <2>8, FlattenIs DEF flat
  <2>10. /\ OneKind([node EXCEPT !.children = flat], node) /\ [node EXCEPT !.children = flat].children = flat
         /\ [node EXCEPT !.children = flat].parentId = node.parentId
    BY <2>1, Relist DEF OneKind
  <2>11. ToSet(flat) \subseteq Held(parts, p) \union Poured
    BY <2>5, <2>6, <2>9
  <2>12. ASSUME \A c \in Held(parts, p) : c \in own /\ InPlaceOf(c) = <<c>> PROVE flat = list
    <3>1. \A k \in 1..l : kid[k] = <<list[k]>>
      BY <2>5, <2>12
    <3> QED BY <2>1, <2>8, <3>1, FlattenOnes DEF flat, l
  <2>13. Held(inst, p) = ToSet(flat)
    BY <2>3, <2>10 DEF Held
  <2> QED BY <2>3, <2>10, <2>11, <2>12, <2>13 DEF node, list
<1>20. ASSUME NEW x \in DOMAIN inst, x \notin own
       PROVE  x \in content /\ x \in DOMAIN nodes /\ inst[x] = nodes[x] /\ Held(inst, x) = Held(nodes, x)
              /\ Held(nodes, x) \subseteq IdsOf(nodes)
  BY <1>3, <1>12, <1>18, <1>20, <1>a DEF Held
<1>21. \A x \in DOMAIN inst : /\ inst[x].parentId \in Below(n)
                              /\ inst[x].parentId \in R => inst[x].moduleId = "slot-instance"
  BY <1>3, <1>5, <1>19, <1>20 DEF OneKind
<1>22. root \notin Held(inst, root) /\ inst[root].moduleId = "body"
  <2>1. root \notin Held(parts, root)
    BY <1>3, DocumentLists
  <2>2. root \notin Poured
    BY <1>3, <1>4, <1>17
  <2> QED BY <1>3, <1>5, <1>16, <1>19, <2>1, <2>2 DEF OneKind
<1>23. ASSUME NEW r \in RefsIn(inst, C), r \in own
       PROVE  Own(inst, r) /\ Held(inst, r) \subseteq DOMAIN inst /\ SlotNames(inst, r) = want[inst[r].componentId]
  <2>1. r \in DOMAIN inst /\ r \in DOMAIN parts /\ r \in RefsIn(parts, C)
    BY <1>5, <1>19, <1>23 DEF RefsIn, OneKind
  <2>2. Own(parts, r) /\ SlotNames(parts, r) = want[parts[r].componentId]
    BY <1>3, <2>1
  <2>3. Held(parts, r) \subseteq own
    <3>1. r \in Subtree(comp, root)
      BY <1>23 DEF own
    <3> QED BY <1>3, <2>1, <2>2, <3>1, SlotsUnder DEF own
  <2>4. ASSUME NEW c \in Held(parts, r)
        PROVE  /\ c \in own /\ InPlaceOf(c) = <<c>> /\ c \in DOMAIN inst
               /\ parts[c].moduleId = "slot-instance" /\ parts[c].locked /\ parts[c].parentId = r
    <3>1. c \in own /\ parts[c].moduleId = "slot-instance" /\ parts[c].locked /\ parts[c].parentId = r
      BY <2>2, <2>3 DEF Own
    <3>2. InPlaceOf(c) = <<c>> /\ ~Filled(c)
      BY <1>10, <1>b, <3>1
    <3> QED BY <1>15, <3>1, <3>2
  <2>5. inst[r].children = parts[r].children /\ Held(inst, r) = Held(parts, r)
    <3>1. inst[r].children = parts[r].children
      BY <1>19, <1>23, <2>1, <2>4
    <3> QED BY <3>1 DEF Held
  <2>6. \A c \in Held(parts, r) : /\ c \in DOMAIN inst /\ inst[c].moduleId = "slot-instance"
                                  /\ inst[c].locked /\ inst[c].parentId = r /\ inst[c].slotName = parts[c].slotName
    BY <1>19, <2>4 DEF OneKind
  <2>7. Held(parts, r) \subseteq IdsOf(parts)
    BY <1>3, <2>1
  <2>8. ASSUME NEW p \in DOMAIN inst, p # r PROVE Held(inst, p) \intersect Held(inst, r) = {}
    <3>1. CASE p \in own
      <4>1. Held(parts, p) \intersect Held(parts, r) = {}
        BY <1>5, <2>2, <2>8, <3>1 DEF Own
      <4>2. Poured \intersect Held(parts, r) = {}
        BY <1>17, <2>7
      <4> QED BY <1>19, <2>5, <3>1, <4>1, <4>2
    <3>2. CASE p \notin own
      BY <1>20, <2>5, <2>7, <3>2
    <3> QED BY <3>1, <3>2
  <2>9. Own(inst, r)
    BY <2>2, <2>5, <2>6, <2>8 DEF Own
  <2>10. \A i \in DOMAIN parts[r].children : parts[r].children[i] \in Held(parts, r)
    BY DEF Held, ToSet
  <2>11. SlotNames(inst, r) = SlotNames(parts, r)
    BY <2>5, <2>6, <2>10 DEF SlotNames
  <2>12. inst[r].componentId = parts[r].componentId
    BY <1>19, <1>23, <2>1 DEF OneKind
  <2> QED BY <2>2, <2>5, <2>6, <2>9, <2>11, <2>12
<1>24. ASSUME NEW r \in RefsIn(inst, C), r \notin own
       PROVE  Own(inst, r) /\ Held(inst, r) \subseteq DOMAIN inst /\ SlotNames(inst, r) = want[inst[r].componentId]
  <2>1. r \in DOMAIN inst /\ r \in content /\ r \in DOMAIN nodes /\ inst[r] = nodes[r] /\ r \in RefsIn(nodes, C)
    BY <1>20, <1>24 DEF RefsIn
  <2>2. Own(nodes, r) /\ SlotNames(nodes, r) = want[nodes[r].componentId]
    BY <1>3, <2>1
  <2>3. PICK c \in Nat : r \in Subtree(tree, c) /\ Subtree(tree, c) \subseteq content
    BY <1>13, <2>1
  <2>4. Held(nodes, r) \subseteq Subtree(tree, c)
    BY <1>3, <2>1, <2>2, <2>3, SlotsUnder
  <2>5. \A k \in Held(nodes, r) : k \in DOMAIN inst /\ k \notin own /\ inst[k] = nodes[k]
    <3>1. \A k \in Held(nodes, r) : k \in content /\ k \in DOMAIN nodes
      BY <2>2, <2>3, <2>4 DEF Own
    <3>2. \A k \in Held(nodes, r) : k \notin own
      BY <1>4, <1>5, <3>1
    <3> QED BY <1>20, <1>a, <3>1, <3>2
  <2>6. Held(inst, r) = Held(nodes, r)
    BY <2>1 DEF Held
  <2>7. Held(nodes, r) \subseteq IdsOf(nodes)
    BY <1>3, <2>1
  <2>8. ASSUME NEW p \in DOMAIN inst, p # r PROVE Held(inst, p) \intersect Held(inst, r) = {}
    <3>1. CASE p \in own
      <4>1. Held(parts, p) \intersect Held(nodes, r) = {}
        BY <1>3, <1>5, <2>7, <3>1
      <4>2. Poured \intersect Held(nodes, r) = {}
        BY <1>17, <2>1
      <4> QED BY <1>19, <2>6, <3>1, <4>1, <4>2
    <3>2. CASE p \notin own
      <4>1. p \in DOMAIN nodes /\ Held(inst, p) = Held(nodes, p)
        BY <1>20, <3>2
      <4> QED BY <2>2, <2>6, <2>8, <4>1 DEF Own
    <3> QED BY <3>1, <3>2
  <2>9. Own(inst, r)
    BY <2>1, <2>2, <2>5, <2>6, <2>8 DEF Own
  <2>10. \A i \in DOMAIN nodes[r].children : nodes[r].children[i] \in Held(nodes, r)
    BY DEF Held, ToSet
  <2>11. SlotNames(inst, r) = SlotNames(nodes, r)
    BY <2>1, <2>5, <2>10 DEF SlotNames
  <2> QED BY <2>1, <2>2, <2>5, <2>6, <2>9, <2>11
<1>25. Supplied(inst, comp, n, C, want, R)
  BY <1>21, <1>22, <1>23, <1>24 DEF Supplied
<1> QED BY <1>1, <1>25

\* Nodes taken away, of which nothing that stays is a slot.
LEMMA RestrictCalm ==
  ASSUME NEW m \in Nat, NEW C, NEW want, NEW R, NEW old, Fit(old, m, C, want, R), NEW D, D \subseteq DOMAIN old,
         \A r \in RefsIn(old, C) \intersect D : Held(old, r) \subseteq D
  PROVE  Calm(Restrict(old, D), old, m, m, C, R)
<1> DEFINE new == Restrict(old, D)
<1>1. DOMAIN new = D /\ \A x \in D : new[x] = old[x]
  BY DEF Restrict
<1> HIDE DEF new
<1>2. \A p \in D : Held(new, p) = Held(old, p) /\ Held(old, p) \subseteq IdsOf(old)
  BY <1>1 DEF Held, IdsOf
<1>3. \A r \in RefsIn(old, C) \intersect DOMAIN new :
          /\ new[r].children = old[r].children
          /\ \A k \in Held(old, r) : k \in DOMAIN new /\ new[k].parentId = old[k].parentId
          /\ \A p \in DOMAIN new : p # r => Held(new, p) \intersect Held(old, r) = {}
  <2> SUFFICES ASSUME NEW r \in RefsIn(old, C), r \in D
               PROVE  /\ new[r].children = old[r].children
                      /\ \A k \in Held(old, r) : k \in DOMAIN new /\ new[k].parentId = old[k].parentId
                      /\ \A p \in DOMAIN new : p # r => Held(new, p) \intersect Held(old, r) = {}
    BY <1>1
  <2>1. \A p \in DOMAIN old : p # r => Held(old, p) \intersect Held(old, r) = {}
    BY DEF Fit, Owning, Own
  <2> QED BY <1>1, <1>2, <2>1
<1>4. \A x \in DOMAIN new : /\ new[x].parentId \in Below(m)
                            /\ new[x].parentId \in R => new[x].moduleId = "slot-instance"
  BY <1>1 DEF Fit, Owning
<1>5. Calm(new, old, m, m, C, R)
  BY <1>1, <1>2, <1>3, <1>4 DEF Calm
<1> QED BY <1>5 DEF new

\* detachComponentRef: the component's nodes, with what the slots held, bring
\* the slots of their refs.
LEMMA DetachKept ==
  ASSUME NEW n \in Nat, NEW C, NEW want, NEW R, NEW tree, IsDocument(tree, n), Fit(tree.nodes, n, C, want, R),
         NEW comp, IsDocument(comp, n), Fit(comp.nodes, n, C, want, R),
         IdsOf(tree.nodes) \intersect IdsOf(comp.nodes) = {},
         NEW ref \in DOMAIN tree.nodes, ref # tree.rootNodeId, tree.nodes[ref].moduleId = "ref", CanDetach(tree, ref, comp),
         NEW m, m = n + Cardinality(DOMAIN Instantiated(tree, ref, comp))
  PROVE  Kept(DetachRef(tree, ref, comp, n).nodes, tree.nodes, n, m, C, want, R)
<1> DEFINE root == tree.rootNodeId
           nodes == tree.nodes
           inst == Instantiated(tree, ref, comp)
           ids == DOMAIN inst
           map == FreshIds(ids, n)
           copied == Copies(inst, ids, map)
           top == comp.rootNodeId
           body == map[top]
           inserted == copied[body].children
           parent == SiblingAfter(tree, ref).parentId
           at == IndexOf(nodes[parent].children, ref)
           rest == DOMAIN nodes \ Subtree(tree, ref)
           kept == Restrict(nodes, rest)
           kids == kept[parent].children
           others == Keep(kids, ToSet(kids) \ {ref})
           joined == Splice(others, at, inserted)
           placed == [kept EXCEPT ![parent].children = joined]
           added == Restrict(copied, DOMAIN copied \ {body})
           both == Over(added, placed)
           indexed == ReindexNodeParents(both)
           S == R \union RefsIn(copied, C)
<1>a. IsFiniteSet(1..(n - 1))
  <2>1. n - 1 \in Int /\ 1 \in Int
    OBVIOUS
  <2> DEFINE k == n - 1
  <2> HIDE DEF k
  <2>2. IsFiniteSet(1..k)
    BY <2>1, FS_Interval DEF k
  <2> QED BY <2>2 DEF k
<1>1. Tidy(tree, n, C, R)
  BY FitIs
<1>2. /\ Lists(nodes) /\ ref \in Nat /\ R \subseteq 1..(n - 1) /\ n # 0
      /\ tree = [rootNodeId |-> root, nodes |-> nodes]
      /\ root \in DOMAIN nodes /\ root \notin R /\ DOMAIN nodes \subseteq 1..(n - 1)
      /\ \A x \in DOMAIN nodes : nodes[x] \in Node(n) /\ nodes[x].children \in Seq(Nat)
  BY <1>1, DocumentLists DEF Tidy, Below, Sound
<1>3. Instance(inst, tree, ref, comp, n)
  BY InstantiatedIs
<1>4. Supplied(inst, comp, n, C, want, R)
  BY InstantiatedSupplied
<1>5. parent \in DOMAIN nodes /\ at \in Int /\ parent \notin R
  <2>1. parent \in DOMAIN nodes
    BY SiblingListed DEF CanDetach
  <2>2. parent \notin R
    BY SiblingFree
  <2> DEFINE list == nodes[parent].children
  <2>3. list \in Seq(Nat)
    BY <1>2, <2>1
  <2> HIDE DEF list
  <2>4. IndexOf(list, ref) \in Int
    BY <2>3, IndexOfIs
  <2> QED BY <2>1, <2>2, <2>4 DEF list
<1>6. kept = Restrict(nodes, DOMAIN nodes \ Subtree(tree, ref))
  OBVIOUS
<1>7. Trim(kept, nodes, n, n, C, want, R)
  <2>1. Calm(kept, nodes, n, n, C, R)
    BY LeftCalm
  <2>2. n <= n
    OBVIOUS
  <2> HIDE DEF kept
  <2> QED BY <2>1, <2>2, CalmTrim
<1>8. root \in rest /\ rest \subseteq DOMAIN nodes
  <2>1. Sound(nodes, root, n)
    BY DocumentLists
  <2> QED BY <1>2, <2>1, RootStays
<1>9. DOMAIN kept = rest /\ \A x \in rest : kept[x] = nodes[x]
  BY <1>8 DEF Restrict
<1>10. m = n + Cardinality(ids)
  OBVIOUS
<1>0. DetachRef(tree, ref, comp, n) = [tree EXCEPT !.nodes = indexed]
  BY DEF DetachRef
<1> HIDE DEF inst, parent, at, kept, rest
<1>11. /\ ids \subseteq 1..(n - 1) /\ top \in ids /\ IsFiniteSet(ids) /\ ids \subseteq Nat
       /\ \A x \in ids : inst[x] \in Node(n)
  <2>1. ids \subseteq 1..(n - 1) /\ top \in ids /\ \A x \in ids : inst[x] \in Node(n)
    BY <1>3 DEF Instance
  <2> QED BY <1>a, <2>1, FS_Subset
<1>12. m \in Nat /\ n <= m /\ n + Cardinality(ids) - 1 = m - 1
  <2>1. Cardinality(ids) \in Nat
    BY <1>11, FS_CardinalityType
  <2> HIDE DEF ids
  <2> QED BY <1>10, <2>1
<1>13. map \in [ids -> n..(m - 1)] /\ Renames(map, ids)
  <2>1. FreshIds(ids, n) \in [ids -> n..(n + Cardinality(ids) - 1)]
    BY <1>11, FreshIs
  <2>2. Renames(FreshIds(ids, n), ids)
    BY <1>11, FreshRenames
  <2> HIDE DEF ids
  <2> QED BY <1>12, <2>1, <2>2
<1>14. Fresh(copied, n, m) /\ Cloned(copied, inst, ids, map)
  <2>1. n <= n /\ ids \subseteq DOMAIN inst
    OBVIOUS
  <2> HIDE DEF ids
  <2> QED BY <1>10, <1>11, <1>12, <2>1, CopiesAre DEF ids
<1>15. /\ \A x \in ids : /\ inst[x].parentId \in Below(n)
                         /\ inst[x].parentId \in R => inst[x].moduleId = "slot-instance"
       /\ \A r \in RefsIn(inst, C) \intersect ids :
             Own(inst, r) /\ Held(inst, r) \subseteq ids /\ SlotNames(inst, r) = want[inst[r].componentId]
       /\ top \notin Held(inst, top) /\ inst[top].moduleId = "body"
       /\ ids \subseteq DOMAIN inst
  BY <1>4 DEF Supplied
<1> HIDE DEF ids, map
<1>16. Cloning(copied, inst, ids, map, n, m, C, want, R)
  <2>1. \A i, j \in ids : map[i] = map[j] => i = j
    BY <1>13 DEF Renames
  <2>2. n <= n
    OBVIOUS
  <2> QED BY <1>2, <1>11, <1>12, <1>13, <1>15, <2>1, <2>2, CopiesFit
<1> HIDE DEF copied
<1>17. /\ Fit(copied, m, C, want, S) /\ IdsOf(copied) \subseteq n..(m - 1)
       /\ body \in DOMAIN copied /\ copied[body].moduleId = "body"
       /\ Held(copied, body) \subseteq DOMAIN copied \ {body}
  <2>1. Fit(copied, m, C, want, S) /\ IdsOf(copied) \subseteq n..(m - 1)
    BY <1>16 DEF Cloning
  <2>2. body \in DOMAIN copied /\ copied[body].moduleId = "body"
    BY <1>11, <1>15, <1>16 DEF Cloning
  <2>3. Held(copied, body) = {map[c] : c \in Held(inst, top) \intersect ids}
    BY <1>11, <1>16 DEF Cloning
  <2>4. \A c \in Held(inst, top) \intersect ids : map[c] \in DOMAIN copied /\ map[c] # body
    BY <1>11, <1>13, <1>15, <1>16 DEF Cloning, Renames
  <2> QED BY <2>1, <2>2, <2>3, <2>4
<1>18. /\ copied = [x \in DOMAIN copied |-> copied[x]]
       /\ DOMAIN copied \subseteq n..(m - 1)
       /\ \A x \in DOMAIN copied : copied[x] \in Node(m) /\ copied[x].children \in Seq(Nat)
  BY <1>14 DEF Fresh, Node
<1>19. inserted \in Seq(Nat) /\ ToSet(inserted) = Held(copied, body)
  BY <1>17, <1>18 DEF Held
<1> HIDE DEF body, inserted
<1> DEFINE D == DOMAIN copied \ {body}
<1>20. Trim(added, copied, m, m, C, want, S)
  <2>1. \A r \in RefsIn(copied, C) \intersect D : Held(copied, r) \subseteq D
    <3> SUFFICES ASSUME NEW r \in RefsIn(copied, C), NEW k \in Held(copied, r) PROVE k \in D
      OBVIOUS
    <3>1. k \in DOMAIN copied /\ copied[k].moduleId = "slot-instance"
      BY <1>17 DEF Fit, Owning, Own
    <3> QED BY <1>17, <3>1
  <2>2. m <= m
    BY <1>12
  <2> HIDE DEF added, S
  <2>3. D \subseteq DOMAIN copied
    OBVIOUS
  <2> HIDE DEF D
  <2>4. Calm(Restrict(copied, D), copied, m, m, C, S)
    BY <1>12, <1>17, <2>1, <2>3, RestrictCalm
  <2>5. Trim(Restrict(copied, D), copied, m, m, C, want, S)
    BY <1>12, <1>17, <2>2, <2>4, CalmTrim
  <2> QED BY <2>5 DEF added, D
<1>21. DOMAIN added = D /\ \A x \in D : added[x] = copied[x]
  BY DEF Restrict
<1> HIDE DEF added, D
<1>22. /\ Fit(added, m, C, want, R \union RefsIn(added, C))
       /\ IdsOf(added) \subseteq n..(m - 1)
  <2> DEFINE T == R \union RefsIn(added, C)
  <2>1. Fit(added, m, C, want, S) /\ RefsIn(added, C) \subseteq S /\ m..(m - 1) = {}
        /\ IdsOf(added) \subseteq IdsOf(copied) \union m..(m - 1)
    BY <1>12, <1>20 DEF Trim
  <2>2. T \subseteq S \union m..(m - 1) /\ RefsIn(added, C) \subseteq T /\ m <= m /\ m # 0
    BY <1>2, <1>12, <2>1
  <2> HIDE DEF T, S
  <2>3. Fit(added, m, C, want, T)
    BY <1>12, <2>1, <2>2, FitLess
  <2> QED BY <1>17, <2>1, <2>3 DEF T
<1>23. ToSet(joined) \subseteq Held(nodes, parent) \union ToSet(inserted) \/ parent \notin rest
  <2> SUFFICES ASSUME parent \in rest PROVE ToSet(joined) \subseteq Held(nodes, parent) \union ToSet(inserted)
    OBVIOUS
  <2>1. kids \in Seq(Nat) /\ ToSet(kids) = Held(nodes, parent)
    BY <1>2, <1>5, <1>9 DEF Held
  <2> DEFINE set == ToSet(kids) \ {ref}
  <2> HIDE DEF kids, set
  <2>2. Keep(kids, set) \in Seq(Nat) /\ ToSet(Keep(kids, set)) = ToSet(kids) \intersect set
    BY <2>1, KeepIs
  <2>3. others \in Seq(Nat) /\ ToSet(others) \subseteq Held(nodes, parent)
    BY <2>1, <2>2 DEF set
  <2> HIDE DEF others
  <2>4. ToSet(Splice(others, at, inserted)) = ToSet(others) \union ToSet(inserted)
    BY <1>5, <1>19, <2>3, SplicedSet
  <2> QED BY <2>3, <2>4
<1>24. /\ DOMAIN placed = rest
       /\ \A x \in rest : placed[x] = IF x = parent THEN [nodes[x] EXCEPT !.children = joined] ELSE nodes[x]
  <2> HIDE DEF joined
  <2> QED BY <1>9
<1> HIDE DEF joined, placed
<1>25. DOMAIN nodes \intersect DOMAIN added = {} /\ DOMAIN added \subseteq n..(m - 1)
  <2>1. DOMAIN added \subseteq n..(m - 1)
    BY <1>22 DEF IdsOf
  <2> QED BY <1>2, <2>1
<1>26. /\ DOMAIN both = rest \union DOMAIN added
       /\ \A x \in DOMAIN added : both[x] = added[x]
       /\ \A x \in rest : both[x] = placed[x]
  BY <1>8, <1>24, <1>25 DEF Over
<1> HIDE DEF both
<1>27. ASSUME NEW x \in rest
       PROVE  /\ OneKind(both[x], kept[x]) /\ both[x].parentId = kept[x].parentId
              /\ x # parent => both[x].children = kept[x].children
              /\ x = parent => both[x].children = joined
              /\ both[x] \in Node(n) \/ x = parent
  <2>1. nodes[x] \in Node(n) /\ kept[x] = nodes[x]
    BY <1>2, <1>8, <1>9
  <2>2. /\ OneKind([nodes[x] EXCEPT !.children = joined], nodes[x])
        /\ [nodes[x] EXCEPT !.children = joined].children = joined
        /\ [nodes[x] EXCEPT !.children = joined].parentId = nodes[x].parentId
    BY <2>1, Relist DEF OneKind
  <2>3. OneKind(nodes[x], nodes[x])
    BY DEF OneKind
  <2> QED BY <1>24, <1>26, <2>1, <2>2, <2>3
<1>28. \A x \in DOMAIN added : OneKind(both[x], added[x]) /\ both[x].children = added[x].children
                               /\ both[x].parentId = added[x].parentId
  BY <1>26 DEF OneKind
<1>29. Fit(kept, n, C, want, R)
  BY <1>7 DEF Trim
<1>30. DOMAIN kept \intersect DOMAIN added = {} /\ DOMAIN both = DOMAIN kept \union DOMAIN added
  BY <1>8, <1>9, <1>25, <1>26
<1>31. ToSet(inserted) \subseteq DOMAIN added /\ \A r \in RefsIn(added, C) : Held(added, r) \intersect ToSet(inserted) = {}
  <2>1. ToSet(inserted) \subseteq DOMAIN added
    BY <1>17, <1>19, <1>21 DEF D
  <2>2. ASSUME NEW r \in RefsIn(added, C) PROVE Held(added, r) \intersect ToSet(inserted) = {}
    <3>1. r \in RefsIn(copied, C) /\ Held(added, r) = Held(copied, r) /\ r # body
      BY <1>21 DEF RefsIn, Held, D
    <3>2. Own(copied, r)
      BY <1>17, <3>1 DEF Fit, Owning
    <3> QED BY <1>17, <1>19, <3>1, <3>2 DEF Own
  <2> QED BY <2>1, <2>2
<1>32. Kept(both, kept, n, m, C, want, R)
  <2>1. CASE parent \in rest
    <3>1. Held(both, parent) \subseteq Held(kept, parent) \union ToSet(inserted)
      BY <1>9, <1>23, <1>27, <2>1 DEF Held
    <3>2. Hangs(both, kept, added, parent, ToSet(inserted), C, R)
      BY <1>5, <1>9, <1>27, <1>28, <1>30, <1>31, <2>1, <3>1 DEF Hangs, OneKind
    <3> QED BY <1>12, <1>22, <1>29, <3>2, HungKept
  <2>2. CASE parent \notin rest
    <3>1. Held(both, root) \subseteq Held(kept, root) \union {}
      BY <1>8, <1>27, <2>2 DEF Held
    <3>2. Hangs(both, kept, added, root, {}, C, R)
      BY <1>2, <1>8, <1>9, <1>27, <1>28, <1>30, <2>2, <3>1 DEF Hangs, OneKind
    <3> QED BY <1>12, <1>22, <1>29, <3>2, HungKept
  <2> QED BY <2>1, <2>2
<1> DEFINE T == R \union RefsIn(both, C)
<1>33. \A x \in DOMAIN both : both[x] \in Node(m)
  <2>1. ASSUME NEW x \in rest PROVE both[x] \in Node(m)
    <3>1. nodes[x] \in Node(n)
      BY <1>2, <1>8
    <3>2. (0..(n - 1)) \ Page \subseteq (0..(m - 1)) \ Page
      BY <1>12
    <3>3. nodes[x] \in Node(m)
      BY <3>1, <3>2 DEF Node
    <3>4. CASE x # parent
      BY <1>24, <1>26, <3>3, <3>4
    <3>5. CASE x = parent
      <4>1. joined \in Seq(Nat)
        <5>1. kids \in Seq(Nat)
          BY <1>2, <1>5, <1>8, <1>9, <3>5
        <5> DEFINE set == ToSet(kids) \ {ref}
        <5> HIDE DEF kids, set
        <5>2. Keep(kids, set) \in Seq(Nat)
          BY <5>1, KeepIs
        <5>3. others \in Seq(Nat)
          BY <5>2 DEF set
        <5> HIDE DEF others
        <5> QED BY <1>5, <1>19, <5>3, SpliceIs DEF joined
      <4>2. both[x] = [nodes[x] EXCEPT !.children = joined]
        BY <1>24, <1>26, <3>5
      <4> QED BY <3>3, <4>1, <4>2 DEF Node
    <3> QED BY <3>4, <3>5
  <2>2. \A x \in DOMAIN added : both[x] \in Node(m)
    BY <1>18, <1>21, <1>26 DEF D
  <2> QED BY <1>26, <2>1, <2>2
<1>34. Lists(both)
  <2>1. DOMAIN both \subseteq 1..(m - 1)
    BY <1>2, <1>8, <1>12, <1>25, <1>26
  <2>2. m \in Nat
    BY <1>12
  <2> HIDE DEF both
  <2> QED BY <1>33, <2>1, <2>2, NodesList
<1>35. Fit(both, m, C, want, T) /\ IdsOf(both) \subseteq IdsOf(kept) \union n..(m - 1)
       /\ RefsIn(both, C) \subseteq RefsIn(kept, C) \union n..(m - 1)
  BY <1>32 DEF Kept
<1> HIDE DEF T
<1>36. Trim(indexed, both, m, m, C, want, T)
  <2>1. m # 0 /\ m <= m
    BY <1>2, <1>12
  <2>2. Calm(indexed, both, m, m, C, T)
    BY <1>12, <1>33, <1>34, <1>35, <2>1, ReindexCalm
  <2> HIDE DEF indexed
  <2> QED BY <1>12, <1>35, <2>1, <2>2, CalmTrim
<1> HIDE DEF indexed
<1>37. Kept(indexed, nodes, n, m, C, want, R)
  <2> DEFINE U == R \union RefsIn(indexed, C)
  <2>1. /\ Fit(indexed, m, C, want, T) /\ RefsIn(indexed, C) \subseteq RefsIn(both, C) /\ m..(m - 1) = {}
        /\ IdsOf(indexed) \subseteq IdsOf(both)
    BY <1>12, <1>36 DEF Trim
  <2>2. U \subseteq T \union m..(m - 1) /\ RefsIn(indexed, C) \subseteq U /\ m <= m /\ m # 0
    BY <1>2, <1>12, <2>1 DEF T
  <2> HIDE DEF U
  <2>3. Fit(indexed, m, C, want, U)
    BY <1>12, <2>1, <2>2, FitLess
  <2>4. IdsOf(kept) \subseteq IdsOf(nodes) /\ RefsIn(kept, C) \subseteq RefsIn(nodes, C)
    BY <1>7 DEF Trim
  <2> QED BY <1>35, <2>1, <2>3, <2>4 DEF Kept, U
<1>38. [tree EXCEPT !.nodes = indexed].nodes = indexed
  BY <1>2
<1> QED BY <1>0, <1>37, <1>38

-----------------------------------------------------------------------------
\* Sweeps, for the refs whose slots are kept.

\* A site to be swept: but for the refs to comp, every ref has its slots.
Ready(site, comp, b, C, want, R) ==
    /\ b \in Nat /\ IsDocuments(site, b) /\ comp \in DOMAIN site
    /\ \A d \in DOMAIN site : Owning(site[d].nodes, b, C, R)
    /\ \A d, e \in DOMAIN site : d # e => IdsOf(site[d].nodes) \intersect IdsOf(site[e].nodes) = {}
    /\ \A d \in DOMAIN site : \A r \in RefsIn(site[d].nodes, C) :
          site[d].nodes[r].componentId # comp =>
             SlotNames(site[d].nodes, r) = want[site[d].nodes[r].componentId]
    /\ comp \in C => want[comp] = OutletNames(site[comp]) /\ Refs(site[comp], comp) = {}

\* A document partway, between b and m; the refs in done have had their turn.
Partway(nodes, old, comp, b, m, C, want, R, done) ==
    /\ Owning(nodes, m, C, R)
    /\ IdsOf(nodes) \subseteq IdsOf(old) \union b..(m - 1)
    /\ \A x \in DOMAIN nodes \intersect DOMAIN old :
          nodes[x].moduleId = old[x].moduleId /\ nodes[x].componentId = old[x].componentId
    /\ RefsIn(nodes, C) \subseteq RefsIn(old, C)
    /\ \A r \in RefsIn(nodes, C) :
          /\ Held(nodes, r) \subseteq Held(old, r) \union b..(m - 1)
          /\ nodes[r].componentId # comp \/ r \in done => SlotNames(nodes, r) = want[nodes[r].componentId]

Underway(now, site, comp, b, C, want, R, done) ==
    /\ SweptTo(now, site, b)
    /\ \A d \in DOMAIN site : Partway(now.docs[d].nodes, site[d].nodes, comp, b, now.next, C, want, R, done)
    /\ \A d, e \in DOMAIN site : d # e => IdsOf(now.docs[d].nodes) \intersect IdsOf(now.docs[e].nodes) = {}
    /\ comp \in C => now.docs[comp] = site[comp]

LEMMA OwningLater ==
  ASSUME NEW n \in Nat, NEW m \in Nat, n <= m, NEW C, NEW R, NEW nodes, Owning(nodes, n, C, R)
  PROVE  Owning(nodes, m, C, R)
<1>1. Below(n) \subseteq Below(m) /\ 1..(n - 1) \subseteq 1..(m - 1)
  BY DEF Below
<1> QED BY <1>1 DEF Owning

\* A document another's turn leaves as it is.
LEMMA PartwayLater ==
  ASSUME NEW b \in Nat, NEW n \in Nat, NEW m \in Nat, b <= n, n <= m, NEW comp, NEW C, NEW want, NEW R, NEW done,
         NEW nodes, NEW old, Partway(nodes, old, comp, b, n, C, want, R, done),
         NEW ref, ref \notin DOMAIN nodes
  PROVE  Partway(nodes, old, comp, b, m, C, want, R, done \union {ref})
<1>1. b..(n - 1) \subseteq b..(m - 1)
  OBVIOUS
<1>2. Owning(nodes, m, C, R)
  BY OwningLater DEF Partway
<1>3. RefsIn(nodes, C) \subseteq DOMAIN nodes
  BY DEF RefsIn
<1> QED BY <1>1, <1>2, <1>3 DEF Partway

\* A ref's turn in its document.
Onward(new, nodes, old, ref, comp, b, n, m, C, want, R, done) ==
    /\ Partway(new, old, comp, b, m, C, want, R, done \union {ref})
    /\ IdsOf(new) \subseteq IdsOf(nodes) \union IdsOf(old) \union n..(m - 1)
    /\ ref \in DOMAIN nodes => IdsOf(new) \subseteq IdsOf(nodes) \union n..(m - 1)

LEMMA PartwayTurn ==
  ASSUME NEW b \in Nat, NEW n \in Nat, b <= n, NEW comp, NEW C, NEW want, NEW R, NEW done,
         NEW nodes, NEW old, Partway(nodes, old, comp, b, n, C, want, R, done),
         Lists(nodes), DOMAIN nodes \subseteq 1..(n - 1), \A id \in DOMAIN nodes : nodes[id] \in Node(n),
         Owning(old, b, C, R), Lists(old), DOMAIN old \subseteq 1..(b - 1),
         NEW ref \in DOMAIN old, old[ref].moduleId = "ref", old[ref].componentId = comp,
         NEW refNode, refNode = IF ref \in DOMAIN nodes THEN nodes[ref] ELSE old[ref],
         NEW names \in Seq(Name), IsInjective(names), comp \in C => want[comp] = names,
         NEW new, new = SyncSlotInstances(nodes, ref, refNode, names, n),
         NEW m, m = n + Len(names) + 1
  PROVE  Onward(new, nodes, old, ref, comp, b, n, m, C, want, R, done)
<1> DEFINE H == ToSet(refNode.children)
           fresh == (n + 1)..(n + Len(names))
<1>1. /\ Len(names) \in Nat /\ m \in Nat /\ n <= m /\ m = n + 1 + Len(names)
      /\ fresh \subseteq n..(m - 1) /\ fresh \subseteq b..(m - 1) /\ b..(n - 1) \subseteq b..(m - 1)
      /\ n..(m - 1) \subseteq b..(m - 1)
  OBVIOUS
<1>2. /\ Owning(nodes, n, C, R) /\ RefsIn(nodes, C) \subseteq RefsIn(old, C)
      /\ IdsOf(nodes) \subseteq IdsOf(old) \union b..(n - 1) /\ IdsOf(nodes) \subseteq Below(n) /\ IdsOf(old) \subseteq Below(b)
      /\ \A s \in RefsIn(nodes, C) : Own(nodes, s) /\ Own(old, s)
                                     /\ Held(nodes, s) \subseteq Held(old, s) \union b..(n - 1)
  BY DEF Partway, Owning
<1>3. ref \in 1..n /\ ref \in Nat /\ Below(b) \subseteq Below(n) /\ Below(b) \intersect b..(n - 1) = {}
      /\ Below(n) \intersect fresh = {} /\ DOMAIN old \intersect fresh = {}
  BY DEF Below
<1>4. ref \in DOMAIN nodes => nodes[ref].moduleId = "ref" /\ nodes[ref].componentId = comp
  BY DEF Partway
<1>5. /\ refNode.children \in Seq(Nat)
      /\ H = IF ref \in DOMAIN nodes THEN Held(nodes, ref) ELSE Held(old, ref)
      /\ H \subseteq Below(n)
      /\ H \subseteq IdsOf(nodes) \union IdsOf(old)
      /\ ref \in DOMAIN nodes => refNode.children = nodes[ref].children
  <2>1. CASE ref \in DOMAIN nodes
    <3>1. refNode = nodes[ref] /\ refNode.children \in Seq(Nat)
      BY <2>1 DEF Lists
    <3>2. H = Held(nodes, ref) /\ Held(nodes, ref) \subseteq IdsOf(nodes)
      BY <2>1, <3>1 DEF Held, IdsOf
    <3> QED BY <1>2, <2>1, <3>1, <3>2
  <2>2. CASE ref \notin DOMAIN nodes
    <3>1. refNode = old[ref] /\ refNode.children \in Seq(Nat)
      BY <2>2 DEF Lists
    <3>2. H = Held(old, ref) /\ Held(old, ref) \subseteq IdsOf(old)
      BY <3>1 DEF Held, IdsOf
    <3> QED BY <1>2, <1>3, <2>2, <3>1, <3>2
  <2> QED BY <2>1, <2>2
<1>6. \A s \in RefsIn(nodes, C) : s # ref => Held(nodes, s) \intersect H = {}
  <2> SUFFICES ASSUME NEW s \in RefsIn(nodes, C), s # ref PROVE Held(nodes, s) \intersect H = {}
    OBVIOUS
  <2>1. CASE ref \in DOMAIN nodes
    BY <1>2, <1>5, <2>1 DEF Own
  <2>2. CASE ref \notin DOMAIN nodes
    <3>1. Held(old, ref) \intersect Held(old, s) = {}
      BY <1>2 DEF Own
    <3>2. Held(old, ref) \subseteq Below(b)
      BY <1>2 DEF IdsOf
    <3> QED BY <1>2, <1>3, <1>5, <2>2, <3>1, <3>2
  <2> QED BY <2>1, <2>2
<1>7. Attuned(new, nodes, ref, H, names, n, C, R)
  <2>1. n <= n + 1
    OBVIOUS
  <2> QED BY <1>2, <1>3, <1>4, <1>5, <1>6, <2>1, SyncAttuned
<1> HIDE DEF H, fresh
<1>8. Owning(new, m, C, R) /\ RefsIn(new, C) \subseteq RefsIn(nodes, C) /\ IdsOf(new) \subseteq IdsOf(nodes) \union H \union fresh
  BY <1>1, <1>7 DEF Attuned, fresh
<1>9. RefsIn(new, C) \subseteq DOMAIN new /\ RefsIn(nodes, C) \subseteq DOMAIN nodes /\ RefsIn(new, C) \subseteq RefsIn(old, C)
      /\ RefsIn(old, C) \subseteq DOMAIN old
  BY <1>2, <1>8 DEF RefsIn
<1>10. IdsOf(new) \subseteq IdsOf(old) \union b..(m - 1)
  BY <1>1, <1>2, <1>5, <1>8
<1>11. ASSUME NEW x \in DOMAIN new \intersect DOMAIN old
       PROVE  new[x].moduleId = old[x].moduleId /\ new[x].componentId = old[x].componentId
  <2>1. x \in DOMAIN nodes /\ new[x].moduleId = nodes[x].moduleId /\ new[x].componentId = nodes[x].componentId
    BY <1>3, <1>7 DEF Attuned, fresh
  <2> QED BY <2>1 DEF Partway
<1>12. ASSUME NEW s \in RefsIn(new, C)
       PROVE  /\ Held(new, s) \subseteq Held(old, s) \union b..(m - 1)
              /\ new[s].componentId # comp \/ s \in done \union {ref} => SlotNames(new, s) = want[new[s].componentId]
  <2>0. s \in DOMAIN new /\ s \in DOMAIN nodes /\ s \in RefsIn(nodes, C) /\ s \in DOMAIN old
    BY <1>8, <1>9
  <2>1. CASE s = ref
    <3>1. SlotNames(new, ref) = names /\ Held(new, ref) \subseteq H \union fresh
      BY <1>7, <2>0, <2>1, <1>12 DEF Attuned, fresh
    <3>2. new[ref].componentId = comp
      BY <1>11, <2>0, <2>1
    <3>3. comp \in C
      BY <1>12, <2>1, <3>2 DEF RefsIn
    <3> QED BY <1>1, <1>2, <1>5, <2>0, <2>1, <3>1, <3>2, <3>3
  <2>2. CASE s # ref
    <3>1. new[s].children = nodes[s].children /\ SlotNames(new, s) = SlotNames(nodes, s)
      BY <1>7, <1>12, <2>2 DEF Attuned
    <3>2. Held(new, s) = Held(nodes, s)
      BY <3>1 DEF Held
    <3>3. new[s].componentId = nodes[s].componentId
      BY <1>11, <2>0 DEF Partway
    <3>4. nodes[s].componentId # comp \/ s \in done => SlotNames(nodes, s) = want[nodes[s].componentId]
      BY <2>0 DEF Partway
    <3> QED BY <1>1, <1>2, <2>0, <2>2, <3>1, <3>2, <3>3, <3>4
  <2> QED BY <2>1, <2>2
<1>13. Partway(new, old, comp, b, m, C, want, R, done \union {ref})
  BY <1>8, <1>9, <1>10, <1>11, <1>12 DEF Partway
<1>14. ref \in DOMAIN nodes => H \subseteq IdsOf(nodes)
  BY <1>5 DEF IdsOf
<1> QED BY <1>1, <1>5, <1>8, <1>13, <1>14 DEF Onward

\* A ref's turn in the site.
LEMMA SyncRefUnderway ==
  ASSUME NEW site, NEW comp, NEW b, NEW C, NEW want, NEW R, Ready(site, comp, b, C, want, R),
         NEW now, NEW done, Underway(now, site, comp, b, C, want, R, done),
         NEW x \in DOMAIN site, NEW ref \in Refs(site[x], comp)
  PROVE  Underway(SyncRef(now, site, comp, x, ref), site, comp, b, C, want, R, done \union {ref})
<1> DEFINE names == OutletNames(now.docs[comp])
           refNode == IF Has(now.docs[x], ref) THEN now.docs[x].nodes[ref] ELSE site[x].nodes[ref]
           n == now.next
           m == n + Len(names) + 1
           tree == now.docs[x]
           new == [tree EXCEPT !.nodes = SyncSlotInstances(tree.nodes, ref, refNode, names, n)]
           then == SyncRef(now, site, comp, x, ref)
<1>1. /\ b \in Nat /\ IsDocuments(site, b) /\ comp \in DOMAIN site /\ SweptTo(now, site, b)
      /\ ref \in DOMAIN site[x].nodes /\ site[x].nodes[ref].moduleId = "ref" /\ site[x].nodes[ref].componentId = comp
  BY DEF Ready, Underway, Refs, IsRefTo
<1>2. SweptTo(then, site, b) /\ then.next = m
  <2>1. SweptTo(then, site, b)
    BY <1>1, SyncRefIs
  <2>2. then.next = m
    BY DEF SyncRef
  <2> QED BY <2>1, <2>2
<1>3. n \in Nat /\ b <= n /\ IsDocuments(now.docs, n) /\ DOMAIN now.docs = DOMAIN site
  BY <1>1 DEF SweptTo, Alike
<1>4. /\ \A y \in DOMAIN site : IsDocument(now.docs[y], n) /\ IsDocument(site[y], b)
      /\ now.docs = [y \in DOMAIN site |-> now.docs[y]]
  <2> HIDE DEF n
  <2> QED BY <1>1, <1>3, DocumentsAre
<1>5. names \in Seq(Name) /\ IsInjective(names)
  <2> HIDE DEF n
  <2> QED BY <1>1, <1>3, <1>4, OutletNamesTyped, OutletNamesOnce
<1>6. new.nodes = SyncSlotInstances(tree.nodes, ref, refNode, names, n)
  <2> HIDE DEF names, refNode
  <2> QED BY <1>3, <1>4, SetNodes, DocumentIs
<1>7. \A y \in DOMAIN site : then.docs[y] = IF y = x THEN new ELSE now.docs[y]
  <2>1. then.docs = [now.docs EXCEPT ![x].nodes = SyncSlotInstances(@, ref, refNode, names, n)]
    BY DEF SyncRef
  <2> HIDE DEF then, names, refNode, n
  <2> QED BY <1>3, <1>4, <2>1
<1>8. refNode = IF ref \in DOMAIN tree.nodes THEN tree.nodes[ref] ELSE site[x].nodes[ref]
  BY DEF Has
<1>9. \A y \in DOMAIN site : Partway(now.docs[y].nodes, site[y].nodes, comp, b, n, C, want, R, done)
  BY DEF Underway
<1>10. m \in Nat /\ n <= m
  BY <1>3, <1>5
<1>11. comp \in C => want[comp] = names /\ x # comp
  BY DEF Ready, Underway
<1>12. /\ Lists(tree.nodes) /\ DOMAIN tree.nodes \subseteq 1..(n - 1) /\ \A id \in DOMAIN tree.nodes : tree.nodes[id] \in Node(n)
       /\ Lists(site[x].nodes) /\ DOMAIN site[x].nodes \subseteq 1..(b - 1)
  <2> HIDE DEF n
  <2> QED BY <1>1, <1>3, <1>4, DocumentLists DEF Sound
<1>13. Owning(site[x].nodes, b, C, R)
  BY DEF Ready
<1> DEFINE W == new.nodes
           N == tree.nodes
           O == site[x].nodes
<1>14. /\ Partway(W, O, comp, b, m, C, want, R, done \union {ref})
       /\ IdsOf(W) \subseteq IdsOf(N) \union IdsOf(O) \union n..(m - 1)
  <2>0. W = SyncSlotInstances(N, ref, refNode, names, n) /\ Partway(N, O, comp, b, n, C, want, R, done)
    BY <1>6, <1>9
  <2>1. m = n + Len(names) + 1 /\ (comp \in C => want[comp] = names)
        /\ refNode = IF ref \in DOMAIN N THEN N[ref] ELSE O[ref]
    BY <1>8, <1>11
  <2>2. /\ Lists(N) /\ DOMAIN N \subseteq 1..(n - 1) /\ (\A id \in DOMAIN N : N[id] \in Node(n))
        /\ Owning(O, b, C, R) /\ Lists(O) /\ DOMAIN O \subseteq 1..(b - 1)
        /\ ref \in DOMAIN O /\ O[ref].moduleId = "ref" /\ O[ref].componentId = comp
    BY <1>1, <1>12, <1>13
  <2> HIDE DEF W, N, O, m, n, refNode, names
  <2>3. Onward(W, N, O, ref, comp, b, n, m, C, want, R, done)
    BY <1>1, <1>3, <1>5, <2>0, <2>1, <2>2, PartwayTurn
  <2> QED BY <2>3 DEF Onward
<1>15. \A y \in DOMAIN site : IdsOf(now.docs[y].nodes) \subseteq IdsOf(site[y].nodes) \union b..(n - 1)
                              /\ IdsOf(now.docs[y].nodes) \subseteq Below(n)
                              /\ IdsOf(site[y].nodes) \subseteq Below(b)
  <2>1. \A y \in DOMAIN site : Owning(site[y].nodes, b, C, R)
    BY DEF Ready
  <2> QED BY <1>9, <2>1 DEF Partway, Owning
<1> HIDE DEF new, then, names, refNode, n, m, tree
<1>16. ASSUME NEW y \in DOMAIN site, y # x
       PROVE  /\ IdsOf(W) \intersect IdsOf(now.docs[y].nodes) = {}
              /\ Partway(now.docs[y].nodes, site[y].nodes, comp, b, m, C, want, R, done \union {ref})
  <2>1. IdsOf(N) \intersect IdsOf(now.docs[y].nodes) = {}
    BY <1>16 DEF Underway, tree
  <2>2. IdsOf(O) \intersect IdsOf(site[y].nodes) = {}
    BY <1>16 DEF Ready
  <2>3. /\ Below(n) \intersect n..(m - 1) = {} /\ Below(b) \intersect b..(n - 1) = {}
    BY <1>1, <1>3, <1>10 DEF Below
  <2>4. ref \notin DOMAIN now.docs[y].nodes
    <3>1. ref \in IdsOf(O) /\ ref \in Below(b)
      BY <1>1, <1>15 DEF IdsOf
    <3>2. ref \notin IdsOf(now.docs[y].nodes)
      BY <1>15, <2>2, <2>3, <3>1
    <3> QED BY <3>2 DEF IdsOf
  <2>5. Partway(now.docs[y].nodes, site[y].nodes, comp, b, m, C, want, R, done \union {ref})
    BY <1>1, <1>3, <1>9, <1>10, <2>4, PartwayLater
  <2> QED BY <1>14, <1>15, <2>1, <2>2, <2>3, <2>5
<1>17. \A d \in DOMAIN site : Partway(then.docs[d].nodes, site[d].nodes, comp, b, m, C, want, R, done \union {ref})
  BY <1>7, <1>14, <1>16
<1>18. \A d, e \in DOMAIN site : d # e => IdsOf(then.docs[d].nodes) \intersect IdsOf(then.docs[e].nodes) = {}
  <2> SUFFICES ASSUME NEW d \in DOMAIN site, NEW e \in DOMAIN site, d # e
               PROVE  IdsOf(then.docs[d].nodes) \intersect IdsOf(then.docs[e].nodes) = {}
    OBVIOUS
  <2>1. CASE d = x
    BY <1>7, <1>16, <2>1
  <2>2. CASE e = x
    BY <1>7, <1>16, <2>2
  <2>3. CASE d # x /\ e # x
    BY <1>7, <2>3 DEF Underway
  <2> QED BY <2>1, <2>2, <2>3
<1>19. comp \in C => then.docs[comp] = site[comp]
  BY <1>1, <1>7, <1>11 DEF Underway
<1> QED BY <1>2, <1>17, <1>18, <1>19 DEF Underway, then

\* The refs of one document, in turn.
LEMMA SyncRefsInUnderway ==
  ASSUME NEW site, NEW comp, NEW b, NEW C, NEW want, NEW R, Ready(site, comp, b, C, want, R),
         NEW now, NEW done, Underway(now, site, comp, b, C, want, R, done), NEW x \in DOMAIN site
  PROVE  Underway(SyncRefsIn(now, site, comp, x), site, comp, b, C, want, R, done \union Refs(site[x], comp))
<1> DEFINE refs == Ascending(Refs(site[x], comp))
           Had(k) == done \union {refs[i] : i \in 1..k}
<1>1. refs \in Seq(Refs(site[x], comp)) /\ ToSet(refs) = Refs(site[x], comp)
  <2> DEFINE c == b - 1
  <2>1. b \in Nat /\ IsDocument(site[x], b)
    BY DocumentsAre DEF Ready
  <2>2. DOMAIN site[x].nodes \subseteq 1..c
    BY <2>1, DocumentLists DEF Sound
  <2>3. c \in Int /\ Refs(site[x], comp) \subseteq 1..c
    BY <2>1, <2>2 DEF Refs
  <2> HIDE DEF c
  <2> QED BY <2>3, AscendingIs
<1>2. Len(refs) \in Nat /\ \A k \in 1..Len(refs) : refs[k] \in Refs(site[x], comp)
  <2> HIDE DEF refs
  <2> QED BY <1>1
<1>8. {refs[i] : i \in 1..Len(refs)} = Refs(site[x], comp)
  <2> HIDE DEF refs
  <2>1. DOMAIN refs = 1..Len(refs)
    BY <1>1
  <2> QED BY <1>1, <2>1 DEF ToSet
<1>3. PICK f : /\ f[0] = now
               /\ \A k \in 1..Len(refs) : f[k] = SyncRef(f[k - 1], site, comp, x, refs[k])
               /\ SyncRefsIn(now, site, comp, x) = f[Len(refs)]
  BY <1>2, RefTurns
<1> HIDE DEF refs
<1> DEFINE Good(k) == Underway(f[k], site, comp, b, C, want, R, Had(k))
<1>4. ASSUME NEW k \in 0..(Len(refs) - 1), Good(k) PROVE Good(k + 1)
  <2>1. k + 1 \in 1..Len(refs) /\ (k + 1) - 1 = k
    BY <1>2
  <2>2. f[k + 1] = SyncRef(f[k], site, comp, x, refs[k + 1]) /\ refs[k + 1] \in Refs(site[x], comp)
    BY <1>2, <1>3, <2>1
  <2>3. Had(k + 1) = Had(k) \union {refs[k + 1]}
    <3>1. 1..(k + 1) = 1..k \union {k + 1}
      BY <1>2
    <3> QED BY <3>1
  <2> HIDE DEF Had
  <2> QED BY <1>4, <2>2, <2>3, SyncRefUnderway
<1>5. Good(0)
  <2>1. Had(0) = done
    OBVIOUS
  <2> HIDE DEF Had
  <2> QED BY <1>3, <2>1
<1> DEFINE S == {k \in 0..Len(refs) : Good(k)}
<1>6. 0 \in S /\ (\A k \in 0..(Len(refs) - 1) : k \in S => k + 1 \in S) /\ Len(refs) \in 0..Len(refs)
  <2> HIDE DEF Good
  <2> QED BY <1>2, <1>4, <1>5
<1> HIDE DEF S
<1>7. Len(refs) \in S
  BY <1>2, <1>6, UpTo
<1> QED BY <1>3, <1>7, <1>8 DEF S

\* The documents, in turn.
LEMMA SyncAllRefsUnderway ==
  ASSUME NEW site, NEW comp, NEW b, NEW C, NEW want, NEW R, Ready(site, comp, b, C, want, R)
  PROVE  Underway(SyncAllRefs(site, comp, b), site, comp, b, C, want, R, UNION {Refs(site[d], comp) : d \in DOMAIN site})
<1> DEFINE ids == Ascending(DOMAIN site)
           Had(k) == UNION {Refs(site[ids[i]], comp) : i \in 1..k}
<1>1. b \in Nat /\ IsDocuments(site, b) /\ DOMAIN site \subseteq 1..(b - 1)
  BY DocumentsAre DEF Ready
<1>0. ids \in Seq(DOMAIN site) /\ ToSet(ids) = DOMAIN site
  <2> DEFINE c == b - 1
  <2>1. c \in Int /\ DOMAIN site \subseteq 1..c
    BY <1>1
  <2> HIDE DEF c
  <2> QED BY <2>1, AscendingIs
<1>2. Len(ids) \in Nat /\ \A k \in 1..Len(ids) : ids[k] \in DOMAIN site
  <2> HIDE DEF ids
  <2> QED BY <1>0
<1>9. {ids[i] : i \in 1..Len(ids)} = DOMAIN site
  <2> HIDE DEF ids
  <2>1. DOMAIN ids = 1..Len(ids)
    BY <1>0
  <2> QED BY <1>0, <2>1 DEF ToSet
<1>3. PICK f : /\ f[0] = [docs |-> site, next |-> b]
               /\ \A k \in 1..Len(ids) : f[k] = SyncRefsIn(f[k - 1], site, comp, ids[k])
               /\ SyncAllRefs(site, comp, b) = f[Len(ids)]
  BY <1>2, SiteTurns
<1> HIDE DEF ids
<1> DEFINE Good(k) == Underway(f[k], site, comp, b, C, want, R, Had(k))
<1>4. Good(0)
  <2>0. f[0].docs = site /\ f[0].next = b
    BY <1>3
  <2>1. SweptTo(f[0], site, b)
    BY <1>1, <2>0, AlikeSelf DEF SweptTo
  <2>2. Had(0) = {}
    OBVIOUS
  <2>3. ASSUME NEW d \in DOMAIN site
        PROVE  Partway(site[d].nodes, site[d].nodes, comp, b, b, C, want, R, {})
    BY DEF Ready, Partway
  <2> HIDE DEF Had
  <2> QED BY <2>0, <2>1, <2>2, <2>3 DEF Underway, Ready
<1>5. ASSUME NEW k \in 0..(Len(ids) - 1), Good(k) PROVE Good(k + 1)
  <2>1. k + 1 \in 1..Len(ids) /\ (k + 1) - 1 = k
    BY <1>2
  <2>2. f[k + 1] = SyncRefsIn(f[k], site, comp, ids[k + 1]) /\ ids[k + 1] \in DOMAIN site
    BY <1>2, <1>3, <2>1
  <2>3. Had(k + 1) = Had(k) \union Refs(site[ids[k + 1]], comp)
    <3>1. 1..(k + 1) = 1..k \union {k + 1}
      BY <1>2
    <3> QED BY <3>1
  <2> HIDE DEF Had
  <2> QED BY <1>5, <2>2, <2>3, SyncRefsInUnderway
<1> DEFINE S == {k \in 0..Len(ids) : Good(k)}
<1>6. 0 \in S /\ (\A k \in 0..(Len(ids) - 1) : k \in S => k + 1 \in S) /\ Len(ids) \in 0..Len(ids)
  <2> HIDE DEF Good
  <2> QED BY <1>2, <1>4, <1>5
<1> HIDE DEF S
<1>7. Len(ids) \in S
  BY <1>2, <1>6, UpTo
<1>8. Had(Len(ids)) = UNION {Refs(site[d], comp) : d \in DOMAIN site}
  <2>1. {Refs(site[ids[i]], comp) : i \in 1..Len(ids)} = {Refs(site[d], comp) : d \in DOMAIN site}
    BY <1>2, <1>9
  <2> QED BY <2>1
<1> QED BY <1>3, <1>7, <1>8 DEF S

\* What a sweep leaves: every ref with its slots.
Sorted(trees, site, comp, b, n, C, want, R) ==
    /\ n \in Nat /\ b <= n /\ DOMAIN trees = DOMAIN site
    /\ \A d \in DOMAIN site : /\ Fit(trees[d].nodes, n, C, want, R)
                              /\ RefsIn(trees[d].nodes, C) \subseteq RefsIn(site[d].nodes, C)
                              /\ IdsOf(trees[d].nodes) \subseteq IdsOf(site[d].nodes) \union b..(n - 1)
    /\ \A d, e \in DOMAIN site : d # e => IdsOf(trees[d].nodes) \intersect IdsOf(trees[e].nodes) = {}
    /\ comp \in C => trees[comp] = site[comp]

LEMMA SweepSorted ==
  ASSUME NEW site, NEW comp, NEW b, NEW C, NEW want, NEW R, Ready(site, comp, b, C, want, R)
  PROVE  Sorted(SyncAllRefs(site, comp, b).docs, site, comp, b, SyncAllRefs(site, comp, b).next, C, want, R)
<1> DEFINE now == SyncAllRefs(site, comp, b)
           done == UNION {Refs(site[d], comp) : d \in DOMAIN site}
<1>1. Underway(now, site, comp, b, C, want, R, done)
  BY SyncAllRefsUnderway
<1> HIDE DEF now
<1>2. now.next \in Nat /\ b <= now.next /\ DOMAIN now.docs = DOMAIN site
  BY <1>1 DEF Underway, SweptTo, Alike
<1>3. ASSUME NEW d \in DOMAIN site PROVE Calls(now.docs[d].nodes, C, want)
  <2> DEFINE N == now.docs[d].nodes
             O == site[d].nodes
  <2>1. Partway(N, O, comp, b, now.next, C, want, R, done)
    BY <1>1 DEF Underway
  <2>2. ASSUME NEW r \in RefsIn(N, C) PROVE SlotNames(N, r) = want[N[r].componentId]
    <3>1. r \in DOMAIN N /\ r \in DOMAIN O /\ O[r].moduleId = "ref" /\ O[r].componentId = N[r].componentId
      BY <2>1, <2>2 DEF Partway, RefsIn
    <3>2. N[r].componentId = comp => r \in done
      BY <3>1 DEF Refs, IsRefTo
    <3> QED BY <2>1, <2>2, <3>2 DEF Partway
  <2> QED BY <2>2 DEF Calls
<1> QED BY <1>1, <1>2, <1>3 DEF Underway, Partway, Sorted, Fit, now

-----------------------------------------------------------------------------
\* A site whose refs have their slots.

AllRefs(trees, C) == UNION {RefsIn(trees[d].nodes, C) : d \in DOMAIN trees}

\* Every ref to a component in C has slots for the outlets of which want says
\* the names; documents mention no id in common.
Slotted(trees, clip, n, C, want) ==
    /\ \A d \in DOMAIN trees : Fit(trees[d].nodes, n, C, want, AllRefs(trees, C))
    /\ \A d, e \in DOMAIN trees : d # e => IdsOf(trees[d].nodes) \intersect IdsOf(trees[e].nodes) = {}
    /\ Clip(clip.nodes, n, C, AllRefs(trees, C))

\* Of fewer components.
LEMMA SlottedFewer ==
  ASSUME NEW n \in Nat, NEW C, NEW want, NEW trees, NEW clip, Slotted(trees, clip, n, C, want),
         NEW D, D \subseteq C, NEW wish, \A c \in D : wish[c] = want[c]
  PROVE  Slotted(trees, clip, n, D, wish)
<1> DEFINE R == AllRefs(trees, C)
           S == AllRefs(trees, D)
<1>1. \A d \in DOMAIN trees : RefsIn(trees[d].nodes, D) \subseteq RefsIn(trees[d].nodes, C)
                              /\ RefsIn(trees[d].nodes, D) \subseteq DOMAIN trees[d].nodes
  BY DEF RefsIn
<1>2. S \subseteq R
  BY <1>1 DEF AllRefs
<1>3. ASSUME NEW d \in DOMAIN trees PROVE Fit(trees[d].nodes, n, D, wish, S)
  <2>1. Fit(trees[d].nodes, n, C, want, R)
    BY DEF Slotted
  <2>2. RefsIn(trees[d].nodes, D) \subseteq S
    BY DEF AllRefs
  <2>3. S \intersect DOMAIN trees[d].nodes \subseteq RefsIn(trees[d].nodes, D)
    <3> SUFFICES ASSUME NEW r \in S, r \in DOMAIN trees[d].nodes PROVE r \in RefsIn(trees[d].nodes, D)
      OBVIOUS
    <3>1. PICK e \in DOMAIN trees : r \in RefsIn(trees[e].nodes, D)
      BY DEF AllRefs
    <3>2. r \in IdsOf(trees[e].nodes) /\ r \in IdsOf(trees[d].nodes)
      BY <1>1, <3>1 DEF IdsOf
    <3>3. e = d
      BY <3>2 DEF Slotted
    <3> QED BY <3>1, <3>3
  <2>4. S \intersect DOMAIN trees[d].nodes = RefsIn(trees[d].nodes, D)
    BY <1>1, <2>2, <2>3
  <2> HIDE DEF R, S
  <2> QED BY <1>2, <2>1, <2>4, FitFewer
<1>4. Clip(clip.nodes, n, D, S)
  <2>1. Clip(clip.nodes, n, C, R) /\ n <= n /\ S \subseteq R \union n..(n - 1)
    BY <1>2 DEF Slotted
  <2> HIDE DEF R, S
  <2> QED BY <2>1, ClipLess
<1> QED BY <1>3, <1>4 DEF Slotted

\* One document is edited, with ids from n to m - 1.
LEMMA EditSlotted ==
  ASSUME NEW n \in Nat, n # 0, NEW m \in Nat, n <= m, NEW C, NEW want, NEW trees, NEW clip,
         Slotted(trees, clip, n, C, want), NEW d \in DOMAIN trees,
         NEW site, DOMAIN site = DOMAIN trees, \A e \in DOMAIN trees : e # d => site[e] = trees[e],
         Kept(site[d].nodes, trees[d].nodes, n, m, C, want, AllRefs(trees, C))
  PROVE  Slotted(site, clip, m, C, want)
<1> DEFINE R == AllRefs(trees, C)
           S == AllRefs(site, C)
           new == site[d].nodes
           old == trees[d].nodes
<1>1. /\ Fit(new, m, C, want, R \union RefsIn(new, C)) /\ IdsOf(new) \subseteq IdsOf(old) \union n..(m - 1)
      /\ RefsIn(new, C) \subseteq RefsIn(old, C) \union n..(m - 1)
  BY DEF Kept
<1>2. RefsIn(old, C) \subseteq R
  BY DEF AllRefs
<1>3. S \subseteq R \union RefsIn(new, C) /\ S \subseteq R \union n..(m - 1)
  <2>1. \A e \in DOMAIN trees : e # d => RefsIn(site[e].nodes, C) \subseteq R
    BY DEF AllRefs
  <2> QED BY <1>1, <1>2, <2>1 DEF AllRefs
<1>4. \A e \in DOMAIN site : RefsIn(site[e].nodes, C) \subseteq S
  BY DEF AllRefs
<1>5. \A e \in DOMAIN trees : IdsOf(trees[e].nodes) \subseteq Below(n) /\ Fit(trees[e].nodes, n, C, want, R)
  BY DEF Slotted, Fit, Owning
<1>6. Below(n) \intersect n..(m - 1) = {}
  BY DEF Below
<1>7. ASSUME NEW e \in DOMAIN site PROVE Fit(site[e].nodes, m, C, want, S)
  <2>1. CASE e = d
    <3> DEFINE T == R \union RefsIn(new, C)
    <3>1. Fit(new, m, C, want, T) /\ S \subseteq T \union m..(m - 1) /\ m <= m /\ m # 0 /\ RefsIn(new, C) \subseteq S
      BY <1>1, <1>3, <1>4
    <3> HIDE DEF T, S, R, new
    <3>2. Fit(new, m, C, want, S)
      BY <3>1, FitLess
    <3> QED BY <2>1, <3>2 DEF new
  <2>2. CASE e # d
    <3>1. Fit(site[e].nodes, n, C, want, R) /\ RefsIn(site[e].nodes, C) \subseteq S
      BY <1>4, <1>5, <2>2
    <3> HIDE DEF S, R
    <3> QED BY <1>3, <3>1, FitLess
  <2> QED BY <2>1, <2>2
<1>8. \A e, f \in DOMAIN site : e # f => IdsOf(site[e].nodes) \intersect IdsOf(site[f].nodes) = {}
  <2>1. \A e \in DOMAIN trees : e # d => IdsOf(new) \intersect IdsOf(trees[e].nodes) = {}
    BY <1>1, <1>5, <1>6 DEF Slotted
  <2> HIDE DEF new
  <2> QED BY <2>1 DEF Slotted, new
<1>9. Clip(clip.nodes, m, C, S)
  <2>1. Clip(clip.nodes, n, C, R)
    BY DEF Slotted
  <2> HIDE DEF R, S
  <2> QED BY <1>3, <2>1, ClipLess
<1> QED BY <1>7, <1>8, <1>9 DEF Slotted

\* Then every document is swept for comp.
LEMMA SweepSlotted ==
  ASSUME NEW n \in Nat, n # 0, NEW C, NEW want, NEW site, IsDocuments(site, n), NEW clip,
         Slotted(site, clip, n, C, want), NEW comp \in DOMAIN site,
         NEW wish, \A c \in C : c # comp => wish[c] = want[c],
         comp \in C => wish[comp] = OutletNames(site[comp]) /\ Refs(site[comp], comp) = {},
         NEW now, now = SyncAllRefs(site, comp, n)
  PROVE  Slotted(now.docs, clip, now.next, C, wish)
<1> DEFINE R == AllRefs(site, C)
           trees == now.docs
           m == now.next
           S == AllRefs(trees, C)
<1>1. \A d \in DOMAIN site : Fit(site[d].nodes, n, C, want, R)
  BY DEF Slotted
<1>2. Ready(site, comp, n, C, wish, R)
  <2>1. ASSUME NEW d \in DOMAIN site, NEW r \in RefsIn(site[d].nodes, C), site[d].nodes[r].componentId # comp
        PROVE  SlotNames(site[d].nodes, r) = wish[site[d].nodes[r].componentId]
    <3>1. site[d].nodes[r].componentId \in C
      BY DEF RefsIn
    <3> QED BY <1>1, <2>1, <3>1 DEF Fit, Calls
  <2> HIDE DEF R
  <2> QED BY <1>1, <2>1 DEF Ready, Fit, Slotted
<1> HIDE DEF R
<1>3. Sorted(trees, site, comp, n, m, C, wish, R)
  BY <1>2, SweepSorted
<1> HIDE DEF trees, m
<1>4. m \in Nat /\ n <= m /\ m # 0 /\ DOMAIN trees = DOMAIN site
  BY <1>3 DEF Sorted
<1>5. \A d \in DOMAIN trees : /\ Fit(trees[d].nodes, m, C, wish, R)
                              /\ RefsIn(trees[d].nodes, C) \subseteq RefsIn(site[d].nodes, C)
                              /\ RefsIn(trees[d].nodes, C) \subseteq S
  BY <1>3 DEF Sorted, AllRefs
<1>6. S \subseteq R
  BY <1>4, <1>5 DEF AllRefs, R
<1> HIDE DEF S
<1>7. ASSUME NEW d \in DOMAIN trees PROVE Fit(trees[d].nodes, m, C, wish, S)
  <2>1. S \subseteq R \union m..(m - 1) /\ m <= m
    BY <1>4, <1>6
  <2> QED BY <1>4, <1>5, <2>1, FitLess
<1>8. Clip(clip.nodes, m, C, S)
  <2>1. Clip(clip.nodes, n, C, R)
    BY DEF Slotted, R
  <2> QED BY <1>4, <1>6, <2>1, ClipLess
<1>9. \A d, e \in DOMAIN trees : d # e => IdsOf(trees[d].nodes) \intersect IdsOf(trees[e].nodes) = {}
  BY <1>3, <1>4 DEF Sorted
<1> QED BY <1>7, <1>8, <1>9 DEF Slotted, trees, m, S

-----------------------------------------------------------------------------
\* The invariant, and what an edit of the active tree keeps of it.

Wants(trees) == [c \in DOMAIN trees |-> OutletNames(trees[c])]

\* The components every ref to which has its slots.
Served == Component \ Hit("slots")

Slotful == Slotted(docs, clipboard, next, Served, Wants(docs))

\* What it says of the components still served after a step.
LEMMA SlotsNow ==
  ASSUME TypeOK, Slotful, NEW C, C \subseteq Served
  PROVE  Slotted(docs, clipboard, next, C, Wants(docs))
<1>1. next \in Nat
  BY TypesAre
<1> QED BY <1>1, SlottedFewer DEF Slotful

LEMMA ServedStay ==
  ASSUME known \subseteq known', Component' = Component
  PROVE  Served' \subseteq Served
  BY DEF Served, Hit

\* A component that a step has marked is served no more.
LEMMA NotServed ==
  ASSUME NEW c, <<"slots", c>> \in known'
  PROVE  c \notin Served'
<1> DEFINE k == <<"slots", c>>
<1>1. k \in known' /\ k[1] = "slots" /\ k[2] = c
  OBVIOUS
<1> HIDE DEF k
<1> QED BY <1>1 DEF Served, Hit

\* A commit adds no document and takes none away.
LEMMA CommitStays ==
  ASSUME TypeOK, NEW n \in Nat, next <= n, NEW tree, IsDocument(tree, n),
         NEW slips, Commit(tree, n, slips)
  PROVE  DOMAIN docs' = DOMAIN docs /\ known \subseteq known' /\ slips \subseteq known'
<1> DEFINE target == Target
           changed == target \in Component /\ OutletNames(docs[target]) # OutletNames(tree)
           site == [docs EXCEPT ![target] = tree]
           now == SyncAllRefs(site, target, n)
           swept == IF changed THEN now ELSE [docs |-> site, next |-> n]
<1>1. docs' = swept.docs /\ known \subseteq known' /\ slips \subseteq known'
  BY DEF Commit
<1>2. next \in Nat /\ target \in DOMAIN docs /\ IsDocuments(docs, n)
  BY TypesAre, TargetIs, DocumentsLater
<1> HIDE DEF target
<1>3. DOMAIN site = DOMAIN docs /\ IsDocuments(site, n)
  BY <1>2, DocumentsAre DEF IsDocuments
<1>4. CASE changed
  <2>1. SweptTo(now, site, n)
    BY <1>2, <1>3, SyncAllRefsIs
  <2>2. docs' = now.docs
    BY <1>1, <1>4
  <2> HIDE DEF now, site
  <2> QED BY <1>1, <1>3, <2>1, <2>2 DEF SweptTo, Alike
<1>5. CASE ~changed
  BY <1>1, <1>3, <1>5
<1> QED BY <1>1, <1>4, <1>5

\* mutateActiveTree: what the edit keeps, the sweep that may follow keeps too.
LEMMA CommitSlots ==
  ASSUME TypeOK, NEW n \in Nat, next <= n, NEW tree, IsDocument(tree, n),
         NEW slips, Commit(tree, n, slips), NEW C, C = Served', NEW clip,
         Slotted(docs, clip, next, C, Wants(docs)),
         Kept(tree.nodes, Tree.nodes, next, n, C, Wants(docs), AllRefs(docs, C))
  PROVE  Slotted(docs', clip, next', C, Wants(docs'))
<1> DEFINE target == Target
           changed == target \in Component /\ OutletNames(docs[target]) # OutletNames(tree)
           site == [docs EXCEPT ![target] = tree]
           now == SyncAllRefs(site, target, n)
           swept == IF changed THEN now ELSE [docs |-> site, next |-> n]
           lost == OutletsChanged(site, docs') \union {c \in {target} : NestedUse(site, c)}
           more == {<<"slots", c>> : c \in {c \in Component : changed /\ c \in lost}}
           want == Wants(docs)
           wish == Wants(docs')
<1>1. docs' = swept.docs /\ next' = swept.next /\ known' = known \union slips \union more
  BY DEF Commit
<1>2. /\ next \in Nat /\ IsDocuments(docs, next) /\ target \in DOMAIN docs /\ Tree = docs[target]
      /\ IsDocuments(docs, n) /\ next # 0 /\ n # 0
  <2>1. next \in Nat /\ IsDocuments(docs, next) /\ target \in DOMAIN docs /\ Tree = docs[target]
    BY TypesAre, TargetIs
  <2>2. IsDocuments(docs, n)
    BY <2>1, DocumentsLater
  <2>3. DOMAIN docs \subseteq 1..(next - 1)
    BY <2>1, DocumentsAre
  <2> QED BY <2>1, <2>2, <2>3
<1> HIDE DEF target
<1>3. /\ site = [d \in DOMAIN docs |-> IF d = target THEN tree ELSE docs[d]]
      /\ DOMAIN site = DOMAIN docs /\ site[target] = tree /\ \A d \in DOMAIN docs : d # target => site[d] = docs[d]
  BY <1>2, DocumentsAre
<1>4. IsDocuments(site, n)
  BY <1>2, <1>3, DocumentsAre DEF IsDocuments
<1>5. Slotted(site, clip, n, C, want)
  <2>1. /\ Kept(site[target].nodes, docs[target].nodes, next, n, C, want, AllRefs(docs, C))
        /\ DOMAIN site = DOMAIN docs /\ \A e \in DOMAIN docs : e # target => site[e] = docs[e]
    BY <1>2, <1>3
  <2> HIDE DEF site, want
  <2> QED BY <1>2, <2>1, EditSlotted DEF want
<1>6. DOMAIN docs' = DOMAIN docs
  BY CommitStays
<1>7. C \subseteq Component /\ \A c \in C : c \in DOMAIN docs /\ want[c] = OutletNames(docs[c]) /\ wish[c] = OutletNames(docs'[c])
  BY <1>6 DEF Served, Component, Wants
<1>8. ASSUME changed, NEW c \in C PROVE c \notin lost
  <2> SUFFICES ASSUME c \in lost PROVE FALSE
    OBVIOUS
  <2>1. <<"slots", c>> \in more
    BY <1>7, <1>8
  <2> HIDE DEF more
  <2>2. <<"slots", c>> \in known'
    BY <1>1, <2>1
  <2> QED BY <2>2, NotServed
<1> HIDE DEF more, want, wish
<1>9. CASE ~changed
  <2>1. docs' = site /\ next' = n
    BY <1>1, <1>9
  <2>2. \A c \in C : wish[c] = want[c]
    BY <1>3, <1>7, <1>9, <2>1
  <2> HIDE DEF site
  <2> QED BY <1>5, <2>1, <2>2, SlottedFewer DEF wish
<1>10. CASE changed
  <2>1. docs' = now.docs /\ next' = now.next /\ target \in DOMAIN site
    BY <1>1, <1>2, <1>3, <1>10
  <2>2. ASSUME NEW c \in C PROVE OutletNames(docs'[c]) = OutletNames(site[c])
    <3>1. c \in (DOMAIN site \intersect DOMAIN docs') \ Page
      BY <1>3, <1>6, <1>7 DEF Component
    <3>2. c \notin OutletsChanged(site, docs')
      BY <1>8, <1>10
    <3> HIDE DEF site
    <3> QED BY <3>1, <3>2 DEF OutletsChanged
  <2>3. \A c \in C : c # target => wish[c] = want[c]
    BY <1>3, <1>7, <2>2
  <2>4. target \in C => wish[target] = OutletNames(site[target]) /\ Refs(site[target], target) = {}
    <3>1. target \in C => ~NestedUse(site, target)
      BY <1>8, <1>10
    <3> HIDE DEF site
    <3> QED BY <1>7, <2>2, <3>1 DEF NestedUse
  <2> HIDE DEF site, changed
  <2>5. Slotted(now.docs, clip, now.next, C, wish)
    <3> DEFINE v == now
    <3>1. v = SyncAllRefs(site, target, n)
      OBVIOUS
    <3> HIDE DEF v, now
    <3>2. Slotted(v.docs, clip, v.next, C, wish)
      BY <1>2, <1>4, <1>5, <2>1, <2>3, <2>4, <3>1, SweepSlotted
    <3> QED BY <3>2 DEF v, now
  <2> QED BY <2>1, <2>5 DEF wish
<1> QED BY <1>9, <1>10

\* Edits of the active tree that leave the clipboard alone.
LEMMA CommitFills ==
  ASSUME TypeOK, Slotful, NEW n \in Nat, next <= n, NEW tree, IsDocument(tree, n),
         NEW slips, Commit(tree, n, slips), clipboard' = clipboard,
         NEW C, C = Served',
         \A want, R : Fit(Tree.nodes, next, C, want, R) /\ want = Wants(docs) /\ R = AllRefs(docs, C)
                         => Kept(tree.nodes, Tree.nodes, next, n, C, want, R)
  PROVE  Slotful'
<1>1. DOMAIN docs' = DOMAIN docs /\ known \subseteq known' /\ Target \in DOMAIN docs /\ Tree = docs[Target]
  BY TargetIs, CommitStays
<1>2. C \subseteq Served
  BY <1>1, ServedStay DEF Component
<1>3. Slotted(docs, clipboard, next, C, Wants(docs))
  BY <1>2, SlotsNow
<1>4. Fit(Tree.nodes, next, C, Wants(docs), AllRefs(docs, C))
  BY <1>1, <1>3 DEF Slotted
<1>5. Kept(tree.nodes, Tree.nodes, next, n, C, Wants(docs), AllRefs(docs, C))
  BY <1>4
<1>6. Slotted(docs', clipboard, next', C, Wants(docs'))
  BY <1>3, <1>5, CommitSlots
<1> QED BY <1>6 DEF Slotful

-----------------------------------------------------------------------------
\* The actions on the active tree, and the slots.

\* Nothing selected is a slot of a ref that still counts: its component would
\* have been marked.
LEMMA SelectedFree ==
  ASSUME TypeOK, NEW ids, SlotSlips(ids) \subseteq known', NEW C, C = Served',
         NEW want, NEW R, Fit(Tree.nodes, next, C, want, R), NEW id \in ToSet(ids)
  PROVE  Parent(Tree, id) \notin R
<1>1. next \in Nat /\ IsDocument(Tree, next)
  BY TypesAre, TargetIs
<1>2. CASE id \in DOMAIN Tree.nodes => Tree.nodes[id].moduleId # "slot-instance"
  BY <1>1, <1>2, ParentFree
<1>3. CASE id \in DOMAIN Tree.nodes /\ Tree.nodes[id].moduleId = "slot-instance"
  <2> DEFINE p == Parent(Tree, id)
             c == Tree.nodes[p].componentId
  <2> SUFFICES ASSUME p \in R PROVE FALSE
    OBVIOUS
  <2>1. Tidy(Tree, next, C, R) /\ Lists(Tree.nodes)
    BY <1>1, FitIs, DocumentLists
  <2>2. p # Null /\ p \in DOMAIN Tree.nodes
    BY <2>1, ParentIs DEF Tidy
  <2>3. <<"slots", c>> \in SlotSlips(ids)
    BY <1>3, <2>2 DEF SlotSlips
  <2>4. c \in C
    BY <2>1, <2>2 DEF Tidy
  <2>5. <<"slots", c>> \in known'
    BY <2>3
  <2> HIDE DEF c
  <2> QED BY <2>4, <2>5, NotServed
<1> QED BY <1>2, <1>3

\* insertModule.
LEMMA InsertModuleSlots ==
  ASSUME Inv, Slotful, NEW target \in Ids, NEW module \in Module, InsertModule(target, module)
  PROVE  Slotful'
<1> DEFINE to == InsertLocation(Tree, target)
           node == [NewNode(module) EXCEPT
                       !.slotName = IF module = "slot-outlet" THEN "children" ELSE ""]
           new == InsertNode(Tree, next, node, to.parentId, to.index)
           m == next + 1
           none == {}
           C == Served'
<1>1. to.parentId # Null /\ Commit(new, m, none) /\ clipboard' = clipboard
  BY DEF InsertModule
<1>2. TypeOK /\ next \in Nat /\ IsDocument(Tree, next) /\ target \in DOMAIN Tree.nodes
  BY TypesAre, TargetIs DEF Inv, Ids
<1>3. to.parentId \in DOMAIN Tree.nodes /\ to.index \in Int
  <2>1. to \in Place(Tree)
    BY <1>2, InsertLocationIs
  <2> QED BY <1>1, <2>1 DEF Place
<1>5. m \in Nat /\ next < m /\ next <= m
  BY <1>2
<1>6. node \in Node(m) /\ node.children = <<>> /\ node.moduleId = module
  <2> DEFINE root == Tree.rootNodeId
  <2>1. m # 0 /\ module \in Module \union {"body", "ref", "slot-instance"}
    BY <1>2
  <2>2. NodeOK(NewNode(module), root, m)
    BY <1>5, <2>1, NewNodeOK
  <2> QED BY <2>2, NameAssumption DEF NodeOK, Node, NewNode, Module
<1>4. node.moduleId # "ref"
  BY <1>6 DEF Module
<1>7. ASSUME NEW want, NEW R, Fit(Tree.nodes, next, C, want, R) PROVE to.parentId \notin R
  <2> HIDE DEF C
  <2> QED BY <1>2, <1>7, InsertLocationFree
<1> HIDE DEF to, node
<1>8. ASSUME NEW want, NEW R, Fit(Tree.nodes, next, C, want, R)
      PROVE  Kept(new.nodes, Tree.nodes, next, m, C, want, R)
  <2>1. to.parentId \notin R
    BY <1>7, <1>8
  <2> HIDE DEF C
  <2> QED BY <1>2, <1>3, <1>4, <1>6, <1>8, <2>1, InsertNodeKept
<1> HIDE DEF m
<1>9. IsDocument(new, m)
  <2>1. Grows(new, Tree, m, UsedBy(node), {id \in {next} : node.moduleId = "outlet"})
    BY <1>2, <1>3, <1>5, <1>6, InsertNodeIs
  <2> QED BY <2>1 DEF Grows
<1> HIDE DEF new, none
<1> QED BY <1>1, <1>2, <1>5, <1>8, <1>9, CommitFills

\* deleteNodes.
LEMMA DeleteNodesSlots ==
  ASSUME Inv, Slotful, NEW ids \in Selection, DeleteNodes(ids)
  PROVE  Slotful'
<1> DEFINE list == Keep(ids, Ids \ {Tree.rootNodeId})
           gone == DeleteSubtrees(Tree, list)
           slips == SlotSlips(ids)
           C == Served'
<1>1. Commit(gone, next, slips) /\ clipboard' = clipboard
  BY DEF DeleteNodes
<1>2. TypeOK /\ next \in Nat /\ next <= next /\ IsDocument(Tree, next)
  BY TypesAre, TargetIs DEF Inv
<1>3. list \in Seq(Nat) /\ Tree.rootNodeId \notin ToSet(list) /\ ToSet(list) \subseteq ToSet(ids)
  BY <1>2, SelectedIs
<1> HIDE DEF list
<1>4. IsDocument(gone, next)
  <2>1. Removed(gone, Tree, next, ToSet(list))
    BY <1>2, <1>3, DeleteSubtreesIs
  <2> QED BY <2>1 DEF Removed, Like, Grows
<1>5. slips \subseteq known'
  BY <1>1, <1>2, <1>4, CommitStays
<1>6. ASSUME NEW want, NEW R, Fit(Tree.nodes, next, C, want, R)
      PROVE  Kept(gone.nodes, Tree.nodes, next, next, C, want, R)
  <2>1. \A id \in ToSet(list) : Parent(Tree, id) \notin R
    BY <1>2, <1>3, <1>5, <1>6, SelectedFree
  <2> HIDE DEF C
  <2>2. Trim(gone.nodes, Tree.nodes, next, next, C, want, R)
    BY <1>2, <1>3, <1>6, <2>1, DeleteSubtreesTrim
  <2> QED BY <1>6, <2>2, TrimKept
<1> HIDE DEF gone, slips
<1> QED BY <1>1, <1>2, <1>4, <1>6, CommitFills

\* duplicateNodes.
LEMMA DuplicateNodesSlots ==
  ASSUME Inv, Slotful, NEW ids \in Selection, DuplicateNodes(ids)
  PROVE  Slotful'
<1> DEFINE list == Keep(ids, {id \in Ids : id # Tree.rootNodeId /\ ~SubtreeHasOutlet(Tree, id)})
           done == DuplicateAll(Tree, list, next)
           slips == SlotSlips(ids)
           m == done.next
           new == done.tree
           C == Served'
<1>1. Commit(new, m, slips) /\ clipboard' = clipboard
  BY DEF DuplicateNodes
<1>2. TypeOK /\ next \in Nat /\ IsDocument(Tree, next)
  BY TypesAre, TargetIs DEF Inv
<1>3. /\ list \in Seq(DOMAIN Tree.nodes) /\ ToSet(list) \subseteq ToSet(ids)
      /\ \A id \in ToSet(list) : id # Tree.rootNodeId /\ ~SubtreeHasOutlet(Tree, id)
  BY <1>2, SelectedIs DEF Ids
<1> HIDE DEF list
<1>4. m \in Nat /\ next <= m /\ Like(new, Tree, m)
  BY <1>2, <1>3, DuplicateAllIs
<1>6. IsDocument(new, m)
  BY <1>4 DEF Like, Grows
<1>5. slips \subseteq known'
  <2> HIDE DEF new, m, slips
  <2> QED BY <1>1, <1>2, <1>4, <1>6, CommitStays
<1>7. ASSUME NEW want, NEW R, Fit(Tree.nodes, next, C, want, R)
      PROVE  Kept(new.nodes, Tree.nodes, next, m, C, want, R)
  <2>1. \A id \in ToSet(list) : Parent(Tree, id) \notin R
    BY <1>2, <1>3, <1>5, <1>7, SelectedFree
  <2>2. \A id \in ToSet(list) : id # Tree.rootNodeId /\ ~SubtreeHasOutlet(Tree, id) /\ Parent(Tree, id) \notin R
    BY <1>3, <2>1
  <2> HIDE DEF C
  <2>3. Doubled(new.nodes, Tree.nodes, next, m, C, want, R)
    BY <1>2, <1>3, <1>7, <2>2, DuplicateAllDoubled
  <2> QED BY <2>3 DEF Doubled
<1> HIDE DEF m, new, done, slips
<1> QED BY <1>1, <1>2, <1>4, <1>6, <1>7, CommitFills

\* wrapNodes.
LEMMA WrapSlots ==
  ASSUME Inv, Slotful, NEW ids \in Selection, Wrap(ids)
  PROVE  Slotful'
<1> DEFINE new == WrapNodes(Tree, ids, next)
           above == ClosestCommonAncestor(Tree, TopLevel(Tree, ids))
           refs == {<<"slots", Tree.nodes[a].componentId>> :
                       a \in {a \in Ids : a = above /\ Tree.nodes[a].moduleId = "ref"}}
           slips == SlotSlips(ids) \union refs
           m == next + 1
           C == Served'
<1>1. CanWrap(Tree, ids) /\ Commit(new, m, slips) /\ clipboard' = clipboard
  BY DEF Wrap
<1>2. TypeOK /\ next \in Nat /\ IsDocument(Tree, next)
  BY TypesAre, TargetIs DEF Inv
<1>3. ids \in Seq(Nat) /\ ids # <<>> /\ Tree.rootNodeId \notin ToSet(ids)
  BY <1>1, <1>2, SelectionIs DEF CanWrap
<1>4. m \in Nat /\ next < m /\ next <= m
  BY <1>2
<1>6. IsDocument(new, m)
  <2>1. Like(new, Tree, m)
    BY <1>1, <1>2, <1>3, <1>4, WrapNodesIs
  <2> QED BY <2>1 DEF Like, Grows
<1>5. SlotSlips(ids) \subseteq known' /\ refs \subseteq known'
  <2>1. slips \subseteq known'
    <3> HIDE DEF m, slips, new
    <3> QED BY <1>1, <1>2, <1>4, <1>6, CommitStays
  <2> QED BY <2>1
<1>7. ASSUME NEW want, NEW R, Fit(Tree.nodes, next, C, want, R), Len(ids) # 1 PROVE above \notin R
  <2> SUFFICES ASSUME above \in R PROVE FALSE
    OBVIOUS
  <2>0. Tidy(Tree, next, C, R)
    <3> HIDE DEF C
    <3> QED BY <1>2, <1>7, FitIs
  <2>1. above \in DOMAIN Tree.nodes
    <3>1. Null \notin R /\ Lists(Tree.nodes)
      BY <2>0 DEF Tidy
    <3>2. TopLevel(Tree, ids) \in Seq(Nat)
      BY <1>3, <3>1, TopLevelIs
    <3> QED BY <3>1, <3>2, ClosestIs
  <2>2. Tree.nodes[above].moduleId = "ref" /\ Tree.nodes[above].componentId \in C
    BY <2>0, <2>1 DEF Tidy
  <2> DEFINE c == Tree.nodes[above].componentId
  <2>3. <<"slots", c>> \in refs
    BY <2>1, <2>2 DEF Ids
  <2>4. <<"slots", c>> \in known'
    BY <1>5, <2>3
  <2>5. c \in C
    BY <2>2
  <2> HIDE DEF c
  <2> QED BY <2>4, <2>5, NotServed
<1>8. ASSUME NEW want, NEW R, Fit(Tree.nodes, next, C, want, R)
      PROVE  Kept(new.nodes, Tree.nodes, next, m, C, want, R)
  <2>1. Len(ids) = 1 => Parent(Tree, ids[1]) \notin R
    <3>1. ids[1] \in ToSet(ids)
      BY <1>3 DEF ToSet
    <3> QED BY <1>2, <1>5, <1>8, <3>1, SelectedFree
  <2>2. Len(ids) # 1 => above \notin R
    BY <1>7, <1>8
  <2> HIDE DEF C
  <2>3. Calm(new.nodes, Tree.nodes, next, m, C, R)
    BY <1>1, <1>2, <1>3, <1>8, <2>1, <2>2, WrapNodesCalm
  <2> HIDE DEF m, new
  <2> QED BY <1>2, <1>4, <1>8, <2>3, CalmKept
<1> HIDE DEF m, slips, new
<1> QED BY <1>1, <1>2, <1>4, <1>6, <1>8, CommitFills

\* moveNodes.
LEMMA DropSlots ==
  ASSUME Inv, Slotful, NEW ids \in Selection, NEW dragged, NEW over \in Ids, NEW zone \in Zone,
         Drop(ids, dragged, over, zone)
  PROVE  Slotful'
<1> DEFINE to == ResolveDropTarget(Tree, dragged, ids, over, zone)
           new == MoveNodes(Tree, ids, to.parentId, to.index)
           slips == {}
           C == Served'
<1>1. to # Nowhere /\ CanMove(Tree, ids, to.parentId) /\ Commit(new, next, slips) /\ clipboard' = clipboard
  BY DEF Drop
<1>2. TypeOK /\ next \in Nat /\ next <= next /\ IsDocument(Tree, next)
  BY TypesAre, TargetIs DEF Inv
<1>3. ids \in Seq(Nat)
  BY <1>2, SelectionIs
<1>4. zone \in {"before", "after", "inside"} /\ over \in DOMAIN Tree.nodes
  BY NameAssumption DEF Ids
<1>5. /\ to.parentId \in DOMAIN Tree.nodes
      /\ to.index \in Int
      /\ Tree.rootNodeId \notin ToSet(ids)
  BY <1>1, <1>2, <1>3, <1>4, DropTargetIs
<1>6. ASSUME NEW want, NEW R, Fit(Tree.nodes, next, C, want, R)
      PROVE  to.parentId \notin R /\ \A id \in ToSet(ids) : Has(Tree, id) /\ ~Tree.nodes[id].locked
  <2> HIDE DEF C
  <2> QED BY <1>1, <1>2, <1>3, <1>4, <1>6, DropTargetFree
<1> HIDE DEF to
<1>7. IsDocument(new, next)
  <2>1. Like(new, Tree, next)
    BY <1>2, <1>3, <1>5, MoveNodesIs
  <2> QED BY <2>1 DEF Like, Grows
<1>8. ASSUME NEW want, NEW R, Fit(Tree.nodes, next, C, want, R)
      PROVE  Kept(new.nodes, Tree.nodes, next, next, C, want, R)
  <2>1. to.parentId \notin R /\ \A id \in ToSet(ids) : Has(Tree, id) /\ ~Tree.nodes[id].locked
    BY <1>6, <1>8
  <2> HIDE DEF C
  <2>2. Calm(new.nodes, Tree.nodes, next, next, C, R)
    BY <1>2, <1>3, <1>5, <1>8, <2>1, MoveNodesCalm
  <2> HIDE DEF new
  <2> QED BY <1>2, <1>8, <2>2, CalmKept
<1> HIDE DEF new, slips
<1> QED BY <1>1, <1>2, <1>7, <1>8, CommitFills

\* updateNodeProps of an outlet, and the sweep after it.
LEMMA RenameOutletSlots ==
  ASSUME Inv, Slotful, NEW id \in Ids, NEW name \in SlotName, RenameOutlet(id, name)
  PROVE  Slotful'
<1> DEFINE new == [Tree EXCEPT !.nodes[id].slotName = name]
           slips == {}
           C == Served'
<1>1. Commit(new, next, slips) /\ clipboard' = clipboard /\ Tree.nodes[id].moduleId = "slot-outlet"
  BY DEF RenameOutlet
<1>2. TypeOK /\ next \in Nat /\ next <= next /\ IsDocument(Tree, next) /\ id \in DOMAIN Tree.nodes
  BY TypesAre, TargetIs DEF Inv, Ids
<1>3. IsDocument(new, next)
  <2>1. Like(new, Tree, next)
    BY <1>2, RenamedIs
  <2> QED BY <2>1 DEF Like, Grows
<1>4. ASSUME NEW want, NEW R, Fit(Tree.nodes, next, C, want, R)
      PROVE  Kept(new.nodes, Tree.nodes, next, next, C, want, R)
  <2> HIDE DEF C
  <2>2. Calm(new.nodes, Tree.nodes, next, next, C, R)
    BY <1>1, <1>2, <1>4, RenamedCalm
  <2> HIDE DEF new
  <2> QED BY <1>2, <1>4, <2>2, CalmKept
<1> HIDE DEF new, slips
<1> QED BY <1>1, <1>2, <1>3, <1>4, CommitFills

\* A new ref has its slots at once.
LEMMA InsertComponentRefSlots ==
  ASSUME Inv, Slotful, NEW target \in Ids, NEW comp \in Component, InsertComponentRef(target, comp)
  PROVE  Slotful'
<1> DEFINE to == InsertLocation(Tree, target)
           node == [NewNode("ref") EXCEPT !.componentId = comp, !.parentId = to.parentId]
           names == OutletNames(docs[comp])
           placed == InsertNode(Tree, next, node, to.parentId, to.index)
           synced == SyncSlotInstances(placed.nodes, next, node, names, next)
           new == [placed EXCEPT !.nodes = synced]
           m == next + 1 + Len(names)
           b == next + 1
           slips == {<<"cycle", Target>> : h \in
                        {h \in {Target} : h \in Component /\ WouldCreateCycle(docs, h, comp)}}
           C == Served'
<1>1. to.parentId # Null /\ Commit(new, m, slips) /\ clipboard' = clipboard
  BY DEF InsertComponentRef
<1>2. /\ TypeOK /\ next \in Nat /\ IsDocument(Tree, next) /\ IsDocument(docs[comp], next)
      /\ comp \in 0..(next - 1) /\ comp \notin Page /\ target \in DOMAIN Tree.nodes /\ comp \in DOMAIN docs
  BY TypesAre, TargetIs, DocumentsAre DEF Inv, Component, Ids
<1>3. to.parentId \in DOMAIN Tree.nodes /\ to.index \in Int /\ to.parentId \in Nat
  <2>1. to \in Place(Tree)
    BY <1>2, InsertLocationIs
  <2>2. to.parentId \in DOMAIN Tree.nodes /\ to.index \in Int
    BY <1>1, <2>1 DEF Place
  <2> HIDE DEF to
  <2> QED BY <1>2, <2>2, DocumentLists
<1>4. ASSUME NEW want, NEW R, Fit(Tree.nodes, next, C, want, R) PROVE to.parentId \notin R
  <2> HIDE DEF C
  <2> QED BY <1>2, <1>4, InsertLocationFree
<1>5. names \in Seq(Name) /\ IsInjective(names)
  BY <1>2, OutletNamesTyped, OutletNamesOnce
<1>13. Wants(docs)[comp] = names
  BY <1>2 DEF Wants
<1> HIDE DEF to, names
<1>6. Len(names) \in Nat
  BY <1>5
<1>7. /\ b \in Nat /\ next < b /\ b <= next + 1 /\ m = next + 1 + Len(names)
      /\ m \in Nat /\ next <= m /\ b <= m
  BY <1>2, <1>6
<1>8. /\ node \in Node(b) /\ node.children = <<>> /\ node.moduleId = "ref" /\ node.componentId = comp
  <2> DEFINE root == Tree.rootNodeId
  <2>1. b # 0 /\ "ref" \in Module \union {"body", "ref", "slot-instance"}
    BY <1>2
  <2>2. NodeOK(NewNode("ref"), root, b)
    BY <1>7, <2>1, NewNodeOK
  <2>3. comp \in (0..(b - 1)) \ Page
    BY <1>2
  <2> QED BY <1>3, <2>2, <2>3 DEF NodeOK, Node, NewNode
<1> HIDE DEF node, m, slips
<1>10. IsDocument(placed, b)
  <2>1. Grows(placed, Tree, b, UsedBy(node), {id \in {next} : node.moduleId = "outlet"})
    BY <1>2, <1>3, <1>7, <1>8, InsertNodeIs
  <2> QED BY <2>1 DEF Grows
<1>9. new.nodes = synced
  <2> HIDE DEF placed, synced
  <2>1. placed = [rootNodeId |-> placed.rootNodeId, nodes |-> placed.nodes]
    BY <1>7, <1>10, DocumentIs
  <2> QED BY <2>1, SetNodes
<1>11. ASSUME NEW want, NEW R, Fit(Tree.nodes, next, C, want, R), want = Wants(docs)
       PROVE  Kept(synced, Tree.nodes, next, m, C, want, R)
  <2>1. node \in Node(next + 1) /\ IsDocument(placed, next + 1) /\ m = next + 1 + Len(names)
    BY <1>7, <1>8, <1>10
  <2>2. to.parentId \notin R /\ (node.componentId \in C => want[node.componentId] = names)
    BY <1>4, <1>8, <1>11, <1>13
  <2> DEFINE P == placed
             k == next + 1 + Len(names)
  <2>3. P = InsertNode(Tree, next, node, to.parentId, to.index) /\ IsDocument(P, next + 1)
    BY <2>1
  <2> HIDE DEF b, C, P
  <2>4. Kept(SyncSlotInstances(P.nodes, next, node, names, next), Tree.nodes, next, k, C, want, R)
    BY <1>2, <1>3, <1>5, <1>8, <1>11, <2>1, <2>2, <2>3, RefKept
  <2> QED BY <2>1, <2>4 DEF P
<1> HIDE DEF b, placed
<1>12. IsDocument(new, m)
  <2> DEFINE root == placed.rootNodeId
  <2>1. Sound(placed.nodes, root, b)
    BY <1>7, <1>10, DocumentLists
  <2>2. NodeOK(node, root, b)
    BY <1>8 DEF NodeOK, ToSet
  <2> HIDE DEF root, synced
  <2>3. Synced(synced, placed.nodes, root, m)
    BY <1>2, <1>5, <1>7, <2>1, <2>2, SyncSlotInstancesIs DEF synced
  <2>4. Like(new, placed, m)
    BY <1>7, <1>10, <2>3, LikeNodes DEF Synced, root
  <2> QED BY <2>4 DEF Like, Grows
<1> HIDE DEF synced
<1>14. ASSUME NEW want, NEW R, Fit(Tree.nodes, next, C, want, R), want = Wants(docs)
       PROVE  Kept(new.nodes, Tree.nodes, next, m, C, want, R)
  BY <1>9, <1>11, <1>14
<1> HIDE DEF new
<1> QED BY <1>1, <1>2, <1>7, <1>12, <1>14, CommitFills

\* What is copied is with its slots.
LEMMA CopiedSlots ==
  ASSUME TypeOK, NEW ids \in Selection, NEW C, Slotted(docs, clipboard, next, C, Wants(docs))
  PROVE  Slotted(docs, Snapshot(Tree, Copied(ids)), next, C, Wants(docs))
<1> DEFINE list == Copied(ids)
           R == AllRefs(docs, C)
           want == Wants(docs)
<1>1. next \in Nat /\ IsDocument(Tree, next) /\ Target \in DOMAIN docs /\ Tree = docs[Target]
  BY TypesAre, TargetIs
<1>2. list \in Seq(DOMAIN Tree.nodes)
  BY CopiedIs DEF Ids
<1>3. Fit(Tree.nodes, next, C, want, R)
  BY <1>1 DEF Slotted
<1> HIDE DEF list, R, want
<1>4. Clip(Snapshot(Tree, list).nodes, next, C, R)
  BY <1>1, <1>2, <1>3, SnapshotClip
<1> QED BY <1>4 DEF Slotted, list, R

\* copyNodes.
LEMMA CopyNodesSlots ==
  ASSUME Inv, Slotful, NEW ids \in Selection, CopyNodes(ids)
  PROVE  Slotful'
<1> DEFINE C == Served'
<1>1. /\ clipboard' = Snapshot(Tree, Copied(ids)) /\ known \subseteq known'
      /\ docs' = docs /\ next' = next /\ Component' = Component
  BY DEF CopyNodes, Component
<1>2. TypeOK /\ C \subseteq Served
  BY <1>1, ServedStay DEF Inv
<1> HIDE DEF C
<1>3. Slotted(docs, clipboard, next, C, Wants(docs))
  BY <1>2, SlotsNow
<1>4. Slotted(docs, Snapshot(Tree, Copied(ids)), next, C, Wants(docs))
  BY <1>2, <1>3, CopiedSlots
<1> QED BY <1>1, <1>4 DEF Slotful, C

\* cutNodes.
LEMMA CutNodesSlots ==
  ASSUME Inv, Slotful, NEW ids \in Selection, CutNodes(ids)
  PROVE  Slotful'
<1> DEFINE list == Copied(ids)
           gone == DeleteSubtrees(Tree, list)
           slips == SlotSlips(ids) \union Spread(activePageId, Null)
           clip == Snapshot(Tree, list)
           C == Served'
           want == Wants(docs)
           R == AllRefs(docs, C)
<1>1. Commit(gone, next, slips) /\ clipboard' = clip
  BY DEF CutNodes, OnPage
<1>2. /\ TypeOK /\ next \in Nat /\ next <= next /\ IsDocument(Tree, next)
      /\ Target \in DOMAIN docs /\ Tree = docs[Target]
  BY TypesAre, TargetIs DEF Inv
<1>3. list \in Seq(Nat) /\ Tree.rootNodeId \notin ToSet(list) /\ ToSet(list) \subseteq ToSet(ids)
  <2>1. list \in Seq(Nat) /\ Tree.rootNodeId \notin ToSet(list)
    BY <1>2, CopiedIs
  <2> DEFINE all == Keep(ids, Ids \ {Tree.rootNodeId})
  <2>2. all \in Seq(Nat) /\ ToSet(all) \subseteq ToSet(ids)
    BY <1>2, SelectedIs
  <2>3. list = TopLevel(Tree, all)
    BY DEF Copied
  <2> HIDE DEF all, list
  <2> QED BY <2>1, <2>2, <2>3, TopLevelIs
<1>4. IsDocument(gone, next)
  <2> HIDE DEF list
  <2>1. Removed(gone, Tree, next, ToSet(list))
    BY <1>2, <1>3, DeleteSubtreesIs
  <2> QED BY <2>1 DEF Removed, Like, Grows
<1>5. DOMAIN docs' = DOMAIN docs /\ known \subseteq known' /\ SlotSlips(ids) \subseteq known'
  <2>1. DOMAIN docs' = DOMAIN docs /\ known \subseteq known' /\ slips \subseteq known'
    <3> HIDE DEF slips, gone
    <3> QED BY <1>1, <1>2, <1>4, CommitStays
  <2> QED BY <2>1
<1>6. C \subseteq Served
  BY <1>5, ServedStay DEF Component
<1>7. Slotted(docs, clip, next, C, want)
  <2> HIDE DEF C
  <2>1. Slotted(docs, clipboard, next, C, want)
    BY <1>2, <1>6, SlotsNow
  <2> QED BY <1>2, <2>1, CopiedSlots
<1>8. Fit(Tree.nodes, next, C, want, R)
  BY <1>2, <1>7 DEF Slotted
<1> HIDE DEF list, clip
<1>9. Kept(gone.nodes, Tree.nodes, next, next, C, want, R)
  <2> HIDE DEF want, R
  <2>1. \A id \in ToSet(list) : Parent(Tree, id) \notin R
    BY <1>2, <1>3, <1>5, <1>8, SelectedFree
  <2> HIDE DEF C
  <2>2. Trim(gone.nodes, Tree.nodes, next, next, C, want, R)
    BY <1>2, <1>3, <1>8, <2>1, DeleteSubtreesTrim
  <2> QED BY <1>8, <2>2, TrimKept
<1> HIDE DEF gone, slips
<1>10. Slotted(docs', clip, next', C, Wants(docs'))
  BY <1>1, <1>2, <1>4, <1>7, <1>9, CommitSlots
<1> QED BY <1>1, <1>10 DEF Slotful

\* pasteSubtree: a ref that is out of date has been marked.
LEMMA PasteSlots ==
  ASSUME Inv, Slotful, NEW target \in Ids, Paste(target)
  PROVE  Slotful'
<1> DEFINE to == InsertLocation(Tree, target)
           roots == clipboard.rootNodeIds
           ids == DOMAIN clipboard.nodes
           stale == {i \in 1..(Len(roots) - 1) :
                        clipboard.nodes[roots[i]].parentId # to.parentId}
           new == PasteSnapshot(Tree, clipboard, to.parentId, to.index, next)
           m == next + Cardinality(ids)
           map == FreshIds(ids, next)
           refs == {<<"slots", clipboard.nodes[r].componentId>> : r \in Outdated}
           slips == {<<"parent", map[roots[i]]>> : i \in stale} \union refs \union Spread(Null, activePageId)
           C == Served'
           want == Wants(docs)
           R == AllRefs(docs, C)
<1>1. /\ roots # <<>> /\ to.parentId # Null
      /\ Commit(new, m, slips) /\ clipboard' = clipboard
  BY DEF Paste
<1>2. /\ TypeOK /\ next \in Nat /\ IsDocument(Tree, next) /\ IsSnapshot(clipboard, next)
      /\ Target \in DOMAIN docs /\ Tree = docs[Target] /\ target \in DOMAIN Tree.nodes
  BY <1>1, TypesAre, TargetIs DEF Inv, OnPage, TypeOK, Ids
<1>3. to.parentId \in DOMAIN Tree.nodes /\ to.index \in Int
  <2>1. to \in Place(Tree)
    BY <1>2, InsertLocationIs
  <2> QED BY <1>1, <2>1 DEF Place
<1>4. to.parentId \notin R \/ ~Fit(Tree.nodes, next, C, want, R)
  <2> HIDE DEF C, want, R
  <2> QED BY <1>2, InsertLocationFree
<1> HIDE DEF to
<1>5. m \in Nat /\ next <= m /\ IsDocument(new, m)
  <2> DEFINE comps == Used(clipboard.nodes)
             outs == {map[id] : id \in Content(clipboard.nodes)}
  <2>1. m \in Nat /\ next <= m /\ Grows(new, Tree, m, comps, outs)
    BY <1>1, <1>2, <1>3, PasteSnapshotIs
  <2> QED BY <2>1 DEF Grows
<1>6. DOMAIN docs' = DOMAIN docs /\ known \subseteq known' /\ refs \subseteq known'
  <2>1. DOMAIN docs' = DOMAIN docs /\ known \subseteq known' /\ slips \subseteq known'
    <3> HIDE DEF slips, new, m
    <3> QED BY <1>1, <1>2, <1>5, CommitStays
  <2> QED BY <2>1
<1> HIDE DEF stale, slips
<1>7. Slotted(docs, clipboard, next, C, want)
  <2>1. C \subseteq Served
    BY <1>6, ServedStay DEF Component
  <2> HIDE DEF C
  <2> QED BY <1>2, <2>1, SlotsNow
<1>8. Fit(Tree.nodes, next, C, want, R) /\ Clip(clipboard.nodes, next, C, R)
  BY <1>2, <1>7 DEF Slotted
<1>9. ASSUME NEW r \in RefsIn(clipboard.nodes, C)
      PROVE  /\ SlotNames(clipboard.nodes, r) = want[clipboard.nodes[r].componentId]
             /\ Held(clipboard.nodes, r) \intersect ToSet(roots) = {}
  <2> DEFINE node == clipboard.nodes[r]
             c == node.componentId
             nameOf(k) == IF Has(clipboard, k) THEN clipboard.nodes[k].slotName ELSE ""
             names == [i \in DOMAIN node.children |-> nameOf(node.children[i])]
  <2>1. r \in ids /\ node.moduleId = "ref" /\ c \in C
    BY DEF RefsIn
  <2>2. r \notin Outdated
    <3> SUFFICES ASSUME r \in Outdated PROVE FALSE
      OBVIOUS
    <3>1. <<"slots", c>> \in refs
      OBVIOUS
    <3>2. <<"slots", c>> \in known'
      BY <1>6, <3>1
    <3> HIDE DEF c
    <3> QED BY <2>1, <3>2, NotServed
  <2>3. /\ c \in Component /\ ToSet(node.children) \intersect ToSet(roots) = {}
        /\ OutletNames(docs[c]) = names
    BY <2>1, <2>2 DEF Outdated
  <2>4. want[c] = OutletNames(docs[c])
    BY <2>3 DEF Wants, Component
  <2>5. Own(clipboard.nodes, r)
    BY <1>8 DEF Clip
  <2>6. \A i \in DOMAIN node.children : node.children[i] \in DOMAIN clipboard.nodes
    <3>1. \A i \in DOMAIN node.children : node.children[i] \in Held(clipboard.nodes, r)
      BY DEF Held, ToSet
    <3> QED BY <2>5, <3>1 DEF Own
  <2>7. names = SlotNames(clipboard.nodes, r)
    BY <2>6 DEF SlotNames, Has
  <2> QED BY <2>3, <2>4, <2>7 DEF Held
<1>10. Kept(new.nodes, Tree.nodes, next, m, C, want, R)
  <2>1. to.parentId \notin R
    BY <1>4, <1>8
  <2> HIDE DEF C, want, R
  <2> QED BY <1>1, <1>2, <1>3, <1>8, <1>9, <2>1, PasteKept
<1> HIDE DEF new, m
<1>11. Slotted(docs', clipboard, next', C, Wants(docs'))
  BY <1>1, <1>2, <1>5, <1>7, <1>10, CommitSlots
<1> QED BY <1>1, <1>11 DEF Slotful

-----------------------------------------------------------------------------
\* The actions on components, and the slots: documents that come and go.

\* A component nothing refers to yet.
LEMMA SlottedNew ==
  ASSUME NEW n \in Nat, NEW C, NEW want, NEW trees, IsDocuments(trees, n), NEW clip, IsSnapshot(clip, n),
         Slotted(trees, clip, n, C, want), NEW comp, comp \notin 0..(n - 1),
         NEW D, D \subseteq C \union {comp}, NEW wish, \A c \in D \ {comp} : wish[c] = want[c]
  PROVE  Slotted(trees, clip, n, D, wish)
<1> DEFINE E == D \ {comp}
<1>1. E \subseteq C /\ \A c \in E : wish[c] = want[c]
  OBVIOUS
<1>2. Slotted(trees, clip, n, E, wish)
  <2> HIDE DEF E
  <2> QED BY <1>1, SlottedFewer
<1>3. ASSUME NEW nodes, IsNodes(nodes, n) PROVE RefsIn(nodes, D) = RefsIn(nodes, E)
  <2>1. ASSUME NEW x \in DOMAIN nodes PROVE nodes[x].componentId # comp
    <3>1. nodes[x] \in Node(n)
      BY <1>3, NodesAre
    <3> QED BY <3>1 DEF Node
  <2> QED BY <2>1 DEF RefsIn
<1>4. \A d \in DOMAIN trees : RefsIn(trees[d].nodes, D) = RefsIn(trees[d].nodes, E)
  BY <1>3, DocumentsAre DEF IsDocument
<1>5. RefsIn(clip.nodes, D) = RefsIn(clip.nodes, E)
  BY <1>3 DEF IsSnapshot
<1> HIDE DEF E
<1>6. AllRefs(trees, D) = AllRefs(trees, E)
  BY <1>4 DEF AllRefs
<1> QED BY <1>2, <1>4, <1>5, <1>6 DEF Slotted, Fit, Owning, Calls, Clip

\* A document is added, with ids from n to m - 1.
LEMMA AddedSlotted ==
  ASSUME NEW n \in Nat, n # 0, NEW m \in Nat, n <= m, NEW C, NEW want, NEW site, NEW clip,
         Slotted(site, clip, n, C, want), NEW comp, comp \notin DOMAIN site,
         NEW trees, DOMAIN trees = DOMAIN site \union {comp}, \A d \in DOMAIN site : trees[d] = site[d],
         NEW T, AllRefs(site, C) \union RefsIn(trees[comp].nodes, C) \subseteq T,
         Fit(trees[comp].nodes, m, C, want, T), IdsOf(trees[comp].nodes) \subseteq n..(m - 1)
  PROVE  Slotted(trees, clip, m, C, want)
<1> DEFINE R == AllRefs(site, C)
           S == AllRefs(trees, C)
           new == trees[comp].nodes
<1>1. \A d \in DOMAIN site : Fit(site[d].nodes, n, C, want, R) /\ IdsOf(site[d].nodes) \subseteq Below(n)
  BY DEF Slotted, Fit, Owning
<1>2. RefsIn(new, C) \subseteq n..(m - 1)
  BY DEF RefsIn, IdsOf
<1>3. S = R \union RefsIn(new, C)
  BY DEF AllRefs
<1>4. \A d \in DOMAIN trees : RefsIn(trees[d].nodes, C) \subseteq S
  BY DEF AllRefs
<1>5. S \subseteq R \union n..(m - 1) /\ S \subseteq T
  BY <1>2, <1>3
<1>6. Below(n) \intersect n..(m - 1) = {}
  BY DEF Below
<1>7. ASSUME NEW d \in DOMAIN trees PROVE Fit(trees[d].nodes, m, C, want, S)
  <2>1. CASE d = comp
    <3>1. Fit(new, m, C, want, T) /\ S \subseteq T \union m..(m - 1) /\ m <= m /\ m # 0 /\ RefsIn(new, C) \subseteq S
      BY <1>3, <1>5
    <3> HIDE DEF S, R, new
    <3>2. Fit(new, m, C, want, S)
      BY <3>1, FitLess
    <3> QED BY <2>1, <3>2 DEF new
  <2>2. CASE d # comp
    <3>1. Fit(trees[d].nodes, n, C, want, R) /\ RefsIn(trees[d].nodes, C) \subseteq S
      BY <1>1, <1>4, <2>2
    <3> HIDE DEF S, R
    <3> QED BY <1>5, <3>1, FitLess
  <2> QED BY <2>1, <2>2
<1>8. \A d, e \in DOMAIN trees : d # e => IdsOf(trees[d].nodes) \intersect IdsOf(trees[e].nodes) = {}
  <2>1. \A d \in DOMAIN site : IdsOf(site[d].nodes) \intersect IdsOf(new) = {}
    BY <1>1, <1>6
  <2> HIDE DEF new
  <2> QED BY <2>1 DEF Slotted, new
<1>9. Clip(clip.nodes, m, C, S)
  <2>1. Clip(clip.nodes, n, C, R)
    BY DEF Slotted
  <2> HIDE DEF R, S
  <2> QED BY <1>5, <2>1, ClipLess
<1> QED BY <1>7, <1>8, <1>9 DEF Slotted

\* Documents go, and lose nodes.
LEMMA ShrunkSlotted ==
  ASSUME NEW n \in Nat, n # 0, NEW C, NEW want, NEW site, NEW clip, Slotted(site, clip, n, C, want),
         NEW trees, DOMAIN trees \subseteq DOMAIN site,
         \A d \in DOMAIN trees : Trim(trees[d].nodes, site[d].nodes, n, n, C, want, AllRefs(site, C))
  PROVE  Slotted(trees, clip, n, C, want)
<1> DEFINE R == AllRefs(site, C)
           S == AllRefs(trees, C)
<1>1. \A d \in DOMAIN trees : /\ Fit(trees[d].nodes, n, C, want, R)
                              /\ IdsOf(trees[d].nodes) \subseteq IdsOf(site[d].nodes)
                              /\ RefsIn(trees[d].nodes, C) \subseteq RefsIn(site[d].nodes, C)
                              /\ RefsIn(trees[d].nodes, C) \subseteq S
  <2>1. n..(n - 1) = {}
    OBVIOUS
  <2> QED BY <2>1 DEF Trim, AllRefs
<1>2. S \subseteq R
  BY <1>1 DEF AllRefs
<1>3. S \subseteq R \union n..(n - 1) /\ n <= n
  BY <1>2
<1>4. Clip(clip.nodes, n, C, R)
  BY DEF Slotted
<1> HIDE DEF R, S
<1>5. \A d \in DOMAIN trees : Fit(trees[d].nodes, n, C, want, S)
  BY <1>1, <1>3, FitLess
<1>6. Clip(clip.nodes, n, C, S)
  BY <1>3, <1>4, ClipLess
<1>7. \A d, e \in DOMAIN trees : d # e => IdsOf(trees[d].nodes) \intersect IdsOf(trees[e].nodes) = {}
  BY <1>1 DEF Slotted
<1> QED BY <1>5, <1>6, <1>7 DEF Slotted, S

\* createVisualComponent.
LEMMA CreateComponentSlots ==
  ASSUME Inv, Slotful, CreateComponent
  PROVE  Slotful'
<1> DEFINE id == next + 1
           m == next + 2
           comp == next
           tree == [rootNodeId |-> id, nodes |-> [k \in {id} |-> NewNode("body")]]
           D == Served'
           wish == Wants(docs')
<1>1. docs' = With(docs, comp, tree) /\ next' = m /\ clipboard' = clipboard /\ known' = known
  BY DEF CreateComponent
<1>2. /\ next \in Nat /\ IsDocuments(docs, next) /\ DOMAIN docs \subseteq 1..(next - 1)
      /\ Page \subseteq DOMAIN docs /\ IsSnapshot(clipboard, next)
  BY TypesAre, DocumentsAre DEF Inv
<1>3. id \in Nat /\ m \in Nat /\ next # 0 /\ next <= m /\ id \in next..(m - 1) /\ id \in Below(m) /\ id # 0
      /\ comp \notin DOMAIN docs /\ comp \notin 0..(next - 1) /\ 0 \in Below(m)
  <2>1. 1 <= next
    BY <1>2, PageAssumption
  <2> QED BY <1>2, <2>1 DEF Below
<1>4. /\ DOMAIN tree.nodes = {id} /\ tree.nodes[id].children = <<>> /\ tree.nodes[id].moduleId = "body"
      /\ tree.nodes[id].parentId = 0
  BY DEF NewNode, Null
<1> HIDE DEF tree, id, m, comp
<1>5. /\ DOMAIN docs' = DOMAIN docs \union {comp}
      /\ docs'[comp] = tree
      /\ \A d \in DOMAIN docs : docs'[d] = docs[d]
  BY <1>1, <1>3 DEF With
<1>6. D \subseteq Served \union {comp} /\ \A c \in D \ {comp} : wish[c] = Wants(docs)[c]
  <2>1. \A c \in D \ {comp} : c \in Served /\ c \in DOMAIN docs
    BY <1>1, <1>5 DEF Served, Component, Hit
  <2>2. \A c \in DOMAIN docs : wish[c] = OutletNames(docs'[c]) /\ Wants(docs)[c] = OutletNames(docs[c])
    BY <1>5 DEF Wants
  <2> HIDE DEF wish, D
  <2> QED BY <1>5, <2>1, <2>2
<1> HIDE DEF wish, D
<1>7. Slotted(docs, clipboard, next, D, wish)
  BY <1>2, <1>3, <1>6, SlottedNew DEF Slotful, comp
<1> DEFINE R == AllRefs(docs, D)
<1>8. R \subseteq 1..(next - 1)
  <2>1. PICK p \in Page : TRUE
    BY PageAssumption
  <2> QED BY <1>2, <1>7, <2>1 DEF Slotted, Fit, Owning
<1>9. id \notin R /\ R \subseteq 1..(m - 1) /\ 0 \notin R
  BY <1>2, <1>3, <1>8 DEF id, m
<1>10. RefsIn(tree.nodes, D) = {} /\ Held(tree.nodes, id) = {} /\ IdsOf(tree.nodes) = {id}
  <2>1. Held(tree.nodes, id) = {}
    BY <1>4 DEF Held, ToSet
  <2> QED BY <1>4, <2>1 DEF RefsIn, IdsOf
<1> HIDE DEF R
<1>11. Fit(tree.nodes, m, D, wish, R)
  <2>1. Owning(tree.nodes, m, D, R)
    BY <1>3, <1>4, <1>9, <1>10 DEF Owning
  <2> QED BY <1>10, <2>1 DEF Fit, Calls
<1>12. Slotted(docs', clipboard, m, D, wish)
  <2> DEFINE now == docs'
  <2>1. /\ AllRefs(docs, D) \union RefsIn(now[comp].nodes, D) \subseteq R
        /\ Fit(now[comp].nodes, m, D, wish, R) /\ IdsOf(now[comp].nodes) \subseteq next..(m - 1)
    BY <1>3, <1>5, <1>10, <1>11 DEF R
  <2>2. comp \notin DOMAIN docs /\ DOMAIN now = DOMAIN docs \union {comp} /\ \A d \in DOMAIN docs : now[d] = docs[d]
    BY <1>3, <1>5
  <2> HIDE DEF now
  <2>3. next \in Nat /\ next # 0 /\ m \in Nat /\ next <= m
    BY <1>2, <1>3
  <2>4. Slotted(now, clipboard, m, D, wish)
    BY <1>7, <2>1, <2>2, <2>3, AddedSlotted
  <2> QED BY <2>4 DEF now
<1> QED BY <1>1, <1>12 DEF Slotful, D, wish

\* deleteVisualComponent: the refs go with their slots, and a component that
\* loses an outlet is marked.
LEMMA DeleteComponentSlots ==
  ASSUME Inv, Slotful, NEW comp \in Component, DeleteComponent(comp)
  PROVE  Slotful'
<1> DEFINE left == [d \in DOMAIN docs \ {comp} |-> CascadeRemoveRefs(docs[d], comp)]
           slips == {<<"slots", c>> : c \in OutletsChanged(docs, left)}
           D == Served'
           want == Wants(docs)
           wish == Wants(docs')
           R == AllRefs(docs, D)
<1>1. docs' = left /\ known' = known \union slips /\ next' = next /\ clipboard' = clipboard
  BY DEF DeleteComponent
<1>2. /\ TypeOK /\ next \in Nat /\ DOMAIN docs \subseteq 1..(next - 1) /\ Page \subseteq DOMAIN docs
      /\ \A d \in DOMAIN docs : IsDocument(docs[d], next)
  BY TypesAre, DocumentsAre DEF Inv
<1>3. next # 0
  BY <1>2, PageAssumption
<1>4. /\ DOMAIN docs' \subseteq DOMAIN docs
      /\ \A d \in DOMAIN docs' : docs'[d] = CascadeRemoveRefs(docs[d], comp)
  BY <1>1
<1>5. D \subseteq Served /\ D \subseteq Component'
  BY <1>1, <1>4 DEF Served, Component, Hit
<1>6. Slotted(docs, clipboard, next, D, want)
  BY <1>2, <1>5, SlotsNow
<1>7. \A d \in DOMAIN docs : Fit(docs[d].nodes, next, D, want, R)
  BY <1>6 DEF Slotted
<1> HIDE DEF want, wish, D, R
<1>8. \A d \in DOMAIN docs' : Trim(docs'[d].nodes, docs[d].nodes, next, next, D, want, R)
  BY <1>2, <1>4, <1>7, CascadeTrim
<1>9. \A c \in D : wish[c] = want[c]
  <2> SUFFICES ASSUME NEW c \in D PROVE wish[c] = want[c]
    OBVIOUS
  <2>1. c \in (DOMAIN docs \intersect DOMAIN docs') \ Page
    BY <1>4, <1>5 DEF Component
  <2>2. wish[c] = OutletNames(docs'[c]) /\ want[c] = OutletNames(docs[c])
    BY <2>1 DEF Wants, wish, want
  <2>3. c \notin OutletsChanged(docs, docs')
    <3> SUFFICES ASSUME c \in OutletsChanged(docs, docs') PROVE FALSE
      OBVIOUS
    <3>1. <<"slots", c>> \in slips
      BY <1>1
    <3> HIDE DEF slips
    <3>2. <<"slots", c>> \in known'
      BY <1>1, <3>1
    <3> QED BY <3>2, NotServed DEF D
  <2> QED BY <2>1, <2>2, <2>3 DEF OutletsChanged
<1> HIDE DEF left, slips
<1> DEFINE now == docs'
<1>10. DOMAIN now \subseteq DOMAIN docs /\ \A d \in DOMAIN now : Trim(now[d].nodes, docs[d].nodes, next, next, D, want, R)
  BY <1>4, <1>8
<1> HIDE DEF now
<1>11. Slotted(now, clipboard, next, D, want)
  BY <1>2, <1>3, <1>6, <1>10, ShrunkSlotted DEF R
<1>12. Slotted(now, clipboard, next, D, wish)
  BY <1>2, <1>9, <1>11, SlottedFewer
<1> QED BY <1>1, <1>12 DEF Slotful, D, wish, now

\* addParam, renameParam, removeParamWithCleanup: a sweep.
LEMMA ChangeSlotParamSlots ==
  ASSUME Inv, Slotful, NEW comp \in Component, ChangeSlotParam(comp)
  PROVE  Slotful'
<1> DEFINE swept == SyncAllRefs(docs, comp, next)
           lost == OutletsChanged(docs, swept.docs) \union {c \in {comp} : NestedUse(docs, c)}
           slips == {<<"slots", c>> : c \in lost}
           D == Served'
           want == Wants(docs)
           wish == Wants(docs')
<1>1. docs' = swept.docs /\ known' = known \union slips /\ next' = swept.next /\ clipboard' = clipboard
  BY DEF ChangeSlotParam
<1>2. /\ TypeOK /\ next \in Nat /\ IsDocuments(docs, next) /\ comp \in DOMAIN docs /\ next # 0
  <2>1. TypeOK /\ next \in Nat /\ IsDocuments(docs, next) /\ comp \in DOMAIN docs
    BY TypesAre DEF Inv, Component
  <2>2. DOMAIN docs \subseteq 1..(next - 1)
    BY <2>1, DocumentsAre
  <2> QED BY <2>1, <2>2
<1>3. DOMAIN docs' = DOMAIN docs
  <2>1. SweptTo(swept, docs, next)
    BY <1>2, SyncAllRefsIs
  <2> HIDE DEF swept
  <2> QED BY <1>1, <2>1 DEF SweptTo, Alike
<1>4. known \subseteq known'
  BY <1>1
<1>5. D \subseteq Served /\ D \subseteq Component
  BY <1>3, <1>4, ServedStay DEF Component, Served
<1>6. ASSUME NEW c \in D PROVE c \notin lost
  <2> SUFFICES ASSUME c \in lost PROVE FALSE
    OBVIOUS
  <2>1. <<"slots", c>> \in slips
    OBVIOUS
  <2> HIDE DEF slips
  <2>2. <<"slots", c>> \in known'
    BY <1>1, <2>1
  <2> QED BY <2>2, NotServed
<1>7. Slotted(docs, clipboard, next, D, want)
  BY <1>2, <1>5, SlotsNow
<1> HIDE DEF slips
<1>8. ASSUME NEW c \in D PROVE wish[c] = want[c] /\ wish[c] = OutletNames(docs[c])
  <2>1. c \in (DOMAIN docs \intersect DOMAIN docs') \ Page
    BY <1>3, <1>5 DEF Component
  <2>2. c \notin OutletsChanged(docs, docs')
    BY <1>1, <1>6
  <2> HIDE DEF swept, D
  <2>3. OutletNames(docs'[c]) = OutletNames(docs[c])
    BY <2>1, <2>2 DEF OutletsChanged
  <2> QED BY <2>1, <2>3 DEF Wants
<1>9. comp \in D => wish[comp] = OutletNames(docs[comp]) /\ Refs(docs[comp], comp) = {}
  BY <1>6, <1>8 DEF NestedUse
<1> HIDE DEF D, want, wish, lost
<1>10. Slotted(swept.docs, clipboard, swept.next, D, wish)
  <2> DEFINE v == swept
  <2>1. v = SyncAllRefs(docs, comp, next)
    OBVIOUS
  <2>2. \A c \in D : c # comp => wish[c] = want[c]
    BY <1>8
  <2> HIDE DEF v, swept
  <2>3. Slotted(v.docs, clipboard, v.next, D, wish)
    BY <1>2, <1>7, <1>9, <2>1, <2>2, SweepSlotted
  <2> QED BY <2>3 DEF v
<1> HIDE DEF swept
<1> QED BY <1>1, <1>10 DEF Slotful, D, wish

\* convertNodeToComponent: the slots of the subtree's refs go with it; the new
\* ref has none, and its component is marked unless it has no outlet.
LEMMA ConvertSlots ==
  ASSUME Inv, Slotful, NEW id \in DOMAIN docs[activePageId].nodes, Convert(id)
  PROVE  Slotful'
<1> DEFINE page == docs[activePageId]
           comp == next
           ref == next + 1
           from == next + 2
           m == next + 3 + Cardinality(Subtree(page, id))
           made == ExtractedComponent(page, id, from)
           left == ReplacedByRef(page, id, comp, ref)
           edited == [docs EXCEPT ![activePageId] = left]
           slips == {<<"slots", c>> : c \in {c \in {comp} : OutletNames(made) # <<>>}}
           D == Served'
           want == Wants(docs)
           wish == Wants(docs')
<1>1. /\ page.nodes[id].moduleId # "body" /\ page.nodes[id].moduleId # "slot-instance"
      /\ SiblingAfter(page, id) # Nowhere
      /\ docs' = With(edited, comp, made)
      /\ next' = m /\ known \subseteq known' /\ slips \subseteq known'
      /\ clipboard' = clipboard
  BY DEF Convert
<1>2. /\ next \in Nat /\ IsDocuments(docs, next) /\ activePageId \in DOMAIN docs /\ activePageId \in Page
      /\ IsDocument(page, next) /\ Page \subseteq DOMAIN docs /\ DOMAIN docs \subseteq 1..(next - 1)
      /\ docs = [d \in DOMAIN docs |-> docs[d]] /\ IsSnapshot(clipboard, next)
  BY TypesAre, DocumentsAre DEF Inv, TypeOK
<1> HIDE DEF page
<1>3. id \in DOMAIN page.nodes /\ id # page.rootNodeId
  <2>1. id \in DOMAIN page.nodes
    BY DEF page
  <2>2. page.nodes[page.rootNodeId].moduleId = "body"
    BY <1>2, DocumentLists DEF Sound
  <2> QED BY <1>1, <2>1, <2>2
<1>4. SiblingAfter(page, id).parentId # Null
  <2> DEFINE listing == {p \in DOMAIN page.nodes : Contains(page.nodes[p].children, id)}
             p == CHOOSE p \in listing : \A q \in listing : p <= q
  <2>1. listing # {} /\ SiblingAfter(page, id).parentId = p
    BY <1>1 DEF SiblingAfter, Nowhere
  <2>2. listing \subseteq DOMAIN page.nodes /\ DOMAIN page.nodes \subseteq 1..(next - 1)
    BY <1>2, DocumentLists DEF Sound
  <2>3. listing \subseteq Nat
    BY <2>2
  <2> HIDE DEF listing
  <2>4. \E x \in listing : \A y \in listing : x <= y
    BY <2>1, <2>3, Least
  <2>5. p \in listing
    BY <2>4
  <2> HIDE DEF p
  <2> QED BY <2>1, <2>2, <2>5 DEF Null
<1>5. /\ from \in Nat /\ next <= from /\ next # 0 /\ from # 0 /\ m = from + 1 + Cardinality(Subtree(page, id))
      /\ ref \in Nat /\ next <= ref /\ ref < from
      /\ comp \notin DOMAIN docs /\ comp \notin Page /\ comp \notin 0..(next - 1)
      /\ m \in Nat /\ from <= m
  <2>1. IsFiniteSet(Subtree(page, id))
    <3>1. Subtree(page, id) \subseteq DOMAIN page.nodes /\ IsFiniteSet(DOMAIN page.nodes)
      BY <1>2, <1>3, DocumentLists, SubtreeIs DEF Lists
    <3> QED BY <3>1, FS_Subset
  <2> DEFINE card == Cardinality(Subtree(page, id))
  <2>2. card \in Nat
    BY <2>1, FS_CardinalityType
  <2>3. 1 <= next
    BY <1>2
  <2> HIDE DEF card
  <2>4. next + 3 + card = next + 2 + 1 + card /\ next + 3 + card \in Nat /\ next + 2 <= next + 3 + card
    BY <1>2, <2>2
  <2> QED BY <1>2, <2>3, <2>4 DEF card
<1>6. comp \in D => OutletNames(made) = <<>>
  <2> SUFFICES ASSUME OutletNames(made) # <<>> PROVE comp \notin D
    OBVIOUS
  <2>1. <<"slots", comp>> \in slips
    OBVIOUS
  <2> HIDE DEF slips, comp
  <2>2. <<"slots", comp>> \in known'
    BY <1>1, <2>1
  <2> QED BY <2>2, NotServed
<1> HIDE DEF made, left, slips, from, m, ref, comp
<1>7. /\ DOMAIN edited = DOMAIN docs /\ edited[activePageId] = left
      /\ \A d \in DOMAIN docs : d # activePageId => edited[d] = docs[d]
  BY <1>2
<1> HIDE DEF edited
<1>8. /\ DOMAIN docs' = DOMAIN edited \union {comp}
      /\ docs'[comp] = made
      /\ \A d \in DOMAIN edited : docs'[d] = edited[d]
  BY <1>1, <1>5, <1>7 DEF With
<1>9. D \subseteq Served \union {comp} /\ \A c \in D \ {comp} : c \in DOMAIN docs /\ c # activePageId
  BY <1>1, <1>2, <1>7, <1>8 DEF Served, Component, Hit
<1>10. \A c \in D \ {comp} : wish[c] = want[c]
  <2> SUFFICES ASSUME NEW c \in D \ {comp} PROVE wish[c] = want[c]
    OBVIOUS
  <2>1. c \in DOMAIN docs /\ c \in DOMAIN docs' /\ docs'[c] = docs[c]
    BY <1>7, <1>8, <1>9
  <2>2. wish[c] = OutletNames(docs'[c]) /\ want[c] = OutletNames(docs[c])
    BY <2>1 DEF Wants
  <2> HIDE DEF wish, want
  <2> QED BY <2>1, <2>2
<1>11. comp \in D => wish[comp] = <<>>
  BY <1>6, <1>8 DEF Wants
<1> HIDE DEF D, want, wish
<1>12. Slotted(docs, clipboard, next, D, wish)
  <2>1. Slotted(docs, clipboard, next, Served, want)
    BY DEF Slotful, want
  <2>2. next \in Nat /\ comp \notin 0..(next - 1) /\ D \subseteq Served \union {comp}
    BY <1>2, <1>5, <1>9
  <2>3. IsDocuments(docs, next) /\ IsSnapshot(clipboard, next)
    BY <1>2
  <2> QED BY <1>10, <2>1, <2>2, <2>3, SlottedNew
<1> DEFINE R == AllRefs(docs, D)
<1>13. Fit(page.nodes, next, D, wish, R)
  BY <1>2, <1>12 DEF Slotted, page
<1>14. Kept(left.nodes, page.nodes, next, from, D, wish, R)
  <2> HIDE DEF R
  <2> QED BY <1>1, <1>2, <1>3, <1>4, <1>5, <1>11, <1>13, ReplacedKept DEF left
<1>15. Slotted(edited, clipboard, from, D, wish)
  <2>1. Kept(edited[activePageId].nodes, docs[activePageId].nodes, next, from, D, wish, AllRefs(docs, D))
    BY <1>7, <1>14 DEF page
  <2>2. next \in Nat /\ next # 0 /\ from \in Nat /\ next <= from
    BY <1>2, <1>5
  <2> QED BY <1>2, <1>7, <1>12, <2>1, <2>2, EditSlotted
<1> DEFINE S == AllRefs(edited, D) \union RefsIn(page.nodes, D)
<1>16. S \subseteq R \union next..(from - 1)
  <2>1. RefsIn(page.nodes, D) \subseteq R
    BY <1>2 DEF AllRefs, page
  <2>2. \A d \in DOMAIN docs : RefsIn(docs[d].nodes, D) \subseteq R
    BY DEF AllRefs
  <2>3. RefsIn(left.nodes, D) \subseteq RefsIn(page.nodes, D) \union next..(from - 1)
    BY <1>14 DEF Kept
  <2> HIDE DEF R
  <2> QED BY <1>7, <2>1, <2>2, <2>3 DEF AllRefs
<1>17. Fit(page.nodes, from, D, wish, S)
  <2>1. RefsIn(page.nodes, D) \subseteq S
    OBVIOUS
  <2> HIDE DEF R, S
  <2> QED BY <1>2, <1>5, <1>13, <1>16, <2>1, FitLess
<1>18. Carved(made.nodes, from, m, D, wish, S)
  <2>1. IsDocument(page, from)
    BY <1>2, <1>5, DocumentLater
  <2>2. from <= from
    BY <1>5
  <2> HIDE DEF S
  <2> QED BY <1>1, <1>3, <1>5, <1>17, <2>1, <2>2, ExtractedCarved DEF made
<1> DEFINE T == S \union RefsIn(made.nodes, D)
           now == docs'
<1>19. /\ AllRefs(edited, D) \union RefsIn(now[comp].nodes, D) \subseteq T
       /\ Fit(now[comp].nodes, m, D, wish, T) /\ IdsOf(now[comp].nodes) \subseteq from..(m - 1)
  BY <1>8, <1>18 DEF Carved
<1>20. /\ comp \notin DOMAIN edited /\ DOMAIN now = DOMAIN edited \union {comp}
       /\ \A d \in DOMAIN edited : now[d] = edited[d]
  BY <1>5, <1>7, <1>8
<1> HIDE DEF T, S, R, now
<1>21. Slotted(now, clipboard, m, D, wish)
  <2>1. from \in Nat /\ from # 0 /\ m \in Nat /\ from <= m
    BY <1>5
  <2> QED BY <1>15, <1>19, <1>20, <2>1, AddedSlotted
<1> QED BY <1>1, <1>21 DEF Slotful, D, wish, now

\* detachComponentRef: the page alone is edited.
LEMMA DetachSlots ==
  ASSUME Inv, Slotful, NEW ref \in DOMAIN docs[activePageId].nodes, Detach(ref)
  PROVE  Slotful'
<1> DEFINE page == docs[activePageId]
           used == page.nodes[ref].componentId
           comp == docs[used]
           new == DetachRef(page, ref, comp, next)
           m == next + Cardinality(DOMAIN Instantiated(page, ref, comp))
           D == Served'
           want == Wants(docs)
           wish == Wants(docs')
           R == AllRefs(docs, D)
<1>1. /\ page.nodes[ref].moduleId = "ref" /\ used \in Component
      /\ CanDetach(page, ref, comp)
      /\ docs' = [docs EXCEPT ![activePageId] = new]
      /\ next' = m /\ known \subseteq known' /\ clipboard' = clipboard
  BY DEF Detach
<1>2. /\ TypeOK /\ next \in Nat /\ IsDocuments(docs, next) /\ activePageId \in DOMAIN docs /\ activePageId \in Page
      /\ IsDocument(page, next) /\ IsDocument(comp, next)
      /\ used \in DOMAIN docs /\ used # activePageId
      /\ DOMAIN docs \subseteq 1..(next - 1) /\ docs = [d \in DOMAIN docs |-> docs[d]]
  BY <1>1, TypesAre, DocumentsAre DEF Inv, TypeOK, Component
<1>3. ref \in DOMAIN page.nodes /\ ref # page.rootNodeId
  <2>1. page.nodes[page.rootNodeId].moduleId = "body"
    BY <1>2, DocumentLists DEF Sound
  <2> QED BY <1>1, <2>1
<1>4. m \in Nat /\ next <= m /\ next # 0
  <2>1. Detached(new, page, ref, comp, next, m)
    <3>1. m = next + Cardinality(DOMAIN Instantiated(page, ref, comp))
      OBVIOUS
    <3> HIDE DEF page, comp, m
    <3> QED BY <1>1, <1>2, <1>3, <3>1, DetachRefIs
  <2> HIDE DEF page, comp, m, new
  <2>2. m \in Nat /\ next <= m
    BY <2>1 DEF Detached
  <2> QED BY <1>2, <2>2
<1>5. /\ DOMAIN docs' = DOMAIN docs /\ docs'[activePageId] = new
      /\ \A d \in DOMAIN docs : d # activePageId => docs'[d] = docs[d]
  <2> HIDE DEF new
  <2> QED BY <1>1, <1>2
<1>6. D \subseteq Served /\ \A c \in D : c \in DOMAIN docs /\ c # activePageId
  BY <1>1, <1>2, <1>5, ServedStay DEF Served, Component
<1>7. \A c \in D : wish[c] = want[c]
  <2> SUFFICES ASSUME NEW c \in D PROVE wish[c] = want[c]
    OBVIOUS
  <2>1. c \in DOMAIN docs /\ c \in DOMAIN docs' /\ docs'[c] = docs[c]
    BY <1>5, <1>6
  <2> QED BY <2>1 DEF Wants
<1>8. Slotted(docs, clipboard, next, D, want)
  BY <1>2, <1>6, SlotsNow
<1> HIDE DEF D, want, wish
<1>9. /\ Fit(page.nodes, next, D, want, R) /\ Fit(comp.nodes, next, D, want, R)
      /\ IdsOf(page.nodes) \intersect IdsOf(comp.nodes) = {}
  <2> HIDE DEF R, used
  <2> QED BY <1>2, <1>8 DEF Slotted, R
<1>10. Kept(new.nodes, page.nodes, next, m, D, want, R)
  <2>1. m = next + Cardinality(DOMAIN Instantiated(page, ref, comp))
    OBVIOUS
  <2> HIDE DEF page, comp, m, R
  <2> QED BY <1>1, <1>2, <1>3, <1>9, <2>1, DetachKept DEF new
<1> HIDE DEF m, new, comp, used
<1> DEFINE now == docs'
<1>11. /\ DOMAIN now = DOMAIN docs /\ \A d \in DOMAIN docs : d # activePageId => now[d] = docs[d]
       /\ Kept(now[activePageId].nodes, docs[activePageId].nodes, next, m, D, want, AllRefs(docs, D))
  BY <1>5, <1>10
<1> HIDE DEF now
<1>12. Slotted(now, clipboard, m, D, want)
  BY <1>2, <1>4, <1>8, <1>11, EditSlotted
<1>13. Slotted(now, clipboard, m, D, wish)
  BY <1>4, <1>7, <1>12, SlottedFewer
<1> QED BY <1>1, <1>13 DEF Slotful, D, wish, now

\* What is open and what was copied aside, nothing changes.
LEMMA NavigateSlots ==
  ASSUME Slotful, UNCHANGED <<docs, clipboard, next, known>>
  PROVE  Slotful'
  BY DEF Slotful, Served, Component, Hit

-----------------------------------------------------------------------------
\* Every step, and the theorem.

\* The sites the editor may load have their slots.
LEMMA InitSlots == Init => Slotful
<1> SUFFICES ASSUME Init PROVE Slotful
  OBVIOUS
<1> DEFINE C == Served
           want == Wants(docs)
           R == AllRefs(docs, C)
           n == next
<1>1. PICK site \in Site : docs = site[1] /\ clipboard = site[2]
  BY DEF Init
<1>2. /\ \A d \in DOMAIN docs : IsForest(docs[d].nodes) /\ IsWhole(docs[d].nodes, {docs[d].rootNodeId})
      /\ \A d \in DOMAIN docs : docs[d].nodes[docs[d].rootNodeId].parentId = Null
      /\ \A c \in DOMAIN docs \ Page : HasItsSlots(docs, c)
      /\ IsCopied(clipboard.nodes, docs)
      /\ Apart(docs)
      /\ IsCut(clipboard) /\ IsWhole(clipboard.nodes, ToSet(clipboard.rootNodeIds))
  BY <1>1, SiteAssumption
<1>3. TypeOK /\ n = FirstId /\ n \in Nat /\ \A d \in DOMAIN docs : IsDocument(docs[d], n)
  <2>1. TypeOK
    BY InitKeeps DEF Inv
  <2> QED BY <2>1, TypesAre DEF Init
<1>4. C = Component
  BY DEF Init, Served, Hit
<1> HIDE DEF n
<1>5. ASSUME NEW d \in DOMAIN docs
      PROVE  /\ DOMAIN docs[d].nodes \subseteq 1..(n - 1) /\ docs[d].rootNodeId \in DOMAIN docs[d].nodes
             /\ Shaped(docs[d].nodes) /\ Cached(docs[d].nodes)
             /\ \A id \in DOMAIN docs[d].nodes \ {docs[d].rootNodeId} :
                   \E p \in DOMAIN docs[d].nodes : id \in Held(docs[d].nodes, p)
  <2>1. /\ Lists(docs[d].nodes) /\ DOMAIN docs[d].nodes \subseteq 1..(n - 1)
        /\ docs[d].rootNodeId \in DOMAIN docs[d].nodes
    BY <1>3, DocumentLists DEF Sound
  <2>2. Shaped(docs[d].nodes) /\ Cached(docs[d].nodes)
    BY <1>2, <2>1, ForestIs
  <2> QED BY <1>2, <2>1, <2>2 DEF IsWhole, Held
<1>6. ASSUME NEW d \in DOMAIN docs PROVE IdsOf(docs[d].nodes) = DOMAIN docs[d].nodes
  <2>1. \A p \in DOMAIN docs[d].nodes : Held(docs[d].nodes, p) \subseteq DOMAIN docs[d].nodes
    BY <1>5 DEF Shaped
  <2> QED BY <2>1 DEF IdsOf
<1>7. \A d \in DOMAIN docs : RefsIn(docs[d].nodes, C) \subseteq R /\ RefsIn(docs[d].nodes, C) \subseteq DOMAIN docs[d].nodes
  BY DEF AllRefs, RefsIn
<1>8. ASSUME NEW d \in DOMAIN docs, NEW r \in RefsIn(docs[d].nodes, C)
      PROVE  OnlySlots(docs[d].nodes, r) /\ SlotNames(docs[d].nodes, r) = want[docs[d].nodes[r].componentId]
  <2> DEFINE c == docs[d].nodes[r].componentId
  <2>1. c \in DOMAIN docs \ Page /\ r \in Refs(docs[d], c)
    BY <1>4 DEF RefsIn, Refs, IsRefTo, Component
  <2>2. HasItsSlots(docs, c) /\ want[c] = OutletNames(docs[c])
    BY <1>2, <2>1 DEF Wants
  <2> HIDE DEF c, want
  <2>3. OnlySlots(docs[d].nodes, r) /\ SlotNames(docs[d].nodes, r) = want[c]
    BY <2>1, <2>2 DEF HasItsSlots
  <2> QED BY <2>3 DEF c
<1>9. R \subseteq 1..(n - 1)
  BY <1>5, <1>7 DEF AllRefs
<1> HIDE DEF want, C
<1>10. ASSUME NEW d \in DOMAIN docs PROVE Fit(docs[d].nodes, n, C, want, R)
  <2> DEFINE nodes == docs[d].nodes
             root == docs[d].rootNodeId
  <2>1. /\ DOMAIN nodes \subseteq 1..(n - 1) /\ root \in DOMAIN nodes /\ IdsOf(nodes) = DOMAIN nodes
        /\ Shaped(nodes) /\ Cached(nodes)
        /\ \A id \in DOMAIN nodes \ {root} : \E p \in DOMAIN nodes : id \in Held(nodes, p)
        /\ nodes[root].parentId = Null
    BY <1>2, <1>5, <1>6
  <2>2. R \intersect DOMAIN nodes = RefsIn(nodes, C)
    <3> SUFFICES ASSUME NEW r \in R, r \in DOMAIN nodes PROVE r \in RefsIn(nodes, C)
      BY <1>7
    <3>1. PICK e \in DOMAIN docs : r \in RefsIn(docs[e].nodes, C)
      BY DEF AllRefs
    <3>2. r \in DOMAIN docs[e].nodes
      BY <1>7, <3>1
    <3>3. e = d
      BY <1>2, <3>2 DEF Apart
    <3> QED BY <3>1, <3>3
  <2>3. \A r \in RefsIn(nodes, C) : OnlySlots(nodes, r) /\ SlotNames(nodes, r) = want[nodes[r].componentId]
    BY <1>8
  <2> HIDE DEF nodes, root, R
  <2>4. \A r \in RefsIn(nodes, C) : \A k \in Held(nodes, r) : nodes[k].moduleId = "slot-instance" /\ nodes[k].locked
    BY <2>3 DEF OnlySlots, Held
  <2>5. ASSUME NEW r \in RefsIn(nodes, C) PROVE Own(nodes, r)
    <3>1. r \in DOMAIN nodes
      BY DEF RefsIn
    <3> QED BY <2>1, <2>4, <3>1 DEF Own, Shaped, Cached
  <2>6. ASSUME NEW x \in DOMAIN nodes
        PROVE  nodes[x].parentId \in Below(n) /\ (nodes[x].parentId \in R => nodes[x].moduleId = "slot-instance")
    <3>1. CASE x = root
      <4>1. 0 \in Below(n)
        BY <1>3, <2>1 DEF Below
      <4>2. 0 \notin R
        BY <1>9
      <4> QED BY <2>1, <3>1, <4>1, <4>2 DEF Null
    <3>2. CASE x # root
      <4>1. PICK p \in DOMAIN nodes : x \in Held(nodes, p)
        BY <2>1, <3>2
      <4>2. nodes[x].parentId = p /\ p \in Below(n)
        BY <1>3, <2>1, <4>1 DEF Cached, Below
      <4>3. p \in R => p \in RefsIn(nodes, C)
        BY <2>2
      <4> QED BY <2>4, <4>1, <4>2, <4>3
    <3> QED BY <3>1, <3>2
  <2>7. IdsOf(nodes) \subseteq Below(n)
    BY <1>3, <2>1 DEF Below
  <2>8. Owning(nodes, n, C, R)
    BY <1>9, <2>2, <2>5, <2>6, <2>7 DEF Owning
  <2>9. Calls(nodes, C, want)
    BY <2>3 DEF Calls
  <2>10. Fit(nodes, n, C, want, R)
    BY <2>8, <2>9 DEF Fit
  <2> QED BY <2>10 DEF nodes
<1>11. \A d, e \in DOMAIN docs : d # e => IdsOf(docs[d].nodes) \intersect IdsOf(docs[e].nodes) = {}
  BY <1>2, <1>6 DEF Apart
<1>12. Clip(clipboard.nodes, n, C, R)
  <2> DEFINE nodes == clipboard.nodes
  <2>1. IsNodes(nodes, n)
    BY <1>3, TypesAre DEF IsSnapshot, n
  <2>2. Shaped(nodes) /\ Cached(nodes)
    <3>1. Lists(nodes)
      BY <1>3, <2>1, NodesAre, NodesList
    <3> QED BY <1>2, <3>1, ForestIs DEF IsCut
  <2>3. \A r \in RefsIn(nodes, C) : r \in DOMAIN nodes /\ OnlySlots(nodes, r)
    BY <1>2 DEF IsCopied, RefsIn
  <2>4. \A x \in DOMAIN nodes : nodes[x].parentId \in R => nodes[x].moduleId = "slot-instance"
    <3> SUFFICES ASSUME NEW x \in DOMAIN nodes, nodes[x].parentId \in R PROVE nodes[x].moduleId = "slot-instance"
      OBVIOUS
    <3>1. PICK d \in DOMAIN docs : nodes[x].parentId \in RefsIn(docs[d].nodes, C)
      BY DEF AllRefs
    <3>2. PICK c \in DOMAIN docs \ Page : nodes[x].parentId \in Refs(docs[d], c)
      BY <1>4, <3>1 DEF RefsIn, Refs, IsRefTo, Component
    <3> QED BY <1>2, <3>2 DEF IsCopied
  <2>5. \A x \in DOMAIN nodes : nodes[x].parentId \in Below(n)
    <3> SUFFICES ASSUME NEW x \in DOMAIN nodes PROVE nodes[x].parentId \in Below(n)
      OBVIOUS
    <3>1. nodes[x] \in Node(n)
      BY <1>3, <2>1, NodesAre
    <3>2. nodes[x].parentId \in Nat
      BY <3>1 DEF Node
    <3>3. nodes[x].parentId < n
      BY <1>2, <1>3 DEF IsCopied
    <3> QED BY <3>2, <3>3 DEF Below
  <2> HIDE DEF nodes, R
  <2>6. ASSUME NEW r \in RefsIn(nodes, C) PROVE Own(nodes, r)
    BY <2>2, <2>3 DEF Own, OnlySlots, Shaped, Cached, Held
  <2>7. Clip(nodes, n, C, R)
    BY <2>4, <2>5, <2>6 DEF Clip
  <2> QED BY <2>7 DEF nodes
<1> QED BY <1>10, <1>11, <1>12 DEF Slotful, Slotted, C, want, n

\* Every step keeps them.
LEMMA NextSlots == Inv /\ Slotful /\ [Next]_vars => Slotful'
<1> SUFFICES ASSUME Inv, Slotful, [Next]_vars PROVE Slotful'
  OBVIOUS
<1>1. CASE EditTree
  <2>1. CASE \E target \in Ids, module \in Module : InsertModule(target, module)
    BY <2>1, InsertModuleSlots
  <2>2. CASE \E target \in Ids, comp \in Component : InsertComponentRef(target, comp)
    BY <2>2, InsertComponentRefSlots
  <2>3. CASE \E ids \in Selection : DeleteNodes(ids)
    BY <2>3, DeleteNodesSlots
  <2>4. CASE \E ids \in Selection : DuplicateNodes(ids)
    BY <2>4, DuplicateNodesSlots
  <2>5. CASE \E ids \in Selection : Wrap(ids)
    BY <2>5, WrapSlots
  <2>6. CASE \E ids \in Selection : \E dragged \in ToSet(ids), over \in Ids, zone \in Zone :
                 Drop(ids, dragged, over, zone)
    BY <2>6, DropSlots
  <2>7. CASE \E id \in Ids, name \in SlotName : RenameOutlet(id, name)
    BY <2>7, RenameOutletSlots
  <2>8. CASE \E ids \in Selection : CopyNodes(ids)
    BY <2>8, CopyNodesSlots
  <2>9. CASE \E ids \in Selection : CutNodes(ids)
    BY <2>9, CutNodesSlots
  <2>10. CASE \E target \in Ids : Paste(target)
    BY <2>10, PasteSlots
  <2> QED BY <1>1, <2>1, <2>2, <2>3, <2>4, <2>5, <2>6, <2>7, <2>8, <2>9, <2>10 DEF EditTree
<1>2. CASE EditComponents
  <2>1. CASE CreateComponent
    BY <2>1, CreateComponentSlots
  <2>2. CASE \E comp \in Component : DeleteComponent(comp)
    BY <2>2, DeleteComponentSlots
  <2>3. CASE \E comp \in Component : ChangeSlotParam(comp)
    BY <2>3, ChangeSlotParamSlots
  <2>4. CASE \E id \in DOMAIN docs[activePageId].nodes : Convert(id)
    BY <2>4, ConvertSlots
  <2>5. CASE \E ref \in DOMAIN docs[activePageId].nodes : Detach(ref)
    BY <2>5, DetachSlots
  <2> QED BY <1>2, <2>1, <2>2, <2>3, <2>4, <2>5 DEF EditComponents
<1>3. CASE Navigate
  BY <1>3, NavigateSlots
     DEF Navigate, OpenComponent, ExitComponent, StartInlineEdit, EndInlineEdit, OpenPageInCanvas
<1>4. CASE UNCHANGED vars
  BY <1>4, NavigateSlots DEF vars
<1> QED BY <1>1, <1>2, <1>3, <1>4 DEF Next

\* What the slots need: every ref to a component that nothing has slipped for
\* owns its slots, nothing else has a ref for its parent, in the documents or in
\* the clipboard, and no id is mentioned in two documents or before it is used.
THEOREM AlwaysSlotful == Spec => []Slotful
<1>1. Init => Slotful
  BY InitSlots
<1>2. Inv /\ Slotful /\ [Next]_vars => Slotful'
  BY NextSlots
<1>3. Spec => []Inv
  BY Invariant
<1> QED BY <1>1, <1>2, <1>3, PTL DEF Spec

\* vcSlotReconcile.ts: whoever changes a component's outlets, and from wherever,
\* every ref to it has exactly their slots, in their order.
THEOREM SlotsAlwaysMatch == Spec => []SlotsMatch
<1>1. Slotful => SlotsMatch
  <2> SUFFICES ASSUME Slotful, NEW d \in DOMAIN docs, NEW c \in Component \ Hit("slots"), NEW r \in Refs(docs[d], c)
               PROVE  LET nodes == docs[d].nodes
                          kids == nodes[r].children
                          names == OutletNames(docs[c])
                      IN  /\ Len(kids) = Len(names)
                          /\ \A i \in DOMAIN kids : /\ nodes[kids[i]].moduleId = "slot-instance"
                                                    /\ nodes[kids[i]].slotName = names[i]
    BY DEF SlotsMatch
  <2> DEFINE nodes == docs[d].nodes
             kids == nodes[r].children
             names == OutletNames(docs[c])
  <2>1. Fit(nodes, next, Served, Wants(docs), AllRefs(docs, Served))
    BY DEF Slotful, Slotted
  <2>2. r \in RefsIn(nodes, Served) /\ nodes[r].componentId = c /\ c \in DOMAIN docs
    BY DEF Refs, IsRefTo, RefsIn, Served, Component
  <2>3. SlotNames(nodes, r) = Wants(docs)[c] /\ Own(nodes, r)
    BY <2>1, <2>2 DEF Fit, Calls, Owning
  <2>4. SlotNames(nodes, r) = names
    BY <2>2, <2>3 DEF Wants
  <2> HIDE DEF nodes, names
  <2>5. DOMAIN names = DOMAIN kids /\ \A i \in DOMAIN kids : nodes[kids[i]].slotName = names[i]
    BY <2>4 DEF SlotNames
  <2>6. \A i \in DOMAIN kids : nodes[kids[i]].moduleId = "slot-instance"
    <3>1. \A i \in DOMAIN kids : kids[i] \in Held(nodes, r)
      BY DEF Held, ToSet
    <3> QED BY <2>3, <3>1 DEF Own
  <2>7. Len(kids) = Len(names)
    BY <2>5
  <2> QED BY <2>5, <2>6, <2>7 DEF nodes, names
<1>2. Spec => []Slotful
  BY AlwaysSlotful
<1> QED BY <1>1, <1>2, PTL
=============================================================================
