--------------------------- MODULE EditorTrees_proofs -----------------------
(***************************************************************************)
(* For any site, ids, modules and bound on the edits that satisfy Editor's *)
(* assumptions: every document stays one tree, its parentIds agree with    *)
(* its lists, and what is dropped lands where it was seen to.              *)
(*                                                                         *)
(* None of the three is inductive. An edit trusts parentId to find the     *)
(* list a node is in (deleting, moving, wrapping) and the lists to find    *)
(* what is below it (deleting, copying), so the two must be known to agree *)
(* in all documents at once, and in the clipboard, from which a paste      *)
(* takes what it hangs; the sweep for a component edits documents that are *)
(* not open, with ids handed out in one sequence, so no two documents may  *)
(* share a node; and what hangs from nothing must be excluded while no     *)
(* slot has been lost. Trees says this, of everything that no known slip   *)
(* has reached: a parentId left stale (convert, a paste of several roots), *)
(* a node left in two lists (detach with two outlets of a name).           *)
(*                                                                         *)
(* A forest is a node map that lists everything at most once, in a         *)
(* relation with no cycle (Founded: every set of nodes has one that none   *)
(* of it lists). What each operator does to it is said by a relation:      *)
(* Grafts, Pruned, Moved, Slipped, Mirror, Turned, Fed; of each it is      *)
(* proved once that it keeps forests, cache and wholeness, and of each     *)
(* operator that it is such a step. A sweep is followed by Sweeping: its   *)
(* turns may meet refs that an earlier turn took away, and what they leave *)
(* stands where it stood.                                                  *)
(***************************************************************************)
EXTENDS Editor_proofs

-----------------------------------------------------------------------------
\* Lists that repeat nothing.

\* What filtering leaves repeats nothing.
LEMMA KeepOnce ==
  ASSUME NEW E, NEW list \in Seq(E), IsInjective(list), NEW set
  PROVE  IsInjective(Keep(list, set))
<1> DEFINE n == Len(list)
           Upto(k) == {list[i] : i \in 1..k}
<1>0. n \in Nat /\ DOMAIN list = 1..n /\ n \in 0..n
  OBVIOUS
<1>1. PICK f : /\ f = [k \in 0..n |-> IF k = 0 THEN <<>>
                          ELSE IF list[k] \in set THEN Append(f[k - 1], list[k]) ELSE f[k - 1]]
               /\ Keep(list, set) = f[n]
  BY <1>0, KeepTurns
<1> DEFINE S == {k \in 0..n : f[k] \in Seq(E) /\ IsInjective(f[k]) /\ ToSet(f[k]) \subseteq Upto(k)}
<1>2. 0 \in S
  <2>1. f[0] = <<>>
    BY <1>0, <1>1
  <2>2. <<>> \in Seq(E) /\ IsInjective(<<>>) /\ ToSet(<<>>) = {}
    BY DEF ToSet, IsInjective
  <2>3. 0 \in 0..n
    BY <1>0
  <2> HIDE DEF Upto, n
  <2> QED BY <2>1, <2>2, <2>3
<1>3. ASSUME NEW k \in 0..(n - 1), k \in S PROVE k + 1 \in S
  <2>1. k + 1 \in 0..n /\ k + 1 # 0 /\ (k + 1) - 1 = k /\ list[k + 1] \in E
    OBVIOUS
  <2>2. f[k + 1] = IF list[k + 1] \in set THEN Append(f[k], list[k + 1]) ELSE f[k]
    BY <1>1, <2>1
  <2>3. Upto(k) \subseteq Upto(k + 1) /\ list[k + 1] \in Upto(k + 1)
    OBVIOUS
  <2>4. list[k + 1] \notin Upto(k)
    <3> SUFFICES ASSUME NEW i \in 1..k, list[i] = list[k + 1] PROVE FALSE
      OBVIOUS
    <3>1. i \in DOMAIN list /\ k + 1 \in DOMAIN list /\ i # k + 1
      BY <1>0
    <3> QED BY <3>1 DEF IsInjective
  <2>5. f[k] \in Seq(E) /\ IsInjective(f[k]) /\ ToSet(f[k]) \subseteq Upto(k)
    BY <1>3
  <2> HIDE DEF Upto
  <2>6. CASE list[k + 1] \in set
    <3> DEFINE one == <<list[k + 1]>>
    <3>1. one \in Seq(E) /\ ToSet(one) = {list[k + 1]} /\ IsInjective(one)
      BY <2>1 DEF ToSet, IsInjective
    <3>2. f[k + 1] = f[k] \o one
      <4>1. \A e \in E, s \in Seq(E) : Append(s, e) = s \o <<e>>
        OBVIOUS
      <4> QED BY <2>1, <2>2, <2>5, <2>6, <4>1
    <3> HIDE DEF one
    <3>3. f[k] \o one \in Seq(E) /\ ToSet(f[k] \o one) = ToSet(f[k]) \union ToSet(one)
      BY <2>5, <3>1, ConcatIs
    <3>4. IsInjective(f[k] \o one)
      BY <2>4, <2>5, <3>1, ConcatOnce
    <3> QED BY <2>1, <2>3, <2>5, <3>1, <3>2, <3>3, <3>4
  <2>7. CASE list[k + 1] \notin set
    BY <2>1, <2>2, <2>3, <2>5, <2>7
  <2> QED BY <2>6, <2>7
<1>4. n \in S
  <2> HIDE DEF S
  <2> QED BY <1>0, <1>2, <1>3, UpTo
<1> QED BY <1>1, <1>4

\* A part of a list that repeats nothing.
LEMMA PartOnce ==
  ASSUME NEW E, NEW s \in Seq(E), IsInjective(s), NEW a \in Nat \ {0}, NEW b \in 0..Len(s)
  PROVE  IsInjective(SubSeq(s, a, b))
<1>1. \A i \in DOMAIN SubSeq(s, a, b) : /\ i \in Nat /\ a + i - 1 \in DOMAIN s
                                        /\ SubSeq(s, a, b)[i] = s[a + i - 1]
  OBVIOUS
<1> SUFFICES ASSUME NEW i \in DOMAIN SubSeq(s, a, b), NEW j \in DOMAIN SubSeq(s, a, b),
                    SubSeq(s, a, b)[i] = SubSeq(s, a, b)[j]
             PROVE  i = j
  BY DEF IsInjective
<1>2. a + i - 1 = a + j - 1
  BY <1>1 DEF IsInjective
<1> QED BY <1>1, <1>2

\* Putting one list into another repeats nothing if they share nothing.
LEMMA SpliceOnce ==
  ASSUME NEW E, NEW list \in Seq(E), NEW ids \in Seq(E), NEW index \in Int,
         IsInjective(list), IsInjective(ids), ToSet(list) \intersect ToSet(ids) = {}
  PROVE  IsInjective(Splice(list, index, ids))
<1> DEFINE n == Len(list)
           k == IF index > n THEN n ELSE IF index < 0 THEN 0 ELSE index
           front == SubSeq(list, 1, k)
           back == SubSeq(list, k + 1, n)
<1>1. n \in Nat /\ k \in 0..n /\ k + 1 \in Nat \ {0} /\ 1 \in Nat \ {0} /\ n \in 0..n
  OBVIOUS
<1>2. Splice(list, index, ids) = front \o ids \o back
  BY DEF Splice
<1> HIDE DEF k, n
<1>3. /\ front \in Seq(E) /\ ToSet(front) \subseteq {list[i] : i \in 1..k} /\ IsInjective(front)
      /\ back \in Seq(E) /\ ToSet(back) \subseteq {list[i] : i \in (k + 1)..n} /\ IsInjective(back)
  BY <1>1, PartIs, PartOnce DEF n
<1>4. ToSet(front) \intersect ToSet(back) = {}
  <2> SUFFICES ASSUME NEW i \in 1..k, NEW j \in (k + 1)..n, list[i] = list[j] PROVE FALSE
    BY <1>3
  <2>1. i \in DOMAIN list /\ j \in DOMAIN list /\ i # j
    BY <1>1 DEF n
  <2> QED BY <2>1 DEF IsInjective
<1>5. ToSet(front) \subseteq ToSet(list) /\ ToSet(back) \subseteq ToSet(list)
  <2>1. 1..k \subseteq DOMAIN list /\ (k + 1)..n \subseteq DOMAIN list
    BY <1>1 DEF n
  <2> QED BY <1>3, <2>1 DEF ToSet
<1> HIDE DEF front, back
<1>6. /\ front \o ids \in Seq(E) /\ IsInjective(front \o ids)
      /\ ToSet(front \o ids) = ToSet(front) \union ToSet(ids)
  BY <1>3, <1>5, ConcatIs, ConcatOnce
<1>7. IsInjective((front \o ids) \o back)
  BY <1>3, <1>4, <1>5, <1>6, ConcatOnce
<1> QED BY <1>2, <1>7

\* Replacing one element by a new one.
LEMMA ReplaceOnce ==
  ASSUME NEW E, NEW list \in Seq(E), IsInjective(list), NEW x, NEW new \in E, new \notin ToSet(list)
  PROVE  /\ IsInjective(Replace(list, x, new))
         /\ ToSet(Replace(list, x, new)) = IF x \in ToSet(list)
                                           THEN (ToSet(list) \ {x}) \union {new} ELSE ToSet(list)
<1> DEFINE at == IndexOf(list, x) + 1
<1>1. /\ DOMAIN list = 1..Len(list) /\ DOMAIN Replace(list, x, new) = DOMAIN list
      /\ \A i \in DOMAIN list : Replace(list, x, new)[i] = IF i = at THEN new ELSE list[i]
  BY DEF Replace
<1>2. \A i \in DOMAIN list : list[i] # new
  BY DEF ToSet
<1>3. /\ x \in ToSet(list) => at \in DOMAIN list /\ list[at] = x
      /\ x \notin ToSet(list) => at \notin DOMAIN list
  <2>1. Contains(list, x) <=> x \in ToSet(list)
    BY ContainsIs
  <2>2. ~Contains(list, x) => at = 0
    BY IndexOfIs
  <2> QED BY <1>1, <2>1, <2>2, IndexOfIs
<1> HIDE DEF at
<1>4. IsInjective(Replace(list, x, new))
  BY <1>1, <1>2 DEF IsInjective
<1>5. CASE x \notin ToSet(list)
  BY <1>1, <1>3, <1>4, <1>5 DEF ToSet
<1>6. CASE x \in ToSet(list)
  <2>1. \A i \in DOMAIN list : i # at => list[i] # x
    BY <1>3, <1>6 DEF IsInjective
  <2> QED BY <1>1, <1>3, <1>4, <1>6, <2>1 DEF ToSet
<1> QED BY <1>5, <1>6

\* A list that repeats nothing is as long as it has members.
LEMMA OnceLen ==
  ASSUME NEW E, NEW s \in Seq(E), IsInjective(s)
  PROVE  IsFiniteSet(ToSet(s)) /\ Cardinality(ToSet(s)) = Len(s)
<1>1. Len(s) \in Nat /\ DOMAIN s = 1..Len(s)
  OBVIOUS
<1>2. ToSet(s) = {s[i] : i \in 1..Len(s)} /\ s = [i \in 1..Len(s) |-> s[i]]
  BY <1>1 DEF ToSet
<1>3. s \in [1..Len(s) -> ToSet(s)]
  BY <1>2
<1>4. s \in Bijection(1..Len(s), ToSet(s))
  BY <1>1, <1>2, <1>3 DEF Bijection, Injection, Surjection, IsInjective
<1>5. ExistsBijection(1..Len(s), ToSet(s))
  BY <1>4 DEF ExistsBijection
<1> QED BY <1>1, <1>5, FS_CountingElements, FS_NatBijection

\* Ascending repeats nothing.
LEMMA AscendingOnce ==
  ASSUME NEW b \in Int, NEW ids, ids \subseteq 1..b
  PROVE  IsInjective(Ascending(ids))
<1>1. CASE ids = {}
  BY <1>1 DEF Ascending, IsInjective
<1>2. CASE ids # {}
  <2> DEFINE n == Max(ids)
             all == [i \in 1..n |-> i]
  <2>1. n \in Nat
    <3>1. PICK x \in ids : x \in 1..b
      BY <1>2
    <3>2. b \in Nat /\ ids \subseteq 0..b
      BY <3>1
    <3>3. n \in ids
      BY <1>2, <3>2, GreatestIs
    <3> HIDE DEF n
    <3> QED BY <3>3
  <2> HIDE DEF n
  <2>2. all \in Seq(Nat) /\ IsInjective(all)
    BY <2>1 DEF IsInjective
  <2>3. Ascending(ids) = Keep(all, ids)
    BY <1>2 DEF Ascending, n
  <2> HIDE DEF all
  <2> QED BY <2>2, <2>3, KeepOnce
<1> QED BY <1>1, <1>2

-----------------------------------------------------------------------------
\* Forests.

\* Whom a node lists.
Held(nodes, p) == ToSet(nodes[p].children)

\* Nothing goes round: some node of any set of them is listed by none of the set.
Founded(nodes) ==
    \A set \in SUBSET DOMAIN nodes : set # {} =>
        \E top \in set : \A p \in set : top \notin Held(nodes, p)

\* The lists alone make a forest.
Shaped(nodes) ==
    /\ Lists(nodes)
    /\ \A p \in DOMAIN nodes : IsInjective(nodes[p].children) /\ Held(nodes, p) \subseteq DOMAIN nodes
    /\ \A p, q \in DOMAIN nodes : p # q => Held(nodes, p) \intersect Held(nodes, q) = {}
    /\ Founded(nodes)

\* parentId agrees with them.
Cached(nodes) == \A p \in DOMAIN nodes : \A c \in Held(nodes, p) : nodes[c].parentId = p

\* IsForest is the lists and the cache together.
LEMMA ForestIs ==
  ASSUME NEW nodes, Lists(nodes)
  PROVE  IsForest(nodes) <=> Shaped(nodes) /\ Cached(nodes)
<1>1. ASSUME IsForest(nodes) PROVE Shaped(nodes) /\ Cached(nodes)
  <2>1. Founded(nodes)
    BY <1>1 DEF IsForest, Founded, Held
  <2>2. Cached(nodes)
    BY <1>1 DEF IsForest, Cached, Held
  <2>3. \A p \in DOMAIN nodes : IsInjective(nodes[p].children) /\ Held(nodes, p) \subseteq DOMAIN nodes
    BY <1>1 DEF IsForest, Held
  <2>4. \A p, q \in DOMAIN nodes : p # q => Held(nodes, p) \intersect Held(nodes, q) = {}
    BY <2>2 DEF Cached
  <2> QED BY <2>1, <2>2, <2>3, <2>4 DEF Shaped
<1>2. ASSUME Shaped(nodes), Cached(nodes) PROVE IsForest(nodes)
  <2>1. \A set \in SUBSET DOMAIN nodes : set # {} =>
           \E top \in set : \A p \in set : top \notin ToSet(nodes[p].children)
    BY <1>2 DEF Shaped, Founded, Held
  <2>2. \A p \in DOMAIN nodes :
           /\ IsInjective(nodes[p].children)
           /\ \A c \in ToSet(nodes[p].children) : c \in DOMAIN nodes /\ nodes[c].parentId = p
    BY <1>2 DEF Shaped, Cached, Held
  <2> QED BY <2>1, <2>2 DEF IsForest
<1> QED BY <1>1, <1>2

\* A forest some nodes and some entries have been taken out of.
LEMMA ShapedLess ==
  ASSUME NEW nodes, Shaped(nodes), NEW new, Lists(new), DOMAIN new \subseteq DOMAIN nodes,
         \A p \in DOMAIN new : /\ IsInjective(new[p].children)
                               /\ Held(new, p) \subseteq Held(nodes, p) \intersect DOMAIN new
  PROVE  Shaped(new)
<1>1. \A p \in DOMAIN new : IsInjective(new[p].children) /\ Held(new, p) \subseteq DOMAIN new
  OBVIOUS
<1>2. \A p, q \in DOMAIN new : p # q => Held(new, p) \intersect Held(new, q) = {}
  BY DEF Shaped
<1>3. ASSUME NEW set \in SUBSET DOMAIN new, set # {}
      PROVE  \E top \in set : \A p \in set : top \notin Held(new, p)
  <2>1. PICK top \in set : \A p \in set : top \notin Held(nodes, p)
    BY <1>3 DEF Shaped, Founded
  <2> QED BY <2>1
<1> QED BY <1>1, <1>2, <1>3 DEF Shaped, Founded

\* A forest a closed part of which gives some nodes to a node outside it.
LEMMA ShapedHung ==
  ASSUME NEW nodes, Shaped(nodes), NEW new, Lists(new), DOMAIN new = DOMAIN nodes,
         NEW parent \in DOMAIN nodes, NEW B, B \subseteq DOMAIN nodes, parent \notin B,
         \A p \in B : Held(nodes, p) \subseteq B,
         NEW ids, ids \subseteq B,
         \A p \in DOMAIN nodes : IsInjective(new[p].children),
         \A p \in DOMAIN nodes : p # parent => Held(new, p) \subseteq Held(nodes, p) \ ids,
         Held(new, parent) \subseteq Held(nodes, parent) \union ids
  PROVE  Shaped(new)
<1>1. \A p \in DOMAIN new : IsInjective(new[p].children) /\ Held(new, p) \subseteq DOMAIN new
  BY DEF Shaped
<1>2. \A p, q \in DOMAIN new : p # q => Held(new, p) \intersect Held(new, q) = {}
  <2>1. ASSUME NEW q \in DOMAIN nodes, q # parent
        PROVE  Held(new, parent) \intersect Held(new, q) = {}
    BY <2>1 DEF Shaped
  <2>2. ASSUME NEW p \in DOMAIN nodes, NEW q \in DOMAIN nodes, p # parent, q # parent, p # q
        PROVE  Held(new, p) \intersect Held(new, q) = {}
    BY <2>2 DEF Shaped
  <2> QED BY <2>1, <2>2
<1>3. ASSUME NEW set \in SUBSET DOMAIN new, set # {}
      PROVE  \E top \in set : \A p \in set : top \notin Held(new, p)
  <2>1. CASE set \subseteq B
    <3>1. PICK top \in set : \A p \in set : top \notin Held(nodes, p)
      BY <1>3 DEF Shaped, Founded
    <3> QED BY <2>1, <3>1
  <2>2. CASE ~(set \subseteq B)
    <3>1. set \ B \in SUBSET DOMAIN nodes /\ set \ B # {}
      BY <2>2
    <3>2. PICK top \in set \ B : \A p \in set \ B : top \notin Held(nodes, p)
      BY <3>1 DEF Shaped, Founded
    <3>3. ASSUME NEW p \in set, top \in Held(new, p) PROVE FALSE
      <4>1. CASE p \in B
        BY <3>2, <3>3, <4>1
      <4>2. CASE p \notin B
        BY <3>2, <3>3, <4>2
      <4> QED BY <4>1, <4>2
    <3> QED BY <3>2, <3>3
  <2> QED BY <2>1, <2>2
<1> QED BY <1>1, <1>2, <1>3 DEF Shaped, Founded

\* Two forests side by side.
LEMMA ShapedBeside ==
  ASSUME NEW a, Shaped(a), NEW b, Shaped(b), DOMAIN a \intersect DOMAIN b = {},
         NEW new, DOMAIN new = DOMAIN a \union DOMAIN b,
         \A id \in DOMAIN a : new[id].children = a[id].children,
         \A id \in DOMAIN b : new[id].children = b[id].children
  PROVE  Shaped(new)
<1>1. Lists(new)
  <2>1. IsFiniteSet(DOMAIN a \union DOMAIN b)
    BY FS_Union DEF Shaped, Lists
  <2>2. \A id \in DOMAIN new : new[id].children \in Seq(Nat)
    BY DEF Shaped, Lists
  <2> QED BY <2>1, <2>2 DEF Shaped, Lists
<1>2. /\ \A p \in DOMAIN a : Held(new, p) = Held(a, p)
      /\ \A p \in DOMAIN b : Held(new, p) = Held(b, p)
  BY DEF Held
<1>3. \A p \in DOMAIN new : IsInjective(new[p].children) /\ Held(new, p) \subseteq DOMAIN new
  BY <1>2 DEF Shaped
<1>4. ASSUME NEW p \in DOMAIN new, NEW q \in DOMAIN new, p # q
      PROVE  Held(new, p) \intersect Held(new, q) = {}
  <2>1. /\ \A x \in DOMAIN a : Held(new, x) \subseteq DOMAIN a
        /\ \A x \in DOMAIN b : Held(new, x) \subseteq DOMAIN b
    BY <1>2 DEF Shaped
  <2>2. CASE p \in DOMAIN a /\ q \in DOMAIN a
    BY <1>2, <1>4, <2>2 DEF Shaped
  <2>3. CASE p \in DOMAIN b /\ q \in DOMAIN b
    BY <1>2, <1>4, <2>3 DEF Shaped
  <2>4. CASE p \in DOMAIN a /\ q \in DOMAIN b
    BY <2>1, <2>4
  <2>5. CASE p \in DOMAIN b /\ q \in DOMAIN a
    BY <2>1, <2>5
  <2> QED BY <2>2, <2>3, <2>4, <2>5
<1>5. ASSUME NEW set \in SUBSET DOMAIN new, set # {}
      PROVE  \E top \in set : \A p \in set : top \notin Held(new, p)
  <2>1. \A p \in DOMAIN b : Held(new, p) \subseteq DOMAIN b
    BY <1>2 DEF Shaped
  <2>2. CASE set \subseteq DOMAIN b
    <3>1. PICK top \in set : \A p \in set : top \notin Held(b, p)
      BY <1>5, <2>2 DEF Shaped, Founded
    <3> QED BY <1>2, <2>2, <3>1
  <2>3. CASE ~(set \subseteq DOMAIN b)
    <3>1. set \ DOMAIN b \in SUBSET DOMAIN a /\ set \ DOMAIN b # {}
      BY <2>3
    <3>2. PICK top \in set \ DOMAIN b : \A p \in set \ DOMAIN b : top \notin Held(a, p)
      BY <3>1 DEF Shaped, Founded
    <3> QED BY <1>2, <2>1, <3>1, <3>2
  <2> QED BY <2>2, <2>3
<1> QED BY <1>1, <1>3, <1>4, <1>5 DEF Shaped, Founded

\* S is root and everything below it, and hangs from nothing else.
Branch(nodes, root, S) ==
    /\ S \subseteq DOMAIN nodes /\ root \in S
    /\ \A p \in S : Held(nodes, p) \subseteq S \ {root}
    /\ \A p \in DOMAIN nodes \ S : Held(nodes, p) \intersect S \subseteq {root}
    /\ \A x \in S \ {root} : \E p \in S : x \in Held(nodes, p)

\* The walk over a subtree collects a branch.
LEMMA SubtreeBranch ==
  ASSUME NEW tree, Shaped(tree.nodes), NEW root \in DOMAIN tree.nodes
  PROVE  Branch(tree.nodes, root, Subtree(tree, root))
<1> DEFINE S == Subtree(tree, root)
           nodes == tree.nodes
<1>1. Lists(nodes) /\ root \in Nat /\ Has(tree, root)
  BY DEF Shaped, Lists, Has
<1>2. /\ S \subseteq DOMAIN nodes /\ root \in S
      /\ \A x \in S : x = root \/ \E p \in S : x \in Held(nodes, p)
      /\ \A p \in S : \A c \in Held(nodes, p) : c \in DOMAIN nodes => c \in S
  BY <1>1, SubtreeIs DEF Held, Kids, Has
<1> HIDE DEF S
<1>3. \A p \in S : Held(nodes, p) \subseteq S
  BY <1>2 DEF Shaped
<1>4. ASSUME NEW q \in S, root \in Held(nodes, q) PROVE FALSE
  <2>1. PICK top \in S : \A p \in S : top \notin Held(nodes, p)
    BY <1>2 DEF Shaped, Founded
  <2> QED BY <1>2, <1>4, <2>1
<1>5. ASSUME NEW p \in DOMAIN nodes \ S, NEW x \in Held(nodes, p) \intersect S, x # root PROVE FALSE
  <2>1. PICK q \in S : x \in Held(nodes, q)
    BY <1>2, <1>5
  <2> QED BY <1>2, <2>1 DEF Shaped
<1>6. Branch(nodes, root, S)
  BY <1>2, <1>3, <1>4, <1>5 DEF Branch
<1> QED BY <1>6 DEF S

-----------------------------------------------------------------------------
\* What is above a node.

\* The chain up from a node goes all the way.
LEMMA ChainClosed ==
  ASSUME NEW tree, Lists(tree.nodes), NEW id \in DOMAIN tree.nodes
  PROVE  /\ Chain(tree, id) \in Seq(Nat)
         /\ id \in ToSet(Chain(tree, id))
         /\ \A x \in ToSet(Chain(tree, id)) :
               Parent(tree, x) # Null => Parent(tree, x) \in ToSet(Chain(tree, id))
<1> DEFINE n == Cardinality(DOMAIN tree.nodes)
           Climb(above) == LET parent == Parent(tree, Head(above))
                          IN  IF parent = Null \/ Contains(above, parent) THEN above
                              ELSE <<parent>> \o above
           Up(s, x) == Parent(tree, x) = Null \/ Parent(tree, x) \in ToSet(s)
           Good(k, s) ==
              /\ s \in Seq(Nat) /\ s # <<>>
              /\ ToSet(s) \subseteq DOMAIN tree.nodes
              /\ id \in ToSet(s)
              /\ \A x \in ToSet(s) : x = Head(s) \/ Up(s, x)
              /\ Up(s, Head(s)) \/ Cardinality(ToSet(s)) = k + 1
<1>0. n \in Nat /\ IsFiniteSet(DOMAIN tree.nodes) /\ id \in Nat
  BY FS_CardinalityType DEF Lists
<1>1. PICK f : /\ f = [k \in 0..n |-> IF k = 0 THEN <<id>> ELSE Climb(f[k - 1])]
               /\ Chain(tree, id) = f[n]
  BY <1>0, ChainTurns
<1>2. Good(0, f[0])
  <2>1. f[0] = <<id>>
    BY <1>0, <1>1
  <2> DEFINE s == <<id>>
  <2>2. s \in Seq(Nat) /\ s # <<>> /\ Head(s) = id /\ ToSet(s) = {id}
    BY <1>0 DEF ToSet
  <2>3. Cardinality({id}) = 1
    BY FS_Singleton
  <2> HIDE DEF s
  <2>4. Good(0, s)
    BY <2>2, <2>3
  <2> QED BY <2>1, <2>4 DEF s
<1>3. ASSUME NEW k \in 0..(n - 1), Good(k, f[k]) PROVE Good(k + 1, f[k + 1])
  <2> DEFINE s == f[k]
             p == Parent(tree, Head(s))
  <2>1. f[k + 1] = Climb(s)
    <3>1. k + 1 \in 0..n /\ k + 1 # 0 /\ (k + 1) - 1 = k
      BY <1>0
    <3> HIDE DEF Climb
    <3> QED BY <1>1, <3>1
  <2>2. Good(k, s)
    BY <1>3
  <2> HIDE DEF s
  <2>3. \A x : Contains(s, x) <=> x \in ToSet(s)
    BY <2>2, ContainsIs
  <2>4. CASE Up(s, Head(s))
    <3>1. Climb(s) = s
      BY <2>3, <2>4
    <3> QED BY <2>1, <2>2, <2>4, <3>1
  <2>5. CASE ~Up(s, Head(s))
    <3>1. Climb(s) = <<p>> \o s /\ p # Null /\ p \notin ToSet(s)
      BY <2>3, <2>5
    <3>2. p \in DOMAIN tree.nodes /\ p \in Nat
      BY <3>1, ParentIs DEF Null
    <3>3. Cardinality(ToSet(s)) = k + 1 /\ IsFiniteSet(ToSet(s))
      BY <1>0, <2>2, <2>5, FS_Subset
    <3> HIDE DEF p
    <3> DEFINE one == <<p>>
               t == one \o s
    <3>4. one \in Seq(Nat) /\ ToSet(one) = {p} /\ s \in Seq(Nat)
      BY <2>2, <3>2 DEF ToSet
    <3>5. t # <<>> /\ Head(t) = p
      BY <3>2, <3>4
    <3> HIDE DEF one
    <3>6. t \in Seq(Nat) /\ ToSet(t) = {p} \union ToSet(s)
      BY <3>4, ConcatIs
    <3> HIDE DEF t
    <3>7. Cardinality({p} \union ToSet(s)) = k + 1 + 1
      <4>1. Cardinality(ToSet(s) \union {p}) = Cardinality(ToSet(s)) + 1
        BY <3>1, <3>3, FS_AddElement
      <4>2. ToSet(s) \union {p} = {p} \union ToSet(s)
        OBVIOUS
      <4> QED BY <3>3, <4>1, <4>2
    <3>8. ASSUME NEW x \in ToSet(t) PROVE x = Head(t) \/ Up(t, x)
      <4>1. CASE x = Head(s)
        BY <3>6, <4>1 DEF p
      <4>2. CASE x # Head(s) /\ x \in ToSet(s)
        BY <2>2, <3>6, <4>2
      <4> QED BY <3>5, <3>6, <4>1, <4>2
    <3>9. Good(k + 1, t)
      BY <2>2, <3>2, <3>5, <3>6, <3>7, <3>8
    <3> QED BY <2>1, <3>1, <3>9 DEF t, one
  <2> QED BY <2>4, <2>5
<1>4. Good(n, f[n])
  <2> HIDE DEF Good, n
  <2> DEFINE S == {k \in 0..n : Good(k, f[k])}
  <2>1. 0 \in S /\ \A k \in 0..(n - 1) : k \in S => k + 1 \in S
    BY <1>0, <1>2, <1>3
  <2>2. n \in 0..n
    BY <1>0
  <2> HIDE DEF S
  <2>3. n \in S
    BY <1>0, <2>1, <2>2, UpTo
  <2> QED BY <2>3 DEF S
<1>5. Up(f[n], Head(f[n]))
  <2>1. Cardinality(ToSet(f[n])) <= n
    BY <1>0, <1>4, FS_Subset
  <2> HIDE DEF n, Up
  <2>2. Cardinality(ToSet(f[n])) # n + 1
    BY <1>0, <2>1
  <2> QED BY <1>4, <2>2
<1> QED BY <1>1, <1>4, <1>5

\* What is not above a node does not have it below.
LEMMA NotAbove ==
  ASSUME NEW tree, Shaped(tree.nodes), Cached(tree.nodes), Null \notin DOMAIN tree.nodes,
         NEW top \in DOMAIN tree.nodes, NEW id \in DOMAIN tree.nodes, ~IsAncestor(tree, top, id)
  PROVE  id \notin Subtree(tree, top)
<1> DEFINE up == ToSet(Chain(tree, id))
           T == DOMAIN tree.nodes \ up
<1>1. Lists(tree.nodes) /\ top \in Nat
  BY DEF Shaped, Lists
<1>2. /\ Chain(tree, id) \in Seq(Nat) /\ id \in up
      /\ \A x \in up : Parent(tree, x) # Null => Parent(tree, x) \in up
  BY <1>1, ChainClosed
<1>3. top \in T
  BY <1>2, ContainsIs DEF IsAncestor
<1> HIDE DEF up
<1>4. ASSUME NEW p \in T, NEW c \in Kids(tree, p), c \in up PROVE FALSE
  <2>1. c \in DOMAIN tree.nodes /\ tree.nodes[c].parentId = p
    BY <1>4 DEF Shaped, Cached, Held, Kids
  <2>2. Parent(tree, c) = p /\ p # Null
    BY <2>1 DEF Parent, Has
  <2> QED BY <1>2, <1>4, <2>2
<1>5. Subtree(tree, top) \subseteq T
  <2>1. \A p \in T : Has(tree, p) => \A c \in Kids(tree, p) : Has(tree, c) => c \in T
    BY <1>4 DEF Has
  <2> HIDE DEF T
  <2> QED BY <1>1, <1>3, <2>1, SubtreeLeast
<1> QED BY <1>2, <1>5

-----------------------------------------------------------------------------
\* The walk over a forest; what Trees keeps of a document.

\* The walk over a subtree meets no node twice.
LEMMA WalkOnce ==
  ASSUME NEW tree, Lists(tree.nodes), NEW root \in Nat
  PROVE  IsInjective(CollectSubtreeIds(tree, root))
<1> DEFINE n == Cardinality(DOMAIN tree.nodes)
           base == [todo |-> <<root>>, done |-> <<>>]
           Good(now) == now \in Stage /\ IsInjective(now.done)
<1>0. n \in Nat
  BY FS_CardinalityType DEF Lists
<1>1. PICK f : /\ f = [k \in 0..n |-> IF k = 0 THEN base ELSE Visit(tree, f[k - 1])]
               /\ CollectSubtreeIds(tree, root) = f[n].done
  BY <1>0, CollectTurns
<1>2. Good(f[0])
  <2>1. f[0] = base
    BY <1>0, <1>1
  <2>2. base \in Stage /\ IsInjective(base.done)
    BY DEF Stage, IsInjective
  <2> QED BY <2>1, <2>2
<1>3. ASSUME NEW k \in 0..(n - 1), Good(f[k]) PROVE Good(f[k + 1])
  <2> DEFINE now == f[k]
             new == {i \in DOMAIN now.todo :
                        Has(tree, now.todo[i]) /\ ~Contains(now.done, now.todo[i])}
             id == now.todo[Min(new)]
             one == <<id>>
  <2>1. f[k + 1] = Visit(tree, now)
    <3>1. k + 1 \in 0..n /\ k + 1 # 0 /\ (k + 1) - 1 = k
      BY <1>0
    <3> HIDE DEF base
    <3> QED BY <1>1, <3>1
  <2>2. now \in Stage /\ IsInjective(now.done) /\ now.todo \in Seq(Nat) /\ now.done \in Seq(Nat)
    BY <1>3 DEF Stage
  <2>3. CASE Visit(tree, now) = now
    BY <2>1, <2>2, <2>3
  <2>4. CASE Visit(tree, now) # now
    <3>1. Visit(tree, now) \in Stage
      BY <2>2, <2>4, VisitIs
    <3>2. new # {} /\ Visit(tree, now).done = Append(now.done, id)
      BY <2>4 DEF Visit
    <3>3. Min(new) \in new
      <4>1. new \subseteq Nat
        BY <2>2
      <4> HIDE DEF new
      <4> QED BY <3>2, <4>1, LeastIs
    <3>4. id \in Nat /\ ~Contains(now.done, id)
      <4>1. \A i \in new : now.todo[i] \in Nat /\ ~Contains(now.done, now.todo[i])
        BY <2>2
      <4> HIDE DEF new
      <4> QED BY <3>3, <4>1
    <3> HIDE DEF id, now
    <3>5. one \in Seq(Nat) /\ IsInjective(one) /\ ToSet(one) = {id} /\ id \notin ToSet(now.done)
      BY <2>2, <3>4, ContainsIs DEF IsInjective, ToSet
    <3>6. Append(now.done, id) = now.done \o one
      <4>1. \A e \in Nat, s \in Seq(Nat) : Append(s, e) = s \o <<e>>
        OBVIOUS
      <4> QED BY <2>2, <3>4, <4>1
    <3> HIDE DEF one
    <3>7. IsInjective(now.done \o one)
      BY <2>2, <3>5, ConcatOnce
    <3> QED BY <2>1, <3>1, <3>2, <3>6, <3>7
  <2> QED BY <2>3, <2>4
<1>4. Good(f[n])
  <2> HIDE DEF Good, n
  <2> DEFINE S == {k \in 0..n : Good(f[k])}
  <2>1. 0 \in S /\ \A k \in 0..(n - 1) : k \in S => k + 1 \in S
    BY <1>0, <1>2, <1>3
  <2>2. n \in 0..n
    BY <1>0
  <2> HIDE DEF S
  <2>3. n \in S
    BY <1>0, <2>1, <2>2, UpTo
  <2> QED BY <2>3 DEF S
<1> QED BY <1>1, <1>4

\* A tree as the invariant keeps it; whole says whether stray nodes are excluded.
Grown(tree, whole) ==
    /\ Shaped(tree.nodes)
    /\ Cached(tree.nodes)
    /\ whole => IsWhole(tree.nodes, {tree.rootNodeId})

\* What IsTree says of one document.
OneTree(tree, whole) ==
    LET nodes == tree.nodes
        reached == CollectSubtreeIds(tree, tree.rootNodeId)
        listed == FlattenSeq([i \in DOMAIN reached |-> nodes[reached[i]].children])
    IN  /\ ToSet(reached) = DOMAIN nodes \/ ~whole
        /\ ToSet(listed) = ToSet(reached) \ {tree.rootNodeId}
        /\ Len(listed) = Len(reached) - 1

\* What the invariant keeps is what IsTree asks.
LEMMA GrownIsTree ==
  ASSUME NEW n \in Nat, NEW tree, IsDocument(tree, n), NEW whole, Grown(tree, whole)
  PROVE  OneTree(tree, whole)
<1> DEFINE nodes == tree.nodes
           root == tree.rootNodeId
           S == Subtree(tree, root)
           reached == CollectSubtreeIds(tree, root)
           lists == [i \in DOMAIN reached |-> nodes[reached[i]].children]
           listed == FlattenSeq(lists)
<1>1. /\ Lists(nodes) /\ root \in Nat /\ root \in DOMAIN nodes /\ Shaped(nodes)
      /\ \A id \in DOMAIN nodes : root \notin Held(nodes, id)
  BY DocumentLists DEF Grown, Held
<1>2. Branch(nodes, root, S)
  BY <1>1, SubtreeBranch
<1>3. /\ reached \in Seq(Nat) /\ IsInjective(reached) /\ ToSet(reached) = S
      /\ DOMAIN reached = 1..Len(reached) /\ Len(reached) \in Nat
  BY <1>1, SubtreeIs, WalkOnce DEF Subtree
<1> HIDE DEF S, reached
<1>4. \A i \in 1..Len(reached) : reached[i] \in S /\ reached[i] \in DOMAIN nodes
  BY <1>2, <1>3 DEF Branch, ToSet
<1>5. /\ lists \in Seq(Seq(Nat)) /\ Len(lists) = Len(reached)
      /\ \A i \in 1..Len(reached) : lists[i] = nodes[reached[i]].children
  <2>1. \A i \in 1..Len(reached) : nodes[reached[i]].children \in Seq(Nat)
    BY <1>1, <1>4 DEF Lists
  <2> QED BY <1>3, <2>1
<1> HIDE DEF lists
<1>6. /\ listed \in Seq(Nat)
      /\ ToSet(listed) = UNION {ToSet(lists[i]) : i \in 1..Len(reached)}
      /\ IsInjective(listed)
  <2>1. \A i \in 1..Len(lists) : IsInjective(lists[i])
    BY <1>1, <1>4, <1>5 DEF Shaped
  <2>2. ASSUME NEW i \in 1..Len(lists), NEW j \in 1..Len(lists), i # j
        PROVE  ToSet(lists[i]) \intersect ToSet(lists[j]) = {}
    <3>1. reached[i] # reached[j]
      BY <1>3, <1>5, <2>2 DEF IsInjective
    <3> QED BY <1>1, <1>4, <1>5, <3>1 DEF Shaped, Held
  <2> QED BY <1>5, <2>1, <2>2, FlattenIs
<1> HIDE DEF listed
<1>7. ToSet(listed) = S \ {root}
  <2>1. ToSet(listed) = UNION {Held(nodes, p) : p \in S}
    <3>1. S = {reached[i] : i \in 1..Len(reached)}
      BY <1>3 DEF ToSet
    <3>2. \A i \in 1..Len(reached) : ToSet(lists[i]) = Held(nodes, reached[i])
      BY <1>5 DEF Held
    <3>3. {ToSet(lists[i]) : i \in 1..Len(reached)} = {Held(nodes, p) : p \in S}
      BY <3>1, <3>2
    <3> QED BY <1>6, <3>3
  <2> QED BY <1>2, <2>1 DEF Branch
<1>8. Len(listed) = Len(reached) - 1
  <2>1. IsFiniteSet(S) /\ Cardinality(S) = Len(reached) /\ Cardinality(S \ {root}) = Len(listed)
    BY <1>3, <1>6, <1>7, OnceLen
  <2>2. root \in S
    BY <1>2 DEF Branch
  <2>3. Cardinality(S \ {root}) = Cardinality(S) - 1
    BY <2>1, <2>2, FS_RemoveElement
  <2> QED BY <2>1, <2>3
<1>9. whole => S = DOMAIN nodes
  <2> SUFFICES ASSUME whole, DOMAIN nodes \ S # {} PROVE FALSE
    BY <1>2 DEF Branch
  <2>1. PICK top \in DOMAIN nodes \ S : \A p \in DOMAIN nodes \ S : top \notin Held(nodes, p)
    BY <1>1 DEF Shaped, Founded
  <2>2. top # root
    BY <1>2 DEF Branch
  <2>3. PICK p \in DOMAIN nodes : top \in Held(nodes, p)
    BY <2>1, <2>2 DEF Grown, IsWhole, Held
  <2> QED BY <1>2, <2>1, <2>3 DEF Branch
<1>10. ToSet(reached) = DOMAIN nodes \/ ~whole
  BY <1>3, <1>9
<1>11. ToSet(listed) = ToSet(reached) \ {root}
  BY <1>3, <1>7
<1> QED BY <1>8, <1>10, <1>11 DEF OneTree, listed, lists, reached

-----------------------------------------------------------------------------
\* Grafting.

\* Only the empty list has no members.
LEMMA NoMembers ==
  ASSUME NEW E, NEW s \in Seq(E), ToSet(s) = {}
  PROVE  s = <<>>
<1>1. Len(s) \in Nat /\ DOMAIN s = 1..Len(s)
  OBVIOUS
<1>2. ASSUME Len(s) # 0 PROVE FALSE
  <2>1. 1 \in DOMAIN s
    BY <1>1, <1>2
  <2> QED BY <2>1 DEF ToSet
<1> QED BY <1>2

\* A forest beside another, its tops hung under one of the other's nodes.
Grafts(new, a, b, parent, ids) ==
    /\ DOMAIN a \intersect DOMAIN b = {} /\ parent \in DOMAIN a /\ ids \subseteq DOMAIN b
    /\ \A p \in DOMAIN b : Held(b, p) \intersect ids = {}
    /\ DOMAIN new = DOMAIN a \union DOMAIN b
    /\ new[parent].children \in Seq(Nat) /\ IsInjective(new[parent].children)
    /\ Held(new, parent) = Held(a, parent) \union ids
    /\ \A id \in DOMAIN a : /\ id # parent => new[id].children = a[id].children
                            /\ new[id].parentId = a[id].parentId
                            /\ new[id].moduleId = a[id].moduleId
    /\ \A id \in DOMAIN b : /\ new[id].children = b[id].children
                            /\ new[id].parentId = IF id \in ids THEN parent ELSE b[id].parentId
                            /\ new[id].moduleId = b[id].moduleId

\* A graft is a forest.
LEMMA Grafted ==
  ASSUME NEW a, Shaped(a), Cached(a), NEW b, Shaped(b), Cached(b), NEW parent, NEW ids, NEW new,
         Grafts(new, a, b, parent, ids)
  PROVE  Shaped(new) /\ Cached(new)
<1> DEFINE mid == [id \in DOMAIN a \union DOMAIN b |->
                      [children |-> IF id \in DOMAIN a THEN a[id].children ELSE b[id].children]]
<1>1. /\ DOMAIN mid = DOMAIN a \union DOMAIN b
      /\ \A id \in DOMAIN a : mid[id].children = a[id].children
      /\ \A id \in DOMAIN b : mid[id].children = b[id].children
  BY DEF Grafts
<1> HIDE DEF mid
<1>2. Shaped(mid)
  BY <1>1, ShapedBeside DEF Grafts
<1>3. /\ \A p \in DOMAIN a : Held(mid, p) = Held(a, p)
      /\ \A p \in DOMAIN b : Held(mid, p) = Held(b, p) /\ Held(b, p) \subseteq DOMAIN b
  BY <1>1 DEF Held, Shaped
<1>4. /\ \A p \in DOMAIN a : p # parent => Held(new, p) = Held(a, p)
      /\ \A p \in DOMAIN b : Held(new, p) = Held(b, p)
  BY DEF Held, Grafts
<1>5. Lists(new)
  <2>1. \A id \in DOMAIN new : new[id].children \in Seq(Nat)
    <3> SUFFICES ASSUME NEW id \in DOMAIN new PROVE new[id].children \in Seq(Nat)
      OBVIOUS
    <3>1. CASE id = parent
      BY <3>1 DEF Grafts
    <3>2. CASE id \in DOMAIN a /\ id # parent
      BY <3>2 DEF Grafts, Shaped, Lists
    <3>3. CASE id \in DOMAIN b
      BY <3>3 DEF Grafts, Shaped, Lists
    <3> QED BY <3>1, <3>2, <3>3 DEF Grafts
  <2> QED BY <1>1, <1>2, <2>1 DEF Shaped, Lists, Grafts
<1>6. \A p \in DOMAIN mid : IsInjective(new[p].children)
  <2> SUFFICES ASSUME NEW id \in DOMAIN mid PROVE IsInjective(new[id].children)
    OBVIOUS
  <2>1. CASE id = parent
    BY <2>1 DEF Grafts
  <2>2. CASE id \in DOMAIN a /\ id # parent
    BY <2>2 DEF Grafts, Shaped
  <2>3. CASE id \in DOMAIN b
    BY <2>3 DEF Grafts, Shaped
  <2> QED BY <1>1, <2>1, <2>2, <2>3
<1>7. \A p \in DOMAIN mid : p # parent => Held(new, p) \subseteq Held(mid, p) \ ids
  <2>1. ASSUME NEW p \in DOMAIN a PROVE Held(a, p) \intersect ids = {}
    BY DEF Grafts, Shaped
  <2> QED BY <1>1, <1>3, <1>4, <2>1 DEF Grafts
<1>8. /\ parent \in DOMAIN mid /\ DOMAIN b \subseteq DOMAIN mid /\ parent \notin DOMAIN b
      /\ \A p \in DOMAIN b : Held(mid, p) \subseteq DOMAIN b
      /\ ids \subseteq DOMAIN b /\ DOMAIN new = DOMAIN mid
      /\ Held(new, parent) \subseteq Held(mid, parent) \union ids
  BY <1>1, <1>3 DEF Grafts
<1>9. Shaped(new)
  BY <1>2, <1>5, <1>6, <1>7, <1>8, ShapedHung
<1>10. ASSUME NEW p \in DOMAIN new, NEW c \in Held(new, p) PROVE new[c].parentId = p
  <2>1. CASE p = parent
    <3>1. CASE c \in ids
      BY <2>1, <3>1 DEF Grafts
    <3>2. CASE c \in Held(a, parent)
      BY <2>1, <3>2 DEF Grafts, Shaped, Cached
    <3> QED BY <1>10, <2>1, <3>1, <3>2 DEF Grafts
  <2>2. CASE p \in DOMAIN a /\ p # parent
    BY <1>4, <1>10, <2>2 DEF Grafts, Shaped, Cached
  <2>3. CASE p \in DOMAIN b
    <3>1. c \in Held(b, p) /\ c \in DOMAIN b /\ c \notin ids
      BY <1>3, <1>4, <1>10, <2>3 DEF Grafts
    <3> QED BY <2>3, <3>1 DEF Grafts, Cached
  <2> QED BY <2>1, <2>2, <2>3 DEF Grafts
<1> QED BY <1>9, <1>10 DEF Cached

\* A graft strays nowhere.
LEMMA GraftedWhole ==
  ASSUME NEW a, NEW b, NEW parent, NEW ids, NEW new, Grafts(new, a, b, parent, ids),
         NEW roots, IsWhole(a, roots), IsWhole(b, ids), a[parent].moduleId # "slot-outlet"
  PROVE  IsWhole(new, roots)
<1>1. /\ \A p \in DOMAIN a : Held(a, p) \subseteq Held(new, p)
      /\ \A p \in DOMAIN b : Held(b, p) = Held(new, p)
      /\ DOMAIN new = DOMAIN a \union DOMAIN b /\ parent \in DOMAIN new /\ ids \subseteq Held(new, parent)
  BY DEF Held, Grafts
<1>2. ASSUME NEW id \in DOMAIN new \ roots PROVE \E p \in DOMAIN new : id \in Held(new, p)
  <2>1. CASE id \in DOMAIN a
    <3>1. PICK p \in DOMAIN a : id \in Held(a, p)
      BY <1>2, <2>1 DEF IsWhole, Held
    <3> QED BY <1>1, <3>1
  <2>2. CASE id \in ids
    BY <1>1, <2>2
  <2>3. CASE id \in DOMAIN b \ ids
    <3>1. PICK p \in DOMAIN b : id \in Held(b, p)
      BY <2>3 DEF IsWhole, Held
    <3> QED BY <1>1, <3>1
  <2> QED BY <1>1, <2>1, <2>2, <2>3
<1>3. ASSUME NEW id \in DOMAIN new, new[id].moduleId = "slot-outlet" PROVE new[id].children = <<>>
  <2>1. CASE id \in DOMAIN a
    BY <1>3, <2>1 DEF Grafts, IsWhole
  <2>2. CASE id \in DOMAIN b
    BY <1>3, <2>2 DEF Grafts, IsWhole
  <2> QED BY <1>1, <2>1, <2>2
<1> QED BY <1>2, <1>3 DEF IsWhole, Held

\* The tree is what it was, with ids from n on at most beside the old ones.
Later(n) == {id \in Nat : n <= id}
Regrown(new, old, n, whole) ==
    /\ Grown(new, whole)
    /\ DOMAIN new.nodes \subseteq DOMAIN old.nodes \union Later(n)

\* Something may go under a node: in a whole tree, not under a slot-outlet.
Open(tree, parent, whole) ==
    parent \in DOMAIN tree.nodes /\ (whole => tree.nodes[parent].moduleId # "slot-outlet")

\* What is grafted onto a tree.
LEMMA GraftedTree ==
  ASSUME NEW n, NEW tree, NEW whole, Grown(tree, whole), NEW parent, Open(tree, parent, whole),
         NEW b, Shaped(b), Cached(b), DOMAIN b \subseteq Later(n), NEW ids, whole => IsWhole(b, ids),
         NEW new, new.rootNodeId = tree.rootNodeId, Grafts(new.nodes, tree.nodes, b, parent, ids)
  PROVE  Regrown(new, tree, n, whole)
<1>1. Shaped(new.nodes) /\ Cached(new.nodes)
  BY Grafted DEF Grown
<1>2. whole => IsWhole(new.nodes, {new.rootNodeId})
  BY GraftedWhole DEF Grown, Open
<1>3. DOMAIN new.nodes \subseteq DOMAIN tree.nodes \union Later(n)
  BY DEF Grafts
<1> QED BY <1>1, <1>2, <1>3 DEF Grown, Regrown

\* Nodes that list nothing are a forest, whatever their parents.
LEMMA LeavesShaped ==
  ASSUME NEW b, IsFiniteSet(DOMAIN b), DOMAIN b \subseteq Nat, \A id \in DOMAIN b : b[id].children = <<>>
  PROVE  /\ Shaped(b) /\ Cached(b)
         /\ \A p \in DOMAIN b : Held(b, p) = {}
         /\ IsWhole(b, DOMAIN b)
<1>1. <<>> \in Seq(Nat) /\ IsInjective(<<>>) /\ ToSet(<<>>) = {}
  BY DEF ToSet, IsInjective
<1>2. \A p \in DOMAIN b : Held(b, p) = {} /\ IsInjective(b[p].children) /\ b[p].children \in Seq(Nat)
  BY <1>1 DEF Held
<1>3. Shaped(b) /\ Cached(b)
  BY <1>2 DEF Shaped, Founded, Lists, Cached
<1> QED BY <1>2, <1>3 DEF IsWhole

\* A node with another list or parent is otherwise the same.
LEMMA Relisted ==
  ASSUME NEW n, NEW node \in Node(n), NEW kids
  PROVE  /\ [node EXCEPT !.children = kids].children = kids
         /\ [node EXCEPT !.children = kids].parentId = node.parentId
         /\ [node EXCEPT !.children = kids].moduleId = node.moduleId
BY DEF Node

\* A node with another parent is otherwise the same.
LEMMA Rehung ==
  ASSUME NEW n, NEW node \in Node(n), NEW p
  PROVE  /\ [node EXCEPT !.parentId = p].children = node.children
         /\ [node EXCEPT !.parentId = p].parentId = p
         /\ [node EXCEPT !.parentId = p].moduleId = node.moduleId
BY DEF Node

\* splice, and that it repeats nothing.
LEMMA SplicedOnce ==
  ASSUME NEW list \in Seq(Nat), NEW ids \in Seq(Nat), NEW index \in Int,
         IsInjective(list), IsInjective(ids), ToSet(list) \intersect ToSet(ids) = {}
  PROVE  /\ Splice(list, index, ids) \in Seq(Nat) /\ IsInjective(Splice(list, index, ids))
         /\ ToSet(Splice(list, index, ids)) = ToSet(list) \union ToSet(ids)
<1>1. Splice(list, index, ids) \in Seq(Nat)
  BY SpliceIs
<1>2. ToSet(Splice(list, index, ids)) = ToSet(list) \union ToSet(ids)
  BY SplicedSet
<1>3. IsInjective(Splice(list, index, ids))
  BY SpliceOnce
<1> QED BY <1>1, <1>2, <1>3

\* mutations.ts:37-60: a new node in a list.
LEMMA InsertNodeGrows ==
  ASSUME NEW n \in Nat, NEW m, NEW tree, IsDocument(tree, n), NEW whole, Grown(tree, whole),
         NEW node \in Node(m), node.children = <<>>,
         NEW parent, Open(tree, parent, whole), NEW index \in Int
  PROVE  /\ Regrown(InsertNode(tree, n, node, parent, index), tree, n, whole)
         /\ InsertNode(tree, n, node, parent, index).nodes[n] = [node EXCEPT !.parentId = parent]
<1> DEFINE b == [id \in {n} |-> [node EXCEPT !.parentId = parent]]
           nodes == tree.nodes
           kids == Splice(nodes[parent].children, index, <<n>>)
           new == InsertNode(tree, n, node, parent, index)
<1>1. /\ Lists(nodes) /\ n \notin DOMAIN nodes /\ parent \in DOMAIN nodes /\ parent # n
      /\ \A id \in DOMAIN nodes : nodes[id] \in Node(n)
  <2>1. DOMAIN nodes \subseteq 1..(n - 1)
    BY DocumentLists DEF Sound
  <2> QED BY <2>1, DocumentLists DEF Open
<1>0. tree = [rootNodeId |-> tree.rootNodeId, nodes |-> nodes]
  BY DocumentIs
<1>3. /\ DOMAIN b = {n} /\ \A id \in DOMAIN b : b[id].children = <<>>
      /\ b[n].parentId = parent
      /\ IsFiniteSet(DOMAIN b)
  <2>1. IsFiniteSet({n})
    BY FS_Singleton
  <2>2. /\ [node EXCEPT !.parentId = parent].children = <<>>
        /\ [node EXCEPT !.parentId = parent].parentId = parent
    BY Rehung
  <2> QED BY <2>1, <2>2
<1>4. /\ Shaped(b) /\ Cached(b) /\ IsWhole(b, {n})
      /\ \A p \in DOMAIN b : Held(b, p) = {}
  <2> HIDE DEF b
  <2>1. DOMAIN b \subseteq Nat
    BY <1>3
  <2> QED BY <1>3, <2>1, LeavesShaped
<1>5. /\ kids \in Seq(Nat) /\ IsInjective(kids)
      /\ ToSet(kids) = Held(nodes, parent) \union {n}
  <2> DEFINE one == <<n>>
             list == nodes[parent].children
  <2>1. list \in Seq(Nat) /\ IsInjective(list) /\ n \notin ToSet(list)
    BY <1>1 DEF Grown, Shaped, Lists, Held
  <2>2. one \in Seq(Nat) /\ ToSet(one) = {n} /\ IsInjective(one)
    BY OneId DEF IsInjective
  <2> HIDE DEF one, list
  <2>3. /\ Splice(list, index, one) \in Seq(Nat) /\ IsInjective(Splice(list, index, one))
        /\ ToSet(Splice(list, index, one)) = ToSet(list) \union ToSet(one)
    <3>1. ToSet(list) \intersect ToSet(one) = {}
      BY <2>1, <2>2
    <3> QED BY <2>1, <2>2, <3>1, SplicedOnce
  <2> QED BY <2>2, <2>3 DEF Held, one, list
<1> HIDE DEF kids
<1>6. /\ DOMAIN new.nodes = DOMAIN nodes \union {n}
      /\ new.rootNodeId = tree.rootNodeId
      /\ new.nodes[n] = b[n]
      /\ new.nodes[parent] = [nodes[parent] EXCEPT !.children = kids]
      /\ \A id \in DOMAIN nodes \ {parent} : new.nodes[id] = nodes[id]
  BY <1>0, <1>1 DEF InsertNode, With, kids
<1> HIDE DEF new, b
<1>7. \A id \in DOMAIN nodes : /\ new.nodes[id].parentId = nodes[id].parentId
                               /\ new.nodes[id].moduleId = nodes[id].moduleId
  <2> SUFFICES ASSUME NEW id \in DOMAIN nodes
               PROVE  /\ new.nodes[id].parentId = nodes[id].parentId
                      /\ new.nodes[id].moduleId = nodes[id].moduleId
    OBVIOUS
  <2>1. CASE id = parent
    <3>1. nodes[parent] \in Node(n)
      BY <1>1
    <3>2. /\ [nodes[parent] EXCEPT !.children = kids].parentId = nodes[parent].parentId
          /\ [nodes[parent] EXCEPT !.children = kids].moduleId = nodes[parent].moduleId
      BY <3>1, Relisted
    <3> QED BY <1>6, <2>1, <3>2
  <2>2. CASE id # parent
    BY <1>6, <2>2
  <2> QED BY <2>1, <2>2
<1>8. new.nodes[parent].children = kids
  BY <1>1, <1>6, Relisted
<1>9. Grafts(new.nodes, nodes, b, parent, {n})
  BY <1>1, <1>3, <1>4, <1>5, <1>6, <1>7, <1>8 DEF Grafts, Held
<1>10. DOMAIN b \subseteq Later(n)
  BY <1>3 DEF Later
<1>11. Regrown(new, tree, n, whole)
  BY <1>4, <1>6, <1>9, <1>10, GraftedTree
<1> QED BY <1>6, <1>11 DEF new, b

-----------------------------------------------------------------------------
\* Deleting.

\* Filtering a list of a forest.
LEMMA KeptOnce ==
  ASSUME NEW list \in Seq(Nat), IsInjective(list), NEW set
  PROVE  /\ Keep(list, set) \in Seq(Nat) /\ IsInjective(Keep(list, set))
         /\ ToSet(Keep(list, set)) = ToSet(list) \intersect set
         /\ list = <<>> => Keep(list, set) = <<>>
<1>1. Keep(list, set) \in Seq(Nat) /\ ToSet(Keep(list, set)) = ToSet(list) \intersect set
  BY KeepIs
<1>2. IsInjective(Keep(list, set))
  BY KeepOnce
<1>3. ASSUME list = <<>> PROVE Keep(list, set) = <<>>
  <2>1. ToSet(<<>>) = {}
    BY DEF ToSet
  <2> QED BY <1>1, <1>3, <2>1, NoMembers
<1> QED BY <1>1, <1>2, <1>3

\* What a document that has grown well gives of each node.
LEMMA GrownNodes ==
  ASSUME NEW n \in Nat, NEW tree, IsDocument(tree, n), NEW whole, Grown(tree, whole)
  PROVE  /\ Lists(tree.nodes) /\ DOMAIN tree.nodes \subseteq 1..(n - 1)
         /\ Null \notin DOMAIN tree.nodes
         /\ tree = [rootNodeId |-> tree.rootNodeId, nodes |-> tree.nodes]
         /\ \A p \in DOMAIN tree.nodes :
               /\ p \in Nat /\ tree.nodes[p] \in Node(n)
               /\ tree.nodes[p].children \in Seq(Nat) /\ IsInjective(tree.nodes[p].children)
               /\ ToSet(tree.nodes[p].children) = Held(tree.nodes, p)
               /\ Held(tree.nodes, p) \subseteq DOMAIN tree.nodes
               /\ tree.rootNodeId \notin Held(tree.nodes, p)
               /\ \A c \in Held(tree.nodes, p) : Parent(tree, c) = p /\ tree.nodes[c].parentId = p
<1>1. DOMAIN tree.nodes \subseteq 1..(n - 1)
  BY DocumentLists DEF Sound
<1>2. Null \notin DOMAIN tree.nodes
  BY <1>1 DEF Null
<1>3. Lists(tree.nodes) /\ Shaped(tree.nodes) /\ Cached(tree.nodes)
  BY DocumentLists DEF Grown
<1>4. tree = [rootNodeId |-> tree.rootNodeId, nodes |-> tree.nodes]
  BY DocumentIs
<1>5. ASSUME NEW p \in DOMAIN tree.nodes, NEW c \in Held(tree.nodes, p)
      PROVE  Parent(tree, c) = p /\ tree.nodes[c].parentId = p
  <2>1. c \in DOMAIN tree.nodes /\ tree.nodes[c].parentId = p
    BY <1>3 DEF Shaped, Cached
  <2> QED BY <2>1 DEF Parent, Has
<1>6. ASSUME NEW p \in DOMAIN tree.nodes
      PROVE  /\ p \in Nat /\ tree.nodes[p] \in Node(n)
             /\ tree.nodes[p].children \in Seq(Nat) /\ IsInjective(tree.nodes[p].children)
             /\ ToSet(tree.nodes[p].children) = Held(tree.nodes, p)
             /\ Held(tree.nodes, p) \subseteq DOMAIN tree.nodes
             /\ tree.rootNodeId \notin Held(tree.nodes, p)
  BY <1>3, DocumentLists DEF Shaped, Held
<1> QED BY <1>1, <1>2, <1>3, <1>4, <1>5, <1>6

\* A tree without one of its branches.
Pruned(new, nodes, S, root) ==
    /\ DOMAIN new = DOMAIN nodes \ S
    /\ \A p \in DOMAIN new : /\ new[p].children \in Seq(Nat) /\ IsInjective(new[p].children)
                             /\ Held(new, p) = Held(nodes, p) \ {root}
                             /\ nodes[p].children = <<>> => new[p].children = <<>>
                             /\ new[p].parentId = nodes[p].parentId
                             /\ new[p].moduleId = nodes[p].moduleId

\* A pruned forest is one, and as whole as it was.
LEMMA PrunedIs ==
  ASSUME NEW nodes, Shaped(nodes), Cached(nodes), NEW root, NEW S,
         Branch(nodes, root, S) \/ (root \notin DOMAIN nodes /\ S = {}),
         NEW new, Pruned(new, nodes, S, root)
  PROVE  /\ Shaped(new) /\ Cached(new)
         /\ \A roots : IsWhole(nodes, roots) => IsWhole(new, roots)
<1>1. \A p \in DOMAIN new : /\ p \in DOMAIN nodes
                            /\ Held(new, p) = Held(nodes, p) \ {root}
                            /\ Held(new, p) \subseteq DOMAIN new
  <2> SUFFICES ASSUME NEW p \in DOMAIN new PROVE Held(nodes, p) \ {root} \subseteq DOMAIN new
    BY DEF Pruned
  <2> QED BY DEF Pruned, Branch, Shaped
<1>2. Lists(new)
  <2>1. IsFiniteSet(DOMAIN new)
    BY FS_Subset DEF Pruned, Shaped, Lists
  <2> QED BY <2>1 DEF Pruned, Shaped, Lists
<1>3. Shaped(new)
  <2>1. \A p \in DOMAIN new : /\ IsInjective(new[p].children)
                              /\ Held(new, p) \subseteq Held(nodes, p) \intersect DOMAIN new
    BY <1>1 DEF Pruned
  <2>2. DOMAIN new \subseteq DOMAIN nodes
    BY DEF Pruned
  <2> QED BY <1>2, <2>1, <2>2, ShapedLess
<1>4. Cached(new)
  BY <1>1 DEF Cached, Pruned
<1>5. ASSUME NEW roots, IsWhole(nodes, roots) PROVE IsWhole(new, roots)
  <2>1. ASSUME NEW id \in DOMAIN new \ roots PROVE \E p \in DOMAIN new : id \in Held(new, p)
    <3>1. id \in DOMAIN nodes /\ id \notin S
      BY DEF Pruned
    <3>2. PICK p \in DOMAIN nodes : id \in Held(nodes, p)
      BY <1>5, <2>1, <3>1 DEF IsWhole, Held
    <3>3. p \notin S /\ id # root
      BY <3>1, <3>2 DEF Branch
    <3> QED BY <1>1, <3>2, <3>3 DEF Pruned
  <2>2. ASSUME NEW id \in DOMAIN new, new[id].moduleId = "slot-outlet" PROVE new[id].children = <<>>
    BY <1>5, <2>2 DEF Pruned, IsWhole
  <2> QED BY <2>1, <2>2 DEF IsWhole, Held
<1> QED BY <1>3, <1>4, <1>5

\* What is under a node that is not there: nothing.
LEMMA NoSubtree ==
  ASSUME NEW tree, Lists(tree.nodes), NEW root \in Nat, root \notin DOMAIN tree.nodes
  PROVE  Subtree(tree, root) = {}
<1>1. Subtree(tree, root) \subseteq {root}
  <2> DEFINE T == {root}
  <2>1. root \in T /\ \A p \in T : ~Has(tree, p)
    BY DEF Has
  <2> HIDE DEF T
  <2>2. Subtree(tree, root) \subseteq T
    BY <2>1, SubtreeLeast
  <2> QED BY <2>2 DEF T
<1>2. Subtree(tree, root) \subseteq DOMAIN tree.nodes
  BY SubtreeIs
<1> QED BY <1>1, <1>2

\* What is under an id: a branch, or nothing.
LEMMA BranchHere ==
  ASSUME NEW tree, Shaped(tree.nodes), NEW root \in Nat, NEW S, S = Subtree(tree, root)
  PROVE  Branch(tree.nodes, root, S) \/ (root \notin DOMAIN tree.nodes /\ S = {})
  BY SubtreeBranch, NoSubtree DEF Shaped

\* subtreeRemoval.ts: the branch goes whole.
LEMMA DeleteSubtreeGrows ==
  ASSUME NEW n \in Nat, NEW tree, IsDocument(tree, n), NEW whole, Grown(tree, whole),
         NEW id \in Nat
  PROVE  /\ Regrown(DeleteSubtree(tree, id), tree, n, whole)
         /\ Pruned(DeleteSubtree(tree, id).nodes, tree.nodes, Subtree(tree, id), id)
<1> DEFINE nodes == tree.nodes
           S == Subtree(tree, id)
           new == DeleteSubtree(tree, id)
           parent == Parent(tree, id)
<1>1. Shaped(nodes) /\ Cached(nodes)
  BY DEF Grown
<1>2. /\ DOMAIN new.nodes = DOMAIN nodes \ S
      /\ new.rootNodeId = tree.rootNodeId
      /\ \A p \in DOMAIN new.nodes :
            new.nodes[p] = IF p = parent
                           THEN [nodes[p] EXCEPT !.children =
                                    Keep(nodes[p].children, ToSet(nodes[p].children) \ {id})]
                           ELSE nodes[p]
  <2>1. tree = [rootNodeId |-> tree.rootNodeId, nodes |-> nodes]
    BY GrownNodes
  <2> QED BY <2>1 DEF DeleteSubtree
<1>3. ASSUME NEW p \in DOMAIN new.nodes
      PROVE  /\ new.nodes[p].children \in Seq(Nat) /\ IsInjective(new.nodes[p].children)
             /\ Held(new.nodes, p) = Held(nodes, p) \ {id}
             /\ nodes[p].children = <<>> => new.nodes[p].children = <<>>
             /\ new.nodes[p].parentId = nodes[p].parentId
             /\ new.nodes[p].moduleId = nodes[p].moduleId
  <2> DEFINE kids == nodes[p].children
             kept == Keep(kids, ToSet(kids) \ {id})
  <2>1. /\ p \in DOMAIN nodes /\ nodes[p] \in Node(n) /\ kids \in Seq(Nat) /\ IsInjective(kids)
        /\ ToSet(kids) = Held(nodes, p)
        /\ id \in Held(nodes, p) => parent = p
    BY <1>2, <1>3, GrownNodes
  <2>2. CASE p = parent
    <3>1. /\ kept \in Seq(Nat) /\ IsInjective(kept)
          /\ ToSet(kept) = ToSet(kids) \intersect (ToSet(kids) \ {id})
          /\ kids = <<>> => kept = <<>>
      BY <2>1, KeptOnce
    <3>2. new.nodes[p] = [nodes[p] EXCEPT !.children = kept]
      BY <1>2, <1>3, <2>2
    <3> HIDE DEF kept
    <3>3. /\ new.nodes[p].children = kept
          /\ new.nodes[p].parentId = nodes[p].parentId
          /\ new.nodes[p].moduleId = nodes[p].moduleId
      BY <2>1, <3>2, Relisted
    <3> QED BY <2>1, <3>1, <3>3 DEF Held
  <2>3. CASE p # parent
    <3>1. new.nodes[p] = nodes[p]
      BY <1>2, <1>3, <2>3
    <3> QED BY <2>1, <2>3, <3>1 DEF Held
  <2> QED BY <2>2, <2>3
<1> HIDE DEF new
<1>4. Pruned(new.nodes, nodes, S, id)
  BY <1>2, <1>3 DEF Pruned
<1>5. Branch(nodes, id, S) \/ (id \notin DOMAIN nodes /\ S = {})
  BY <1>1, BranchHere
<1> HIDE DEF S
<1>6. /\ Shaped(new.nodes) /\ Cached(new.nodes)
      /\ \A roots : IsWhole(nodes, roots) => IsWhole(new.nodes, roots)
  BY <1>1, <1>4, <1>5, PrunedIs
<1>7. Grown(new, whole)
  BY <1>2, <1>6 DEF Grown
<1> QED BY <1>2, <1>4, <1>7 DEF Regrown, new, S

\* subtreeRemoval.ts: and so do several.
LEMMA DeleteSubtreesGrows ==
  ASSUME NEW n \in Nat, NEW tree, IsDocument(tree, n), NEW whole, Grown(tree, whole),
         NEW ids \in Seq(Nat), tree.rootNodeId \notin ToSet(ids)
  PROVE  /\ Regrown(DeleteSubtrees(tree, ids), tree, n, whole)
         /\ DOMAIN DeleteSubtrees(tree, ids).nodes \subseteq DOMAIN tree.nodes
<1>1. PICK f : /\ f[0] = tree
               /\ \A k \in 1..Len(ids) : f[k] = DeleteSubtree(f[k - 1], ids[k])
               /\ DeleteSubtrees(tree, ids) = f[Len(ids)]
  BY DeleteTurns
<1> DEFINE N == Len(ids)
           Good(now) == /\ IsDocument(now, n) /\ now.rootNodeId = tree.rootNodeId
                        /\ Grown(now, whole) /\ DOMAIN now.nodes \subseteq DOMAIN tree.nodes
           T == {k \in 0..N : Good(f[k])}
<1>2. N \in Nat /\ N \in 0..N /\ 0 \in 0..N
  OBVIOUS
<1>3. Good(f[0])
  BY <1>1
<1>4. ASSUME NEW k \in 0..(N - 1), Good(f[k]) PROVE Good(f[k + 1])
  <2>1. k + 1 \in 1..N /\ (k + 1) - 1 = k /\ k + 1 \in DOMAIN ids
    BY <1>2
  <2>2. ids[k + 1] \in Nat /\ ids[k + 1] # tree.rootNodeId
    BY <2>1 DEF ToSet
  <2>3. f[k + 1] = DeleteSubtree(f[k], ids[k + 1])
    BY <1>1, <2>1
  <2>4. Like(f[k + 1], f[k], n)
    BY <1>4, <2>2, <2>3, DeleteSubtreeIs
  <2>5. Grown(f[k + 1], whole) /\ DOMAIN f[k + 1].nodes \subseteq DOMAIN f[k].nodes
    BY <1>4, <2>2, <2>3, DeleteSubtreeGrows DEF Regrown, Pruned
  <2> QED BY <1>4, <2>4, <2>5 DEF Like, Grows
<1>5. N \in T
  <2> HIDE DEF Good, N
  <2>1. 0 \in T /\ \A k \in 0..(N - 1) : k \in T => k + 1 \in T
    BY <1>2, <1>3, <1>4
  <2> HIDE DEF T
  <2> QED BY <1>2, <2>1, UpTo
<1> QED BY <1>1, <1>5 DEF Regrown

-----------------------------------------------------------------------------
\* Moving.

\* What a node still lists once tops have left, and with them where they go.
Left(tree, tops, p) ==
    Keep(tree.nodes[p].children, {c \in ToSet(tree.nodes[p].children) :
                                     ~(Contains(tops, c) /\ Parent(tree, c) = p)})

Gathered(tree, tops, parent, index, p) ==
    IF p = parent THEN Splice(Left(tree, tops, p), index, tops) ELSE Left(tree, tops, p)

Moved(new, tree, tops, parent, index) ==
    /\ DOMAIN new.nodes = DOMAIN tree.nodes /\ new.rootNodeId = tree.rootNodeId
    /\ \A p \in DOMAIN tree.nodes :
          /\ new.nodes[p].children = Gathered(tree, tops, parent, index, p)
          /\ new.nodes[p].parentId = IF p \in ToSet(tops) THEN parent ELSE tree.nodes[p].parentId
          /\ new.nodes[p].moduleId = tree.nodes[p].moduleId
          /\ new.nodes[p].componentId = tree.nodes[p].componentId
          /\ new.nodes[p].locked = tree.nodes[p].locked /\ new.nodes[p].slotName = tree.nodes[p].slotName

\* mutations.ts: moveNodes, node by node.
LEMMA MovedAre ==
  ASSUME NEW n \in Nat, NEW tree, IsDocument(tree, n), NEW ids \in Seq(Nat),
         NEW parent \in DOMAIN tree.nodes, NEW index \in Int
  PROVE  Moved(MoveNodes(tree, ids, parent, index), tree, TopLevel(tree, ids), parent, index)
<1> DEFINE nodes == tree.nodes
           tops == TopLevel(tree, ids)
           Stay(p) == Left(tree, tops, p)
           Have(p) == Gathered(tree, tops, parent, index, p)
           new == MoveNodes(tree, ids, parent, index)
           T == ToSet(tops)
<1>1. \A x : Contains(tops, x) <=> x \in T
  BY TopLevelIs, ContainsIs
<1>2. Have(parent) = Splice(Stay(parent), index, tops) /\ \A p : p # parent => Have(p) = Stay(p)
  BY DEF Gathered
<1>3. /\ DOMAIN new.nodes = DOMAIN nodes /\ new.rootNodeId = tree.rootNodeId
      /\ \A p \in DOMAIN nodes :
            new.nodes[p] = IF p \in T THEN [[nodes[p] EXCEPT !.children = Have(p)] EXCEPT !.parentId = parent]
                           ELSE [nodes[p] EXCEPT !.children = Have(p)]
  <2> DEFINE left == [p \in DOMAIN nodes |-> [nodes[p] EXCEPT !.children = Stay(p)]]
             placed == [left EXCEPT ![parent].children = Splice(@, index, tops)]
  <2>1. /\ tree = [rootNodeId |-> tree.rootNodeId, nodes |-> nodes]
        /\ \A p \in DOMAIN nodes : nodes[p] \in Node(n)
    BY DocumentIs, DocumentLists
  <2>2. new = [tree EXCEPT !.nodes =
                 [id \in DOMAIN placed |->
                    IF Contains(tops, id) THEN [placed[id] EXCEPT !.parentId = parent] ELSE placed[id]]]
    BY DEF MoveNodes, Left
  <2> HIDE DEF new, Stay, Have, tops, T
  <2>3. /\ DOMAIN placed = DOMAIN nodes
        /\ \A p \in DOMAIN nodes : placed[p] = [nodes[p] EXCEPT !.children = Have(p)]
    <3>1. DOMAIN left = DOMAIN nodes /\ \A p \in DOMAIN nodes : left[p] = [nodes[p] EXCEPT !.children = Stay(p)]
      OBVIOUS
    <3> HIDE DEF left
    <3>2. /\ DOMAIN placed = DOMAIN nodes
          /\ \A p \in DOMAIN nodes : p # parent => placed[p] = left[p]
          /\ placed[parent] = [left[parent] EXCEPT !.children = Splice(left[parent].children, index, tops)]
      BY <3>1
    <3>3. /\ left[parent].children = Stay(parent)
          /\ [left[parent] EXCEPT !.children = Splice(left[parent].children, index, tops)]
                = [nodes[parent] EXCEPT !.children = Have(parent)]
      <4>1. nodes[parent] \in Node(n)
        BY <2>1
      <4>2. left[parent] = [nodes[parent] EXCEPT !.children = Stay(parent)]
        BY <3>1
      <4>3. left[parent].children = Stay(parent)
        BY <4>1, <4>2, Relisted
      <4> HIDE DEF placed
      <4> QED BY <1>2, <4>1, <4>2, <4>3 DEF Node
    <3> HIDE DEF placed
    <3> QED BY <1>2, <3>1, <3>2, <3>3
  <2> HIDE DEF placed
  <2> QED BY <1>1, <2>1, <2>2, <2>3
<1> HIDE DEF new, Have, Stay
<1>4. ASSUME NEW p \in DOMAIN nodes
      PROVE  /\ new.nodes[p].children = Have(p)
             /\ new.nodes[p].parentId = IF p \in T THEN parent ELSE nodes[p].parentId
             /\ new.nodes[p].moduleId = nodes[p].moduleId
             /\ new.nodes[p].componentId = nodes[p].componentId
             /\ new.nodes[p].locked = nodes[p].locked /\ new.nodes[p].slotName = nodes[p].slotName
  <2> DEFINE listed == [nodes[p] EXCEPT !.children = Have(p)]
  <2>1. nodes[p] \in Node(n)
    BY DocumentLists
  <2>2. /\ listed.children = Have(p) /\ listed.parentId = nodes[p].parentId
        /\ listed.moduleId = nodes[p].moduleId /\ listed.componentId = nodes[p].componentId
        /\ listed.locked = nodes[p].locked /\ listed.slotName = nodes[p].slotName
    BY <2>1 DEF Node
  <2>3. /\ [listed EXCEPT !.parentId = parent].children = Have(p)
        /\ [listed EXCEPT !.parentId = parent].parentId = parent
        /\ [listed EXCEPT !.parentId = parent].moduleId = nodes[p].moduleId
        /\ [listed EXCEPT !.parentId = parent].componentId = nodes[p].componentId
        /\ [listed EXCEPT !.parentId = parent].locked = nodes[p].locked
        /\ [listed EXCEPT !.parentId = parent].slotName = nodes[p].slotName
    BY <2>1, <2>2 DEF Node
  <2> HIDE DEF listed
  <2>4. new.nodes[p] = IF p \in T THEN [listed EXCEPT !.parentId = parent] ELSE listed
    BY <1>3 DEF listed
  <2> QED BY <2>2, <2>3, <2>4
<1>5. Moved(new, tree, tops, parent, index)
  BY <1>3, <1>4 DEF Moved, Have, T
<1> QED BY <1>5 DEF new

\* mutations.ts: what is moved leaves its list and joins another's, which is
\* not below it.
LEMMA MoveNodesGrows ==
  ASSUME NEW n \in Nat, NEW tree, IsDocument(tree, n), NEW whole, Grown(tree, whole),
         NEW ids \in Seq(Nat), IsInjective(ids), NEW parent, CanMove(tree, ids, parent),
         Open(tree, parent, whole), NEW index \in Int
  PROVE  Regrown(MoveNodes(tree, ids, parent, index), tree, n, whole)
<1> DEFINE nodes == tree.nodes
           tops == TopLevel(tree, ids)
           Stay(p) == Left(tree, tops, p)
           Have(p) == IF p = parent THEN Splice(Stay(p), index, tops) ELSE Stay(p)
           new == MoveNodes(tree, ids, parent, index)
           T == ToSet(tops)
           B == UNION {Subtree(tree, t) : t \in T}
<1>1. /\ tops \in Seq(Nat) /\ IsInjective(tops) /\ T \subseteq ToSet(ids) /\ T \subseteq DOMAIN nodes
      /\ \A x : Contains(tops, x) <=> x \in T
  <2>1. tops \in Seq(Nat) /\ T \subseteq ToSet(ids)
    BY TopLevelIs
  <2>2. IsInjective(tops)
    BY KeepOnce DEF TopLevel
  <2>3. ToSet(ids) \subseteq DOMAIN nodes
    BY DEF CanMove, Has
  <2> QED BY <2>1, <2>2, <2>3, ContainsIs
<1>2. Shaped(nodes) /\ Cached(nodes) /\ parent \in DOMAIN nodes /\ Null \notin DOMAIN nodes
  BY GrownNodes DEF Grown, Open
<1>3. ASSUME NEW t \in T
      PROVE  parent \notin Subtree(tree, t) /\ Branch(nodes, t, Subtree(tree, t))
  <2>1. ~IsAncestor(tree, t, parent) /\ t \in DOMAIN nodes
    BY <1>1, <1>3 DEF CanMove
  <2> QED BY <1>2, <2>1, NotAbove, SubtreeBranch
<1>4. /\ B \subseteq DOMAIN nodes /\ parent \notin B /\ T \subseteq B
      /\ \A p \in B : Held(nodes, p) \subseteq B
  BY <1>3 DEF Branch
<1>5. /\ DOMAIN new.nodes = DOMAIN nodes /\ new.rootNodeId = tree.rootNodeId
      /\ \A p \in DOMAIN nodes :
            /\ new.nodes[p].children = Have(p)
            /\ new.nodes[p].parentId = IF p \in T THEN parent ELSE nodes[p].parentId
            /\ new.nodes[p].moduleId = nodes[p].moduleId
  <2>1. Moved(new, tree, tops, parent, index)
    BY <1>2, MovedAre
  <2> HIDE DEF new, tops
  <2> QED BY <2>1 DEF Moved, Gathered, Stay, Have
<1> HIDE DEF new
<1>6. ASSUME NEW p \in DOMAIN nodes
      PROVE  /\ Stay(p) \in Seq(Nat) /\ IsInjective(Stay(p)) /\ ToSet(Stay(p)) = Held(nodes, p) \ T
             /\ nodes[p].children = <<>> => Stay(p) = <<>>
  <2> DEFINE kids == nodes[p].children
             some == {c \in ToSet(kids) : ~(Contains(tops, c) /\ Parent(tree, c) = p)}
  <2>1. /\ kids \in Seq(Nat) /\ IsInjective(kids) /\ ToSet(kids) = Held(nodes, p)
        /\ \A c \in Held(nodes, p) : Parent(tree, c) = p
    BY GrownNodes
  <2>2. some = Held(nodes, p) \ T
    BY <1>1, <2>1
  <2> HIDE DEF some
  <2>3. /\ Keep(kids, some) \in Seq(Nat) /\ IsInjective(Keep(kids, some))
        /\ ToSet(Keep(kids, some)) = ToSet(kids) \intersect some
        /\ kids = <<>> => Keep(kids, some) = <<>>
    BY <2>1, KeptOnce
  <2>4. Stay(p) = Keep(kids, some)
    BY DEF some, Left
  <2> QED BY <2>1, <2>2, <2>3, <2>4
<1> HIDE DEF Stay, tops
<1>7. ASSUME NEW p \in DOMAIN nodes
      PROVE  /\ Have(p) \in Seq(Nat) /\ IsInjective(Have(p))
             /\ ToSet(Have(p)) = (Held(nodes, p) \ T) \union {t \in T : p = parent}
             /\ p # parent => (nodes[p].children = <<>> => Have(p) = <<>>)
  <2>1. CASE p = parent
    <3>1. ToSet(Stay(p)) \intersect T = {}
      BY <1>6
    <3>2. /\ Splice(Stay(p), index, tops) \in Seq(Nat) /\ IsInjective(Splice(Stay(p), index, tops))
          /\ ToSet(Splice(Stay(p), index, tops)) = ToSet(Stay(p)) \union T
      BY <1>1, <1>6, <3>1, SplicedOnce
    <3> QED BY <1>6, <2>1, <3>2
  <2>2. CASE p # parent
    BY <1>6, <2>2
  <2> QED BY <2>1, <2>2
<1> HIDE DEF Have
<1>9. \A p \in DOMAIN nodes :
         Held(new.nodes, p) = (Held(nodes, p) \ T) \union {t \in T : p = parent}
  BY <1>5, <1>7 DEF Held
<1> HIDE DEF T, B
<1>10. Shaped(new.nodes)
  <2>0. IsFiniteSet(DOMAIN nodes) /\ DOMAIN nodes \subseteq Nat
    BY <1>2 DEF Shaped, Lists
  <2>1. Lists(new.nodes)
    BY <1>5, <1>7, <2>0 DEF Lists
  <2>2. \A p \in DOMAIN nodes : IsInjective(new.nodes[p].children)
    BY <1>5, <1>7
  <2>3. /\ \A p \in DOMAIN nodes : p # parent => Held(new.nodes, p) \subseteq Held(nodes, p) \ T
        /\ Held(new.nodes, parent) \subseteq Held(nodes, parent) \union T
    BY <1>2, <1>9
  <2>4. DOMAIN new.nodes = DOMAIN nodes /\ parent \in DOMAIN nodes
    BY <1>2, <1>5
  <2> DEFINE after == new.nodes
  <2> HIDE DEF after
  <2>5. Shaped(after)
    BY <1>2, <1>4, <2>1, <2>2, <2>3, <2>4, ShapedHung DEF after
  <2> QED BY <2>5 DEF after
<1>11. Cached(new.nodes)
  <2> SUFFICES ASSUME NEW p \in DOMAIN nodes, NEW c \in Held(new.nodes, p)
               PROVE  new.nodes[c].parentId = p
    BY <1>5 DEF Cached
  <2>1. CASE c \in T
    <3>1. p = parent /\ c \in DOMAIN nodes
      BY <1>1, <1>9, <2>1
    <3> QED BY <1>5, <2>1, <3>1
  <2>2. CASE c \notin T
    <3>1. c \in Held(nodes, p)
      BY <1>9, <2>2
    <3>2. c \in DOMAIN nodes /\ nodes[c].parentId = p
      BY <3>1, GrownNodes
    <3> QED BY <1>5, <2>2, <3>2
  <2> QED BY <2>1, <2>2
<1>12. ASSUME whole PROVE IsWhole(new.nodes, {new.rootNodeId})
  <2>1. IsWhole(nodes, {tree.rootNodeId}) /\ nodes[parent].moduleId # "slot-outlet"
    BY <1>12 DEF Grown, Open
  <2>2. ASSUME NEW id \in DOMAIN nodes \ {tree.rootNodeId}
        PROVE  \E p \in DOMAIN nodes : id \in Held(new.nodes, p)
    <3>1. CASE id \in T
      BY <1>2, <1>9, <3>1
    <3>2. CASE id \notin T
      <4>1. PICK p \in DOMAIN nodes : id \in Held(nodes, p)
        BY <2>1, <2>2 DEF IsWhole, Held
      <4> QED BY <1>9, <3>2, <4>1
    <3> QED BY <3>1, <3>2
  <2>3. ASSUME NEW id \in DOMAIN nodes, new.nodes[id].moduleId = "slot-outlet"
        PROVE  new.nodes[id].children = <<>>
    BY <1>5, <1>7, <2>1, <2>3 DEF IsWhole
  <2> QED BY <1>5, <2>2, <2>3 DEF IsWhole, Held
<1> QED BY <1>5, <1>10, <1>11, <1>12 DEF Grown, Regrown, new

-----------------------------------------------------------------------------
\* Wrapping.

\* A node slipped in between one and some of those it lists, or above one that
\* nobody lists.
Slipped(new, nodes, above, mid, set) ==
    /\ mid \in Nat \ DOMAIN nodes /\ above \in DOMAIN nodes /\ set \subseteq DOMAIN nodes
    /\ set \subseteq Held(nodes, above) \/ \A p \in DOMAIN nodes : Held(nodes, p) \intersect set = {}
    /\ DOMAIN new = DOMAIN nodes \union {mid}
    /\ \A p \in DOMAIN new :
          /\ new[p].children \in Seq(Nat) /\ IsInjective(new[p].children)
          /\ Held(new, p) = IF p = mid THEN set
                            ELSE (Held(nodes, p) \ set)
                                   \union {m \in {mid} : p = above /\ set \subseteq Held(nodes, above)}
          /\ new[p].parentId = IF p = mid THEN above ELSE IF p \in set THEN mid ELSE nodes[p].parentId

\* Slipping a node in keeps a forest.
LEMMA SlippedIs ==
  ASSUME NEW nodes, Shaped(nodes), Cached(nodes), NEW new, NEW above, NEW mid, NEW set,
         Slipped(new, nodes, above, mid, set)
  PROVE  Shaped(new) /\ Cached(new)
<1>1. Lists(new)
  <2>1. IsFiniteSet(DOMAIN nodes) /\ DOMAIN nodes \subseteq Nat
    BY DEF Shaped, Lists
  <2>2. IsFiniteSet(DOMAIN nodes \union {mid})
    BY <2>1, FS_AddElement
  <2> QED BY <2>1, <2>2 DEF Slipped, Lists
<1>2. \A p \in DOMAIN new : IsInjective(new[p].children) /\ Held(new, p) \subseteq DOMAIN new
  BY DEF Slipped, Shaped
<1>3. ASSUME NEW p \in DOMAIN new, NEW q \in DOMAIN new, p # q
      PROVE  Held(new, p) \intersect Held(new, q) = {}
  <2>1. \A x \in DOMAIN nodes : Held(nodes, x) \subseteq DOMAIN nodes
    BY DEF Shaped
  <2>2. \A x \in DOMAIN new \ {mid} : x \in DOMAIN nodes
    BY DEF Slipped
  <2>3. CASE p = mid
    BY <1>3, <2>1, <2>2, <2>3 DEF Slipped
  <2>4. CASE q = mid
    BY <1>3, <2>1, <2>2, <2>4 DEF Slipped
  <2>5. CASE p # mid /\ q # mid
    BY <1>3, <2>1, <2>2, <2>5 DEF Slipped, Shaped
  <2> QED BY <2>3, <2>4, <2>5
<1>4. ASSUME NEW some \in SUBSET DOMAIN new, some # {}
      PROVE  \E top \in some : \A p \in some : top \notin Held(new, p)
  <2>1. CASE mid \notin some
    <3>1. PICK top \in some : \A p \in some : top \notin Held(nodes, p)
      BY <1>4, <2>1 DEF Shaped, Founded, Slipped
    <3> QED BY <2>1, <3>1 DEF Slipped
  <2>2. CASE mid \in some /\ \A p \in some : mid \notin Held(new, p)
    BY <2>2
  <2>3. CASE mid \in some /\ \E p \in some : mid \in Held(new, p)
    <3>1. above \in some \ {mid} /\ set \subseteq Held(nodes, above)
      <4>1. \A x \in DOMAIN nodes : mid \notin Held(nodes, x)
        BY DEF Slipped, Shaped
      <4> QED BY <2>3, <4>1 DEF Slipped
    <3>2. PICK top \in some \ {mid} : \A p \in some \ {mid} : top \notin Held(nodes, p)
      <4>1. some \ {mid} \in SUBSET DOMAIN nodes /\ some \ {mid} # {}
        BY <3>1 DEF Slipped
      <4> QED BY <4>1 DEF Shaped, Founded
    <3> QED BY <3>1, <3>2 DEF Slipped
  <2> QED BY <2>1, <2>2, <2>3
<1>5. ASSUME NEW p \in DOMAIN new, NEW c \in Held(new, p) PROVE new[c].parentId = p
  <2>1. c \in DOMAIN new
    BY <1>2
  <2>2. CASE p = mid
    BY <1>5, <2>1, <2>2 DEF Slipped
  <2>3. CASE p # mid /\ c = mid
    <3>1. p \in DOMAIN nodes /\ mid \notin Held(nodes, p)
      BY <2>3 DEF Slipped, Shaped
    <3> QED BY <1>5, <2>1, <2>3, <3>1 DEF Slipped
  <2>4. CASE p # mid /\ c # mid
    <3>1. p \in DOMAIN nodes /\ c \in Held(nodes, p) /\ c \notin set
      BY <1>5, <2>4 DEF Slipped
    <3> QED BY <2>1, <2>4, <3>1 DEF Slipped, Cached
  <2> QED BY <2>2, <2>3, <2>4
<1> QED BY <1>1, <1>2, <1>3, <1>4, <1>5 DEF Shaped, Cached, Founded

\* mutations.ts: the wrapper takes the place of what it wraps.
LEMMA WrapNodesGrows ==
  ASSUME NEW n \in Nat, NEW tree, IsDocument(tree, n), NEW whole, Grown(tree, whole),
         NEW ids \in Seq(Nat), IsInjective(ids), ids # <<>>, CanWrap(tree, ids)
  PROVE  Regrown(WrapNodes(tree, ids, n), tree, n, whole)
<1> DEFINE nodes == tree.nodes
           tops == TopLevel(tree, ids)
           above == IF Len(ids) = 1 THEN Parent(tree, ids[1])
                    ELSE ClosestCommonAncestor(tree, tops)
           kids == nodes[above].children
           inside == IF Len(ids) = 1 THEN ids ELSE Branches(tree, tops, above)
           rest == Keep(kids, ToSet(kids) \ ToSet(inside))
           after == IF Len(ids) = 1 THEN Replace(kids, ids[1], n)
                    ELSE Splice(rest, IndexOf(kids, inside[1]), <<n>>)
           I == ToSet(inside)
           new == WrapNodes(tree, ids, n)
<1>1. Shaped(nodes) /\ Cached(nodes) /\ Lists(nodes) /\ n \notin DOMAIN nodes /\ tops \in Seq(Nat)
  <2>1. DOMAIN nodes \subseteq 1..(n - 1)
    BY GrownNodes
  <2>2. n \notin DOMAIN nodes
    BY <2>1
  <2> QED BY <2>2, GrownNodes, TopLevelIs DEF Grown
<1>2. above \in DOMAIN nodes
  <2>1. CASE Len(ids) = 1
    <3>1. Parent(tree, ids[1]) # Null
      BY <2>1 DEF CanWrap
    <3>2. Parent(tree, ids[1]) \in DOMAIN nodes \union {Null}
      BY <1>1, ParentIs
    <3> QED BY <2>1, <3>1, <3>2
  <2>2. CASE Len(ids) # 1
    <3>1. ClosestCommonAncestor(tree, tops) # Null
      BY <2>2 DEF CanWrap
    <3>2. ClosestCommonAncestor(tree, tops) \in DOMAIN nodes \union {Null}
      <4> HIDE DEF tops
      <4> QED BY <1>1, ClosestIs
    <3> QED BY <2>2, <3>1, <3>2
  <2> QED BY <2>1, <2>2
<1>3. /\ kids \in Seq(Nat) /\ IsInjective(kids) /\ ToSet(kids) = Held(nodes, above)
      /\ tree.rootNodeId \notin Held(nodes, above)
      /\ Held(nodes, above) \subseteq DOMAIN nodes /\ n \notin ToSet(kids)
  <2> HIDE DEF above
  <2> QED BY <1>1, <1>2, GrownNodes
<1>4. /\ inside \in Seq(Nat) /\ IsInjective(inside) /\ I \subseteq DOMAIN nodes
      /\ tree.rootNodeId \notin I
      /\ after \in Seq(Nat) /\ IsInjective(after)
      /\ \/ I \subseteq Held(nodes, above) /\ ToSet(after) = (Held(nodes, above) \ I) \union {n}
         \/ /\ ~(I \subseteq Held(nodes, above)) /\ \A p \in DOMAIN nodes : Held(nodes, p) \intersect I = {}
            /\ ToSet(after) = Held(nodes, above)
  <2>1. CASE Len(ids) = 1
    <3>1. inside = ids /\ above = Parent(tree, ids[1]) /\ after = Replace(kids, ids[1], n)
      BY <2>1
    <3>2. I = {ids[1]} /\ ids[1] \in DOMAIN nodes /\ ids[1] # tree.rootNodeId
      BY <2>1, <3>1 DEF ToSet, CanWrap, Has
    <3> HIDE DEF kids, after, inside, above
    <3>3. /\ after \in Seq(Nat) /\ IsInjective(after)
          /\ ToSet(after) = IF ids[1] \in ToSet(kids) THEN (ToSet(kids) \ {ids[1]}) \union {n} ELSE ToSet(kids)
      <4>1. Replace(kids, ids[1], n) \in Seq(Nat)
        BY <1>3, ReplaceIs
      <4>2. /\ IsInjective(Replace(kids, ids[1], n))
            /\ ToSet(Replace(kids, ids[1], n)) = IF ids[1] \in ToSet(kids)
                  THEN (ToSet(kids) \ {ids[1]}) \union {n} ELSE ToSet(kids)
        <5> DEFINE x == ids[1]
        <5> HIDE DEF x
        <5>1. IsInjective(Replace(kids, x, n))
          BY <1>3, ReplaceOnce
        <5>2. ToSet(Replace(kids, x, n)) = IF x \in ToSet(kids)
                 THEN (ToSet(kids) \ {x}) \union {n} ELSE ToSet(kids)
          BY <1>3, ReplaceOnce
        <5> QED BY <5>1, <5>2 DEF x
      <4> QED BY <3>1, <4>1, <4>2
    <3>4. CASE ids[1] \in ToSet(kids)
      BY <1>3, <3>1, <3>2, <3>3, <3>4
    <3>5. CASE ids[1] \notin ToSet(kids)
      <4>1. ASSUME NEW p \in DOMAIN nodes, ids[1] \in Held(nodes, p) PROVE FALSE
        <5>1. Parent(tree, ids[1]) = p
          BY <4>1, GrownNodes
        <5> QED BY <1>3, <3>1, <3>5, <4>1, <5>1
      <4> QED BY <1>2, <1>3, <3>1, <3>2, <3>3, <3>5, <4>1
    <3> QED BY <3>4, <3>5
  <2>2. CASE Len(ids) # 1
    <3> DEFINE set == {BranchOf(tree, tops[i], above) : i \in DOMAIN tops}
               at == IndexOf(kids, inside[1])
               one == <<n>>
    <3>1. inside = Keep(kids, set)
      BY <2>2 DEF Branches
    <3>2. after = Splice(rest, at, one)
      BY <2>2
    <3> HIDE DEF inside, kids, set, after
    <3>3. /\ inside \in Seq(Nat) /\ IsInjective(inside) /\ I = ToSet(kids) \intersect set
      BY <1>3, <3>1, KeptOnce
    <3>4. /\ rest \in Seq(Nat) /\ IsInjective(rest) /\ ToSet(rest) = ToSet(kids) \intersect (ToSet(kids) \ I)
      BY <1>3, KeptOnce
    <3>5. one \in Seq(Nat) /\ ToSet(one) = {n} /\ IsInjective(one)
      BY OneId DEF IsInjective
    <3>6. at \in Int
      BY <1>3, IndexOfIs
    <3> HIDE DEF rest, at, one, I
    <3>7. ToSet(rest) \intersect ToSet(one) = {}
      BY <1>3, <3>4, <3>5
    <3>8. /\ after \in Seq(Nat) /\ IsInjective(after)
          /\ ToSet(after) = ToSet(rest) \union ToSet(one)
      BY <3>2, <3>4, <3>5, <3>6, <3>7, SplicedOnce
    <3> QED BY <1>3, <3>3, <3>4, <3>5, <3>8
  <2> QED BY <2>1, <2>2
<1>5. \A x : Contains(inside, x) <=> x \in I
  <2> HIDE DEF inside
  <2> QED BY <1>4, ContainsIs
<1>13. I # {}
  <2>1. inside # <<>>
    BY DEF CanWrap
  <2> HIDE DEF inside
  <2> QED BY <1>4, <2>1, NoMembers
<1> DEFINE node == [NewNode("container") EXCEPT !.children = inside, !.parentId = above]
<1>6. /\ DOMAIN new.nodes = DOMAIN nodes \union {n} /\ new.rootNodeId = tree.rootNodeId
      /\ new.nodes[n] = node
      /\ new.nodes[above] = IF above \in I
                            THEN [[nodes[above] EXCEPT !.children = after] EXCEPT !.parentId = n]
                            ELSE [nodes[above] EXCEPT !.children = after]
      /\ \A p \in DOMAIN nodes \ {above} :
            new.nodes[p] = IF p \in I THEN [nodes[p] EXCEPT !.parentId = n] ELSE nodes[p]
  <2> DEFINE placed == [With(nodes, n, node) EXCEPT ![above].children = after]
  <2>1. tree = [rootNodeId |-> tree.rootNodeId, nodes |-> nodes]
    BY GrownNodes
  <2>2. new = [tree EXCEPT !.nodes =
                 [id \in DOMAIN placed |->
                    IF Contains(inside, id) THEN [placed[id] EXCEPT !.parentId = n] ELSE placed[id]]]
    BY DEF WrapNodes
  <2> HIDE DEF new, node, after, inside, above, I
  <2>3. /\ DOMAIN placed = DOMAIN nodes \union {n}
        /\ placed[n] = node
        /\ placed[above] = [nodes[above] EXCEPT !.children = after]
        /\ \A p \in DOMAIN nodes \ {above} : placed[p] = nodes[p]
    BY <1>1, <1>2 DEF With
  <2> HIDE DEF placed
  <2> QED BY <1>1, <1>2, <1>4, <1>5, <2>1, <2>2, <2>3
<1>7. node.children = inside /\ node.parentId = above /\ node.moduleId = "container"
  BY DEF NewNode
<1> HIDE DEF new, node, after, kids, inside, above, I
<1>8. ASSUME NEW p \in DOMAIN nodes
      PROVE  /\ new.nodes[p].children = IF p = above THEN after ELSE nodes[p].children
             /\ new.nodes[p].parentId = IF p \in I THEN n ELSE nodes[p].parentId
             /\ new.nodes[p].moduleId = nodes[p].moduleId
  <2>1. nodes[p] \in Node(n)
    BY GrownNodes
  <2>2. CASE p = above
    <3> DEFINE listed == [nodes[p] EXCEPT !.children = after]
    <3>1. /\ listed.children = after /\ listed.parentId = nodes[p].parentId
          /\ listed.moduleId = nodes[p].moduleId
      BY <2>1, Relisted
    <3>2. /\ [listed EXCEPT !.parentId = n].children = after
          /\ [listed EXCEPT !.parentId = n].parentId = n
          /\ [listed EXCEPT !.parentId = n].moduleId = nodes[p].moduleId
      BY <2>1, <3>1 DEF Node
    <3> HIDE DEF listed
    <3>3. new.nodes[p] = IF p \in I THEN [listed EXCEPT !.parentId = n] ELSE listed
      BY <1>6, <2>2 DEF listed
    <3> QED BY <2>2, <3>1, <3>2, <3>3
  <2>3. CASE p # above
    <3>1. /\ [nodes[p] EXCEPT !.parentId = n].children = nodes[p].children
          /\ [nodes[p] EXCEPT !.parentId = n].parentId = n
          /\ [nodes[p] EXCEPT !.parentId = n].moduleId = nodes[p].moduleId
      BY <2>1, Rehung
    <3> QED BY <1>6, <2>3, <3>1
  <2> QED BY <2>2, <2>3
<1>9. n \notin I /\ \A p \in DOMAIN nodes : p # n
  BY <1>1, <1>4
<1>10. Slipped(new.nodes, nodes, above, n, I)
  <2>1. ASSUME NEW p \in DOMAIN new.nodes
        PROVE  /\ new.nodes[p].children \in Seq(Nat) /\ IsInjective(new.nodes[p].children)
               /\ Held(new.nodes, p) = IF p = n THEN I
                            ELSE (Held(nodes, p) \ I)
                                   \union {m \in {n} : p = above /\ I \subseteq Held(nodes, above)}
               /\ new.nodes[p].parentId = IF p = n THEN above ELSE IF p \in I THEN n ELSE nodes[p].parentId
    <3>1. CASE p = n
      BY <1>4, <1>6, <1>7, <3>1 DEF Held, I
    <3>2. CASE p = above
      <4>1. new.nodes[p].children = after /\ p # n
        BY <1>2, <1>8, <1>9, <3>2
      <4>2. Held(new.nodes, p) = (Held(nodes, p) \ I)
                                   \union {m \in {n} : p = above /\ I \subseteq Held(nodes, above)}
        <5>1. Held(new.nodes, p) = ToSet(after)
          BY <4>1 DEF Held
        <5>2. CASE I \subseteq Held(nodes, above)
          BY <1>4, <3>2, <5>1, <5>2
        <5>3. CASE ~(I \subseteq Held(nodes, above))
          BY <1>2, <1>4, <3>2, <5>1, <5>3
        <5> QED BY <5>2, <5>3
      <4> QED BY <1>2, <1>4, <1>8, <3>2, <4>1, <4>2
    <3>3. CASE p # n /\ p # above
      <4>1. p \in DOMAIN nodes /\ Held(nodes, p) \intersect I = {}
        <5>1. p \in DOMAIN nodes
          BY <1>6, <3>3
        <5>2. I \subseteq Held(nodes, above) => Held(nodes, p) \intersect I = {}
          BY <1>1, <1>2, <3>3, <5>1 DEF Shaped
        <5> QED BY <1>4, <5>1, <5>2
      <4>2. /\ nodes[p].children \in Seq(Nat) /\ IsInjective(nodes[p].children)
            /\ Held(new.nodes, p) = Held(nodes, p)
        BY <1>8, <3>3, <4>1, GrownNodes DEF Held
      <4> QED BY <1>8, <3>3, <4>1, <4>2
    <3> QED BY <3>1, <3>2, <3>3
  <2> QED BY <1>1, <1>2, <1>4, <1>6, <2>1 DEF Slipped
<1>11. Shaped(new.nodes) /\ Cached(new.nodes)
  BY <1>1, <1>10, SlippedIs
<1>12. ASSUME whole PROVE IsWhole(new.nodes, {new.rootNodeId})
  <2>1. IsWhole(nodes, {tree.rootNodeId})
    BY <1>12 DEF Grown
  <2>2. ASSUME NEW id \in DOMAIN new.nodes \ {tree.rootNodeId}
        PROVE  \E p \in DOMAIN new.nodes : id \in Held(new.nodes, p)
    <3>1. Held(new.nodes, n) = I /\ n \in DOMAIN new.nodes
      BY <1>6, <1>10 DEF Slipped
    <3>2. CASE id \in I
      BY <3>1, <3>2
    <3>3. CASE id \in DOMAIN nodes \ I
      <4>1. PICK p \in DOMAIN nodes : id \in Held(nodes, p)
        BY <2>1, <2>2, <3>3 DEF IsWhole, Held
      <4>2. p \in DOMAIN new.nodes /\ id \in Held(new.nodes, p)
        BY <1>6, <1>9, <1>10, <3>3, <4>1 DEF Slipped
      <4> QED BY <4>2
    <3>4. CASE id = n
      <4>1. I \subseteq Held(nodes, above)
        <5> SUFFICES ASSUME NEW i \in I PROVE i \in Held(nodes, above)
          OBVIOUS
        <5>1. \E p \in DOMAIN nodes : i \in Held(nodes, p)
          BY <1>4, <2>1 DEF IsWhole, Held
        <5> QED BY <1>4, <5>1
      <4>2. n \in Held(new.nodes, above) /\ above \in DOMAIN new.nodes
        BY <1>2, <1>6, <1>9, <1>10, <4>1 DEF Slipped
      <4> QED BY <3>4, <4>2
    <3> QED BY <1>6, <2>2, <3>2, <3>3, <3>4
  <2>3. ASSUME NEW id \in DOMAIN new.nodes, new.nodes[id].moduleId = "slot-outlet"
        PROVE  new.nodes[id].children = <<>>
    <3>1. id \in DOMAIN nodes /\ nodes[id].moduleId = "slot-outlet"
      BY <1>6, <1>7, <1>8, <2>3
    <3>2. nodes[id].children = <<>> /\ Held(nodes, id) = {}
      BY <2>1, <3>1 DEF IsWhole, Held, ToSet
    <3>3. CASE id # above
      BY <1>8, <3>1, <3>2, <3>3
    <3>4. CASE id = above
      <4>1. I = {}
        <5> SUFFICES ASSUME NEW i \in I PROVE FALSE
          OBVIOUS
        <5>1. \E p \in DOMAIN nodes : i \in Held(nodes, p)
          BY <1>4, <2>1 DEF IsWhole, Held
        <5> QED BY <1>4, <3>2, <3>4, <5>1
      <4> QED BY <1>13, <4>1
    <3> QED BY <3>3, <3>4
  <2> QED BY <1>6, <2>2, <2>3 DEF IsWhole, Held
<1> QED BY <1>6, <1>11, <1>12 DEF Grown, Regrown, Later, new

-----------------------------------------------------------------------------
\* Mirrors.

\* Ids of a set's own for each of its members, and a set that has all its nodes list.
Renames(map, ids) == map \in [ids -> Nat] /\ \A i, j \in ids : map[i] = map[j] => i = j
Closed(nodes, ids) == ids \subseteq DOMAIN nodes /\ \A p \in ids : Held(nodes, p) \subseteq ids

\* new is what ids look like in nodes, under other names.
Mirror(new, nodes, ids, map) ==
    /\ DOMAIN new = {map[i] : i \in ids}
    /\ \A p \in ids :
          /\ new[map[p]].children \in Seq(Nat) /\ IsInjective(new[map[p]].children)
          /\ Held(new, map[p]) = {map[c] : c \in Held(nodes, p)}
          /\ nodes[p].children = <<>> => new[map[p]].children = <<>>
          /\ new[map[p]].moduleId = nodes[p].moduleId
          /\ \A q \in ids : p \in Held(nodes, q) => new[map[p]].parentId = map[q]
          /\ (\A q \in ids : p \notin Held(nodes, q)) => new[map[p]].parentId = nodes[p].parentId

\* cloneNode.ts: the copies, linked as the originals are.
LEMMA CopiesMirror ==
  ASSUME NEW n, NEW nodes, Shaped(nodes), NEW ids, Closed(nodes, ids),
         \A id \in ids : nodes[id] \in Node(n), NEW map, Renames(map, ids)
  PROVE  Mirror(Copies(nodes, ids, map), nodes, ids, map)
<1> DEFINE new == Copies(nodes, ids, map)
           range == {map[i] : i \in ids}
<1>1. new = [x \in range |-> Copy(nodes, ids, map, CHOOSE id \in ids : map[id] = x)]
  BY DEF Copies, Copy
<1>2. DOMAIN map = ids
  BY DEF Renames
<1> HIDE DEF new
<1>3. ASSUME NEW p \in ids
      PROVE  /\ new[map[p]].children \in Seq(Nat) /\ IsInjective(new[map[p]].children)
             /\ Held(new, map[p]) = {map[c] : c \in Held(nodes, p)}
             /\ nodes[p].children = <<>> => new[map[p]].children = <<>>
             /\ new[map[p]].moduleId = nodes[p].moduleId
             /\ \A q \in ids : p \in Held(nodes, q) => new[map[p]].parentId = map[q]
             /\ (\A q \in ids : p \notin Held(nodes, q)) => new[map[p]].parentId = nodes[p].parentId
  <2> DEFINE list == nodes[p].children
             kept == Keep(list, ids)
             kids == [i \in DOMAIN kept |-> map[kept[i]]]
             lister == CHOOSE q \in ids : Contains(nodes[q].children, p)
             up == IF \E q \in ids : Contains(nodes[q].children, p) THEN map[lister] ELSE nodes[p].parentId
  <2>1. new[map[p]] = Copy(nodes, ids, map, p)
    <3>1. map[p] \in range /\ (CHOOSE i \in ids : map[i] = map[p]) = p
      BY DEF Renames
    <3> HIDE DEF range
    <3> QED BY <1>1, <3>1
  <2>2. new[map[p]] = [nodes[p] EXCEPT !.children = kids, !.parentId = up]
    BY <1>2, <2>1 DEF Copy
  <2>3. list \in Seq(Nat) /\ IsInjective(list) /\ ToSet(list) = Held(nodes, p) /\ Held(nodes, p) \subseteq ids
    BY DEF Shaped, Closed, Held, Lists
  <2> HIDE DEF list
  <2>4. /\ kept \in Seq(Nat) /\ IsInjective(kept) /\ ToSet(kept) = Held(nodes, p)
        /\ list = <<>> => kept = <<>>
    <3>1. /\ kept \in Seq(Nat) /\ IsInjective(kept) /\ ToSet(kept) = ToSet(list) \intersect ids
          /\ list = <<>> => kept = <<>>
      BY <2>3, KeptOnce
    <3> QED BY <2>3, <3>1
  <2> HIDE DEF kept
  <2>5. /\ Len(kept) \in Nat /\ DOMAIN kept = 1..Len(kept)
        /\ \A i \in 1..Len(kept) : kept[i] \in ids /\ map[kept[i]] \in Nat
    <3>1. Len(kept) \in Nat /\ DOMAIN kept = 1..Len(kept)
      BY <2>4
    <3>2. \A i \in 1..Len(kept) : kept[i] \in ids
      BY <2>3, <2>4, <3>1 DEF ToSet
    <3> QED BY <3>1, <3>2 DEF Renames
  <2>6. /\ kids \in Seq(Nat) /\ IsInjective(kids) /\ ToSet(kids) = {map[c] : c \in Held(nodes, p)}
        /\ list = <<>> => kids = <<>>
    <3>1. kids \in Seq(Nat)
      <4>1. kids \in [1..Len(kept) -> Nat]
        BY <2>5
      <4> HIDE DEF kids
      <4> QED BY <2>5, <4>1
    <3>2. IsInjective(kids)
      <4> SUFFICES ASSUME NEW i \in 1..Len(kept), NEW j \in 1..Len(kept), map[kept[i]] = map[kept[j]]
                   PROVE  i = j
        BY <2>5 DEF IsInjective
      <4>1. kept[i] = kept[j]
        BY <2>5 DEF Renames
      <4> QED BY <2>4, <2>5, <4>1 DEF IsInjective
    <3>3. ToSet(kids) = {map[c] : c \in Held(nodes, p)}
      <4>1. Held(nodes, p) = {kept[i] : i \in 1..Len(kept)}
        BY <2>4, <2>5 DEF ToSet
      <4> QED BY <2>5, <4>1 DEF ToSet
    <3>4. list = <<>> => kids = <<>>
      <4> SUFFICES ASSUME list = <<>> PROVE ToSet(kids) = {}
        <5> HIDE DEF kids
        <5> QED BY <3>1, NoMembers
      <4>1. Held(nodes, p) = {}
        BY <2>3 DEF ToSet
      <4> QED BY <3>3, <4>1
    <3> QED BY <3>1, <3>2, <3>3, <3>4
  <2>7. \A q \in ids : Contains(nodes[q].children, p) <=> p \in Held(nodes, q)
    <3>1. \A q \in ids : nodes[q].children \in Seq(Nat)
      BY DEF Shaped, Lists, Closed
    <3> QED BY <3>1, ContainsIs DEF Held
  <2>8. /\ \A q \in ids : p \in Held(nodes, q) => up = map[q]
        /\ (\A q \in ids : p \notin Held(nodes, q)) => up = nodes[p].parentId
    <3>1. ASSUME NEW q \in ids, p \in Held(nodes, q) PROVE up = map[q]
      <4>1. Contains(nodes[q].children, p)
        BY <2>7, <3>1
      <4>2. lister \in ids /\ Contains(nodes[lister].children, p)
        BY <4>1
      <4> HIDE DEF lister
      <4>3. p \in Held(nodes, lister)
        BY <2>7, <4>2
      <4>4. lister = q
        BY <3>1, <4>2, <4>3 DEF Shaped, Closed
      <4> QED BY <4>1, <4>4
    <3> QED BY <2>7, <3>1
  <2> HIDE DEF kids, up
  <2>9. new[map[p]].children = kids /\ new[map[p]].parentId = up /\ new[map[p]].moduleId = nodes[p].moduleId
    <3>1. nodes[p] \in Node(n)
      OBVIOUS
    <3> QED BY <2>2, <3>1 DEF Node
  <2> QED BY <2>6, <2>8, <2>9 DEF Held, list
<1>4. DOMAIN new = range
  BY <1>1
<1> QED BY <1>3, <1>4 DEF Mirror, new

\* A mirror of a closed part is a forest, and its tops are tops.
LEMMA MirrorGrows ==
  ASSUME NEW nodes, Shaped(nodes), NEW ids, Closed(nodes, ids), NEW map, Renames(map, ids),
         NEW new, Mirror(new, nodes, ids, map)
  PROVE  /\ Shaped(new) /\ Cached(new)
         /\ \A t \in ids : (\A p \in ids : t \notin Held(nodes, p))
                              => \A x \in DOMAIN new : map[t] \notin Held(new, x)
<1>1. /\ \A x \in DOMAIN new : \E p \in ids : x = map[p]
      /\ \A p \in ids : map[p] \in DOMAIN new /\ map[p] \in Nat
      /\ \A p \in ids : Held(nodes, p) \subseteq ids
  BY DEF Mirror, Renames, Closed
<1>2. Lists(new)
  <2>1. IsFiniteSet(ids)
    BY FS_Subset DEF Shaped, Lists, Closed
  <2> DEFINE range == {map[i] : i \in ids}
  <2>2. map \in Surjection(ids, range)
    BY DEF Surjection, Renames
  <2> HIDE DEF range
  <2>3. IsFiniteSet(range)
    BY <2>1, <2>2, FS_Surjection
  <2> QED BY <1>1, <2>3 DEF Mirror, Lists, range
<1>3. \A x \in DOMAIN new : IsInjective(new[x].children) /\ Held(new, x) \subseteq DOMAIN new
  <2> SUFFICES ASSUME NEW p \in ids
               PROVE  IsInjective(new[map[p]].children) /\ Held(new, map[p]) \subseteq DOMAIN new
    BY <1>1
  <2>1. IsInjective(new[map[p]].children) /\ Held(new, map[p]) = {map[c] : c \in Held(nodes, p)}
    BY DEF Mirror
  <2> QED BY <1>1, <2>1
<1>4. ASSUME NEW p \in ids, NEW c \in ids, map[c] \in Held(new, map[p])
      PROVE  c \in Held(nodes, p)
  <2>0. Held(new, map[p]) = {map[d] : d \in Held(nodes, p)}
    BY DEF Mirror
  <2>1. PICK d \in Held(nodes, p) : map[c] = map[d]
    BY <1>4, <2>0
  <2>2. d = c
    BY <1>1, <2>1 DEF Renames
  <2> QED BY <2>2
<1>5. ASSUME NEW x \in DOMAIN new, NEW y \in DOMAIN new, NEW z \in Held(new, x), z \in Held(new, y), x # y
      PROVE  FALSE
  <2>1. PICK p \in ids, q \in ids : x = map[p] /\ y = map[q]
    BY <1>1
  <2>2. PICK c \in ids : z = map[c]
    BY <1>1, <1>3, <1>5
  <2>3. c \in Held(nodes, p) /\ c \in Held(nodes, q) /\ p # q
    BY <1>4, <1>5, <2>1, <2>2
  <2> QED BY <2>3 DEF Shaped, Closed
<1>6. ASSUME NEW set \in SUBSET DOMAIN new, set # {}
      PROVE  \E top \in set : \A x \in set : top \notin Held(new, x)
  <2> DEFINE pre == {i \in ids : map[i] \in set}
  <2>1. pre \in SUBSET DOMAIN nodes /\ pre # {}
    BY <1>1, <1>6 DEF Closed
  <2>2. PICK top \in pre : \A p \in pre : top \notin Held(nodes, p)
    <3> HIDE DEF pre
    <3> QED BY <2>1 DEF Shaped, Founded
  <2>3. ASSUME NEW x \in set, map[top] \in Held(new, x) PROVE FALSE
    <3>1. PICK p \in ids : x = map[p]
      BY <1>1
    <3>2. p \in pre /\ top \in Held(nodes, p)
      BY <1>4, <2>3, <3>1
    <3> QED BY <2>2, <3>2
  <2> QED BY <2>2, <2>3
<1>7. ASSUME NEW x \in DOMAIN new, NEW y \in Held(new, x) PROVE new[y].parentId = x
  <2>1. PICK p \in ids : x = map[p]
    BY <1>1
  <2>2. PICK c \in ids : y = map[c]
    BY <1>1, <1>3, <1>7
  <2>3. c \in Held(nodes, p)
    BY <1>4, <1>7, <2>1, <2>2
  <2> QED BY <2>1, <2>2, <2>3 DEF Mirror
<1>8. ASSUME NEW t \in ids, \A p \in ids : t \notin Held(nodes, p), NEW x \in DOMAIN new,
             map[t] \in Held(new, x)
      PROVE  FALSE
  <2>1. PICK p \in ids : x = map[p]
    BY <1>1
  <2> QED BY <1>4, <1>8, <2>1
<1> QED BY <1>2, <1>3, <1>5, <1>6, <1>7, <1>8 DEF Shaped, Cached, Founded

\* A mirror strays no more than its original.
LEMMA MirrorWhole ==
  ASSUME NEW nodes, NEW ids, Closed(nodes, ids), NEW map, Renames(map, ids),
         NEW new, Mirror(new, nodes, ids, map), NEW tops,
         \A x \in ids \ tops : \E p \in ids : x \in Held(nodes, p),
         \A x \in ids : nodes[x].moduleId = "slot-outlet" => nodes[x].children = <<>>
  PROVE  IsWhole(new, {map[t] : t \in tops \intersect ids})
<1>1. ASSUME NEW y \in DOMAIN new \ {map[t] : t \in tops \intersect ids}
      PROVE  \E q \in DOMAIN new : y \in Held(new, q)
  <2>1. PICK x \in ids : y = map[x]
    BY <1>1 DEF Mirror
  <2>2. x \notin tops
    BY <1>1, <2>1
  <2>3. PICK p \in ids : x \in Held(nodes, p)
    BY <2>2
  <2>4. Held(new, map[p]) = {map[d] : d \in Held(nodes, p)} /\ map[p] \in DOMAIN new
    BY DEF Mirror
  <2> QED BY <2>1, <2>3, <2>4
<1>2. ASSUME NEW y \in DOMAIN new, new[y].moduleId = "slot-outlet" PROVE new[y].children = <<>>
  <2>1. PICK x \in ids : y = map[x]
    BY <1>2 DEF Mirror
  <2> QED BY <1>2, <2>1 DEF Mirror
<1> QED BY <1>1, <1>2 DEF IsWhole, Held

\* Fresh ids rename.
LEMMA FreshRenames ==
  ASSUME NEW ids, IsFiniteSet(ids), ids \subseteq Nat, NEW from \in Nat
  PROVE  /\ Renames(FreshIds(ids, from), ids)
         /\ \A i \in ids : FreshIds(ids, from)[i] \in Later(from)
<1>1. /\ Cardinality(ids) \in Nat
      /\ FreshIds(ids, from) \in [ids -> from..(from + Cardinality(ids) - 1)]
      /\ \A i, j \in ids : FreshIds(ids, from)[i] = FreshIds(ids, from)[j] => i = j
  BY FreshIs
<1> DEFINE map == FreshIds(ids, from)
<1> HIDE DEF map
<1>2. map \in [ids -> from..(from + Cardinality(ids) - 1)]
  BY <1>1 DEF map
<1>3. from..(from + Cardinality(ids) - 1) \subseteq Later(from)
  BY <1>1 DEF Later
<1>4. map \in [ids -> Nat] /\ \A i \in ids : map[i] \in Later(from)
  BY <1>2, <1>3 DEF Later
<1> QED BY <1>1, <1>4 DEF Renames, map

-----------------------------------------------------------------------------
\* Duplicating.

\* Fresh copies of nodes that a map of the editor's renames.
LEMMA FreshCopies ==
  ASSUME NEW n \in Nat, NEW nodes, Shaped(nodes), DOMAIN nodes \subseteq 1..(n - 1),
         \A id \in DOMAIN nodes : nodes[id] \in Node(n), NEW ids, Closed(nodes, ids),
         NEW map, map = FreshIds(ids, n), NEW new, new = Copies(nodes, ids, map)
  PROVE  /\ Renames(map, ids) /\ (\A i \in ids : map[i] \in Later(n))
         /\ Mirror(new, nodes, ids, map) /\ Shaped(new) /\ Cached(new)
         /\ DOMAIN new \subseteq Later(n) /\ DOMAIN new \intersect DOMAIN nodes = {}
         /\ IsFiniteSet(ids)
         /\ \A x \in DOMAIN new : new[x] \in Node(n + Cardinality(ids))
<1>1. IsFiniteSet(ids) /\ ids \subseteq Nat /\ ids \subseteq DOMAIN nodes
  BY FS_Subset DEF Shaped, Lists, Closed
<1>2. Renames(map, ids) /\ \A i \in ids : map[i] \in Later(n)
  BY <1>1, FreshRenames
<1>3. Mirror(new, nodes, ids, map)
  BY <1>1, <1>2, CopiesMirror
<1>4. Shaped(new) /\ Cached(new)
  BY <1>2, <1>3, MirrorGrows
<1>5. DOMAIN new \subseteq Later(n)
  BY <1>2, <1>3 DEF Mirror
<1>6. DOMAIN new \intersect DOMAIN nodes = {}
  BY <1>5 DEF Later
<1>7. \A x \in DOMAIN new : new[x] \in Node(n + Cardinality(ids))
  <2> DEFINE m == n + Cardinality(ids)
  <2>1. m \in Nat /\ n <= n
    BY <1>1, FS_CardinalityType
  <2> HIDE DEF m
  <2>2. Fresh(Copies(nodes, ids, FreshIds(ids, n)), n, m)
    BY <1>1, <2>1, CopiesAre DEF m
  <2> QED BY <2>2 DEF Fresh, m
<1> QED BY <1>1, <1>2, <1>3, <1>4, <1>5, <1>6, <1>7

\* mutations.ts: the copy stands right behind its original.
LEMMA DuplicateNodeGrows ==
  ASSUME NEW n \in Nat, NEW tree, IsDocument(tree, n), NEW whole, Grown(tree, whole),
         NEW id \in DOMAIN tree.nodes, id # tree.rootNodeId
  PROVE  Regrown(DuplicateNode(tree, id, n), tree, n, whole)
<1> DEFINE nodes == tree.nodes
           ids == Subtree(tree, id)
           map == FreshIds(ids, n)
           parent == Parent(tree, id)
           copies == Copies(nodes, ids, map)
           up == IF parent # Null THEN parent ELSE nodes[id].parentId
           kids == nodes[parent].children
           joined == Splice(kids, IndexOf(kids, id) + 1, <<map[id]>>)
           new == DuplicateNode(tree, id, n)
           m == n + Cardinality(ids)
<1>1. /\ Shaped(nodes) /\ Cached(nodes) /\ Lists(nodes) /\ id \in Nat /\ DOMAIN nodes \subseteq 1..(n - 1)
      /\ \A i \in DOMAIN nodes : nodes[i] \in Node(n)
  BY GrownNodes DEF Grown
<1>2. Branch(nodes, id, ids) /\ Closed(nodes, ids) /\ id \in ids
  <2>1. Branch(nodes, id, ids)
    BY <1>1, SubtreeBranch
  <2> HIDE DEF ids
  <2> QED BY <2>1 DEF Branch, Closed
<1>3. /\ Renames(map, ids) /\ (\A i \in ids : map[i] \in Later(n))
      /\ Mirror(copies, nodes, ids, map) /\ Shaped(copies) /\ Cached(copies)
      /\ DOMAIN copies \subseteq Later(n) /\ DOMAIN copies \intersect DOMAIN nodes = {}
      /\ \A x \in DOMAIN copies : copies[x] \in Node(m)
  <2> HIDE DEF ids
  <2> QED BY <1>1, <1>2, FreshCopies
<1> HIDE DEF ids, m
<1>4. /\ map[id] \in DOMAIN copies /\ map[id] \in Nat /\ map[id] \notin DOMAIN nodes
      /\ \A x \in DOMAIN copies : map[id] \notin Held(copies, x)
      /\ copies[map[id]].parentId = nodes[id].parentId
  <2>1. \A p \in ids : id \notin Held(nodes, p)
    BY <1>2 DEF Branch
  <2> HIDE DEF map, copies
  <2>2. map[id] \in DOMAIN copies /\ map[id] \in Nat
    BY <1>2, <1>3 DEF Mirror, Renames
  <2>3. \A x \in DOMAIN copies : map[id] \notin Held(copies, x)
    BY <1>1, <1>2, <1>3, <2>1, MirrorGrows
  <2> QED BY <1>2, <1>3, <2>1, <2>2, <2>3 DEF Mirror
<1>5. parent \in DOMAIN nodes \union {Null}
  BY <1>1, ParentIs
<1>6. /\ new.rootNodeId = tree.rootNodeId
      /\ DOMAIN new.nodes = DOMAIN nodes \union DOMAIN copies
      /\ new.nodes[map[id]] = [copies[map[id]] EXCEPT !.parentId = up]
      /\ \A x \in DOMAIN copies \ {map[id]} : new.nodes[x] = copies[x]
      /\ \A p \in DOMAIN nodes : new.nodes[p] = IF p = parent THEN [nodes[p] EXCEPT !.children = joined] ELSE nodes[p]
  <2> DEFINE copied == Over(copies, nodes)
             linked == [copied EXCEPT ![map[id]].parentId = up]
  <2>1. /\ DOMAIN copied = DOMAIN nodes \union DOMAIN copies
        /\ \A x \in DOMAIN copies : copied[x] = copies[x]
        /\ \A p \in DOMAIN nodes : copied[p] = nodes[p]
    <3> HIDE DEF copies, map
    <3> QED BY <1>3 DEF Over
  <2>2. new = [tree EXCEPT !.nodes = IF parent = Null THEN linked
                 ELSE [linked EXCEPT ![parent].children =
                         Splice(@, IndexOf(@, id) + 1, <<map[id]>>)]]
    BY DEF DuplicateNode, ids
  <2> HIDE DEF new, map, copies, copied, up, parent
  <2>3. /\ DOMAIN linked = DOMAIN nodes \union DOMAIN copies
        /\ linked[map[id]] = [copies[map[id]] EXCEPT !.parentId = up]
        /\ \A x \in DOMAIN copies \ {map[id]} : linked[x] = copies[x]
        /\ \A p \in DOMAIN nodes : linked[p] = nodes[p]
    BY <1>4, <2>1
  <2> HIDE DEF linked
  <2>4. tree = [rootNodeId |-> tree.rootNodeId, nodes |-> nodes] /\ Null \notin DOMAIN nodes
    BY GrownNodes
  <2>5. CASE parent = Null
    BY <2>2, <2>3, <2>4, <2>5
  <2>6. CASE parent # Null
    <3>1. new = [tree EXCEPT !.nodes = [linked EXCEPT ![parent].children = joined]]
      BY <1>5, <2>2, <2>3, <2>6
    <3> HIDE DEF joined
    <3> QED BY <1>3, <1>4, <1>5, <2>3, <2>4, <2>6, <3>1
  <2> QED BY <2>5, <2>6
<1> HIDE DEF map, copies, new, parent
<1>7. /\ \A x \in DOMAIN copies : /\ new.nodes[x].children = copies[x].children
                                  /\ new.nodes[x].parentId = IF x = map[id] THEN up ELSE copies[x].parentId
                                  /\ new.nodes[x].moduleId = copies[x].moduleId
  <2> SUFFICES ASSUME NEW x \in DOMAIN copies
               PROVE  /\ new.nodes[x].children = copies[x].children
                      /\ new.nodes[x].parentId = IF x = map[id] THEN up ELSE copies[x].parentId
                      /\ new.nodes[x].moduleId = copies[x].moduleId
    OBVIOUS
  <2> HIDE DEF up
  <2>1. CASE x = map[id]
    <3>1. /\ [copies[x] EXCEPT !.parentId = up].children = copies[x].children
          /\ [copies[x] EXCEPT !.parentId = up].parentId = up
          /\ [copies[x] EXCEPT !.parentId = up].moduleId = copies[x].moduleId
      BY <1>3, Rehung
    <3> QED BY <1>6, <2>1, <3>1
  <2>2. CASE x # map[id]
    BY <1>6, <2>2
  <2> QED BY <2>1, <2>2
<1>8. ASSUME NEW p \in DOMAIN nodes
      PROVE  /\ new.nodes[p].children = IF p = parent THEN joined ELSE nodes[p].children
             /\ new.nodes[p].parentId = nodes[p].parentId
             /\ new.nodes[p].moduleId = nodes[p].moduleId
  <2> HIDE DEF joined
  <2>1. CASE p = parent
    <3>1. /\ [nodes[p] EXCEPT !.children = joined].children = joined
          /\ [nodes[p] EXCEPT !.children = joined].parentId = nodes[p].parentId
          /\ [nodes[p] EXCEPT !.children = joined].moduleId = nodes[p].moduleId
      BY <1>1, Relisted
    <3> QED BY <1>6, <2>1, <3>1
  <2>2. CASE p # parent
    BY <1>6, <2>2
  <2> QED BY <2>1, <2>2
<1>9. ASSUME whole
      PROVE  /\ parent # Null /\ nodes[parent].moduleId # "slot-outlet"
             /\ IsWhole(copies, {map[id]})
  <2>1. IsWhole(nodes, {tree.rootNodeId})
    BY <1>9 DEF Grown
  <2>2. PICK p \in DOMAIN nodes : id \in Held(nodes, p)
    BY <2>1 DEF IsWhole, Held
  <2>3. parent = p /\ p # Null
    BY <2>2, GrownNodes DEF parent
  <2>4. nodes[parent].moduleId # "slot-outlet"
    BY <2>1, <2>2, <2>3 DEF IsWhole, Held, ToSet
  <2>5. \A x \in ids \ {id} : \E q \in ids : x \in Held(nodes, q)
    BY <1>2 DEF Branch
  <2>6. \A x \in ids : nodes[x].moduleId = "slot-outlet" => nodes[x].children = <<>>
    BY <1>2, <2>1 DEF IsWhole, Closed
  <2> DEFINE tops == {id}
  <2>50. \A x \in ids \ tops : \E q \in ids : x \in Held(nodes, q)
    BY <2>5
  <2> HIDE DEF tops, ids
  <2>51. IsWhole(copies, {map[t] : t \in tops \intersect ids})
    BY <1>2, <1>3, <2>50, <2>6, MirrorWhole
  <2>7. IsWhole(copies, {map[t] : t \in {id} \intersect ids})
    BY <2>51 DEF tops
  <2>8. {map[t] : t \in {id} \intersect ids} = {map[id]}
    BY <1>2
  <2> QED BY <2>3, <2>4, <2>7, <2>8
<1>10. CASE parent # Null
  <2>1. /\ kids \in Seq(Nat) /\ IsInjective(kids) /\ ToSet(kids) = Held(nodes, parent)
        /\ Held(nodes, parent) \subseteq DOMAIN nodes
    BY <1>5, <1>10, GrownNodes
  <2> DEFINE one == <<map[id]>>
             at == IndexOf(kids, id) + 1
  <2> HIDE DEF kids
  <2>2. one \in Seq(Nat) /\ ToSet(one) = {map[id]} /\ IsInjective(one) /\ at \in Int
    BY <1>4, <2>1, OneId, IndexOfIs DEF IsInjective
  <2>3. /\ joined \in Seq(Nat) /\ IsInjective(joined)
        /\ ToSet(joined) = Held(nodes, parent) \union {map[id]}
    <3> HIDE DEF one, at
    <3>1. ToSet(kids) \intersect ToSet(one) = {}
      BY <1>4, <2>1, <2>2
    <3>2. /\ Splice(kids, at, one) \in Seq(Nat) /\ IsInjective(Splice(kids, at, one))
          /\ ToSet(Splice(kids, at, one)) = ToSet(kids) \union ToSet(one)
      BY <2>1, <2>2, <3>1, SplicedOnce
    <3> QED BY <2>1, <2>2, <3>2 DEF one, at
  <2> HIDE DEF joined
  <2>4. Grafts(new.nodes, nodes, copies, parent, {map[id]})
    BY <1>3, <1>4, <1>5, <1>6, <1>7, <1>8, <1>10, <2>3 DEF Grafts, Held
  <2>5. Open(tree, parent, whole)
    BY <1>5, <1>9, <1>10 DEF Open
  <2> QED BY <1>3, <1>6, <1>9, <2>4, <2>5, GraftedTree DEF new
<1>11. CASE parent = Null
  <2> DEFINE root == tree.rootNodeId
  <2>1. /\ root \in DOMAIN nodes /\ root # parent
        /\ nodes[root].children \in Seq(Nat) /\ IsInjective(nodes[root].children)
    BY <1>11, DocumentLists, GrownNodes
  <2>2. Grafts(new.nodes, nodes, copies, root, {})
    <3>1. \A p \in DOMAIN nodes : p # parent
      BY <1>11, GrownNodes
    <3> QED BY <1>3, <1>4, <1>6, <1>7, <1>8, <1>11, <2>1, <3>1 DEF Grafts, Held
  <2>3. Open(tree, root, whole)
    BY <1>9, <1>11, <2>1 DEF Open
  <2> QED BY <1>3, <1>6, <1>9, <1>11, <2>2, <2>3, GraftedTree DEF new
<1> QED BY <1>10, <1>11

\* nodeActions.ts: duplicateNodes, one copy after the other.
LEMMA DuplicateAllGrows ==
  ASSUME NEW n \in Nat, NEW tree, IsDocument(tree, n), NEW whole, Grown(tree, whole),
         NEW ids \in Seq(DOMAIN tree.nodes),
         \A id \in ToSet(ids) : id # tree.rootNodeId /\ ~SubtreeHasOutlet(tree, id)
  PROVE  Regrown(DuplicateAll(tree, ids, n).tree, tree, n, whole)
<1>1. PICK f : /\ f[0] = [tree |-> tree, next |-> n]
               /\ \A k \in 1..Len(ids) : f[k] = [tree |-> DuplicateNode(f[k - 1].tree, ids[k], f[k - 1].next),
                            next |-> f[k - 1].next + Cardinality(Subtree(f[k - 1].tree, ids[k]))]
               /\ DuplicateAll(tree, ids, n) = f[Len(ids)]
  BY DuplicateTurns
<1> DEFINE N == Len(ids)
           Good(now) == /\ now.next \in Nat /\ n <= now.next
                        /\ IsDocument(now.tree, now.next) /\ now.tree.rootNodeId = tree.rootNodeId
                        /\ DOMAIN tree.nodes \subseteq DOMAIN now.tree.nodes
                        /\ \A id \in ToSet(ids) : ~SubtreeHasOutlet(now.tree, id)
                        /\ Regrown(now.tree, tree, n, whole)
           T == {k \in 0..N : Good(f[k])}
<1>2. N \in Nat /\ N \in 0..N /\ 0 \in 0..N
  OBVIOUS
<1>3. Good(f[0])
  BY <1>1 DEF Regrown
<1>4. ASSUME NEW k \in 0..(N - 1), Good(f[k]) PROVE Good(f[k + 1])
  <2> DEFINE now == f[k]
             id == ids[k + 1]
             m == now.next + Cardinality(Subtree(now.tree, id))
  <2>1. k + 1 \in 1..N /\ (k + 1) - 1 = k /\ k + 1 \in DOMAIN ids
    BY <1>2
  <2>2. f[k + 1] = [tree |-> DuplicateNode(now.tree, id, now.next), next |-> m]
    BY <1>1, <2>1
  <2>3. id \in ToSet(ids) /\ id \in DOMAIN tree.nodes
    BY <2>1 DEF ToSet
  <2>4. Good(now)
    BY <1>4
  <2> HIDE DEF now, id, m
  <2>5. id \in DOMAIN now.tree.nodes /\ id # now.tree.rootNodeId /\ ~SubtreeHasOutlet(now.tree, id)
    BY <2>3, <2>4
  <2>6. /\ m \in Nat /\ now.next <= m
        /\ Like(DuplicateNode(now.tree, id, now.next), now.tree, m)
        /\ DOMAIN now.tree.nodes \subseteq DOMAIN DuplicateNode(now.tree, id, now.next).nodes
        /\ \A b \in DOMAIN now.tree.nodes :
               ~SubtreeHasOutlet(now.tree, b) => ~SubtreeHasOutlet(DuplicateNode(now.tree, id, now.next), b)
    BY <2>4, <2>5, DuplicateNodeIs DEF m
  <2>7. Regrown(DuplicateNode(now.tree, id, now.next), now.tree, now.next, whole)
    BY <2>4, <2>5, DuplicateNodeGrows DEF Regrown
  <2> DEFINE dup == DuplicateNode(now.tree, id, now.next)
  <2>8. f[k + 1].tree = dup /\ f[k + 1].next = m
    BY <2>2
  <2> HIDE DEF dup
  <2>9. Regrown(dup, tree, n, whole)
    BY <2>4, <2>7 DEF Regrown, Later, dup
  <2>10. ASSUME NEW i \in ToSet(ids) PROVE ~SubtreeHasOutlet(dup, i)
    <3>1. i \in DOMAIN tree.nodes
      BY DEF ToSet
    <3> QED BY <2>4, <2>6, <3>1 DEF dup
  <2>11. IsDocument(dup, m) /\ dup.rootNodeId = now.tree.rootNodeId /\ DOMAIN now.tree.nodes \subseteq DOMAIN dup.nodes
    BY <2>6 DEF Like, Grows, dup
  <2> QED BY <2>4, <2>6, <2>8, <2>9, <2>10, <2>11
<1>5. N \in T
  <2> HIDE DEF Good, N
  <2>1. 0 \in T /\ \A k \in 0..(N - 1) : k \in T => k + 1 \in T
    BY <1>2, <1>3, <1>4
  <2> HIDE DEF T
  <2> QED BY <1>2, <2>1, UpTo
<1> QED BY <1>1, <1>5

-----------------------------------------------------------------------------
\* The clipboard.

\* A clipboard as the invariant keeps it: a forest whose tops are its roots.
Clipped(snapshot, whole) ==
    /\ Shaped(snapshot.nodes)
    /\ Cached(snapshot.nodes)
    /\ IsInjective(snapshot.rootNodeIds)
    /\ \A p \in DOMAIN snapshot.nodes : Held(snapshot.nodes, p) \intersect ToSet(snapshot.rootNodeIds) = {}
    /\ whole => IsWhole(snapshot.nodes, ToSet(snapshot.rootNodeIds))

\* subtreeSnapshot.ts: what is copied is whole branches, none below another.
LEMMA SnapshotClipped ==
  ASSUME NEW n \in Nat, NEW tree, IsDocument(tree, n), NEW whole, Grown(tree, whole),
         NEW roots \in Seq(DOMAIN tree.nodes), IsInjective(roots),
         \A r, s \in ToSet(roots) : r # s => ~IsAncestor(tree, s, r)
  PROVE  Clipped(Snapshot(tree, roots), whole)
<1> DEFINE nodes == tree.nodes
           S == UNION {Subtree(tree, r) : r \in ToSet(roots)}
           new == Snapshot(tree, roots).nodes
<1>1. ToSet(roots) \subseteq DOMAIN nodes
  BY DEF ToSet
<1>2. \A r \in ToSet(roots) : Branch(nodes, r, Subtree(tree, r))
  BY <1>1, SubtreeBranch DEF Grown
<1>3. /\ DOMAIN new = S /\ \A x \in S : new[x] = nodes[x]
      /\ Snapshot(tree, roots).rootNodeIds = roots
  BY DEF Snapshot, Restrict
<1>4. S \subseteq DOMAIN nodes /\ \A p \in S : Held(nodes, p) \subseteq S
  BY <1>2 DEF Branch
<1>5. \A p \in DOMAIN nodes : p \in Nat /\ nodes[p].children \in Seq(Nat) /\ IsInjective(nodes[p].children)
  BY GrownNodes
<1>6. Lists(new)
  <2>1. IsFiniteSet(S)
    BY <1>4, FS_Subset DEF Grown, Shaped, Lists
  <2> HIDE DEF S, new
  <2> QED BY <1>3, <1>4, <1>5, <2>1 DEF Lists
<1> HIDE DEF S, new
<1>7. \A p \in S : Held(new, p) = Held(nodes, p)
  BY <1>3 DEF Held
<1>8. Shaped(new)
  <2>1. Shaped(nodes)
    BY DEF Grown
  <2> HIDE DEF nodes
  <2> QED BY <1>3, <1>4, <1>5, <1>6, <1>7, <2>1, ShapedLess
<1>9. Cached(new)
  BY <1>3, <1>4, <1>7 DEF Cached, Grown
<1>10. ASSUME NEW p \in S, NEW r \in ToSet(roots) PROVE r \notin Held(nodes, p)
  <2>1. PICK s \in ToSet(roots) : p \in Subtree(tree, s)
    BY DEF S
  <2>2. CASE s = r
    BY <1>2, <2>1, <2>2 DEF Branch
  <2>3. CASE s # r
    <3>1. r \notin Subtree(tree, s)
      BY <1>1, <2>3, NotAbove, GrownNodes DEF Grown
    <3> QED BY <1>2, <2>1, <3>1 DEF Branch
  <2> QED BY <2>2, <2>3
<1>11. ASSUME whole PROVE IsWhole(new, ToSet(roots))
  <2>1. IsWhole(nodes, {tree.rootNodeId})
    BY <1>11 DEF Grown
  <2>2. ASSUME NEW x \in S \ ToSet(roots) PROVE \E p \in S : x \in Held(nodes, p)
    <3>1. PICK s \in ToSet(roots) : x \in Subtree(tree, s)
      BY DEF S
    <3>2. \E p \in Subtree(tree, s) : x \in Held(nodes, p)
      BY <1>2, <2>2, <3>1 DEF Branch
    <3> QED BY <3>2 DEF S
  <2> QED BY <1>3, <1>4, <1>7, <2>1, <2>2 DEF IsWhole, Held
<1> QED BY <1>3, <1>7, <1>8, <1>9, <1>10, <1>11 DEF Clipped, new

\* mutations.ts: every root is hung under the parent, as its parentId says.
LEMMA PasteGrows ==
  ASSUME NEW n \in Nat, NEW tree, IsDocument(tree, n), NEW whole, Grown(tree, whole),
         NEW snapshot, IsSnapshot(snapshot, n), Clipped(snapshot, whole), snapshot.rootNodeIds # <<>>,
         NEW parent, Open(tree, parent, whole), NEW index \in Int,
         \A i \in 1..(Len(snapshot.rootNodeIds) - 1) :
             snapshot.nodes[snapshot.rootNodeIds[i]].parentId = parent
  PROVE  Regrown(PasteSnapshot(tree, snapshot, parent, index, n), tree, n, whole)
<1> DEFINE old == tree.nodes
           nodes == snapshot.nodes
           ids == DOMAIN nodes
           tops == snapshot.rootNodeIds
           map == FreshIds(ids, n)
           copies == Copies(nodes, ids, map)
           roots == [i \in DOMAIN tops |-> map[tops[i]]]
           last1 == map[Last(tops)]
           kids == old[parent].children
           joined == Splice(kids, index, roots)
           new == PasteSnapshot(tree, snapshot, parent, index, n)
<1>1. /\ Shaped(nodes) /\ Cached(nodes) /\ DOMAIN nodes \subseteq 1..(n - 1)
      /\ \A i \in DOMAIN nodes : nodes[i] \in Node(n)
      /\ tops \in Seq(ids)
  BY DEF Clipped, IsSnapshot, IsNodes
<1>2. Closed(nodes, ids)
  BY <1>1 DEF Closed, Shaped
<1>3. /\ Renames(map, ids) /\ (\A i \in ids : map[i] \in Later(n))
      /\ Mirror(copies, nodes, ids, map) /\ Shaped(copies) /\ Cached(copies)
      /\ DOMAIN copies \subseteq Later(n)
      /\ \A x \in DOMAIN copies : copies[x] \in Node(n + Cardinality(ids))
  <2> HIDE DEF nodes
  <2>1. ids \subseteq DOMAIN nodes
    OBVIOUS
  <2> QED BY <1>1, <1>2, FreshCopies
<1>4. DOMAIN copies \intersect DOMAIN old = {} /\ parent \in DOMAIN old
  BY <1>3, GrownNodes DEF Later, Open
<1>5. /\ tops # <<>> /\ Len(tops) \in Nat \ {0} /\ DOMAIN tops = 1..Len(tops)
      /\ Last(tops) = tops[Len(tops)] /\ \A i \in 1..Len(tops) : tops[i] \in ids
  BY <1>1 DEF Last
<1>6. /\ roots \in Seq(Nat) /\ IsInjective(roots) /\ Len(roots) = Len(tops)
      /\ Last(roots) = last1 /\ last1 \in DOMAIN copies
      /\ ToSet(roots) = {map[t] : t \in ToSet(tops)}
      /\ ToSet(roots) \subseteq DOMAIN copies
  <2> HIDE DEF map, copies, tops, nodes
  <2>0. IsInjective(tops)
    BY DEF Clipped, tops
  <2>1. Len(roots) = Len(tops) /\ roots \in Seq(Nat) /\ DOMAIN roots = 1..Len(tops)
    BY <1>3, <1>5 DEF Renames
  <2>2. IsInjective(roots)
    BY <1>3, <1>5, <2>0, <2>1 DEF Renames, IsInjective
  <2>3. ToSet(roots) = {map[t] : t \in ToSet(tops)}
    BY <1>5, <2>1 DEF ToSet
  <2>4. ToSet(roots) \subseteq DOMAIN copies
    BY <1>3, <1>5, <2>1 DEF Mirror, ToSet
  <2>5. Last(roots) = last1 /\ last1 \in DOMAIN copies
    BY <1>3, <1>5, <2>1 DEF Mirror, Last
  <2> QED BY <2>1, <2>2, <2>3, <2>4, <2>5
<1>7. /\ new.rootNodeId = tree.rootNodeId
      /\ DOMAIN new.nodes = DOMAIN old \union DOMAIN copies
      /\ \A x \in DOMAIN copies : new.nodes[x] = IF x = last1 THEN [copies[x] EXCEPT !.parentId = parent] ELSE copies[x]
      /\ \A p \in DOMAIN old : new.nodes[p] = IF p = parent THEN [old[p] EXCEPT !.children = joined] ELSE old[p]
  <2> DEFINE copied == Over(copies, old)
             placed == [copied EXCEPT ![parent].children = Splice(@, index, roots)]
  <2>1. /\ DOMAIN copied = DOMAIN old \union DOMAIN copies
        /\ \A x \in DOMAIN copies : copied[x] = copies[x]
        /\ \A p \in DOMAIN old : copied[p] = old[p]
    <3> HIDE DEF copies, map
    <3> QED BY <1>4 DEF Over
  <2>2. new = [tree EXCEPT !.nodes = [placed EXCEPT ![Last(roots)].parentId = parent]]
    BY DEF PasteSnapshot
  <2> HIDE DEF new, map, copies, copied, roots, last1
  <2>3. /\ DOMAIN placed = DOMAIN old \union DOMAIN copies
        /\ \A x \in DOMAIN copies : placed[x] = copies[x]
        /\ \A p \in DOMAIN old : placed[p] = IF p = parent THEN [old[p] EXCEPT !.children = joined] ELSE old[p]
    BY <1>4, <2>1
  <2> HIDE DEF placed, joined
  <2>4. tree = [rootNodeId |-> tree.rootNodeId, nodes |-> old]
    BY GrownNodes
  <2>5. last1 \notin DOMAIN old
    BY <1>4, <1>6
  <2> QED BY <1>4, <1>6, <2>2, <2>3, <2>4, <2>5
<1> HIDE DEF new, map, copies, roots, last1
<1>8. ASSUME NEW p \in DOMAIN old
      PROVE  /\ p # parent => new.nodes[p].children = old[p].children
             /\ p = parent => new.nodes[p].children = joined
             /\ new.nodes[p].parentId = old[p].parentId
             /\ new.nodes[p].moduleId = old[p].moduleId
  <2> HIDE DEF joined
  <2>1. /\ [old[p] EXCEPT !.children = joined].children = joined
        /\ [old[p] EXCEPT !.children = joined].parentId = old[p].parentId
        /\ [old[p] EXCEPT !.children = joined].moduleId = old[p].moduleId
    BY GrownNodes, Relisted
  <2> QED BY <1>7, <2>1
<1>9. ASSUME NEW x \in DOMAIN copies
      PROVE  /\ new.nodes[x].children = copies[x].children
             /\ new.nodes[x].parentId = IF x = last1 THEN parent ELSE copies[x].parentId
             /\ new.nodes[x].moduleId = copies[x].moduleId
  <2>1. /\ [copies[x] EXCEPT !.parentId = parent].children = copies[x].children
        /\ [copies[x] EXCEPT !.parentId = parent].parentId = parent
        /\ [copies[x] EXCEPT !.parentId = parent].moduleId = copies[x].moduleId
    BY <1>3, Rehung
  <2> QED BY <1>7, <2>1
<1>10. ASSUME NEW i \in 1..Len(tops)
       PROVE  /\ \A x \in DOMAIN copies : map[tops[i]] \notin Held(copies, x)
              /\ map[tops[i]] # last1 => copies[map[tops[i]]].parentId = parent
  <2>1. tops[i] \in ids /\ tops[i] \in ToSet(tops)
    BY <1>5 DEF ToSet
  <2>2. \A p \in ids : tops[i] \notin Held(nodes, p)
    BY <2>1 DEF Clipped
  <2> DEFINE t == tops[i]
  <2>3. t \in ids /\ \A p \in ids : t \notin Held(nodes, p)
    BY <2>1, <2>2
  <2> HIDE DEF t
  <2>4. \A x \in DOMAIN copies : map[t] \notin Held(copies, x)
    BY <1>1, <1>2, <1>3, <2>3, MirrorGrows
  <2>5. copies[map[t]].parentId = nodes[t].parentId
    BY <1>3, <2>3 DEF Mirror
  <2>6. i # Len(tops) => nodes[t].parentId = parent
    BY <1>5 DEF t
  <2>7. i = Len(tops) => map[t] = last1
    BY <1>5 DEF t, last1
  <2> QED BY <2>4, <2>5, <2>6, <2>7 DEF t
<1>11. \A x \in ToSet(roots) : /\ new.nodes[x].parentId = parent
                               /\ \A y \in DOMAIN copies : x \notin Held(copies, y)
  <2>1. ASSUME NEW x \in ToSet(roots)
        PROVE  /\ new.nodes[x].parentId = parent
               /\ \A y \in DOMAIN copies : x \notin Held(copies, y)
    <3>1. PICK i \in 1..Len(tops) : x = map[tops[i]]
      BY <1>5, <1>6 DEF ToSet
    <3>2. x \in DOMAIN copies
      BY <1>6
    <3> QED BY <1>9, <1>10, <3>1, <3>2
  <2> QED BY <2>1
<1>12. last1 \in ToSet(roots)
  BY <1>5, <1>6, EndsOf
<1>13. /\ joined \in Seq(Nat) /\ IsInjective(joined)
       /\ ToSet(joined) = Held(old, parent) \union ToSet(roots)
  <2>1. /\ kids \in Seq(Nat) /\ IsInjective(kids) /\ ToSet(kids) = Held(old, parent)
        /\ Held(old, parent) \subseteq DOMAIN old
    BY <1>4, GrownNodes
  <2> HIDE DEF kids
  <2>2. ToSet(kids) \intersect ToSet(roots) = {}
    BY <1>4, <1>6, <2>1
  <2>3. /\ Splice(kids, index, roots) \in Seq(Nat) /\ IsInjective(Splice(kids, index, roots))
        /\ ToSet(Splice(kids, index, roots)) = ToSet(kids) \union ToSet(roots)
    BY <1>6, <2>1, <2>2, SplicedOnce
  <2> QED BY <2>1, <2>3
<1> HIDE DEF joined
<1>14. Grafts(new.nodes, old, copies, parent, ToSet(roots))
  <2>1. \A y \in DOMAIN copies : Held(copies, y) \intersect ToSet(roots) = {}
    BY <1>11
  <2>2. /\ new.nodes[parent].children \in Seq(Nat) /\ IsInjective(new.nodes[parent].children)
        /\ Held(new.nodes, parent) = Held(old, parent) \union ToSet(roots)
    BY <1>4, <1>8, <1>13 DEF Held
  <2>3. \A x \in DOMAIN copies : new.nodes[x].parentId = IF x \in ToSet(roots) THEN parent ELSE copies[x].parentId
    BY <1>9, <1>11, <1>12
  <2> QED BY <1>4, <1>6, <1>7, <1>8, <1>9, <2>1, <2>2, <2>3 DEF Grafts
<1>15. ASSUME whole PROVE IsWhole(copies, ToSet(roots))
  <2> DEFINE top == ToSet(tops)
  <2>1. IsWhole(nodes, top)
    BY <1>15 DEF Clipped
  <2>2. top \subseteq ids
    BY <1>5 DEF ToSet
  <2> HIDE DEF top, ids, copies
  <2>3. /\ \A x \in ids \ top : \E q \in ids : x \in Held(nodes, q)
        /\ \A x \in ids : nodes[x].moduleId = "slot-outlet" => nodes[x].children = <<>>
    BY <2>1 DEF IsWhole, Held, ids
  <2> HIDE DEF nodes
  <2>4. IsWhole(copies, {map[t] : t \in top \intersect ids})
    BY <1>2, <1>3, <2>3, MirrorWhole
  <2>5. {map[t] : t \in top \intersect ids} = ToSet(roots)
    BY <1>6, <2>2 DEF top
  <2> QED BY <2>4, <2>5
<1> QED BY <1>3, <1>7, <1>14, <1>15, GraftedTree DEF new

-----------------------------------------------------------------------------
\* Where something may go; the cache.

\* Something may go beside what is already under a node.
LEMMA BesideOpen ==
  ASSUME NEW n \in Nat, NEW tree, IsDocument(tree, n), NEW whole, Grown(tree, whole),
         NEW p \in DOMAIN tree.nodes, NEW c, Contains(tree.nodes[p].children, c)
  PROVE  Open(tree, p, whole)
<1>1. c \in Held(tree.nodes, p)
  BY GrownNodes, ContainsIs DEF Held
<1>2. tree.nodes[p].children # <<>>
  BY <1>1 DEF Held, ToSet
<1> QED BY <1>2 DEF Open, Grown, IsWhole

\* insertLocation.ts: a slot-outlet takes nothing in.
LEMMA InsertLocationOpen ==
  ASSUME NEW n \in Nat, NEW tree, IsDocument(tree, n), NEW whole, Grown(tree, whole),
         NEW target \in DOMAIN tree.nodes, InsertLocation(tree, target).parentId # Null
  PROVE  Open(tree, InsertLocation(tree, target).parentId, whole)
<1> DEFINE node == tree.nodes[target]
           slots == Keep(node.children, Slots(tree))
           End(id) == [parentId |-> id, index |-> Len(tree.nodes[id].children)]
           to == InsertLocation(tree, target)
<1>1. CASE to = SiblingAfter(tree, target)
  BY <1>1, SiblingListed, BesideOpen
<1>2. slots # <<>> => slots[1] \in DOMAIN tree.nodes /\ tree.nodes[slots[1]].moduleId = "slot-instance"
  <2> DEFINE set == Slots(tree)
             kids == node.children
  <2>1. kids \in Seq(Nat)
    BY DocumentLists
  <2>2. \A s \in set : s \in DOMAIN tree.nodes /\ tree.nodes[s].moduleId = "slot-instance"
    BY DEF Slots
  <2> HIDE DEF set, kids
  <2>3. Keep(kids, set) \in Seq(Nat)
    BY <2>1, KeepIs
  <2>4. ToSet(Keep(kids, set)) = ToSet(kids) \intersect set
    BY <2>1, KeepIs
  <2>5. Keep(kids, set) # <<>> => Keep(kids, set)[1] \in ToSet(Keep(kids, set))
    BY <2>3, EndsOf
  <2> QED BY <2>2, <2>4, <2>5 DEF set, kids
<1>3. tree.nodes[tree.rootNodeId].moduleId = "body"
  BY DocumentLists DEF Sound
<1>4. \/ to = SiblingAfter(tree, target)
      \/ to = End(target) /\ node.moduleId # "slot-outlet"
      \/ slots # <<>> /\ to = End(slots[1])
  BY <1>3 DEF InsertLocation, CanHaveChildren
<1> HIDE DEF to, slots
<1>5. CASE to = End(target) /\ node.moduleId # "slot-outlet"
  BY <1>5 DEF Open, to
<1>6. CASE slots # <<>> /\ to = End(slots[1])
  BY <1>2, <1>6 DEF Open, to
<1> QED BY <1>1, <1>4, <1>5, <1>6 DEF to

\* dnd.ts: nor is it dropped on.
LEMMA DropTargetOpen ==
  ASSUME NEW n \in Nat, NEW tree, IsDocument(tree, n), NEW whole, Grown(tree, whole),
         NEW dragged, NEW ids \in Seq(Nat),
         NEW over \in DOMAIN tree.nodes, NEW zone \in {"before", "after", "inside"},
         ResolveDropTarget(tree, dragged, ids, over, zone) # Nowhere
  PROVE  Open(tree, ResolveDropTarget(tree, dragged, ids, over, zone).parentId, whole)
<1> DEFINE parent == IF zone = "inside" THEN over ELSE Parent(tree, over)
           node == tree.nodes[parent]
           at == IndexOf(node.children, over)
           to == ResolveDropTarget(tree, dragged, ids, over, zone)
<1>1. /\ to.parentId = parent
      /\ zone = "inside" => CanHaveChildren(node)
      /\ zone # "inside" => at # -1
  BY DEF ResolveDropTarget
<1>2. parent \in DOMAIN tree.nodes
  BY <1>1, DropTargetIs
<1> HIDE DEF parent, to
<1>3. CASE zone = "inside"
  BY <1>1, <1>2, <1>3 DEF Open, CanHaveChildren, to
<1>4. CASE zone # "inside"
  <2>1. node.children \in Seq(Nat)
    BY <1>2, GrownNodes
  <2>2. Contains(node.children, over)
    BY <1>1, <1>4, <2>1, IndexOfIs
  <2> QED BY <1>1, <1>2, <2>2, BesideOpen DEF to
<1> QED BY <1>3, <1>4

\* Nodes listed as before.
Alined(new, nodes) ==
    /\ DOMAIN new = DOMAIN nodes
    /\ \A p \in DOMAIN nodes : /\ new[p].children = nodes[p].children
                               /\ new[p].moduleId = nodes[p].moduleId

\* The lists decide whether it is a forest.
LEMMA AlinedShaped ==
  ASSUME NEW nodes, Shaped(nodes), NEW new, Alined(new, nodes)
  PROVE  /\ Shaped(new)
         /\ \A roots : IsWhole(nodes, roots) => IsWhole(new, roots)
<1>1. Lists(new) /\ \A p \in DOMAIN nodes : Held(new, p) = Held(nodes, p)
  BY DEF Alined, Shaped, Lists, Held
<1>2. Shaped(new)
  BY <1>1, ShapedLess DEF Alined, Shaped
<1>3. \A roots : IsWhole(nodes, roots) => IsWhole(new, roots)
  BY <1>1 DEF Alined, IsWhole, Held
<1> QED BY <1>2, <1>3

\* parentIndex.ts: the cache is put right.
LEMMA ReindexShaped ==
  ASSUME NEW n, NEW nodes, Shaped(nodes), \A id \in DOMAIN nodes : nodes[id] \in Node(n)
  PROVE  /\ Shaped(ReindexNodeParents(nodes))
         /\ Cached(ReindexNodeParents(nodes))
         /\ DOMAIN ReindexNodeParents(nodes) = DOMAIN nodes
         /\ \A roots : IsWhole(nodes, roots) => IsWhole(ReindexNodeParents(nodes), roots)
<1> DEFINE Listing(id) == {p \in DOMAIN nodes : Contains(nodes[p].children, id)}
           Up(id) == IF Listing(id) = {} THEN Null ELSE CHOOSE p \in Listing(id) : TRUE
           new == ReindexNodeParents(nodes)
<1>1. DOMAIN new = DOMAIN nodes /\ \A id \in DOMAIN nodes : new[id] = [nodes[id] EXCEPT !.parentId = Up(id)]
  BY DEF ReindexNodeParents
<1>2. ASSUME NEW p \in DOMAIN nodes, NEW c \in Held(nodes, p) PROVE Up(c) = p
  <2>1. ASSUME NEW q \in DOMAIN nodes PROVE Contains(nodes[q].children, c) <=> q = p
    <3>1. nodes[q].children \in Seq(Nat)
      BY DEF Shaped, Lists
    <3>2. Contains(nodes[q].children, c) <=> c \in Held(nodes, q)
      BY <3>1, ContainsIs DEF Held
    <3> QED BY <3>2, <1>2 DEF Shaped
  <2>2. Listing(c) = {p}
    BY <2>1
  <2> HIDE DEF Listing
  <2> QED BY <2>2
<1> HIDE DEF new, Up
<1>3. ASSUME NEW p \in DOMAIN nodes
      PROVE  /\ new[p].children = nodes[p].children
             /\ new[p].moduleId = nodes[p].moduleId
             /\ new[p].parentId = Up(p)
  <2>1. /\ [nodes[p] EXCEPT !.parentId = Up(p)].children = nodes[p].children
        /\ [nodes[p] EXCEPT !.parentId = Up(p)].parentId = Up(p)
        /\ [nodes[p] EXCEPT !.parentId = Up(p)].moduleId = nodes[p].moduleId
    BY Rehung
  <2> QED BY <1>1, <2>1
<1>4. Alined(new, nodes)
  BY <1>1, <1>3 DEF Alined
<1>5. Cached(new)
  <2>1. ASSUME NEW p \in DOMAIN new, NEW c \in Held(new, p) PROVE new[c].parentId = p
    <3>1. c \in Held(nodes, p) /\ p \in DOMAIN nodes
      BY <1>1, <1>3, <2>1 DEF Held
    <3>2. c \in DOMAIN nodes
      BY <3>1 DEF Shaped
    <3> QED BY <1>2, <1>3, <3>1, <3>2
  <2> QED BY <2>1 DEF Cached
<1>6. Shaped(new) /\ \A roots : IsWhole(nodes, roots) => IsWhole(new, roots)
  BY <1>4, AlinedShaped
<1> QED BY <1>1, <1>5, <1>6 DEF new

\* updateNodeProps: a name is no place.
LEMMA RenamedGrows ==
  ASSUME NEW n \in Nat, NEW tree, IsDocument(tree, n), NEW whole, Grown(tree, whole),
         NEW id \in DOMAIN tree.nodes, NEW name
  PROVE  Regrown([tree EXCEPT !.nodes[id].slotName = name], tree, n, whole)
<1> DEFINE nodes == tree.nodes
           new == [nodes EXCEPT ![id].slotName = name]
<1>1. [tree EXCEPT !.nodes[id].slotName = name] = [rootNodeId |-> tree.rootNodeId, nodes |-> new]
  <2>1. [tree EXCEPT !.nodes[id].slotName = name] = [tree EXCEPT !.nodes = new]
    OBVIOUS
  <2> HIDE DEF new
  <2> QED BY <2>1, GrownNodes, SetNodes
<1>2. DOMAIN new = DOMAIN nodes
      /\ \A p \in DOMAIN nodes : new[p] = IF p = id THEN [nodes[p] EXCEPT !.slotName = name] ELSE nodes[p]
  OBVIOUS
<1> HIDE DEF new
<1>3. ASSUME NEW p \in DOMAIN nodes
      PROVE  /\ new[p].children = nodes[p].children
             /\ new[p].moduleId = nodes[p].moduleId
             /\ new[p].parentId = nodes[p].parentId
  <2>1. nodes[p] \in Node(n)
    BY GrownNodes
  <2>2. /\ [nodes[p] EXCEPT !.slotName = name].children = nodes[p].children
        /\ [nodes[p] EXCEPT !.slotName = name].parentId = nodes[p].parentId
        /\ [nodes[p] EXCEPT !.slotName = name].moduleId = nodes[p].moduleId
    BY <2>1 DEF Node
  <2> QED BY <1>2, <2>2
<1>4. Alined(new, nodes)
  BY <1>2, <1>3 DEF Alined
<1>5. Shaped(new) /\ \A roots : IsWhole(nodes, roots) => IsWhole(new, roots)
  BY <1>4, AlinedShaped DEF Grown
<1>6. Cached(new)
  BY <1>2, <1>3 DEF Grown, Cached, Held, Shaped
<1> QED BY <1>1, <1>2, <1>5, <1>6 DEF Regrown, Grown

-----------------------------------------------------------------------------
\* The turn of a ref.

\* slotSync.ts:34-59: a name is taken where it first stands.
LEMMA OutletNamesOnce ==
  ASSUME NEW n \in Nat, NEW tree, IsDocument(tree, n)
  PROVE  IsInjective(OutletNames(tree))
<1> DEFINE walk == CollectSubtreeIds(tree, tree.rootNodeId)
           outlets == Keep(walk, Outlets(tree))
           NameAt(i) == tree.nodes[outlets[i]].slotName
           firsts == {i \in DOMAIN outlets : \A j \in 1..(i - 1) : NameAt(j) # NameAt(i)}
           kept == Ascending(firsts)
<1>1. OutletNames(tree) = [k \in DOMAIN kept |-> NameAt(kept[k])]
  BY DEF OutletNames, EachOnce
<1>2. outlets \in Seq(Nat)
  <2>1. walk \in Seq(Nat)
    BY DocumentLists, SubtreeIs
  <2> HIDE DEF walk
  <2> QED BY <2>1, KeepIs
<1> HIDE DEF outlets
<1>3. Len(outlets) \in Int /\ firsts \subseteq 1..Len(outlets)
  BY <1>2
<1>4. \A i, j \in firsts : NameAt(i) = NameAt(j) => i = j
  BY <1>3
<1> HIDE DEF firsts, NameAt
<1>5. kept \in Seq(firsts) /\ IsInjective(kept)
  BY <1>3, AscendingIs, AscendingOnce
<1> HIDE DEF kept
<1>6. \A k \in DOMAIN kept : kept[k] \in firsts
  BY <1>5
<1> QED BY <1>1, <1>4, <1>5, <1>6 DEF IsInjective

\* What one ref's turn leaves: some it listed are gone, with everything below
\* them, and new ones have come, that hold nothing.
Turned(new, nodes, ref, gone, fresh) ==
    /\ gone \subseteq DOMAIN nodes /\ ref \in DOMAIN nodes \ gone
    /\ gone \subseteq Subtree([nodes |-> nodes], ref)
    /\ \A p \in gone : Held(nodes, p) \subseteq gone
    /\ \A p \in DOMAIN nodes \ gone : p # ref => Held(nodes, p) \intersect gone = {}
    /\ DOMAIN new = (DOMAIN nodes \ gone) \union fresh
    /\ new[ref].children \in Seq(Nat) /\ IsInjective(new[ref].children)
    /\ Held(new, ref) = (Held(nodes, ref) \ gone) \union fresh
    /\ \A p \in DOMAIN nodes \ gone : /\ p # ref => new[p].children = nodes[p].children
                                      /\ new[p].parentId = nodes[p].parentId
                                      /\ new[p].moduleId = nodes[p].moduleId
    /\ \A x \in fresh : new[x].children = <<>> /\ new[x].parentId = ref

\* A turn leaves a forest.
LEMMA TurnedIs ==
  ASSUME NEW nodes, Shaped(nodes), Cached(nodes), NEW new, NEW ref, NEW gone, NEW fresh,
         fresh \subseteq Nat, IsFiniteSet(fresh), fresh \intersect DOMAIN nodes = {},
         Turned(new, nodes, ref, gone, fresh)
  PROVE  /\ Shaped(new) /\ Cached(new)
         /\ \A roots : IsWhole(nodes, roots) /\ nodes[ref].moduleId # "slot-outlet"
                          => IsWhole(new, roots)
<1> DEFINE rest == DOMAIN nodes \ gone
           kids == nodes[ref].children
           mid == [p \in rest |-> [children |-> IF p = ref THEN Keep(kids, rest) ELSE nodes[p].children,
                                   parentId |-> nodes[p].parentId, moduleId |-> nodes[p].moduleId]]
           b == [x \in fresh |-> [children |-> <<>>, parentId |-> ref, moduleId |-> new[x].moduleId]]
<1>1. /\ Lists(nodes) /\ ref \in rest
      /\ \A p \in DOMAIN nodes : /\ p \in Nat /\ nodes[p].children \in Seq(Nat) /\ IsInjective(nodes[p].children)
                                 /\ Held(nodes, p) \subseteq DOMAIN nodes
  BY DEF Shaped, Lists, Turned
<1>2. /\ Keep(kids, rest) \in Seq(Nat) /\ IsInjective(Keep(kids, rest))
      /\ ToSet(Keep(kids, rest)) = Held(nodes, ref) \intersect rest
  <2>1. kids \in Seq(Nat) /\ IsInjective(kids) /\ ToSet(kids) = Held(nodes, ref)
    BY <1>1 DEF Held
  <2> HIDE DEF kids, rest
  <2> QED BY <2>1, KeptOnce
<1>3. /\ DOMAIN mid = rest
      /\ \A p \in rest : /\ mid[p].children \in Seq(Nat) /\ IsInjective(mid[p].children)
                         /\ Held(mid, p) = Held(nodes, p) \intersect rest
                         /\ p # ref => mid[p].children = nodes[p].children
                         /\ mid[p].parentId = nodes[p].parentId
                         /\ mid[p].moduleId = nodes[p].moduleId
  <2>1. ASSUME NEW p \in rest
        PROVE  /\ mid[p].children \in Seq(Nat) /\ IsInjective(mid[p].children)
               /\ Held(mid, p) = Held(nodes, p) \intersect rest
               /\ p # ref => mid[p].children = nodes[p].children
               /\ mid[p].parentId = nodes[p].parentId
               /\ mid[p].moduleId = nodes[p].moduleId
    <3>1. CASE p = ref
      BY <1>2, <3>1 DEF Held
    <3>2. CASE p # ref
      <4>1. mid[p].children = nodes[p].children
        BY <3>2
      <4>2. Held(nodes, p) \subseteq rest
        BY <1>1, <3>2 DEF Turned
      <4> HIDE DEF mid
      <4>3. Held(mid, p) = Held(nodes, p)
        BY <4>1 DEF Held
      <4> QED BY <1>1, <3>2, <4>1, <4>2, <4>3 DEF mid
    <3> QED BY <3>1, <3>2
  <2> HIDE DEF mid
  <2> QED BY <2>1 DEF mid
<1>4. DOMAIN b = fresh /\ \A x \in fresh : b[x].children = <<>> /\ b[x].parentId = ref /\ b[x].moduleId = new[x].moduleId
  OBVIOUS
<1> HIDE DEF mid, b, kids
<1>5. Shaped(mid)
  <2>1. Lists(mid)
    <3>1. IsFiniteSet(rest) /\ rest \subseteq Nat
      BY <1>1, FS_Subset DEF Lists
    <3> QED BY <1>3, <3>1 DEF Lists
  <2> QED BY <1>3, <2>1, ShapedLess
<1>6. Cached(mid)
  BY <1>3 DEF Cached
<1>7. /\ Shaped(b) /\ Cached(b) /\ IsWhole(b, fresh)
      /\ \A p \in fresh : Held(b, p) = {}
  BY <1>4, LeavesShaped
<1>8. Grafts(new, mid, b, ref, fresh)
  <2>1. \A x \in fresh : new[x].children = <<>> /\ new[x].parentId = ref
    BY DEF Turned
  <2>2. Held(new, ref) = Held(mid, ref) \union fresh
    BY <1>1, <1>3 DEF Turned
  <2> QED BY <1>1, <1>3, <1>4, <1>7, <2>1, <2>2 DEF Grafts, Turned
<1>9. Shaped(new) /\ Cached(new)
  BY <1>5, <1>6, <1>7, <1>8, Grafted
<1>10. ASSUME NEW roots, IsWhole(nodes, roots), nodes[ref].moduleId # "slot-outlet" PROVE IsWhole(new, roots)
  <2>1. ASSUME NEW x \in rest \ roots PROVE \E p \in rest : x \in Held(mid, p)
    <3>1. PICK p \in DOMAIN nodes : x \in Held(nodes, p)
      BY <1>10 DEF IsWhole, Held
    <3>2. p \in rest
      BY <3>1 DEF Turned
    <3> QED BY <1>3, <3>1, <3>2
  <2>2. ASSUME NEW p \in rest, mid[p].moduleId = "slot-outlet" PROVE mid[p].children = <<>>
    BY <1>3, <1>10, <2>2 DEF IsWhole
  <2>3. IsWhole(mid, roots)
    BY <1>3, <2>1, <2>2 DEF IsWhole, Held
  <2> QED BY <1>1, <1>3, <1>7, <1>8, <1>10, <2>3, GraftedWhole
<1> QED BY <1>9, <1>10

-----------------------------------------------------------------------------
\* What the turn takes away.

\* Some of what a node lists, with everything below it.
Uproots(nodes, ref, out, gone) ==
    /\ gone \subseteq DOMAIN nodes /\ ref \in DOMAIN nodes \ gone
    /\ gone \subseteq Subtree([nodes |-> nodes], ref)
    /\ \A p \in gone : Held(nodes, p) \subseteq gone
    /\ \A p \in DOMAIN nodes \ gone : p # ref => Held(nodes, p) \intersect gone = {}
    /\ gone \intersect Held(nodes, ref) = out

\* Everything below some of what a node lists goes with it.
LEMMA Uprooted ==
  ASSUME NEW nodes, Shaped(nodes), NEW ref \in DOMAIN nodes, NEW out, out \subseteq Held(nodes, ref),
         NEW gone, \A x : x \in gone <=> \E c \in out : x \in Subtree([nodes |-> nodes], c)
  PROVE  Uproots(nodes, ref, out, gone)
<1> DEFINE here == [nodes |-> nodes]
<1>0. here.nodes = nodes
  OBVIOUS
<1>1. out \subseteq DOMAIN nodes /\ ref \in Nat /\ DOMAIN nodes \subseteq Nat /\ Lists(nodes)
  BY DEF Shaped, Lists
<1>2. \A c \in out : Branch(nodes, c, Subtree(here, c))
  <2> HIDE DEF here
  <2> QED BY <1>0, <1>1, SubtreeBranch
<1>3. \A c \in out : ref \notin Subtree(here, c)
  BY <1>2 DEF Branch
<1>4. ASSUME NEW c \in out PROVE Subtree(here, c) \subseteq Subtree(here, ref)
  <2> HIDE DEF here
  <2>1. /\ Has(here, ref) => ref \in Subtree(here, ref)
        /\ \A p \in Subtree(here, ref) : \A x \in Kids(here, p) : Has(here, x) => x \in Subtree(here, ref)
    BY <1>0, <1>1, SubtreeIs
  <2>2. c \in Nat /\ c \in Subtree(here, ref)
    BY <1>0, <1>1, <2>1 DEF Has, Kids, Held
  <2> QED BY <1>0, <1>1, <2>2, SubtreeWithin
<1> HIDE DEF here
<1>5. \A x : x \in gone <=> \E c \in out : x \in Subtree(here, c)
  BY DEF here
<1>6. gone \subseteq DOMAIN nodes /\ ref \notin gone /\ out \subseteq gone /\ gone \subseteq Subtree(here, ref)
  BY <1>2, <1>3, <1>4, <1>5 DEF Branch
<1>7. \A p \in gone : Held(nodes, p) \subseteq gone
  <2>1. ASSUME NEW p \in gone PROVE Held(nodes, p) \subseteq gone
    <3>1. PICK c \in out : p \in Subtree(here, c)
      BY <1>5
    <3>2. Held(nodes, p) \subseteq Subtree(here, c)
      BY <1>2, <3>1 DEF Branch
    <3> QED BY <1>5, <3>2
  <2> QED BY <2>1
<1>8. ASSUME NEW p \in DOMAIN nodes \ gone, NEW x \in Held(nodes, p), x \in gone PROVE p = ref /\ x \in out
  <2>1. PICK c \in out : x \in Subtree(here, c)
    BY <1>5, <1>8
  <2>2. p \notin Subtree(here, c)
    BY <1>5
  <2>3. x = c
    BY <1>2, <2>1, <2>2 DEF Branch
  <2> QED BY <2>3 DEF Shaped
<1> QED BY <1>6, <1>7, <1>8 DEF here, Uproots

\* An element of a list that repeats nothing stands where it is found.
LEMMA FoundAt ==
  ASSUME NEW E, NEW s \in Seq(E), IsInjective(s), NEW i \in DOMAIN s
  PROVE  IndexOf(s, s[i]) + 1 = i
<1>1. Contains(s, s[i])
  BY ContainsIs DEF ToSet
<1>2. IndexOf(s, s[i]) + 1 \in DOMAIN s /\ s[IndexOf(s, s[i]) + 1] = s[i]
  BY <1>1, IndexOfIs
<1> QED BY <1>2 DEF IsInjective

\* vcSlotReconcile.ts: one ref's turn.
LEMMA SyncTurned ==
  ASSUME NEW b \in Nat, NEW n \in Nat, b <= n + 1, NEW nodes, Shaped(nodes), Cached(nodes),
         DOMAIN nodes \subseteq 1..(b - 1), \A id \in DOMAIN nodes : nodes[id] \in Node(b),
         NEW ref \in DOMAIN nodes, NEW refNode, refNode.children = nodes[ref].children,
         NEW names \in Seq(Name), IsInjective(names)
  PROVE  \E gone : \E fresh \in SUBSET Later(n + 1) :
            IsFiniteSet(fresh) /\ Turned(SyncSlotInstances(nodes, ref, refNode, names, n), nodes, ref, gone, fresh)
<1> DEFINE here == [nodes |-> nodes]
           all == Slots(here)
           H == Held(nodes, ref)
           kids == refNode.children
           slots == Keep(kids, all)
           Named(name) == Keep(slots, {c \in ToSet(slots) : nodes[c].slotName = name})
           spareSet == {c \in ToSet(slots) :
                     LET name == nodes[c].slotName
                     IN  ~Contains(names, name) \/ Head(Named(name)) # c}
           spare == Keep(slots, spareSet)
           missing == Keep(names, {name \in ToSet(names) : Named(name) = <<>>})
           paired == {i \in DOMAIN missing : i <= Len(spare)}
           made == DOMAIN missing \ paired
           IdOf(i) == IF i \in paired THEN spare[i] ELSE n + i
           Taken(name) == IF Named(name) # <<>> THEN Head(Named(name))
                             ELSE IdOf(IndexOf(missing, name) + 1)
           outdated == (ToSet(kids) \ all) \union {spare[i] : i \in DOMAIN spare \ paired}
           gone == UNION {Subtree(here, c) : c \in outdated}
           fresh == [id \in {IdOf(i) : i \in made} |-> NewSlot(missing[id - n], ref)]
           listed == [k \in DOMAIN names |-> Taken(names[k])]
           Inst(id) == \E k \in DOMAIN names : Taken(names[k]) = id
           nameOf(id) == names[CHOOSE k \in DOMAIN names : Taken(names[k]) = id]
           new == [id \in (DOMAIN nodes \ gone) \union DOMAIN fresh |->
                     IF id \in DOMAIN fresh THEN fresh[id]
                     ELSE IF id = ref THEN [nodes[id] EXCEPT !.children = listed]
                     ELSE IF Inst(id)
                     THEN [nodes[id] EXCEPT !.parentId = ref, !.slotName = nameOf(id)]
                     ELSE nodes[id]]
           F == DOMAIN fresh
<1>1. SyncSlotInstances(nodes, ref, refNode, names, n) = new
  BY DEF SyncSlotInstances, ApplySlotSync, UnmatchedInstances, UnmatchedNames, SlotsNamed
<1>2. /\ kids \in Seq(Nat) /\ IsInjective(kids) /\ ToSet(kids) = H
      /\ H \subseteq DOMAIN nodes /\ ref \in 1..n /\ Len(names) \in Nat /\ DOMAIN names = 1..Len(names)
  BY DEF Shaped, Lists, Held
<1> HIDE DEF all, kids
<1>3. slots \in Seq(Nat) /\ IsInjective(slots) /\ ToSet(slots) = H \intersect all
  <2>1. Keep(kids, all) \in Seq(Nat) /\ IsInjective(Keep(kids, all)) /\ ToSet(Keep(kids, all)) = ToSet(kids) \intersect all
    BY <1>2, KeptOnce
  <2> QED BY <1>2, <2>1
<1> HIDE DEF slots
<1>4. ASSUME NEW name
      PROVE  /\ Named(name) # <<>> => Head(Named(name)) \in ToSet(slots) /\ nodes[Head(Named(name))].slotName = name
             /\ Named(name) = <<>> => \A c \in ToSet(slots) : nodes[c].slotName # name
  <2> DEFINE set == {c \in ToSet(slots) : nodes[c].slotName = name}
             some == Keep(slots, set)
  <2>1. Named(name) = some /\ set \subseteq ToSet(slots)
    OBVIOUS
  <2> HIDE DEF set
  <2>2. some \in Seq(Nat)
    BY <1>3, KeepIs
  <2>3. ToSet(some) = ToSet(slots) \intersect set
    BY <1>3, KeepIs
  <2> HIDE DEF some, Named
  <2>4. some # <<>> => Head(some) \in ToSet(some)
    BY <2>2, EndsOf
  <2>5. some = <<>> => ToSet(some) = {}
    BY DEF ToSet
  <2>6. \A c : c \in set <=> c \in ToSet(slots) /\ nodes[c].slotName = name
    BY DEF set
  <2> QED BY <2>1, <2>3, <2>4, <2>5, <2>6
<1>5. /\ spare \in Seq(Nat) /\ IsInjective(spare) /\ ToSet(spare) = spareSet
      /\ DOMAIN spare = 1..Len(spare) /\ Len(spare) \in Nat
  <2>1. spareSet \subseteq ToSet(slots)
    OBVIOUS
  <2> HIDE DEF spareSet
  <2>2. Keep(slots, spareSet) \in Seq(Nat) /\ IsInjective(Keep(slots, spareSet))
        /\ ToSet(Keep(slots, spareSet)) = ToSet(slots) \intersect spareSet
    BY <1>3, KeptOnce
  <2> QED BY <2>1, <2>2
<1>6. \A c : c \in spareSet <=> /\ c \in ToSet(slots)
                                /\ nodes[c].slotName \in ToSet(names) => Head(Named(nodes[c].slotName)) # c
  <2> HIDE DEF Named
  <2>1. \A x : Contains(names, x) <=> x \in ToSet(names)
    BY ContainsIs
  <2> QED BY <2>1
<1> HIDE DEF spare, spareSet
<1> DEFINE lacking == {name \in ToSet(names) : Named(name) = <<>>}
<1>7. /\ missing \in Seq(Name) /\ ToSet(missing) = lacking /\ IsInjective(missing)
      /\ Len(missing) <= Len(names) /\ Len(missing) \in Nat /\ DOMAIN missing = 1..Len(missing)
  <2>1. lacking \subseteq ToSet(names) /\ missing = Keep(names, lacking)
    OBVIOUS
  <2> HIDE DEF lacking, missing
  <2>2. Keep(names, lacking) \in Seq(Name)
    BY KeepIs
  <2>3. ToSet(Keep(names, lacking)) = ToSet(names) \intersect lacking
    BY KeepIs
  <2>4. Len(Keep(names, lacking)) <= Len(names)
    BY KeepIs
  <2>5. IsInjective(Keep(names, lacking))
    BY KeepOnce
  <2> QED BY <2>1, <2>2, <2>3, <2>4, <2>5
<1>8. \A i \in DOMAIN missing : missing[i] \in lacking /\ IndexOf(missing, missing[i]) + 1 = i
  <2> HIDE DEF missing, lacking
  <2> QED BY <1>7, FoundAt DEF ToSet
<1>9. \A name \in lacking : \E i \in DOMAIN missing : missing[i] = name
  <2> HIDE DEF missing, lacking
  <2> QED BY <1>7 DEF ToSet
<1>10. \A name : name \in lacking <=> name \in ToSet(names) /\ Named(name) = <<>>
  OBVIOUS
<1> HIDE DEF missing, Named, lacking
<1>11. \A i \in DOMAIN missing : /\ i \in Nat /\ missing[i] \in lacking
                                 /\ i \in paired <=> i \in DOMAIN spare
                                 /\ Taken(missing[i]) = IF i \in paired THEN spare[i] ELSE n + i
  BY <1>5, <1>7, <1>8, <1>10
<1>12. F = {n + i : i \in made}
  OBVIOUS
<1>13. \A id \in F : fresh[id].children = <<>> /\ fresh[id].parentId = ref
  BY DEF NewSlot, NewNode
<1>14. paired \subseteq DOMAIN missing /\ made = DOMAIN missing \ paired
  OBVIOUS
<1> HIDE DEF fresh, paired, made, IdOf
<1>15. \A name \in ToSet(names) : Named(name) # <<>> => Taken(name) = Head(Named(name))
  OBVIOUS
<1> HIDE DEF Instance
<1>16. /\ F \subseteq Later(n + 1) /\ F \subseteq 1..(n + Len(names)) /\ F \intersect DOMAIN nodes = {}
  BY <1>2, <1>7, <1>12, <1>14 DEF Later
<1> HIDE DEF F
<1>17. outdated \subseteq H
  BY <1>2, <1>3, <1>5, <1>6 DEF ToSet
<1>18. /\ gone \subseteq DOMAIN nodes /\ ref \in DOMAIN nodes \ gone
       /\ gone \subseteq Subtree(here, ref)
       /\ \A p \in gone : Held(nodes, p) \subseteq gone
       /\ \A p \in DOMAIN nodes \ gone : p # ref => Held(nodes, p) \intersect gone = {}
       /\ gone \intersect H = outdated
  <2> HIDE DEF outdated
  <2>1. \A x : x \in gone <=> \E c \in outdated : x \in Subtree([nodes |-> nodes], c)
    OBVIOUS
  <2> HIDE DEF gone, here, H
  <2>2. outdated \subseteq Held(nodes, ref)
    BY <1>17 DEF H
  <2>3. Uproots(nodes, ref, outdated, gone)
    BY <2>1, <2>2, Uprooted
  <2> QED BY <2>3 DEF here, H, Uproots
<1> HIDE DEF gone
<1>19. \A c : c \in outdated <=> (c \in H /\ c \notin all) \/ (c \in spareSet /\ \A i \in paired : spare[i] # c)
  <2>1. \A c : c \in spareSet <=> \E i \in DOMAIN spare : spare[i] = c
    BY <1>5 DEF ToSet
  <2>2. \A i, j \in DOMAIN spare : spare[i] = spare[j] => i = j
    BY <1>5 DEF IsInjective
  <2>3. paired \subseteq DOMAIN spare
    BY <1>11, <1>14
  <2> QED BY <1>2, <2>1, <2>2, <2>3
<1> HIDE DEF outdated, H
<1>20. ASSUME NEW name \in ToSet(names)
       PROVE  \/ /\ Taken(name) \in ToSet(slots) \ spareSet
                 /\ nodes[Taken(name)].slotName = name
              \/ \E i \in paired : name = missing[i] /\ Taken(name) = spare[i]
              \/ \E i \in made : name = missing[i] /\ Taken(name) = n + i
  <2>1. CASE Named(name) # <<>>
    BY <1>4, <1>6, <1>15, <2>1
  <2>2. CASE Named(name) = <<>>
    <3>1. PICK i \in DOMAIN missing : missing[i] = name
      BY <1>9, <1>10, <2>2
    <3> QED BY <1>11, <1>14, <3>1
  <2> QED BY <2>1, <2>2
<1>21. \A i \in paired : i \in DOMAIN spare /\ spare[i] \in spareSet /\ spare[i] \in DOMAIN nodes
  BY <1>2, <1>3, <1>5, <1>6, <1>11, <1>14 DEF ToSet
<1>22. \A i \in made : n + i \in F /\ n + i \notin DOMAIN nodes /\ i \in Nat
  BY <1>11, <1>12, <1>14, <1>16
<1>23. ASSUME NEW x \in ToSet(names), NEW y \in ToSet(names), Taken(x) = Taken(y) PROVE x = y
  <2>1. \A z \in ToSet(slots) : z \in DOMAIN nodes
    BY <1>2, <1>3
  <2>2. \A i, j \in paired : spare[i] = spare[j] => i = j
    BY <1>5, <1>21 DEF IsInjective
  <2>3. \A i, j \in made : n + i = n + j => i = j
    BY <1>22
  <2>4. CASE Taken(x) \in ToSet(slots) \ spareSet
    BY <1>20, <1>21, <1>22, <1>23, <2>1, <2>4
  <2>5. CASE \E i \in paired : x = missing[i] /\ Taken(x) = spare[i]
    BY <1>20, <1>21, <1>22, <1>23, <2>1, <2>2, <2>5
  <2>6. CASE \E i \in made : x = missing[i] /\ Taken(x) = n + i
    BY <1>20, <1>21, <1>22, <1>23, <2>1, <2>3, <2>6
  <2> QED BY <1>20, <2>4, <2>5, <2>6
<1>24. ASSUME NEW name \in ToSet(names) PROVE Taken(name) \in (H \ gone) \union F
  <2>1. CASE Taken(name) \in ToSet(slots) \ spareSet
    BY <1>3, <1>18, <1>19, <2>1
  <2>2. CASE \E i \in paired : name = missing[i] /\ Taken(name) = spare[i]
    BY <1>3, <1>6, <1>18, <1>19, <1>21, <2>2
  <2>3. CASE \E i \in made : name = missing[i] /\ Taken(name) = n + i
    BY <1>22, <2>3
  <2> QED BY <1>20, <2>1, <2>2, <2>3
<1>25. ASSUME NEW x \in (H \ gone) \union F PROVE \E name \in ToSet(names) : Taken(name) = x
  <2>1. CASE x \in F
    BY <1>10, <1>11, <1>12, <1>14, <2>1
  <2>2. CASE x \in H \ gone /\ x \in spareSet
    <3>1. PICK i \in paired : spare[i] = x
      BY <1>18, <1>19, <2>2
    <3> QED BY <1>10, <1>11, <1>14, <3>1
  <2>3. CASE x \in H \ gone /\ x \notin spareSet
    <3>1. x \in ToSet(slots)
      BY <1>3, <1>18, <1>19, <2>3
    <3> DEFINE name == nodes[x].slotName
    <3>2. name \in ToSet(names) /\ Head(Named(name)) = x
      BY <1>6, <2>3, <3>1
    <3>3. Named(name) # <<>>
      BY <1>4, <3>1
    <3> QED BY <1>15, <3>2, <3>3
  <2> QED BY <2>1, <2>2, <2>3
<1>26. /\ listed \in Seq(Nat) /\ IsInjective(listed) /\ ToSet(listed) = (H \ gone) \union F
  <2>1. \A k \in DOMAIN names : names[k] \in ToSet(names) /\ listed[k] = Taken(names[k])
    BY DEF ToSet
  <2>2. DOMAIN listed = DOMAIN names
    OBVIOUS
  <2>3. (H \ gone) \union F \subseteq Nat
    <3>1. DOMAIN nodes \subseteq Nat
      BY DEF Shaped, Lists
    <3> QED BY <1>2, <1>16, <3>1 DEF Later
  <2> DEFINE l == Len(names)
  <2>4. listed \in [1..l -> Nat] /\ l \in Nat
    <3>1. \A k \in DOMAIN names : listed[k] \in Nat
      BY <1>24, <2>1, <2>3
    <3> QED BY <1>2, <3>1
  <2> HIDE DEF listed, l
  <2>5. listed \in Seq(Nat)
    BY <2>4
  <2>6. \A j, k \in DOMAIN names : names[j] = names[k] => j = k
    BY DEF IsInjective
  <2>7. IsInjective(listed)
    BY <1>23, <2>1, <2>2, <2>6 DEF IsInjective
  <2>8. \A x \in ToSet(names) : \E k \in DOMAIN names : names[k] = x
    BY DEF ToSet
  <2>9. ASSUME NEW x \in (H \ gone) \union F PROVE x \in ToSet(listed)
    <3>1. PICK name \in ToSet(names) : Taken(name) = x
      BY <1>25
    <3>2. PICK k \in DOMAIN names : names[k] = name
      BY <2>8
    <3> QED BY <2>1, <2>2, <3>1, <3>2 DEF ToSet
  <2>10. \A k \in DOMAIN listed : listed[k] \in (H \ gone) \union F
    BY <1>24, <2>1, <2>2
  <2>11. ToSet(listed) = (H \ gone) \union F
    BY <2>9, <2>10 DEF ToSet
  <2> QED BY <2>5, <2>7, <2>11
<1>27. \A id \in DOMAIN nodes : Inst(id) => id \in H
  <2>1. \A k \in DOMAIN names : Taken(names[k]) \in H \union F
    BY <1>24 DEF ToSet
  <2> QED BY <1>16, <2>1
<1> HIDE DEF listed, Inst, nameOf
<1>28. /\ DOMAIN new = (DOMAIN nodes \ gone) \union F
       /\ \A id \in F : new[id] = fresh[id]
       /\ \A id \in DOMAIN nodes \ gone :
             new[id] = IF id = ref THEN [nodes[id] EXCEPT !.children = listed]
                       ELSE IF Inst(id) THEN [nodes[id] EXCEPT !.parentId = ref, !.slotName = nameOf(id)]
                       ELSE nodes[id]
  BY <1>16 DEF F
<1> HIDE DEF new
<1>29. ASSUME NEW p \in DOMAIN nodes \ gone
       PROVE  /\ p # ref => new[p].children = nodes[p].children
              /\ new[p].parentId = nodes[p].parentId
              /\ new[p].moduleId = nodes[p].moduleId
  <2>1. nodes[p] \in Node(b)
    OBVIOUS
  <2>2. CASE p = ref
    <3>1. new[p] = [nodes[p] EXCEPT !.children = listed]
      BY <1>28, <2>2
    <3> QED BY <2>1, <2>2, <3>1, Relisted
  <2>3. CASE p # ref /\ Inst(p)
    <3>1. nodes[p].parentId = ref
      BY <1>27, <2>3 DEF Cached, H
    <3> QED BY <1>28, <2>1, <2>3, <3>1 DEF Node
  <2>4. CASE p # ref /\ ~Inst(p)
    BY <1>28, <2>4
  <2> QED BY <2>2, <2>3, <2>4
<1>30. new[ref].children = listed
  <2>1. nodes[ref] \in Node(b) /\ new[ref] = [nodes[ref] EXCEPT !.children = listed]
    BY <1>18, <1>28
  <2> QED BY <2>1, Relisted
<1>31. IsFiniteSet(F)
  <2>1. IsFiniteSet(1..(n + Len(names)))
    BY <1>2, FS_Interval
  <2> QED BY <1>16, <2>1, FS_Subset
<1>32. Turned(new, nodes, ref, gone, F)
  BY <1>13, <1>18, <1>26, <1>28, <1>29, <1>30 DEF Turned, Held, here, H
<1> QED BY <1>1, <1>16, <1>31, <1>32

-----------------------------------------------------------------------------
\* The turn of a ref that is gone.

\* The turn of a ref that is gone, with all it listed: slots nobody lists.
Strayed(new, nodes, n) ==
    \E fresh \in SUBSET Later(n + 1) :
        /\ IsFiniteSet(fresh)
        /\ DOMAIN new = DOMAIN nodes \union fresh
        /\ \A p \in DOMAIN nodes : new[p] = nodes[p]
        /\ \A x \in fresh : new[x].children = <<>>

\* vcSlotReconcile.ts: a ref that an earlier turn took away is synchronised
\* all the same.
LEMMA SyncStray ==
  ASSUME NEW n \in Nat, NEW nodes, Lists(nodes), DOMAIN nodes \subseteq 1..(n - 1), NEW ref, ref \notin DOMAIN nodes,
         NEW refNode, refNode.children \in Seq(Nat), ToSet(refNode.children) \intersect DOMAIN nodes = {},
         NEW names \in Seq(Name), NEW new, new = SyncSlotInstances(nodes, ref, refNode, names, n)
  PROVE  Strayed(new, nodes, n)
<1> DEFINE here == [nodes |-> nodes]
           kids == refNode.children
           missing == UnmatchedNames(nodes, <<>>, names)
           F == {n + i : i \in DOMAIN missing}
           gone == UNION {Subtree(here, c) : c \in ToSet(kids) \ Slots(here)}
           At(k) == n + (IndexOf(missing, names[k]) + 1)
<1>1. Keep(kids, Slots(here)) = <<>>
  <2>1. Slots(here) \subseteq DOMAIN nodes
    BY DEF Slots
  <2> DEFINE set == Slots(here)
  <2> HIDE DEF set
  <2>2. Keep(kids, set) \in Seq(Nat)
    BY KeepIs
  <2>3. ToSet(Keep(kids, set)) = ToSet(kids) \intersect set
    BY KeepIs
  <2>4. ToSet(Keep(kids, set)) = {}
    BY <2>1, <2>3 DEF set
  <2> QED BY <2>2, <2>4, NoMembers DEF set
<1>2. ASSUME NEW set PROVE Keep(<<>>, set) = <<>>
  <2>1. <<>> \in Seq(Nat) /\ ToSet(<<>>) = {} /\ IsInjective(<<>>)
    BY DEF ToSet, IsInjective
  <2> QED BY <2>1, KeptOnce
<1>3. \A name : SlotsNamed(nodes, <<>>, name) = <<>>
  BY <1>2 DEF SlotsNamed
<1>4. UnmatchedInstances(nodes, <<>>, names) = <<>>
  BY <1>2 DEF UnmatchedInstances
<1>5. /\ missing \in Seq(Name) /\ DOMAIN missing = 1..Len(missing)
      /\ Len(missing) <= Len(names) /\ Len(missing) \in Nat /\ Len(names) \in Nat
      /\ \A k \in DOMAIN names : IndexOf(missing, names[k]) \in Int
                                 /\ IndexOf(missing, names[k]) + 1 \in 0..Len(missing)
  <2> DEFINE set == {name \in ToSet(names) : SlotsNamed(nodes, <<>>, name) = <<>>}
  <2>1. missing = Keep(names, set)
    BY DEF UnmatchedNames
  <2> HIDE DEF set, missing
  <2>2. missing \in Seq(Name)
    BY <2>1, KeepIs
  <2>3. Len(missing) <= Len(names)
    BY <2>1, KeepIs
  <2>4. \A k \in DOMAIN names : /\ IndexOf(missing, names[k]) \in Int
                                /\ IndexOf(missing, names[k]) + 1 \in 0..Len(missing)
    <3>1. ASSUME NEW x PROVE IndexOf(missing, x) \in Int /\ IndexOf(missing, x) + 1 \in 0..Len(missing)
      BY <2>2, IndexOfIs
    <3> QED BY <3>1
  <2> QED BY <2>2, <2>3, <2>4
<1> HIDE DEF missing
<1>6. gone = {}
  <2>1. \A c \in ToSet(kids) : c \in Nat /\ c \notin DOMAIN nodes
    BY DEF ToSet
  <2>2. here.nodes = nodes
    OBVIOUS
  <2> HIDE DEF here, kids
  <2>3. \A c \in ToSet(kids) : Subtree(here, c) = {}
    BY <2>1, <2>2, NoSubtree
  <2> QED BY <2>3
<1>7. new = ApplySlotSync(nodes, ref, refNode, names, <<>>, <<>>, missing, n)
  BY <1>1, <1>4 DEF SyncSlotInstances, missing
<1> DEFINE Idle(i) == i \in {i1 \in DOMAIN missing : i1 <= Len(<<>>)}
           IdOf(i) == IF Idle(i) THEN <<>>[i] ELSE n + i
           Taken(name) == IF SlotsNamed(nodes, <<>>, name) # <<>>
                             THEN Head(SlotsNamed(nodes, <<>>, name))
                             ELSE IdOf(IndexOf(missing, name) + 1)
           pairs == {i \in DOMAIN missing : i <= Len(<<>>)}
           fresh == [id \in {IdOf(i) : i \in DOMAIN missing \ pairs} |-> NewSlot(missing[id - n], ref)]
           out == UNION {Subtree(here, c) : c \in (ToSet(kids) \ Slots(here))
                            \union {<<>>[i] : i \in DOMAIN <<>> \ pairs}}
           Inst(id) == \E k \in DOMAIN names : Taken(names[k]) = id
           named(id) == names[CHOOSE k \in DOMAIN names : Taken(names[k]) = id]
<1>8. new = [id \in (DOMAIN nodes \ out) \union DOMAIN fresh |->
                IF id \in DOMAIN fresh THEN fresh[id]
                ELSE IF id = ref THEN [nodes[id] EXCEPT !.children = [k \in DOMAIN names |-> Taken(names[k])]]
                ELSE IF Inst(id) THEN [nodes[id] EXCEPT !.parentId = ref, !.slotName = named(id)]
                ELSE nodes[id]]
  BY <1>7 DEF ApplySlotSync
<1>9. out = {}
  <2>1. DOMAIN <<>> = {}
    OBVIOUS
  <2> HIDE DEF kids
  <2> QED BY <1>6, <2>1
<1>10. pairs = {} /\ \A i \in Int : IdOf(i) = n + i
  BY <1>5
<1>11. DOMAIN fresh = F /\ \A x \in F : fresh[x].children = <<>>
  <2>1. DOMAIN fresh = {IdOf(i) : i \in DOMAIN missing}
    BY <1>10
  <2>2. DOMAIN missing \subseteq Int
    BY <1>5
  <2>3. DOMAIN fresh = F
    BY <1>10, <2>1, <2>2
  <2>4. \A x \in DOMAIN fresh : fresh[x] = NewSlot(missing[x - n], ref)
    OBVIOUS
  <2> HIDE DEF fresh, F
  <2> QED BY <2>3, <2>4 DEF NewSlot, NewNode
<1>12. \A id \in DOMAIN nodes : ~Inst(id) /\ id # ref /\ id \notin F
  <2>1. \A k \in DOMAIN names : Taken(names[k]) = At(k)
    BY <1>3, <1>5, <1>10
  <2> HIDE DEF Instance
  <2> QED BY <1>5, <2>1
<1> HIDE DEF fresh, Inst, named, Instance, out
<1>13. /\ F \subseteq Later(n + 1) /\ IsFiniteSet(F)
  <2>1. IsFiniteSet(1..(n + Len(names)))
    BY <1>5, FS_Interval
  <2>2. F \subseteq 1..(n + Len(names)) /\ F \subseteq Later(n + 1)
    BY <1>5 DEF Later
  <2> QED BY <2>1, <2>2, FS_Subset
<1>14. /\ DOMAIN new = DOMAIN nodes \union F
       /\ \A p \in DOMAIN nodes : new[p] = nodes[p]
       /\ \A x \in F : new[x] = fresh[x]
  <2> HIDE DEF F
  <2> QED BY <1>8, <1>9, <1>11, <1>12
<1> HIDE DEF F
<1> QED BY <1>11, <1>13, <1>14 DEF Strayed

-----------------------------------------------------------------------------
\* A document partway through a sweep.

\* A ref to comp inside another's slot.
Nested(tree, comp) == \E r, s \in Refs(tree, comp) : r # s /\ IsAncestor(tree, r, s)

\* A document partway through a sweep for comp, which began when ids from b on
\* were unused: what is left of it stands where it stood, what has gone was
\* below a ref, and what has come holds nothing.
Sweeping(now, old, comp, b, whole) ==
    /\ now.rootNodeId = old.rootNodeId
    /\ Shaped(now.nodes) /\ Cached(now.nodes)
    /\ DOMAIN now.nodes \subseteq DOMAIN old.nodes \union Later(b)
    /\ \A p \in DOMAIN old.nodes : \A c \in Held(old.nodes, p) \intersect DOMAIN now.nodes :
          p \in DOMAIN now.nodes /\ c \in Held(now.nodes, p)
    /\ \A p \in DOMAIN old.nodes \intersect DOMAIN now.nodes :
          /\ now.nodes[p].moduleId = old.nodes[p].moduleId
          /\ Held(now.nodes, p) \subseteq Held(old.nodes, p) \union Later(b)
    /\ \A p \in DOMAIN now.nodes \ DOMAIN old.nodes : now.nodes[p].children = <<>>
    /\ \A x \in DOMAIN old.nodes \ DOMAIN now.nodes :
          \E s \in Refs(old, comp) : s # x /\ x \in Subtree(old, s)
    /\ whole => IsWhole(now.nodes, {old.rootNodeId})

\* A sweep that has not begun.
LEMMA SweepStarts ==
  ASSUME NEW tree, NEW comp, NEW b, NEW whole, Grown(tree, whole)
  PROVE  Sweeping(tree, tree, comp, b, whole)
BY DEF Sweeping, Grown, Shaped

\* What is below a ref now was below it at the start, or has come since.
LEMMA SweptBelow ==
  ASSUME NEW now, NEW old, NEW comp, NEW b, NEW whole, Sweeping(now, old, comp, b, whole),
         Lists(old.nodes), Shaped(old.nodes), b \in Nat, DOMAIN old.nodes \subseteq 1..(b - 1), NEW ref \in DOMAIN old.nodes
  PROVE  Subtree([nodes |-> now.nodes], ref) \subseteq Subtree(old, ref) \union (DOMAIN now.nodes \ DOMAIN old.nodes)
<1> DEFINE here == [nodes |-> now.nodes]
           T == (Subtree(old, ref) \intersect DOMAIN now.nodes) \union (DOMAIN now.nodes \ DOMAIN old.nodes) \union {ref}
<1>1. here.nodes = now.nodes /\ ref \in Nat
  BY DEF Lists
<1>2. /\ Subtree(old, ref) \subseteq DOMAIN old.nodes
      /\ ref \in Subtree(old, ref)
      /\ \A p \in Subtree(old, ref) : \A c \in Held(old.nodes, p) : c \in Subtree(old, ref)
  <2>1. /\ Subtree(old, ref) \subseteq DOMAIN old.nodes
        /\ Has(old, ref) => ref \in Subtree(old, ref)
        /\ \A p \in Subtree(old, ref) : \A c \in Kids(old, p) : Has(old, c) => c \in Subtree(old, ref)
    BY <1>1, SubtreeIs
  <2> QED BY <2>1 DEF Has, Kids, Held, Shaped
<1>3. ASSUME NEW p \in T, p \in DOMAIN now.nodes, NEW c \in Held(now.nodes, p), c \in DOMAIN now.nodes PROVE c \in T
  <2>1. CASE p \in DOMAIN old.nodes
    <3>1. p \in Subtree(old, ref)
      BY <1>2, <1>3, <2>1
    <3>2. CASE c \in DOMAIN old.nodes
      <4>1. c \in Held(old.nodes, p)
        BY <1>3, <2>1, <3>2 DEF Sweeping, Later
      <4> QED BY <1>2, <1>3, <3>1, <4>1
    <3>3. CASE c \notin DOMAIN old.nodes
      BY <1>3, <3>3
    <3> QED BY <3>2, <3>3
  <2>2. CASE p \notin DOMAIN old.nodes
    BY <1>3, <2>2 DEF Sweeping, Held, ToSet
  <2> QED BY <2>1, <2>2
<1> HIDE DEF here
<1>4. Subtree(here, ref) \subseteq T
  <2>1. Lists(here.nodes) /\ ref \in T
    BY <1>1 DEF Sweeping, Shaped
  <2>2. \A p \in T : Has(here, p) => \A c \in Kids(here, p) : Has(here, c) => c \in T
    BY <1>1, <1>3 DEF Has, Kids, Held
  <2> HIDE DEF T
  <2> QED BY <1>1, <2>1, <2>2, SubtreeLeast
<1> QED BY <1>2, <1>4 DEF here

-----------------------------------------------------------------------------
\* A sweep goes on.

\* A sweep goes on, whether it finds the ref or not; in a whole tree it does,
\* as no ref is below another.
LEMMA SweepTurn ==
  ASSUME NEW b \in Nat, NEW m \in Nat, b <= m, NEW comp, NEW whole,
         NEW old, IsDocument(old, b), Grown(old, whole), whole => ~Nested(old, comp),
         NEW now, IsDocument(now, m), Sweeping(now, old, comp, b, whole),
         NEW ref \in Refs(old, comp), NEW refNode,
         refNode = IF ref \in DOMAIN now.nodes THEN now.nodes[ref] ELSE old.nodes[ref],
         NEW names \in Seq(Name), IsInjective(names),
         NEW new, new.rootNodeId = old.rootNodeId,
         new.nodes = SyncSlotInstances(now.nodes, ref, refNode, names, m)
  PROVE  /\ Sweeping(new, old, comp, b, whole)
         /\ DOMAIN new.nodes \subseteq DOMAIN now.nodes \union Later(m + 1)
<1> DEFINE O == old.nodes
           N == now.nodes
           W == new.nodes
<1>1. /\ Shaped(O) /\ Cached(O) /\ Lists(O) /\ DOMAIN O \subseteq 1..(b - 1)
      /\ Shaped(N) /\ Cached(N) /\ Lists(N) /\ DOMAIN N \subseteq 1..(m - 1)
      /\ \A id \in DOMAIN N : N[id] \in Node(m)
  <2>1. DOMAIN O \subseteq 1..(b - 1)
    BY DocumentLists DEF Sound
  <2>2. /\ DOMAIN N \subseteq 1..(m - 1)
        /\ \A id \in DOMAIN N : N[id] \in Node(m)
    BY DocumentLists DEF Sound
  <2> QED BY <2>1, <2>2 DEF Grown, Sweeping, Shaped
<1>2. /\ ref \in DOMAIN O /\ ref \in Nat /\ ref <= m /\ O[ref].moduleId = "ref"
  BY <1>1 DEF Refs, IsRefTo
<1>3. Later(m + 1) \subseteq Later(b) /\ Later(m + 1) \intersect (DOMAIN N \union DOMAIN O) = {}
  BY <1>1 DEF Later
<1>4. CASE ref \in DOMAIN N
  <2>1. refNode.children = N[ref].children /\ m <= m + 1
    BY <1>4
  <2> HIDE DEF N, W
  <2>2. PICK gone, fresh : fresh \in SUBSET Later(m + 1) /\ IsFiniteSet(fresh) /\ Turned(W, N, ref, gone, fresh)
    <3>1. \E gone : \E fresh \in SUBSET Later(m + 1) :
             IsFiniteSet(fresh) /\ Turned(SyncSlotInstances(N, ref, refNode, names, m), N, ref, gone, fresh)
      BY <1>1, <1>4, <2>1, SyncTurned
    <3> QED BY <3>1 DEF W, N
  <2>3. /\ fresh \subseteq Nat /\ fresh \subseteq Later(b) /\ fresh \intersect DOMAIN N = {} /\ fresh \intersect DOMAIN O = {}
    BY <1>3, <2>2 DEF Later
  <2>4. N[ref].moduleId = "ref"
    BY <1>2, <1>4 DEF Sweeping, N
  <2>5. /\ Shaped(W) /\ Cached(W)
        /\ \A roots : IsWhole(N, roots) /\ N[ref].moduleId # "slot-outlet" => IsWhole(W, roots)
    BY <1>1, <2>2, <2>3, TurnedIs
  <2>6. DOMAIN W = (DOMAIN N \ gone) \union fresh /\ gone \subseteq DOMAIN N
    BY <2>2 DEF Turned
  <2>7. ASSUME NEW p \in DOMAIN O, NEW c \in Held(O, p) \intersect DOMAIN W
        PROVE  p \in DOMAIN W /\ c \in Held(W, p)
    <3>1. c \in DOMAIN N \ gone
      BY <1>1, <2>3, <2>6, <2>7 DEF Shaped
    <3>2. p \in DOMAIN N /\ c \in Held(N, p)
      BY <2>7, <3>1 DEF Sweeping, N
    <3>3. p \in DOMAIN N \ gone
      BY <2>2, <3>1, <3>2 DEF Turned
    <3> QED BY <2>2, <2>6, <3>1, <3>2, <3>3 DEF Turned, Held
  <2>8. ASSUME NEW p \in DOMAIN O \intersect DOMAIN W
        PROVE  /\ W[p].moduleId = O[p].moduleId
               /\ Held(W, p) \subseteq Held(O, p) \union Later(b)
    <3>1. p \in DOMAIN N \ gone
      BY <2>3, <2>6
    <3>2. N[p].moduleId = O[p].moduleId /\ Held(N, p) \subseteq Held(O, p) \union Later(b)
      BY <3>1 DEF Sweeping, N
    <3>3. W[p].moduleId = N[p].moduleId
      BY <2>2, <3>1 DEF Turned
    <3>4. Held(W, p) \subseteq Held(N, p) \union fresh
      BY <2>2, <3>1 DEF Turned, Held
    <3> QED BY <2>3, <3>2, <3>3, <3>4
  <2>9. ASSUME NEW p \in DOMAIN W \ DOMAIN O PROVE W[p].children = <<>>
    <3>1. CASE p \in fresh
      BY <2>2, <3>1 DEF Turned
    <3>2. CASE p \notin fresh
      <4>1. p \in DOMAIN N \ gone /\ p # ref
        BY <1>2, <2>6, <3>2
      <4>2. W[p].children = N[p].children
        BY <2>2, <4>1 DEF Turned
      <4>3. N[p].children = <<>>
        BY <4>1 DEF Sweeping, N
      <4> QED BY <4>2, <4>3
    <3> QED BY <3>1, <3>2
  <2>10. ASSUME NEW x \in DOMAIN O \ DOMAIN W
         PROVE  \E s \in Refs(old, comp) : s # x /\ x \in Subtree(old, s)
    <3>1. CASE x \notin DOMAIN N
      BY <3>1 DEF Sweeping, N
    <3>2. CASE x \in DOMAIN N
      <4>1. x \in gone
        BY <2>6, <3>2
      <4>2. x \in Subtree([nodes |-> N], ref) /\ x # ref
        BY <2>2, <4>1 DEF Turned
      <4>3. Subtree([nodes |-> N], ref) \subseteq Subtree(old, ref) \union (DOMAIN N \ DOMAIN O)
        BY <1>1, <1>2, SweptBelow DEF N
      <4> QED BY <4>2, <4>3
    <3> QED BY <3>1, <3>2
  <2>11. whole => IsWhole(W, {old.rootNodeId})
    BY <2>4, <2>5 DEF Sweeping, N
  <2>12. DOMAIN W \subseteq DOMAIN O \union Later(b)
    BY <2>3, <2>6 DEF Sweeping, N
  <2> QED BY <2>2, <2>5, <2>6, <2>7, <2>8, <2>9, <2>10, <2>11, <2>12 DEF Sweeping, W, N
<1>5. CASE ref \notin DOMAIN N
  <2>1. /\ refNode.children \in Seq(Nat) /\ ToSet(refNode.children) = Held(O, ref)
        /\ Held(O, ref) \intersect DOMAIN N = {}
    BY <1>1, <1>2, <1>5 DEF Lists, Held, Sweeping
  <2>0. W = SyncSlotInstances(N, ref, refNode, names, m) /\ ToSet(refNode.children) \intersect DOMAIN N = {}
    BY <2>1
  <2> HIDE DEF N, W
  <2>2. PICK fresh \in SUBSET Later(m + 1) :
           /\ IsFiniteSet(fresh)
           /\ DOMAIN W = DOMAIN N \union fresh
           /\ \A p \in DOMAIN N : W[p] = N[p]
           /\ \A x \in fresh : W[x].children = <<>>
    <3>1. Strayed(W, N, m)
      BY <1>1, <1>5, <2>0, <2>1, SyncStray
    <3> QED BY <3>1 DEF Strayed
  <2>3. /\ fresh \subseteq Nat /\ fresh \subseteq Later(b) /\ fresh \intersect DOMAIN N = {} /\ fresh \intersect DOMAIN O = {}
    BY <1>3, <2>2 DEF Later
  <2>4. ~whole
    <3>1. PICK s \in Refs(old, comp) : s # ref /\ ref \in Subtree(old, s)
      BY <1>2, <1>5 DEF Sweeping, N
    <3>2. s \in DOMAIN O /\ Null \notin DOMAIN O
      BY <1>1 DEF Refs, Null
    <3>3. IsAncestor(old, s, ref)
      BY <1>1, <1>2, <3>1, <3>2, NotAbove
    <3> QED BY <3>1, <3>3 DEF Nested
  <2>5. \A p \in DOMAIN N : Held(W, p) = Held(N, p)
    BY <2>2 DEF Held
  <2> DEFINE leaves == [x \in fresh |-> W[x]]
  <2>6. DOMAIN leaves = fresh /\ \A x \in fresh : leaves[x] = W[x]
    OBVIOUS
  <2> HIDE DEF leaves
  <2>7. Shaped(leaves) /\ (\A p \in DOMAIN leaves : Held(leaves, p) = {})
    BY <2>2, <2>3, <2>6, LeavesShaped
  <2>8. Shaped(W)
    BY <1>1, <2>2, <2>3, <2>6, <2>7, ShapedBeside
  <2>9. Cached(W)
    <3>1. ASSUME NEW p \in DOMAIN W, NEW c \in Held(W, p) PROVE W[c].parentId = p
      <4>1. p \in DOMAIN N /\ c \in Held(N, p)
        BY <2>2, <2>5, <3>1 DEF Held, ToSet
      <4>2. c \in DOMAIN N
        BY <1>1, <4>1 DEF Shaped
      <4> QED BY <1>1, <2>2, <4>1, <4>2 DEF Cached
    <3> QED BY <3>1 DEF Cached
  <2>10. /\ \A p \in DOMAIN O : \A c \in Held(O, p) \intersect DOMAIN W : p \in DOMAIN W /\ c \in Held(W, p)
         /\ \A x \in DOMAIN O \ DOMAIN W : x \in DOMAIN O \ DOMAIN N
         /\ DOMAIN W \subseteq DOMAIN O \union Later(b)
    BY <1>1, <2>2, <2>3, <2>5 DEF Sweeping, N, Shaped
  <2>11. /\ \A p \in DOMAIN O \intersect DOMAIN W : /\ W[p].moduleId = O[p].moduleId
                                                   /\ Held(W, p) \subseteq Held(O, p) \union Later(b)
         /\ \A p \in DOMAIN W \ DOMAIN O : W[p].children = <<>>
    BY <2>2, <2>3, <2>5 DEF Sweeping, N
  <2> QED BY <2>2, <2>4, <2>8, <2>9, <2>10, <2>11 DEF Sweeping, W, N
<1> QED BY <1>4, <1>5

-----------------------------------------------------------------------------
\* A sweep of the site.

\* Two documents (or one) to be swept with all the others, and where they are
\* partway: each as the sweep leaves it (untouched, if no ref to it is there),
\* and still without a node in common.
Sweepable(site, comp, b, d, e, whole) ==
    /\ b \in Nat /\ IsDocuments(site, b) /\ comp \in DOMAIN site
    /\ \A x \in {d, e} : /\ x \in DOMAIN site /\ Grown(site[x], whole)
                         /\ whole => ~Nested(site[x], comp)

Tended(now, site, comp, b, d, e, whole) ==
    /\ SweptTo(now, site, b)
    /\ \A x \in {d, e} : Sweeping(now.docs[x], site[x], comp, b, whole)
    /\ \A x \in {d, e} : Refs(site[x], comp) = {} => now.docs[x] = site[x]
    /\ d # e => DOMAIN now.docs[d].nodes \intersect DOMAIN now.docs[e].nodes = {}

\* A turn changes one document alone.
LEMMA SyncRefTends ==
  ASSUME NEW site, NEW comp, NEW b, NEW d, NEW e, NEW whole, Sweepable(site, comp, b, d, e, whole),
         NEW now, Tended(now, site, comp, b, d, e, whole),
         NEW x \in DOMAIN site, NEW ref \in Refs(site[x], comp)
  PROVE  Tended(SyncRef(now, site, comp, x, ref), site, comp, b, d, e, whole)
<1> DEFINE names == OutletNames(now.docs[comp])
           refNode == IF Has(now.docs[x], ref) THEN now.docs[x].nodes[ref] ELSE site[x].nodes[ref]
           m == now.next
           tree == now.docs[x]
           new == [tree EXCEPT !.nodes = SyncSlotInstances(tree.nodes, ref, refNode, names, m)]
           then == SyncRef(now, site, comp, x, ref)
<1>1. /\ b \in Nat /\ IsDocuments(site, b) /\ comp \in DOMAIN site /\ SweptTo(now, site, b)
      /\ ref \in DOMAIN site[x].nodes
  BY DEF Sweepable, Tended, Refs
<1>2. SweptTo(then, site, b)
  BY <1>1, SyncRefIs
<1>3. m \in Nat /\ b <= m /\ IsDocuments(now.docs, m) /\ DOMAIN now.docs = DOMAIN site
      /\ tree.rootNodeId = site[x].rootNodeId
  BY <1>1 DEF SweptTo, Alike
<1> HIDE DEF m
<1>4. /\ \A y \in DOMAIN site : IsDocument(now.docs[y], m) /\ IsDocument(site[y], b)
      /\ now.docs = [y \in DOMAIN site |-> now.docs[y]]
  BY <1>1, <1>3, DocumentsAre
<1>5. names \in Seq(Name) /\ IsInjective(names)
  BY <1>1, <1>3, <1>4, OutletNamesTyped, OutletNamesOnce
<1>6. /\ new.rootNodeId = site[x].rootNodeId
      /\ new.nodes = SyncSlotInstances(tree.nodes, ref, refNode, names, m)
  BY <1>3, <1>4, SetNodes, DocumentIs
<1>7. \A y \in DOMAIN site : then.docs[y] = IF y = x THEN new ELSE now.docs[y]
  <2>1. then.docs = [now.docs EXCEPT ![x].nodes = SyncSlotInstances(@, ref, refNode, names, m)]
    BY DEF SyncRef, m
  <2> HIDE DEF then, names, refNode
  <2> QED BY <1>3, <1>4, <2>1
<1>8. refNode = IF ref \in DOMAIN tree.nodes THEN tree.nodes[ref] ELSE site[x].nodes[ref]
  BY DEF Has
<1> HIDE DEF new, then, names, refNode
<1>9. ASSUME x \in {d, e}
      PROVE  /\ Sweeping(new, site[x], comp, b, whole)
             /\ DOMAIN new.nodes \subseteq DOMAIN tree.nodes \union Later(m + 1)
  <2>1. /\ Grown(site[x], whole) /\ (whole => ~Nested(site[x], comp))
        /\ Sweeping(tree, site[x], comp, b, whole)
    BY <1>9 DEF Sweepable, Tended
  <2> HIDE DEF tree
  <2> QED BY <1>1, <1>3, <1>4, <1>5, <1>6, <1>8, <2>1, SweepTurn DEF tree
<1>10. \A y \in DOMAIN site : DOMAIN now.docs[y].nodes \intersect Later(m + 1) = {}
  <2>1. \A y \in DOMAIN site : DOMAIN now.docs[y].nodes \subseteq 1..(m - 1)
    BY <1>3, <1>4, DocumentLists DEF Sound
  <2> QED BY <1>3, <2>1 DEF Later
<1>11. d \in DOMAIN site /\ e \in DOMAIN site
  BY DEF Sweepable
<1>12. \A y \in {d, e} : Sweeping(then.docs[y], site[y], comp, b, whole)
  BY <1>7, <1>9, <1>11 DEF Tended
<1>13. d # e => DOMAIN then.docs[d].nodes \intersect DOMAIN then.docs[e].nodes = {}
  BY <1>7, <1>9, <1>10, <1>11 DEF Tended
<1>14. \A y \in {d, e} : Refs(site[y], comp) = {} => then.docs[y] = site[y]
  BY <1>7, <1>11 DEF Tended
<1> QED BY <1>2, <1>12, <1>13, <1>14 DEF Tended, then

\* The refs of one document, in turn.
LEMMA SyncRefsInTends ==
  ASSUME NEW site, NEW comp, NEW b, NEW d, NEW e, NEW whole, Sweepable(site, comp, b, d, e, whole),
         NEW now, Tended(now, site, comp, b, d, e, whole), NEW x \in DOMAIN site
  PROVE  Tended(SyncRefsIn(now, site, comp, x), site, comp, b, d, e, whole)
<1> DEFINE refs == Ascending(Refs(site[x], comp))
           Good(v) == Tended(v, site, comp, b, d, e, whole)
<1>1. refs \in Seq(Refs(site[x], comp))
  <2> DEFINE c == b - 1
  <2>1. b \in Nat /\ IsDocument(site[x], b)
    BY DocumentsAre DEF Sweepable
  <2>2. DOMAIN site[x].nodes \subseteq 1..c
    BY <2>1, DocumentLists DEF Sound
  <2>3. c \in Int /\ Refs(site[x], comp) \subseteq 1..c
    BY <2>1, <2>2 DEF Refs
  <2> HIDE DEF c
  <2> QED BY <2>3, AscendingIs
<1>2. Len(refs) \in Nat /\ \A k \in 1..Len(refs) : refs[k] \in Refs(site[x], comp)
  <2> HIDE DEF refs
  <2> QED BY <1>1
<1>3. PICK f : /\ f[0] = now
               /\ \A k \in 1..Len(refs) : f[k] = SyncRef(f[k - 1], site, comp, x, refs[k])
               /\ SyncRefsIn(now, site, comp, x) = f[Len(refs)]
  BY <1>2, RefTurns
<1> HIDE DEF refs
<1>4. ASSUME NEW k \in 0..(Len(refs) - 1), Good(f[k]) PROVE Good(f[k + 1])
  <2>1. k + 1 \in 1..Len(refs) /\ (k + 1) - 1 = k
    BY <1>2
  <2>2. f[k + 1] = SyncRef(f[k], site, comp, x, refs[k + 1]) /\ refs[k + 1] \in Refs(site[x], comp)
    BY <1>2, <1>3, <2>1
  <2> QED BY <1>4, <2>2, SyncRefTends
<1> DEFINE S == {k \in 0..Len(refs) : Good(f[k])}
<1>5. 0 \in S /\ (\A k \in 0..(Len(refs) - 1) : k \in S => k + 1 \in S) /\ Len(refs) \in 0..Len(refs)
  BY <1>2, <1>3, <1>4
<1> HIDE DEF S
<1>6. Len(refs) \in S
  BY <1>2, <1>5, UpTo
<1> QED BY <1>3, <1>6 DEF S

\* The documents, in turn: what a sweep leaves of any two.
LEMMA SyncAllRefsTends ==
  ASSUME NEW site, NEW comp, NEW b, NEW d, NEW e, NEW whole, Sweepable(site, comp, b, d, e, whole),
         d # e => DOMAIN site[d].nodes \intersect DOMAIN site[e].nodes = {}
  PROVE  Tended(SyncAllRefs(site, comp, b), site, comp, b, d, e, whole)
<1> DEFINE ids == Ascending(DOMAIN site)
           Good(v) == Tended(v, site, comp, b, d, e, whole)
<1>1. b \in Nat /\ IsDocuments(site, b) /\ DOMAIN site \subseteq 1..(b - 1)
  BY DocumentsAre DEF Sweepable
<1>2. Len(ids) \in Nat /\ \A k \in 1..Len(ids) : ids[k] \in DOMAIN site
  <2> DEFINE c == b - 1
  <2>1. c \in Int /\ DOMAIN site \subseteq 1..c
    BY <1>1
  <2> HIDE DEF c
  <2>2. ids \in Seq(DOMAIN site)
    BY <2>1, AscendingIs
  <2> HIDE DEF ids
  <2> QED BY <2>2
<1>3. PICK f : /\ f[0] = [docs |-> site, next |-> b]
               /\ \A k \in 1..Len(ids) : f[k] = SyncRefsIn(f[k - 1], site, comp, ids[k])
               /\ SyncAllRefs(site, comp, b) = f[Len(ids)]
  BY <1>2, SiteTurns
<1> HIDE DEF ids
<1>4. Good(f[0])
  <2>1. SweptTo(f[0], site, b)
    BY <1>1, <1>3, AlikeSelf DEF SweptTo
  <2> QED BY <1>3, <2>1, SweepStarts DEF Tended, Sweepable
<1>5. ASSUME NEW k \in 0..(Len(ids) - 1), Good(f[k]) PROVE Good(f[k + 1])
  <2>1. k + 1 \in 1..Len(ids) /\ (k + 1) - 1 = k
    BY <1>2
  <2>2. f[k + 1] = SyncRefsIn(f[k], site, comp, ids[k + 1]) /\ ids[k + 1] \in DOMAIN site
    BY <1>2, <1>3, <2>1
  <2> QED BY <1>5, <2>2, SyncRefsInTends
<1> DEFINE S == {k \in 0..Len(ids) : Good(f[k])}
<1>6. 0 \in S /\ (\A k \in 0..(Len(ids) - 1) : k \in S => k + 1 \in S) /\ Len(ids) \in 0..Len(ids)
  BY <1>2, <1>4, <1>5
<1> HIDE DEF S
<1>7. Len(ids) \in S
  BY <1>2, <1>6, UpTo
<1> QED BY <1>3, <1>7 DEF S

-----------------------------------------------------------------------------
\* What a component is instantiated with.

\* A component's nodes with those of its outlets in F replaced by what the ref's
\* slots S hold, and everything below that.
Fed(inst, tree, ref, comp, F, S) ==
    LET own == Subtree(comp, comp.rootNodeId)
        nodes == tree.nodes
    IN  /\ F \subseteq own \ {comp.rootNodeId}
        /\ \A f \in F : comp.nodes[f].moduleId = "slot-outlet" /\ S[f] \in Held(nodes, ref)
        /\ \A f, g \in F : f # g => S[f] # S[g]
        /\ \A x : x \in DOMAIN inst <=> \/ x \in own \ F
                                        \/ \E f \in F : \E c \in Held(nodes, S[f]) : x \in Subtree(tree, c)
        /\ \A p \in own \ F :
              /\ inst[p].children \in Seq(Nat) /\ IsInjective(inst[p].children)
              /\ \A x : x \in Held(inst, p) <=> \/ x \in Held(comp.nodes, p) \ F
                                                \/ \E f \in F \intersect Held(comp.nodes, p) : x \in Held(nodes, S[f])
              /\ inst[p].moduleId = comp.nodes[p].moduleId
        /\ \A id \in DOMAIN inst \ own : inst[id] = nodes[id]

Feeds(inst, tree, ref, comp) == \E F, S : Fed(inst, tree, ref, comp, F, S)

\* instantiateVCAtRef: outlets of different names are filled from different slots.
LEMMA InstantiatedFeeds ==
  ASSUME NEW n \in Nat, NEW tree, IsDocument(tree, n), NEW whole, Grown(tree, whole),
         NEW comp, IsDocument(comp, n), Grown(comp, whole),
         DOMAIN tree.nodes \intersect DOMAIN comp.nodes = {},
         \A o, p \in Outlets(comp) : o # p => comp.nodes[o].slotName # comp.nodes[p].slotName,
         NEW ref \in DOMAIN tree.nodes
  PROVE  Feeds(Instantiated(tree, ref, comp), tree, ref, comp)
<1> DEFINE slots == Keep(tree.nodes[ref].children, Slots(tree))
           Tagged(name) == Keep(slots, {c \in ToSet(slots) : tree.nodes[c].slotName = name})
           Filling(name) == IF Tagged(name) = <<>> THEN <<>> ELSE tree.nodes[Last(Tagged(name))].children
           own == Subtree(comp, comp.rootNodeId)
           Filled(id) == /\ comp.nodes[id].moduleId = "slot-outlet"
                         /\ Filling(comp.nodes[id].slotName) # <<>>
           InPlaceOf(id) == IF id \notin own THEN <<>>
                            ELSE IF Filled(id) THEN Filling(comp.nodes[id].slotName)
                            ELSE <<id>>
           content == UNION {Subtree(tree, c) : c \in UNION {ToSet(InPlaceOf(id)) :
                                 id \in {i \in own : Filled(i)}}}
           Kid(id) == [k \in DOMAIN comp.nodes[id].children |-> InPlaceOf(comp.nodes[id].children[k])]
           inst == [id \in {i \in own : ~Filled(i)} \union content |->
                       IF id \notin own THEN tree.nodes[id]
                       ELSE [comp.nodes[id] EXCEPT !.children = FlattenSeq(Kid(id))]]
           F == {i \in own : Filled(i)}
           S == [i \in F |-> Last(Tagged(comp.nodes[i].slotName))]
<1>1. Instantiated(tree, ref, comp) = inst
  BY DEF Instantiated
<1>2. /\ Shaped(tree.nodes) /\ Shaped(comp.nodes)
      /\ \A p \in DOMAIN tree.nodes :
            /\ p \in Nat
            /\ tree.nodes[p].children \in Seq(Nat) /\ IsInjective(tree.nodes[p].children)
            /\ ToSet(tree.nodes[p].children) = Held(tree.nodes, p)
            /\ Held(tree.nodes, p) \subseteq DOMAIN tree.nodes
      /\ \A p \in DOMAIN comp.nodes :
            /\ p \in Nat /\ comp.nodes[p] \in Node(n)
            /\ comp.nodes[p].children \in Seq(Nat) /\ IsInjective(comp.nodes[p].children)
            /\ ToSet(comp.nodes[p].children) = Held(comp.nodes, p)
            /\ Held(comp.nodes, p) \subseteq DOMAIN comp.nodes
  BY GrownNodes DEF Grown
<1>3. /\ comp.rootNodeId \in DOMAIN comp.nodes /\ comp.nodes[comp.rootNodeId].moduleId = "body"
      /\ own \subseteq DOMAIN comp.nodes
      /\ \A p \in own : Held(comp.nodes, p) \subseteq own
  <2>1. comp.rootNodeId \in DOMAIN comp.nodes /\ comp.nodes[comp.rootNodeId].moduleId = "body"
    BY DocumentLists DEF Sound
  <2>2. Branch(comp.nodes, comp.rootNodeId, own)
    BY <1>2, <2>1, SubtreeBranch
  <2> QED BY <2>1, <2>2 DEF Branch
<1>4. slots \in Seq(Nat) /\ ToSet(slots) \subseteq Held(tree.nodes, ref)
  <2> DEFINE list == tree.nodes[ref].children
             all == Slots(tree)
  <2>1. list \in Seq(Nat) /\ ToSet(list) = Held(tree.nodes, ref)
    BY <1>2
  <2> HIDE DEF list, all
  <2>2. Keep(list, all) \in Seq(Nat) /\ ToSet(Keep(list, all)) = ToSet(list) \intersect all
    BY <2>1, KeepIs
  <2> QED BY <2>1, <2>2 DEF list, all
<1> HIDE DEF slots, own
<1>5. ASSUME NEW name, Tagged(name) # <<>>
      PROVE  Last(Tagged(name)) \in Held(tree.nodes, ref) /\ tree.nodes[Last(Tagged(name))].slotName = name
  <2> DEFINE set == {c \in ToSet(slots) : tree.nodes[c].slotName = name}
             some == Keep(slots, set)
  <2>0. \A c \in set : c \in ToSet(slots) /\ tree.nodes[c].slotName = name
    OBVIOUS
  <2>1. some = Tagged(name)
    OBVIOUS
  <2> HIDE DEF set
  <2>2. some \in Seq(Nat) /\ ToSet(some) = ToSet(slots) \intersect set
    BY <1>4, KeepIs
  <2>3. some # <<>>
    BY <1>5, <2>1
  <2> HIDE DEF some, Tagged
  <2>4. Last(some) \in ToSet(some)
    BY <2>2, <2>3, EndsOf
  <2> QED BY <1>4, <2>0, <2>1, <2>2, <2>4
<1> HIDE DEF Tagged
<1>6. ASSUME NEW f \in F
      PROVE  /\ f \in own /\ f \in Outlets(comp) /\ comp.nodes[f].moduleId = "slot-outlet"
             /\ S[f] \in Held(tree.nodes, ref) /\ S[f] \in DOMAIN tree.nodes
             /\ tree.nodes[S[f]].slotName = comp.nodes[f].slotName
             /\ InPlaceOf(f) = tree.nodes[S[f]].children
  <2>1. Filling(comp.nodes[f].slotName) # <<>> /\ f \in own /\ comp.nodes[f].moduleId = "slot-outlet"
    OBVIOUS
  <2>2. Tagged(comp.nodes[f].slotName) # <<>>
    BY <2>1
  <2>3. S[f] = Last(Tagged(comp.nodes[f].slotName))
    OBVIOUS
  <2>4. Filling(comp.nodes[f].slotName) = tree.nodes[S[f]].children
    BY <2>2, <2>3
  <2>5. InPlaceOf(f) = Filling(comp.nodes[f].slotName)
    BY <2>1
  <2> QED BY <1>2, <1>3, <1>5, <2>1, <2>2, <2>3, <2>4, <2>5 DEF Outlets
<1>7. \A id \in own \ F : InPlaceOf(id) = <<id>>
  OBVIOUS
<1>8. DOMAIN inst = (own \ F) \union content
  OBVIOUS
<1>9. \A x : x \in content <=> \E f \in F : \E c \in Held(tree.nodes, S[f]) : x \in Subtree(tree, c)
  <2>1. \A x : x \in content <=> \E f \in F : \E c \in ToSet(InPlaceOf(f)) : x \in Subtree(tree, c)
    OBVIOUS
  <2> HIDE DEF content, InPlaceOf, F, S
  <2> QED BY <1>2, <1>6, <2>1
<1>10. comp.rootNodeId \notin F
  BY <1>3, <1>6
<1>11. \A id \in DOMAIN inst : inst[id] = IF id \notin own THEN tree.nodes[id]
                                          ELSE [comp.nodes[id] EXCEPT !.children = FlattenSeq(Kid(id))]
  OBVIOUS
<1>12. \A id : Kid(id) = [k \in DOMAIN comp.nodes[id].children |-> InPlaceOf(comp.nodes[id].children[k])]
  OBVIOUS
<1>13. \A id \in F : id \in own
  OBVIOUS
<1> HIDE DEF content, F, S, InPlaceOf, Kid, inst
<1>14. \A f, g \in F : f # g => S[f] # S[g]
  BY <1>6
<1>15. ASSUME NEW id \in own
       PROVE  /\ InPlaceOf(id) \in Seq(Nat) /\ IsInjective(InPlaceOf(id))
              /\ ToSet(InPlaceOf(id)) = IF id \in F THEN Held(tree.nodes, S[id]) ELSE {id}
  <2>1. CASE id \in F
    BY <1>2, <1>6, <2>1
  <2>2. CASE id \notin F
    <3>1. id \in Nat /\ InPlaceOf(id) = <<id>>
      BY <1>2, <1>3, <1>7, <2>2
    <3>2. IsInjective(<<id>>)
      BY DEF IsInjective
    <3> QED BY <2>2, <3>1, <3>2, OneId
  <2> QED BY <2>1, <2>2
<1>16. \A i, j \in own : i # j => ToSet(InPlaceOf(i)) \intersect ToSet(InPlaceOf(j)) = {}
  <2> SUFFICES ASSUME NEW i \in own, NEW j \in own, i # j,
                      NEW x, x \in ToSet(InPlaceOf(i)), x \in ToSet(InPlaceOf(j))
               PROVE  FALSE
    OBVIOUS
  <2>1. \A k \in own : x \in ToSet(InPlaceOf(k)) => (k \in F /\ x \in Held(tree.nodes, S[k])) \/ (k \notin F /\ x = k)
    BY <1>15
  <2>2. \A k \in F : Held(tree.nodes, S[k]) \subseteq DOMAIN tree.nodes
    BY <1>2, <1>6
  <2>3. \A k \in own : k \notin DOMAIN tree.nodes
    BY <1>3
  <2>4. i \in F /\ j \in F
    BY <2>1, <2>2, <2>3
  <2>5. S[i] # S[j] /\ S[i] \in DOMAIN tree.nodes /\ S[j] \in DOMAIN tree.nodes
    BY <1>6, <1>14, <2>4
  <2>6. x \in Held(tree.nodes, S[i]) /\ x \in Held(tree.nodes, S[j])
    BY <2>1, <2>4
  <2> QED BY <1>2, <2>5, <2>6 DEF Shaped
<1>17. ASSUME NEW p \in own \ F
       PROVE  /\ inst[p].children \in Seq(Nat) /\ IsInjective(inst[p].children)
              /\ \A x : x \in Held(inst, p) <=> \/ x \in Held(comp.nodes, p) \ F
                                                \/ \E f \in F \intersect Held(comp.nodes, p) : x \in Held(tree.nodes, S[f])
              /\ inst[p].moduleId = comp.nodes[p].moduleId
  <2> DEFINE list == comp.nodes[p].children
             kid == Kid(p)
             flat == FlattenSeq(kid)
             l == Len(list)
             node == comp.nodes[p]
  <2>1. /\ list \in Seq(Nat) /\ IsInjective(list) /\ ToSet(list) = Held(comp.nodes, p)
        /\ Held(comp.nodes, p) \subseteq own /\ node \in Node(n)
    BY <1>2, <1>3
  <2>2. kid = [k \in DOMAIN list |-> InPlaceOf(list[k])]
    BY <1>12
  <2>3. inst[p] = [node EXCEPT !.children = flat]
    BY <1>8, <1>11
  <2> HIDE DEF list, kid, flat, node
  <2>4. DOMAIN list = 1..l /\ l \in Nat
    BY <2>1
  <2>5. \A k \in 1..l : list[k] \in own /\ kid[k] = InPlaceOf(list[k])
    BY <2>1, <2>2, <2>4 DEF ToSet
  <2>6. \A j, k \in 1..l : j # k => list[j] # list[k]
    BY <2>1, <2>4 DEF IsInjective
  <2>7. kid \in [1..l -> Seq(Nat)]
    BY <1>15, <2>2, <2>4, <2>5
  <2> HIDE DEF l
  <2>8. kid \in Seq(Seq(Nat)) /\ Len(kid) = l
    BY <2>4, <2>7
  <2>9. \A k \in 1..l : IsInjective(kid[k])
    BY <1>15, <2>5
  <2>10. \A j, k \in 1..l : j # k => ToSet(kid[j]) \intersect ToSet(kid[k]) = {}
    BY <1>16, <2>5, <2>6
  <2>11. flat \in Seq(Nat) /\ IsInjective(flat) /\ ToSet(flat) = UNION {ToSet(kid[k]) : k \in 1..l}
    BY <2>8, <2>9, <2>10, FlattenIs DEF flat
  <2>12. Held(inst, p) = ToSet(flat)
    BY <2>1, <2>3, Relisted DEF Held
  <2>13. inst[p].children = flat /\ inst[p].moduleId = node.moduleId
    BY <2>1, <2>3, Relisted
  <2>14. \A x : x \in Held(inst, p) <=> \E k \in 1..l : x \in ToSet(kid[k])
    BY <2>11, <2>12
  <2>15. \A x : x \in Held(inst, p) <=> \E c \in Held(comp.nodes, p) : x \in ToSet(InPlaceOf(c))
    <3>1. \A c \in Held(comp.nodes, p) : \E k \in 1..l : list[k] = c
      BY <2>1, <2>4 DEF ToSet
    <3>2. \A k \in 1..l : list[k] \in Held(comp.nodes, p)
      BY <2>1, <2>4 DEF ToSet
    <3> QED BY <2>5, <2>14, <3>1, <3>2
  <2>16. \A c \in Held(comp.nodes, p) : \A x : x \in ToSet(InPlaceOf(c)) <=> \/ c \in F /\ x \in Held(tree.nodes, S[c])
                                                                             \/ c \notin F /\ x = c
    BY <1>15, <2>1
  <2> QED BY <2>11, <2>13, <2>15, <2>16 DEF node
<1>18. \A id \in DOMAIN inst \ own : inst[id] = tree.nodes[id]
  BY <1>11
<1>19. Fed(inst, tree, ref, comp, F, S)
  BY <1>6, <1>8, <1>9, <1>10, <1>13, <1>14, <1>17, <1>18 DEF Fed, own
<1> QED BY <1>1, <1>19 DEF Feeds

-----------------------------------------------------------------------------
\* That it is a forest.

\* What is under a ref's slots: nothing the ref lists.
LEMMA UnderSlots ==
  ASSUME NEW tree, Shaped(tree.nodes), NEW ref \in DOMAIN tree.nodes, NEW s \in Held(tree.nodes, ref),
         NEW c \in Held(tree.nodes, s)
  PROVE  /\ Subtree(tree, c) \subseteq Subtree(tree, ref) \ (Held(tree.nodes, ref) \union {ref})
         /\ Branch(tree.nodes, c, Subtree(tree, c))
<1> DEFINE nodes == tree.nodes
           S == Subtree(tree, ref)
           T == S \ (Held(nodes, ref) \union {ref})
<1>1. /\ Lists(nodes) /\ \A p \in DOMAIN nodes : Held(nodes, p) \subseteq DOMAIN nodes /\ Held(nodes, p) \subseteq Nat
      /\ \A p, q \in DOMAIN nodes : p # q => Held(nodes, p) \intersect Held(nodes, q) = {}
  BY DEF Shaped, Lists
<1>2. Branch(nodes, ref, S)
  BY SubtreeBranch
<1>3. /\ S \subseteq DOMAIN nodes /\ ref \in S
      /\ \A p \in S : Held(nodes, p) \subseteq S \ {ref}
  BY <1>2 DEF Branch
<1>4. s \in S /\ s # ref /\ c \in DOMAIN nodes /\ c \in Nat
  BY <1>1, <1>3
<1>5. \A p \in S : p # ref => Held(nodes, p) \subseteq T
  BY <1>1, <1>3
<1>6. c \in T
  BY <1>4, <1>5
<1>7. \A p \in T : Has(tree, p) => \A k \in Kids(tree, p) : Has(tree, k) => k \in T
  BY <1>5 DEF Kids, Held
<1> HIDE DEF T
<1>8. Subtree(tree, c) \subseteq T
  BY <1>1, <1>4, <1>6, <1>7, SubtreeLeast
<1> QED BY <1>4, <1>8, SubtreeBranch DEF T

\* What has been put together this way is one forest; in whole trees, one tree.
LEMMA FedShaped ==
  ASSUME NEW tree, Shaped(tree.nodes), NEW comp, Shaped(comp.nodes),
         NEW root, root = comp.rootNodeId, root \in DOMAIN comp.nodes,
         \A p \in DOMAIN comp.nodes : root \notin Held(comp.nodes, p),
         DOMAIN tree.nodes \intersect DOMAIN comp.nodes = {},
         NEW ref \in DOMAIN tree.nodes, NEW inst, Lists(inst), NEW F, NEW S, Fed(inst, tree, ref, comp, F, S),
         NEW whole, whole => \E a, b : IsWhole(tree.nodes, a) /\ IsWhole(comp.nodes, b)
  PROVE  /\ Shaped(inst) /\ root \in DOMAIN inst
         /\ \A p \in DOMAIN inst : root \notin Held(inst, p)
         /\ whole => IsWhole(inst, {root})
<1> DEFINE nodes == tree.nodes
           own == Subtree(comp, comp.rootNodeId)
           N == DOMAIN nodes
           C == comp.nodes
           Under(x) == \E f \in F : \E c \in Held(nodes, S[f]) : x \in Subtree(tree, c)
           under == {x \in DOMAIN inst : Under(x)}
<1>1. /\ \A p \in N : /\ nodes[p].children \in Seq(Nat) /\ IsInjective(nodes[p].children)
                      /\ Held(nodes, p) \subseteq N
      /\ \A p, q \in N : p # q => Held(nodes, p) \intersect Held(nodes, q) = {}
      /\ \A p, q \in DOMAIN C : p # q => Held(C, p) \intersect Held(C, q) = {}
      /\ Founded(nodes) /\ Founded(C)
  BY DEF Shaped, Lists
<1>2. /\ F \subseteq own \ {root}
      /\ \A f \in F : C[f].moduleId = "slot-outlet" /\ S[f] \in Held(nodes, ref)
      /\ \A f, g \in F : f # g => S[f] # S[g]
      /\ \A x : x \in DOMAIN inst <=> x \in own \ F \/ Under(x)
      /\ \A p \in own \ F :
            /\ inst[p].children \in Seq(Nat) /\ IsInjective(inst[p].children)
            /\ \A x : x \in Held(inst, p) <=> \/ x \in Held(C, p) \ F
                                              \/ \E f \in F \intersect Held(C, p) : x \in Held(nodes, S[f])
            /\ inst[p].moduleId = C[p].moduleId
      /\ \A id \in DOMAIN inst \ own : inst[id] = nodes[id]
  BY DEF Fed
<1>3. Branch(C, root, own)
  BY SubtreeBranch
<1>4. /\ own \subseteq DOMAIN C /\ root \in own
      /\ \A p \in own : Held(C, p) \subseteq own \ {root}
      /\ \A x \in own \ {root} : \E p \in own : x \in Held(C, p)
  BY <1>3 DEF Branch
<1>5. \A x : x \in under <=> Under(x)
  BY <1>2
<1>6. \A f \in F : S[f] \in N
  BY <1>1, <1>2
<1>7. ASSUME NEW x \in under
      PROVE  /\ x \in N /\ x \notin own /\ x \in DOMAIN inst /\ inst[x] = nodes[x]
             /\ x \notin Held(nodes, ref) /\ x # ref
             /\ Held(inst, x) = Held(nodes, x) /\ Held(nodes, x) \subseteq under
  <2>1. PICK f, c : f \in F /\ c \in Held(nodes, S[f]) /\ x \in Subtree(tree, c)
    BY <1>5
  <2>2. /\ Subtree(tree, c) \subseteq Subtree(tree, ref) \ (Held(nodes, ref) \union {ref})
        /\ Branch(nodes, c, Subtree(tree, c))
    BY <1>2, <2>1, UnderSlots
  <2>3. x \in N /\ Held(nodes, x) \subseteq Subtree(tree, c) /\ x \notin Held(nodes, ref) /\ x # ref
    BY <2>1, <2>2 DEF Branch
  <2>4. x \notin own /\ x \in DOMAIN inst /\ inst[x] = nodes[x]
    BY <1>2, <1>4, <2>3
  <2>5. Held(nodes, x) \subseteq under
    BY <1>5, <2>1, <2>3
  <2> QED BY <2>3, <2>4, <2>5 DEF Held
<1>8. \A f \in F : Held(nodes, S[f]) \subseteq under /\ S[f] \notin under
  <2>1. SUFFICES ASSUME NEW f \in F, NEW c \in Held(nodes, S[f]) PROVE c \in under
    BY <1>2, <1>7
  <2>2. Branch(nodes, c, Subtree(tree, c))
    BY <1>2, UnderSlots
  <2> QED BY <1>5, <2>2 DEF Branch
<1>9. DOMAIN inst = (own \ F) \union under /\ N \intersect own = {}
  BY <1>2, <1>4, <1>5
<1> HIDE DEF Under, under, own
<1>10. ASSUME NEW p \in DOMAIN inst
       PROVE  /\ IsInjective(inst[p].children)
              /\ Held(inst, p) \subseteq DOMAIN inst
              /\ root \notin Held(inst, p)
  <2>1. CASE p \in under
    BY <1>1, <1>4, <1>7, <1>9, <2>1
  <2>2. CASE p \in own \ F
    BY <1>2, <1>4, <1>7, <1>8, <1>9, <2>2
  <2> QED BY <1>9, <2>1, <2>2
<1>11. ASSUME NEW p \in DOMAIN inst, NEW q \in DOMAIN inst, p # q,
              NEW x, x \in Held(inst, p), x \in Held(inst, q)
       PROVE  FALSE
  <2>1. CASE p \in under /\ q \in under
    BY <1>1, <1>7, <1>11, <2>1
  <2>2. ASSUME NEW r \in own \ F, NEW s \in under, x \in Held(inst, r), x \in Held(inst, s)
        PROVE  FALSE
    <3>1. x \in Held(nodes, s) /\ s \in N /\ x \in N
      BY <1>1, <1>7, <2>2
    <3>2. x \notin own
      BY <1>9, <3>1
    <3>3. PICK f \in F : x \in Held(nodes, S[f])
      BY <1>2, <1>4, <2>2, <3>2
    <3>4. S[f] # s
      BY <1>8
    <3> QED BY <1>1, <1>6, <3>1, <3>3, <3>4
  <2>3. CASE p \in own \ F /\ q \in own \ F
    <3>0. Held(C, p) \intersect Held(C, q) = {}
      BY <1>1, <1>4, <1>11, <2>3
    <3>1. \A r \in own \ F : x \in Held(inst, r) =>
             \/ x \in own /\ x \in Held(C, r)
             \/ x \notin own /\ \E f \in F \intersect Held(C, r) : x \in Held(nodes, S[f])
      BY <1>2, <1>4, <1>7, <1>8
    <3>2. CASE x \in own
      BY <1>11, <2>3, <3>0, <3>1, <3>2
    <3>3. CASE x \notin own
      <4>1. PICK f \in F \intersect Held(C, p) : x \in Held(nodes, S[f])
        BY <1>11, <2>3, <3>1, <3>3
      <4>2. PICK g \in F \intersect Held(C, q) : x \in Held(nodes, S[g])
        BY <1>11, <2>3, <3>1, <3>3
      <4>3. S[f] # S[g]
        BY <1>2, <3>0, <4>1, <4>2
      <4> QED BY <1>1, <1>6, <4>1, <4>2, <4>3
    <3> QED BY <3>2, <3>3
  <2> QED BY <1>9, <1>11, <2>1, <2>2, <2>3
<1>12. Founded(inst)
  <2> SUFFICES ASSUME NEW set \in SUBSET DOMAIN inst, set # {}
               PROVE  \E top \in set : \A p \in set : top \notin Held(inst, p)
    BY DEF Founded
  <2>1. CASE set \intersect own = {}
    <3>1. set \subseteq under /\ set \subseteq N
      BY <1>7, <1>9, <2>1
    <3>2. PICK top \in set : \A p \in set : top \notin Held(nodes, p)
      BY <1>1, <3>1 DEF Founded
    <3> QED BY <1>7, <3>1, <3>2
  <2>2. CASE set \intersect own # {}
    <3>1. set \intersect own \in SUBSET DOMAIN C
      BY <1>4
    <3>2. PICK top \in set \intersect own : \A p \in set \intersect own : top \notin Held(C, p)
      BY <1>1, <2>2, <3>1 DEF Founded
    <3>3. \A p \in set : top \notin Held(inst, p)
      BY <1>2, <1>7, <1>8, <1>9, <3>2
    <3> QED BY <3>2, <3>3
  <2> QED BY <2>1, <2>2
<1>13. Shaped(inst)
  <2>1. \A p, q \in DOMAIN inst : p # q => Held(inst, p) \intersect Held(inst, q) = {}
    BY <1>11
  <2> QED BY <1>10, <1>12, <2>1 DEF Shaped
<1>14. root \in DOMAIN inst
  BY <1>2, <1>4, <1>9
<1>15. ASSUME whole PROVE IsWhole(inst, {root})
  <2>1. PICK a, b : IsWhole(nodes, a) /\ IsWhole(C, b)
    BY <1>15
  <2>2. \A f \in F : Held(C, f) = {}
    BY <1>2, <1>4, <2>1 DEF IsWhole, Held, ToSet
  <2>3. ASSUME NEW x \in DOMAIN inst, x # root
        PROVE  \E p \in DOMAIN inst : x \in Held(inst, p)
    <3>1. CASE x \in own \ F
      BY <1>2, <1>4, <1>9, <2>2, <2>3, <3>1
    <3>2. CASE x \in under
      <4>1. PICK f, c : f \in F /\ c \in Held(nodes, S[f]) /\ x \in Subtree(tree, c)
        BY <1>5, <3>2 DEF Under
      <4>2. CASE x = c
        <5>1. PICK p \in own \ F : f \in Held(C, p)
          BY <1>2, <1>4, <2>2, <4>1
        <5> QED BY <1>2, <1>9, <4>1, <4>2, <5>1
      <4>3. CASE x # c
        <5>1. Branch(nodes, c, Subtree(tree, c))
          BY <1>2, <4>1, UnderSlots
        <5>2. PICK p \in Subtree(tree, c) : x \in Held(nodes, p)
          BY <4>1, <4>3, <5>1 DEF Branch
        <5>3. p \in under
          BY <1>5, <4>1, <5>2 DEF Under
        <5> QED BY <1>7, <5>2, <5>3
      <4> QED BY <4>2, <4>3
    <3> QED BY <1>9, <3>1, <3>2
  <2>4. ASSUME NEW x \in DOMAIN inst, inst[x].moduleId = "slot-outlet"
        PROVE  inst[x].children = <<>>
    <3>1. CASE x \in own \ F
      <4>1. Held(C, x) = {}
        BY <1>2, <1>4, <2>1, <2>4, <3>1 DEF IsWhole, Held, ToSet
      <4>2. Held(inst, x) = {} /\ inst[x].children \in Seq(Nat)
        BY <1>2, <3>1, <4>1
      <4> QED BY <4>2, NoMembers DEF Held
    <3>2. CASE x \in under
      BY <1>7, <2>1, <2>4, <3>2 DEF IsWhole
    <3> QED BY <1>9, <3>1, <3>2
  <2> QED BY <2>3, <2>4 DEF IsWhole, Held
<1> QED BY <1>10, <1>13, <1>14, <1>15

-----------------------------------------------------------------------------
\* Detaching.

\* detachComponentRef: the component's copy takes the ref's place.
LEMMA DetachRefGrows ==
  ASSUME NEW n \in Nat, NEW tree, IsDocument(tree, n), NEW whole, Grown(tree, whole),
         NEW comp, IsDocument(comp, n), Grown(comp, whole),
         DOMAIN tree.nodes \intersect DOMAIN comp.nodes = {},
         \A o, p \in Outlets(comp) : o # p => comp.nodes[o].slotName # comp.nodes[p].slotName,
         NEW ref \in DOMAIN tree.nodes, ref # tree.rootNodeId, CanDetach(tree, ref, comp)
  PROVE  Regrown(DetachRef(tree, ref, comp, n), tree, n, whole)
<1> DEFINE root == tree.rootNodeId
           nodes == tree.nodes
           top == comp.rootNodeId
           inst == Instantiated(tree, ref, comp)
           ids == DOMAIN inst
           map == FreshIds(ids, n)
           copied == Copies(inst, ids, map)
           body == map[top]
           inserted == copied[body].children
           ins == ToSet(inserted)
           parent == SiblingAfter(tree, ref).parentId
           at == IndexOf(nodes[parent].children, ref)
           B == Subtree(tree, ref)
           kept == Restrict(nodes, DOMAIN nodes \ B)
           kids == kept[parent].children
           others == Keep(kids, ToSet(kids) \ {ref})
           joined == Splice(others, at, inserted)
           placed == [kept EXCEPT ![parent].children = joined]
           rest == [kept EXCEPT ![parent].children = others]
           added == Restrict(copied, DOMAIN copied \ {body})
           both == Over(added, placed)
           graft == [id \in DOMAIN both |-> IF id \in ins THEN [both[id] EXCEPT !.parentId = parent] ELSE both[id]]
           indexed == ReindexNodeParents(both)
           m == n + Cardinality(ids)
<1>1. /\ Shaped(nodes) /\ Cached(nodes) /\ Lists(nodes) /\ DOMAIN nodes \subseteq 1..(n - 1)
      /\ \A p \in DOMAIN nodes :
            /\ p \in Nat /\ nodes[p] \in Node(n)
            /\ nodes[p].children \in Seq(Nat) /\ IsInjective(nodes[p].children)
            /\ ToSet(nodes[p].children) = Held(nodes, p)
            /\ Held(nodes, p) \subseteq DOMAIN nodes
      /\ tree = [rootNodeId |-> tree.rootNodeId, nodes |-> tree.nodes]
  BY GrownNodes DEF Grown
<1>2. /\ inst = Instantiated(tree, ref, comp) /\ DOMAIN inst \subseteq 1..(n - 1) /\ \A id \in DOMAIN inst : inst[id] \in Node(n)
  BY InstantiatedIs DEF Instance
<1>3. Feeds(inst, tree, ref, comp)
  BY InstantiatedFeeds
<1> HIDE DEF inst
<1>4. Lists(inst)
  BY <1>2, NodesList
<1>5. PICK F, S : Fed(inst, tree, ref, comp, F, S)
  BY <1>3 DEF Feeds
<1>6. /\ Shaped(comp.nodes) /\ top \in DOMAIN comp.nodes
      /\ \A p \in DOMAIN comp.nodes : top \notin Held(comp.nodes, p)
  BY DocumentLists DEF Grown, Held
<1>7. whole => \E a, b : IsWhole(tree.nodes, a) /\ IsWhole(comp.nodes, b)
  BY DEF Grown
<1>8. /\ Shaped(inst) /\ top \in ids
      /\ \A p \in ids : top \notin Held(inst, p)
      /\ whole => IsWhole(inst, {top})
  <2> HIDE DEF ids, nodes
  <2>1. Shaped(tree.nodes)
    BY <1>1 DEF nodes
  <2> QED BY <1>4, <1>5, <1>6, <1>7, <2>1, FedShaped DEF ids
<1>9. Closed(inst, ids)
  BY <1>8 DEF Closed, Shaped
<1> HIDE DEF ids
<1>10. /\ Renames(map, ids) /\ (\A i \in ids : map[i] \in Later(n))
       /\ Mirror(copied, inst, ids, map) /\ Shaped(copied) /\ Cached(copied)
       /\ DOMAIN copied \subseteq Later(n) /\ IsFiniteSet(ids)
       /\ \A x \in DOMAIN copied : copied[x] \in Node(m)
  <2> HIDE DEF map, copied
  <2> QED BY <1>2, <1>8, <1>9, FreshCopies DEF map, copied
<1> HIDE DEF map, copied
<1>11. /\ body \in DOMAIN copied
       /\ \A x \in DOMAIN copied : body \notin Held(copied, x)
  <2>1. body \in DOMAIN copied
    BY <1>8, <1>10 DEF Mirror
  <2>2. \A t \in ids : (\A p \in ids : t \notin Held(inst, p))
                         => \A x \in DOMAIN copied : map[t] \notin Held(copied, x)
    BY <1>8, <1>9, <1>10, MirrorGrows
  <2> QED BY <1>8, <2>1, <2>2
<1>12. whole => IsWhole(copied, {body})
  <2> SUFFICES ASSUME whole PROVE IsWhole(copied, {body})
    OBVIOUS
  <2> DEFINE tops == {top}
  <2>1. \A x \in ids \ tops : \E p \in ids : x \in Held(inst, p)
    BY <1>8 DEF IsWhole, Held, ids
  <2>2. \A x \in ids : inst[x].moduleId = "slot-outlet" => inst[x].children = <<>>
    BY <1>8 DEF IsWhole, ids
  <2>3. {map[t] : t \in tops \intersect ids} = {body}
    BY <1>8
  <2> HIDE DEF tops, body
  <2>4. IsWhole(copied, {map[t] : t \in tops \intersect ids})
    BY <1>9, <1>10, <2>1, <2>2, MirrorWhole
  <2> QED BY <2>3, <2>4
<1> HIDE DEF body
<1>13. /\ inserted \in Seq(Nat) /\ IsInjective(inserted) /\ ins = Held(copied, body)
       /\ ins \subseteq DOMAIN copied \ {body}
  BY <1>10, <1>11 DEF Shaped, Lists, Held
<1>14. /\ DOMAIN added = DOMAIN copied \ {body} /\ \A id \in DOMAIN added : added[id] = copied[id]
  BY DEF Restrict
<1> HIDE DEF added, inserted, ins
<1>15. \A p \in DOMAIN added : Held(added, p) = Held(copied, p) /\ Held(copied, p) \subseteq DOMAIN added
  BY <1>10, <1>11, <1>14 DEF Shaped, Held
<1>16. Shaped(added) /\ Cached(added)
  <2>1. Lists(added)
    <3>1. IsFiniteSet(DOMAIN copied) /\ DOMAIN copied \subseteq Nat
      BY <1>10 DEF Shaped, Lists
    <3>2. IsFiniteSet(DOMAIN added)
      BY <1>14, <3>1, FS_Subset
    <3> QED BY <1>10, <1>14, <3>1, <3>2 DEF Shaped, Lists
  <2>2. \A p \in DOMAIN added : IsInjective(added[p].children)
    BY <1>10, <1>14 DEF Shaped
  <2>3. Shaped(added)
    BY <1>10, <1>14, <1>15, <2>1, <2>2, ShapedLess
  <2> QED BY <1>10, <1>14, <1>15, <2>3 DEF Cached
<1>17. whole => IsWhole(added, ins)
  <2> SUFFICES ASSUME whole PROVE IsWhole(added, ins)
    OBVIOUS
  <2>1. ASSUME NEW x \in DOMAIN added \ ins PROVE \E p \in DOMAIN added : x \in Held(added, p)
    <3>1. PICK p \in DOMAIN copied : x \in Held(copied, p)
      BY <1>12, <1>14, <2>1 DEF IsWhole, Held
    <3>2. p # body
      BY <1>13, <2>1, <3>1
    <3> QED BY <1>14, <1>15, <3>1, <3>2
  <2> QED BY <1>12, <1>14, <2>1 DEF IsWhole, Held
<1>18. Branch(nodes, ref, B)
  BY <1>1, SubtreeBranch
<1>19. /\ parent \in DOMAIN nodes /\ parent \notin B /\ parent \notin ins /\ ref \in Held(nodes, parent)
       /\ Contains(nodes[parent].children, ref)
  <2>1. parent \in DOMAIN nodes /\ Contains(nodes[parent].children, ref)
    BY SiblingListed DEF CanDetach
  <2>2. ref \in Held(nodes, parent)
    BY <1>1, <2>1, ContainsIs
  <2>3. parent \notin B
    BY <1>18, <2>2 DEF Branch
  <2>4. parent \notin Later(n)
    BY <1>1, <2>1 DEF Later
  <2> QED BY <1>10, <1>13, <2>1, <2>2, <2>3, <2>4
<1>20. at \in Int
  <2> DEFINE list == nodes[parent].children
  <2>1. list \in Seq(Nat)
    BY <1>1, <1>19
  <2> HIDE DEF list
  <2>2. IndexOf(list, ref) \in Int
    BY <2>1, IndexOfIs
  <2> QED BY <2>2 DEF list
<1>21. Open(tree, parent, whole)
  <2> HIDE DEF parent
  <2> QED BY <1>19, BesideOpen
<1> HIDE DEF parent, at
<1>22. DOMAIN kept = DOMAIN nodes \ B /\ parent \in DOMAIN kept /\ \A p \in DOMAIN kept : kept[p] = nodes[p]
  BY <1>19 DEF Restrict
<1> HIDE DEF kept, B
<1>23. /\ others \in Seq(Nat) /\ IsInjective(others) /\ ToSet(others) = Held(nodes, parent) \ {ref}
  <2> DEFINE set == ToSet(kids) \ {ref}
  <2>1. kids \in Seq(Nat) /\ IsInjective(kids) /\ ToSet(kids) = Held(nodes, parent) /\ set = Held(nodes, parent) \ {ref}
    BY <1>1, <1>19, <1>22
  <2> HIDE DEF kids, set
  <2>2. /\ Keep(kids, set) \in Seq(Nat) /\ IsInjective(Keep(kids, set))
        /\ ToSet(Keep(kids, set)) = ToSet(kids) \intersect set
    BY <2>1, KeptOnce
  <2> QED BY <2>1, <2>2 DEF set
<1> HIDE DEF others
<1>24. ToSet(others) \intersect ins = {}
  <2>1. ToSet(others) \subseteq DOMAIN nodes
    BY <1>1, <1>19, <1>23
  <2>2. DOMAIN nodes \intersect Later(n) = {}
    BY <1>1 DEF Later
  <2> QED BY <1>10, <1>13, <2>1, <2>2
<1>25. /\ joined \in Seq(Nat) /\ IsInjective(joined) /\ ToSet(joined) = (Held(nodes, parent) \ {ref}) \union ins
  BY <1>13, <1>20, <1>23, <1>24, SplicedOnce DEF ins
<1> HIDE DEF joined
<1>26. /\ DOMAIN placed = DOMAIN kept /\ DOMAIN rest = DOMAIN kept
       /\ \A p \in DOMAIN kept : /\ placed[p] = IF p = parent THEN [nodes[p] EXCEPT !.children = joined] ELSE nodes[p]
                                 /\ rest[p] = IF p = parent THEN [nodes[p] EXCEPT !.children = others] ELSE nodes[p]
  BY <1>22
<1> HIDE DEF placed, rest
<1>27. \A p \in DOMAIN kept :
          /\ placed[p].children = (IF p = parent THEN joined ELSE nodes[p].children)
          /\ rest[p].children = (IF p = parent THEN others ELSE nodes[p].children)
          /\ placed[p].parentId = nodes[p].parentId /\ rest[p].parentId = nodes[p].parentId
          /\ placed[p].moduleId = nodes[p].moduleId /\ rest[p].moduleId = nodes[p].moduleId
          /\ placed[p] \in Node(n)
  <2> SUFFICES ASSUME NEW p \in DOMAIN kept
               PROVE  /\ placed[p].children = (IF p = parent THEN joined ELSE nodes[p].children)
                      /\ rest[p].children = (IF p = parent THEN others ELSE nodes[p].children)
                      /\ placed[p].parentId = nodes[p].parentId /\ rest[p].parentId = nodes[p].parentId
                      /\ placed[p].moduleId = nodes[p].moduleId /\ rest[p].moduleId = nodes[p].moduleId
                      /\ placed[p] \in Node(n)
    OBVIOUS
  <2>1. nodes[p] \in Node(n)
    BY <1>1, <1>22
  <2>2. CASE p # parent
    BY <1>26, <2>1, <2>2
  <2>3. CASE p = parent
    <3> DEFINE node == nodes[p]
    <3>1. node \in Node(n)
      BY <2>1
    <3>2. placed[p] = [node EXCEPT !.children = joined] /\ rest[p] = [node EXCEPT !.children = others]
      BY <1>26, <2>3
    <3> HIDE DEF node
    <3>3. [node EXCEPT !.children = joined] \in Node(n)
      BY <1>25, <3>1 DEF Node
    <3>4. /\ [node EXCEPT !.children = joined].children = joined
          /\ [node EXCEPT !.children = joined].parentId = node.parentId
          /\ [node EXCEPT !.children = joined].moduleId = node.moduleId
      BY <3>1, Relisted
    <3>5. /\ [node EXCEPT !.children = others].children = others
          /\ [node EXCEPT !.children = others].parentId = node.parentId
          /\ [node EXCEPT !.children = others].moduleId = node.moduleId
      BY <3>1, Relisted
    <3> QED BY <2>3, <3>2, <3>3, <3>4, <3>5 DEF node
  <2> QED BY <2>2, <2>3
<1>28. Pruned(rest, nodes, B, ref)
  <2>1. \A p \in DOMAIN rest : p # parent => ref \notin Held(nodes, p)
    BY <1>1, <1>19, <1>22, <1>26 DEF Shaped
  <2>2. nodes[parent].children = <<>> => FALSE
    BY <1>19 DEF Held, ToSet
  <2> QED BY <1>1, <1>22, <1>23, <1>26, <1>27, <2>1, <2>2 DEF Pruned, Held
<1>29. /\ Shaped(rest) /\ Cached(rest)
       /\ \A roots : IsWhole(nodes, roots) => IsWhole(rest, roots)
  BY <1>1, <1>18, <1>28, PrunedIs
<1>30. /\ DOMAIN rest \intersect DOMAIN added = {} /\ parent \in DOMAIN rest
       /\ DOMAIN both = DOMAIN rest \union DOMAIN added
       /\ \A id \in DOMAIN added : both[id] = copied[id]
       /\ \A id \in DOMAIN rest : both[id] = placed[id]
  <2>1. DOMAIN nodes \intersect Later(n) = {}
    BY <1>1 DEF Later
  <2>2. DOMAIN rest \intersect DOMAIN added = {} /\ parent \in DOMAIN rest
    BY <1>10, <1>14, <1>22, <1>26, <2>1
  <2>3. DOMAIN placed = DOMAIN rest
    BY <1>26
  <2>4. DOMAIN both = DOMAIN added \union DOMAIN placed
        /\ \A id \in DOMAIN both : both[id] = IF id \in DOMAIN added THEN added[id] ELSE placed[id]
    BY DEF Over
  <2> HIDE DEF both
  <2> QED BY <1>14, <2>2, <2>3, <2>4
<1>31. /\ DOMAIN graft = DOMAIN both
       /\ \A id \in DOMAIN both : graft[id] = IF id \in ins THEN [both[id] EXCEPT !.parentId = parent] ELSE both[id]
  OBVIOUS
<1> HIDE DEF both, graft
<1>32. m \in Nat /\ n <= m
  <2>1. Cardinality(ids) \in Nat
    BY <1>10, FS_CardinalityType
  <2> QED BY <2>1
<1> HIDE DEF m
<1>33. \A id \in DOMAIN both : both[id] \in Node(m)
  BY <1>10, <1>14, <1>26, <1>27, <1>30, <1>32, NodeLater
<1>34. \A id \in DOMAIN both : /\ graft[id].children = both[id].children
                               /\ graft[id].moduleId = both[id].moduleId
                               /\ graft[id].parentId = IF id \in ins THEN parent ELSE both[id].parentId
  <2> SUFFICES ASSUME NEW id \in DOMAIN both
               PROVE  /\ graft[id].children = both[id].children
                      /\ graft[id].moduleId = both[id].moduleId
                      /\ graft[id].parentId = IF id \in ins THEN parent ELSE both[id].parentId
    OBVIOUS
  <2> DEFINE node == both[id]
  <2>1. node \in Node(m)
    BY <1>33
  <2>2. graft[id] = IF id \in ins THEN [node EXCEPT !.parentId = parent] ELSE node
    BY <1>31
  <2> HIDE DEF node
  <2>3. /\ [node EXCEPT !.parentId = parent].children = node.children
        /\ [node EXCEPT !.parentId = parent].parentId = parent
        /\ [node EXCEPT !.parentId = parent].moduleId = node.moduleId
    BY <2>1, Rehung
  <2> QED BY <2>2, <2>3 DEF node
<1>35. Grafts(graft, rest, added, parent, ins)
  <2>1. ins \subseteq DOMAIN added /\ \A p \in DOMAIN added : Held(added, p) \intersect ins = {}
    <3>1. \A p \in DOMAIN added : p # body /\ p \in DOMAIN copied
      BY <1>14
    <3> QED BY <1>10, <1>11, <1>13, <1>14, <1>15, <3>1 DEF Shaped
  <2>2. Held(rest, parent) = Held(nodes, parent) \ {ref} /\ graft[parent].children = joined
    BY <1>22, <1>23, <1>26, <1>27, <1>30, <1>34 DEF Held
  <2>3. \A id \in DOMAIN rest : /\ id \notin ins
                                /\ id # parent => graft[id].children = rest[id].children
                                /\ graft[id].parentId = rest[id].parentId
                                /\ graft[id].moduleId = rest[id].moduleId
    BY <1>26, <1>27, <1>30, <1>34, <2>1
  <2>4. \A id \in DOMAIN added : /\ graft[id].children = added[id].children
                                 /\ graft[id].parentId = IF id \in ins THEN parent ELSE added[id].parentId
                                 /\ graft[id].moduleId = added[id].moduleId
    BY <1>14, <1>30, <1>34
  <2> QED BY <1>25, <1>30, <1>31, <2>1, <2>2, <2>3, <2>4 DEF Grafts, Held
<1>36. Shaped(graft)
  BY <1>16, <1>29, <1>35, Grafted
<1>37. whole => IsWhole(graft, {root})
  <2> SUFFICES ASSUME whole PROVE IsWhole(graft, {root})
    OBVIOUS
  <2>1. IsWhole(rest, {root}) /\ rest[parent].moduleId # "slot-outlet"
    BY <1>21, <1>22, <1>26, <1>27, <1>29 DEF Grown, Open
  <2> QED BY <1>17, <1>35, <2>1, GraftedWhole
<1>38. Shaped(both) /\ \A roots : IsWhole(graft, roots) => IsWhole(both, roots)
  <2>1. Alined(both, graft)
    BY <1>31, <1>34 DEF Alined
  <2> QED BY <1>36, <2>1, AlinedShaped
<1>39. /\ Shaped(indexed) /\ Cached(indexed) /\ DOMAIN indexed = DOMAIN both
       /\ \A roots : IsWhole(both, roots) => IsWhole(indexed, roots)
  BY <1>33, <1>38, ReindexShaped
<1>40. DOMAIN indexed \subseteq DOMAIN nodes \union Later(n)
  BY <1>10, <1>14, <1>22, <1>26, <1>30, <1>39
<1> DEFINE new == [rootNodeId |-> root, nodes |-> indexed]
<1>41. DetachRef(tree, ref, comp, n) = new
  <2>1. DetachRef(tree, ref, comp, n) = [tree EXCEPT !.nodes = indexed]
    BY DEF DetachRef, indexed, both, added, placed, joined, others, kids, kept, at, parent,
           inserted, body, copied, map, ids, inst, B
  <2> HIDE DEF indexed
  <2>2. [tree EXCEPT !.nodes = indexed] = new
    BY <1>1, SetNodes
  <2> QED BY <2>1, <2>2
<1> HIDE DEF indexed
<1>42. Regrown(new, tree, n, whole)
  BY <1>37, <1>38, <1>39, <1>40 DEF Regrown, Grown
<1> QED BY <1>41, <1>42

-----------------------------------------------------------------------------
\* The invariant, and what a tree edit keeps of it.

\* What has been left in two lists is a page or the clipboard; all the rest is
\* as the lemmas above want it, while no parent has been left stale.
Trees ==
    /\ Hit("shared") \subseteq Page \union {Null}
    /\ Hit("parent") = {} =>
         /\ \A d \in DOMAIN docs \ Hit("shared") : Grown(docs[d], Hit("slots") = {})
         /\ \A d, e \in DOMAIN docs \ Hit("shared") :
               d # e => DOMAIN docs[d].nodes \intersect DOMAIN docs[e].nodes = {}
         /\ Null \notin Hit("shared") => Clipped(clipboard, Hit("slots") = {})

\* What a state gives of its documents, as long as the next has lost no more.
LEMMA TreesNow ==
  ASSUME Trees, known \subseteq known', Hit("parent")' = {}, NEW whole, whole => Hit("slots")' = {}
  PROVE  /\ \A d \in DOMAIN docs \ Hit("shared")' : Grown(docs[d], whole)
         /\ \A d, e \in DOMAIN docs \ Hit("shared")' :
               d # e => DOMAIN docs[d].nodes \intersect DOMAIN docs[e].nodes = {}
         /\ Null \notin Hit("shared")' => Clipped(clipboard, whole)
<1>1. Hit("parent") = {} /\ Hit("shared") \subseteq Hit("shared")' /\ (whole => Hit("slots") = {})
  BY HitsStay
<1>2. /\ \A d \in DOMAIN docs \ Hit("shared") : Grown(docs[d], Hit("slots") = {})
      /\ \A d, e \in DOMAIN docs \ Hit("shared") :
            d # e => DOMAIN docs[d].nodes \intersect DOMAIN docs[e].nodes = {}
      /\ Null \notin Hit("shared") => Clipped(clipboard, Hit("slots") = {})
  BY <1>1 DEF Trees
<1>3. \A d \in DOMAIN docs \ Hit("shared")' : Grown(docs[d], whole)
  BY <1>1, <1>2 DEF Grown
<1>4. Null \notin Hit("shared")' => Clipped(clipboard, whole)
  BY <1>1, <1>2 DEF Clipped
<1> QED BY <1>1, <1>2, <1>3, <1>4

\* The target's tree is replaced, and every document swept if its outlets changed.
LEMMA CommitTrees ==
  ASSUME TypeOK, Trees, NEW n \in Nat, next <= n, NEW tree, IsDocument(tree, n),
         NEW slips, Commit(tree, n, slips),
         \A k \in slips : k[1] = "shared" => k[2] \in Page \union {Null},
         NEW whole, whole <=> Hit("slots")' = {},
         Hit("parent")' = {} /\ Target \notin Hit("shared")' => Regrown(tree, Tree, next, whole),
         Hit("parent")' = {} /\ Null \notin Hit("shared")' => Clipped(clipboard', whole)
  PROVE  Trees'
<1> DEFINE target == Target
           changed == target \in Component /\ OutletNames(docs[target]) # OutletNames(tree)
           site == [docs EXCEPT ![target] = tree]
           swept == IF changed THEN SyncAllRefs(site, target, n) ELSE [docs |-> site, next |-> n]
           lost == OutletsChanged(site, docs') \union {c \in {target} : NestedUse(site, c)}
           more == {<<"slots", c>> : c \in {c \in Component : changed /\ c \in lost}}
<1>1. docs' = swept.docs /\ known' = known \union slips \union more
  BY DEF Commit
<1>2. /\ next \in Nat /\ IsDocuments(docs, next) /\ target \in DOMAIN docs /\ Tree = docs[target]
      /\ IsDocuments(docs, n) /\ DOMAIN docs \subseteq Nat
  <2>1. next \in Nat /\ IsDocuments(docs, next) /\ target \in DOMAIN docs /\ Tree = docs[target]
    BY TypesAre, TargetIs
  <2>2. IsDocuments(docs, n)
    BY <2>1, DocumentsLater
  <2>3. DOMAIN docs \subseteq 1..(next - 1)
    BY <2>1, DocumentsAre
  <2> QED BY <2>1, <2>2, <2>3
<1> HIDE DEF target
<1>3. /\ site = [d \in DOMAIN docs |-> IF d = target THEN tree ELSE docs[d]]
      /\ DOMAIN site = DOMAIN docs /\ site[target] = tree /\ \A d \in DOMAIN docs : d # target => site[d] = docs[d]
  BY <1>2, DocumentsAre
<1>4. IsDocuments(site, n)
  BY <1>2, <1>3, DocumentsAre DEF IsDocuments
<1>5. changed => target \in DOMAIN site
  BY <1>2, <1>3
<1>6. whole /\ changed => \A x \in DOMAIN site : ~Nested(site[x], target)
  <2> SUFFICES ASSUME whole, changed PROVE \A x \in DOMAIN site : ~Nested(site[x], target)
    OBVIOUS
  <2>1. target \in Component /\ (NestedUse(site, target) => target \in lost)
    OBVIOUS
  <2>2. NestedUse(site, target) => <<"slots", target>> \in more
    BY <2>1
  <2> HIDE DEF lost, more, changed, site
  <2>3. NestedUse(site, target) => <<"slots", target>> \in known'
    BY <1>1, <2>2
  <2>4. NestedUse(site, target) => target \in Hit("slots")'
    <3> DEFINE k == <<"slots", target>>
    <3>1. k[1] = "slots" /\ k[2] = target
      OBVIOUS
    <3>2. NestedUse(site, target) => k \in known'
      BY <2>3
    <3> HIDE DEF k
    <3> QED BY <3>1, <3>2 DEF Hit
  <2>5. ~NestedUse(site, target)
    BY <2>4
  <2> QED BY <2>5 DEF NestedUse, Nested
<1>7. Hit("shared")' \subseteq Page \union {Null}
  <2>1. \A k \in more : k[1] # "shared"
    OBVIOUS
  <2> HIDE DEF more
  <2> QED BY <1>1, <2>1 DEF Hit, Trees
<1>8. known \subseteq known'
  BY <1>1
<1> HIDE DEF more, lost, site
<1>9. CASE Hit("parent")' # {}
  BY <1>7, <1>9 DEF Trees
<1>10. CASE Hit("parent")' = {}
  <2> DEFINE shared == Hit("shared")'
  <2>1. /\ \A d \in DOMAIN docs \ shared : Grown(docs[d], whole)
        /\ \A d, e \in DOMAIN docs \ shared :
              d # e => DOMAIN docs[d].nodes \intersect DOMAIN docs[e].nodes = {}
    BY <1>8, <1>10, TreesNow
  <2>2. target \notin shared => Regrown(tree, docs[target], next, whole)
    BY <1>2, <1>10 DEF target
  <2>3. Null \notin shared => Clipped(clipboard', whole)
    BY <1>10
  <2> HIDE DEF shared
  <2>4. \A d \in DOMAIN site \ shared : Grown(site[d], whole)
    BY <1>3, <2>1, <2>2 DEF Regrown
  <2>5. \A d, e \in DOMAIN site \ shared :
           d # e => DOMAIN site[d].nodes \intersect DOMAIN site[e].nodes = {}
    <3>1. \A d \in DOMAIN docs : DOMAIN docs[d].nodes \intersect Later(next) = {}
      <4> SUFFICES ASSUME NEW d \in DOMAIN docs PROVE DOMAIN docs[d].nodes \intersect Later(next) = {}
        OBVIOUS
      <4>1. DOMAIN docs[d].nodes \subseteq 1..(next - 1)
        BY <1>2, DocumentsAre, DocumentLists DEF Sound
      <4> QED BY <1>2, <4>1 DEF Later
    <3>2. target \notin shared => DOMAIN tree.nodes \subseteq DOMAIN docs[target].nodes \union Later(next)
      BY <2>2 DEF Regrown
    <3> QED BY <1>2, <1>3, <2>1, <3>1, <3>2
  <2>6. /\ DOMAIN docs' = DOMAIN site
        /\ \A d \in DOMAIN site \ shared : Grown(docs'[d], whole)
        /\ \A d, e \in DOMAIN site \ shared :
              d # e => DOMAIN docs'[d].nodes \intersect DOMAIN docs'[e].nodes = {}
    <3>1. CASE ~changed
      BY <1>1, <2>4, <2>5, <3>1
    <3>2. CASE changed
      <4> DEFINE now == SyncAllRefs(site, target, n)
      <4>1. docs' = now.docs
        BY <1>1, <3>2
      <4>2. target \in DOMAIN site /\ (whole => \A x \in DOMAIN site : ~Nested(site[x], target))
        BY <1>5, <1>6, <3>2
      <4> HIDE DEF now, swept, changed
      <4>3. ASSUME NEW d \in DOMAIN site \ shared, NEW e \in DOMAIN site \ shared
            PROVE  Tended(now, site, target, n, d, e, whole)
        <5>1. Sweepable(site, target, n, d, e, whole)
          BY <1>4, <2>4, <4>2, <4>3 DEF Sweepable
        <5> QED BY <2>5, <4>3, <5>1, SyncAllRefsTends DEF now
      <4>4. DOMAIN docs' = DOMAIN site
        <5>1. SweptTo(now, site, n)
          BY <1>4, <4>2, SyncAllRefsIs DEF now
        <5> QED BY <4>1, <5>1 DEF SweptTo, Alike
      <4>5. ASSUME NEW d \in DOMAIN site \ shared PROVE Grown(docs'[d], whole)
        <5>1. Sweeping(now.docs[d], site[d], target, n, whole)
          BY <4>3 DEF Tended
        <5> QED BY <4>1, <5>1 DEF Sweeping, Grown
      <4>6. ASSUME NEW d \in DOMAIN site \ shared, NEW e \in DOMAIN site \ shared, d # e
            PROVE  DOMAIN docs'[d].nodes \intersect DOMAIN docs'[e].nodes = {}
        BY <4>1, <4>3, <4>6 DEF Tended
      <4> QED BY <4>4, <4>5, <4>6
    <3> QED BY <3>1, <3>2
  <2> QED BY <1>7, <2>3, <2>6 DEF Trees, shared
<1> QED BY <1>9, <1>10

-----------------------------------------------------------------------------
\* The actions on the active tree.

\* What the edited tree and the clipboard are known to be.
LEMMA BeforeCommit ==
  ASSUME TypeOK, Trees, NEW n, NEW tree, NEW slips, Commit(tree, n, slips),
         Hit("parent")' = {}, NEW whole, whole <=> Hit("slots")' = {}
  PROVE  /\ Target \notin Hit("shared")' => Grown(Tree, whole)
         /\ Null \notin Hit("shared")' => Clipped(clipboard, whole)
<1>1. known \subseteq known'
  BY DEF Commit
<1>2. Target \in DOMAIN docs /\ Tree = docs[Target]
  BY TargetIs
<1> QED BY <1>1, <1>2, TreesNow

\* An edit that only ever makes a good tree of a good one.
LEMMA CommitGrows ==
  ASSUME TypeOK, Trees, NEW n \in Nat, next <= n, NEW tree, IsDocument(tree, n),
         NEW slips, Commit(tree, n, slips), \A k \in slips : k[1] # "shared", clipboard' = clipboard,
         \A w \in BOOLEAN : Grown(Tree, w) => Regrown(tree, Tree, next, w)
  PROVE  Trees'
<1> DEFINE whole == Hit("slots")' = {}
<1>1. whole \in BOOLEAN /\ (whole <=> Hit("slots")' = {})
  OBVIOUS
<1> HIDE DEF whole
<1>2. ASSUME Hit("parent")' = {} PROVE /\ Target \notin Hit("shared")' => Grown(Tree, whole)
                                       /\ Null \notin Hit("shared")' => Clipped(clipboard, whole)
  BY <1>1, <1>2, BeforeCommit
<1>3. Hit("parent")' = {} /\ Target \notin Hit("shared")' => Regrown(tree, Tree, next, whole)
  BY <1>1, <1>2
<1>4. Hit("parent")' = {} /\ Null \notin Hit("shared")' => Clipped(clipboard', whole)
  BY <1>2
<1> QED BY <1>1, <1>3, <1>4, CommitTrees

\* Nothing is selected twice.
LEMMA SelectionOnce ==
  ASSUME TypeOK, NEW ids \in Selection
  PROVE  IsInjective(ids)
<1> DEFINE nodes == Tree.nodes
           free == {id \in DOMAIN nodes : nodes[id].moduleId # "slot-instance"}
<1>1. ids \in {<<id>> : id \in DOMAIN nodes} \union {pair \in free \X free : pair[1] < pair[2]}
  BY DEF Selection
<1>0. free \subseteq Nat
  <2>1. next \in Nat /\ IsDocument(Tree, next)
    BY TypesAre, TargetIs
  <2> QED BY <2>1, DocumentLists
<1> HIDE DEF free, nodes
<1>2. CASE \E id : ids = <<id>>
  BY <1>2 DEF IsInjective
<1>3. CASE ids \in {pair \in free \X free : pair[1] < pair[2]}
  <2>1. PICK a \in free, b \in free : ids = <<a, b>>
    BY <1>3
  <2>2. a < b
    BY <1>3, <2>1
  <2>3. a \in Nat /\ b \in Nat
    BY <1>0
  <2>4. a # b
    BY <2>2, <2>3
  <2> QED BY <2>1, <2>4 DEF IsInjective
<1> QED BY <1>1, <1>2, <1>3

-----------------------------------------------------------------------------
\* insertModule keeps the trees.
LEMMA InsertModuleTrees ==
  ASSUME Inv, Trees, NEW target \in Ids, NEW module \in Module, InsertModule(target, module)
  PROVE  Trees'
<1> DEFINE to == InsertLocation(Tree, target)
           node == [NewNode(module) EXCEPT
                       !.slotName = IF module = "slot-outlet" THEN "children" ELSE ""]
           new == InsertNode(Tree, next, node, to.parentId, to.index)
           m == next + 1
           none == {}
<1>1. to.parentId # Null /\ Commit(new, m, none) /\ clipboard' = clipboard
  BY DEF InsertModule
<1>2. TypeOK /\ next \in Nat /\ IsDocument(Tree, next) /\ target \in DOMAIN Tree.nodes
  BY TypesAre, TargetIs DEF Inv, Ids
<1>3. to.parentId \in DOMAIN Tree.nodes /\ to.index \in Int
  <2>1. to \in Place(Tree)
    BY <1>2, InsertLocationIs
  <2> QED BY <1>1, <2>1 DEF Place
<1>4. \A w \in BOOLEAN : Grown(Tree, w) => Open(Tree, to.parentId, w)
  BY <1>1, <1>2, InsertLocationOpen
<1>5. m \in Nat /\ next < m /\ next <= m
  BY <1>2
<1>6. node \in Node(m) /\ node.children = <<>>
  <2> DEFINE root == Tree.rootNodeId
  <2>1. m # 0 /\ module \in Module \union {"body", "ref", "slot-instance"}
    BY <1>2
  <2>2. NodeOK(NewNode(module), root, m)
    BY <1>5, <2>1, NewNodeOK
  <2> QED BY <2>2, NameAssumption DEF NodeOK, Node, NewNode, Module
<1> HIDE DEF to, node, m
<1>7. IsDocument(new, m)
  <2>1. Grows(new, Tree, m, UsedBy(node), {id \in {next} : node.moduleId = "outlet"})
    BY <1>2, <1>3, <1>5, <1>6, InsertNodeIs
  <2> QED BY <2>1 DEF Grows
<1>8. \A w \in BOOLEAN : Grown(Tree, w) => Regrown(new, Tree, next, w)
  BY <1>2, <1>3, <1>4, <1>6, InsertNodeGrows
<1> HIDE DEF new
<1>9. \A k \in none : k[1] # "shared"
  OBVIOUS
<1> HIDE DEF none
<1> QED BY <1>1, <1>2, <1>5, <1>7, <1>8, <1>9, CommitGrows

\* No slip of the slots' is one that shares.
LEMMA SlotSlipsShareNothing ==
  ASSUME NEW ids PROVE \A k \in SlotSlips(ids) : k[1] # "shared"
  BY DEF SlotSlips

\* deleteNodes keeps the trees.
LEMMA DeleteNodesTrees ==
  ASSUME Inv, Trees, NEW ids \in Selection, DeleteNodes(ids)
  PROVE  Trees'
<1> DEFINE list == Keep(ids, Ids \ {Tree.rootNodeId})
           gone == DeleteSubtrees(Tree, list)
           slips == SlotSlips(ids)
<1>1. Commit(gone, next, slips) /\ clipboard' = clipboard
  BY DEF DeleteNodes
<1>2. TypeOK /\ next \in Nat /\ next <= next /\ IsDocument(Tree, next)
  BY TypesAre, TargetIs DEF Inv
<1>3. list \in Seq(Nat) /\ Tree.rootNodeId \notin ToSet(list)
  BY <1>2, SelectedIs
<1> HIDE DEF list
<1>4. IsDocument(gone, next)
  <2>1. Removed(gone, Tree, next, ToSet(list))
    BY <1>2, <1>3, DeleteSubtreesIs
  <2> QED BY <2>1 DEF Removed, Like, Grows
<1>5. \A w \in BOOLEAN : Grown(Tree, w) => Regrown(gone, Tree, next, w)
  BY <1>2, <1>3, DeleteSubtreesGrows
<1> HIDE DEF gone
<1>6. \A k \in slips : k[1] # "shared"
  BY SlotSlipsShareNothing
<1> HIDE DEF slips
<1> QED BY <1>1, <1>2, <1>4, <1>5, <1>6, CommitGrows

\* duplicateNodes keeps the trees.
LEMMA DuplicateNodesTrees ==
  ASSUME Inv, Trees, NEW ids \in Selection, DuplicateNodes(ids)
  PROVE  Trees'
<1> DEFINE list == Keep(ids, {id \in Ids : id # Tree.rootNodeId /\ ~SubtreeHasOutlet(Tree, id)})
           done == DuplicateAll(Tree, list, next)
           slips == SlotSlips(ids)
           m == done.next
           new == done.tree
<1>1. Commit(new, m, slips) /\ clipboard' = clipboard
  BY DEF DuplicateNodes
<1>2. TypeOK /\ next \in Nat /\ IsDocument(Tree, next)
  BY TypesAre, TargetIs DEF Inv
<1>3. list \in Seq(DOMAIN Tree.nodes)
      /\ \A id \in ToSet(list) : id # Tree.rootNodeId /\ ~SubtreeHasOutlet(Tree, id)
  BY <1>2, SelectedIs DEF Ids
<1> HIDE DEF list
<1>4. m \in Nat /\ next <= m /\ Like(new, Tree, m)
  BY <1>2, <1>3, DuplicateAllIs
<1>5. \A w \in BOOLEAN : Grown(Tree, w) => Regrown(new, Tree, next, w)
  BY <1>2, <1>3, DuplicateAllGrows
<1> HIDE DEF m, new, done
<1>6. IsDocument(new, m)
  BY <1>4 DEF Like, Grows
<1>7. \A k \in slips : k[1] # "shared"
  BY SlotSlipsShareNothing
<1> HIDE DEF slips
<1> QED BY <1>1, <1>2, <1>4, <1>5, <1>6, <1>7, CommitGrows

\* wrapNodes keeps the trees.
LEMMA WrapTrees ==
  ASSUME Inv, Trees, NEW ids \in Selection, Wrap(ids)
  PROVE  Trees'
<1> DEFINE new == WrapNodes(Tree, ids, next)
           above == ClosestCommonAncestor(Tree, TopLevel(Tree, ids))
           slips == SlotSlips(ids) \union
                      {<<"slots", Tree.nodes[a].componentId>> :
                          a \in {a \in Ids : a = above /\ Tree.nodes[a].moduleId = "ref"}}
           m == next + 1
<1>1. CanWrap(Tree, ids) /\ Commit(new, m, slips) /\ clipboard' = clipboard
  BY DEF Wrap
<1>2. TypeOK /\ next \in Nat /\ IsDocument(Tree, next)
  BY TypesAre, TargetIs DEF Inv
<1>3. ids \in Seq(Nat) /\ ids # <<>> /\ Tree.rootNodeId \notin ToSet(ids) /\ IsInjective(ids)
  BY <1>1, <1>2, SelectionIs, SelectionOnce DEF CanWrap
<1>4. m \in Nat /\ next < m /\ next <= m
  BY <1>2
<1>5. \A k \in slips : k[1] # "shared"
  BY SlotSlipsShareNothing
<1> HIDE DEF m, slips
<1>6. IsDocument(new, m)
  <2>1. Like(new, Tree, m)
    BY <1>1, <1>2, <1>3, <1>4, WrapNodesIs
  <2> QED BY <2>1 DEF Like, Grows
<1>7. \A w \in BOOLEAN : Grown(Tree, w) => Regrown(new, Tree, next, w)
  BY <1>1, <1>2, <1>3, WrapNodesGrows
<1> HIDE DEF new
<1> QED BY <1>1, <1>2, <1>4, <1>5, <1>6, <1>7, CommitGrows

\* moveNodes, as a drop calls it, keeps the trees.
LEMMA DropTrees ==
  ASSUME Inv, Trees, NEW ids \in Selection, NEW dragged, NEW over \in Ids, NEW zone \in Zone,
         Drop(ids, dragged, over, zone)
  PROVE  Trees'
<1> DEFINE to == ResolveDropTarget(Tree, dragged, ids, over, zone)
           new == MoveNodes(Tree, ids, to.parentId, to.index)
           slips == {}
<1>1. to # Nowhere /\ CanMove(Tree, ids, to.parentId) /\ Commit(new, next, slips) /\ clipboard' = clipboard
  BY DEF Drop
<1>2. TypeOK /\ next \in Nat /\ next <= next /\ IsDocument(Tree, next)
  BY TypesAre, TargetIs DEF Inv
<1>3. ids \in Seq(Nat) /\ IsInjective(ids)
  BY <1>2, SelectionIs, SelectionOnce
<1>4. zone \in {"before", "after", "inside"} /\ over \in DOMAIN Tree.nodes
  BY NameAssumption DEF Ids
<1>5. /\ to.parentId \in DOMAIN Tree.nodes
      /\ to.index \in Int
      /\ Tree.rootNodeId \notin ToSet(ids)
  BY <1>1, <1>2, <1>3, <1>4, DropTargetIs
<1>6. \A w \in BOOLEAN : Grown(Tree, w) => Open(Tree, to.parentId, w)
  BY <1>1, <1>2, <1>3, <1>4, DropTargetOpen
<1> HIDE DEF to
<1>7. IsDocument(new, next)
  <2>1. Like(new, Tree, next)
    BY <1>2, <1>3, <1>5, MoveNodesIs
  <2> QED BY <2>1 DEF Like, Grows
<1>8. \A w \in BOOLEAN : Grown(Tree, w) => Regrown(new, Tree, next, w)
  BY <1>1, <1>2, <1>3, <1>5, <1>6, MoveNodesGrows
<1> HIDE DEF new
<1>9. \A k \in slips : k[1] # "shared"
  OBVIOUS
<1> HIDE DEF slips
<1> QED BY <1>1, <1>2, <1>7, <1>8, <1>9, CommitGrows

\* updateNodeProps of an outlet keeps the trees, and the sweep after it.
LEMMA RenameOutletTrees ==
  ASSUME Inv, Trees, NEW id \in Ids, NEW name \in SlotName, RenameOutlet(id, name)
  PROVE  Trees'
<1> DEFINE new == [Tree EXCEPT !.nodes[id].slotName = name]
           slips == {}
<1>1. Commit(new, next, slips) /\ clipboard' = clipboard
  BY DEF RenameOutlet
<1>2. TypeOK /\ next \in Nat /\ next <= next /\ IsDocument(Tree, next) /\ id \in DOMAIN Tree.nodes
  BY TypesAre, TargetIs DEF Inv, Ids
<1>3. IsDocument(new, next)
  <2>1. Like(new, Tree, next)
    BY <1>2, RenamedIs
  <2> QED BY <2>1 DEF Like, Grows
<1>4. \A w \in BOOLEAN : Grown(Tree, w) => Regrown(new, Tree, next, w)
  BY <1>2, RenamedGrows
<1> HIDE DEF new
<1>5. \A k \in slips : k[1] # "shared"
  OBVIOUS
<1> HIDE DEF slips
<1> QED BY <1>1, <1>2, <1>3, <1>4, <1>5, CommitGrows

-----------------------------------------------------------------------------
\* Copy, cut, paste and new refs.

\* Where two lists have a node already, what is copied has it too.
LEMMA SpreadIs ==
  ASSUME NEW from, NEW to
  PROVE  /\ \A k \in Spread(from, to) : k[1] = "shared" /\ k[2] = to
         /\ Spread(from, to) \subseteq known' /\ from \in Hit("shared") => to \in Hit("shared")'
<1>1. \A k \in Spread(from, to) : k[1] = "shared" /\ k[2] = to
  BY DEF Spread
<1>2. ASSUME Spread(from, to) \subseteq known', from \in Hit("shared") PROVE to \in Hit("shared")'
  <2> DEFINE k == <<"shared", to>>
  <2>1. k \in Spread(from, to)
    BY <1>2 DEF Spread
  <2>2. k \in known' /\ k[1] = "shared" /\ k[2] = to
    BY <1>1, <1>2, <2>1
  <2> HIDE DEF k
  <2> QED BY <2>2 DEF Hit
<1> QED BY <1>1, <1>2

\* What Trees gives of an unshared document and of the clipboard.
LEMMA GoodNow ==
  ASSUME Trees, known \subseteq known', Hit("parent")' = {}, NEW whole, whole => Hit("slots")' = {}
  PROVE  /\ \A d \in DOMAIN docs \ Hit("shared") : Grown(docs[d], whole)
         /\ Null \notin Hit("shared") => Clipped(clipboard, whole)
<1>1. Hit("parent") = {} /\ (whole => Hit("slots") = {})
  BY HitsStay
<1> QED BY <1>1 DEF Trees, Grown, Clipped

\* subtreeSnapshot.ts: none of what is copied is below another.
LEMMA CopiedApart ==
  ASSUME TypeOK, NEW ids \in Selection, NEW whole, Grown(Tree, whole)
  PROVE  Clipped(Snapshot(Tree, Copied(ids)), whole)
<1> DEFINE list == Keep(ids, Ids \ {Tree.rootNodeId})
           tops == {id \in ToSet(list) : \A other \in ToSet(list) \ {id} : ~IsAncestor(Tree, other, id)}
           roots == Copied(ids)
<1>1. next \in Nat /\ IsDocument(Tree, next)
  BY TypesAre, TargetIs
<1>2. list \in Seq(Nat) /\ IsInjective(list)
  <2> DEFINE set == Ids \ {Tree.rootNodeId}
  <2>1. ids \in Seq(Nat) /\ IsInjective(ids)
    BY SelectionIs, SelectionOnce
  <2> HIDE DEF set
  <2> QED BY <2>1, KeptOnce
<1>3. roots \in Seq(DOMAIN Tree.nodes)
  BY CopiedIs DEF Ids
<1>4. roots = Keep(list, tops)
  BY DEF Copied, TopLevel
<1>5. \A r, s : r \in tops /\ s \in tops /\ r # s => ~IsAncestor(Tree, s, r)
  OBVIOUS
<1> HIDE DEF list, tops, roots
<1>6. IsInjective(roots) /\ ToSet(roots) = ToSet(list) \intersect tops
  BY <1>2, <1>4, KeptOnce
<1>7. \A r, s \in ToSet(roots) : r # s => ~IsAncestor(Tree, s, r)
  BY <1>5, <1>6
<1>8. Clipped(Snapshot(Tree, roots), whole)
  BY <1>1, <1>3, <1>6, <1>7, SnapshotClipped
<1> QED BY <1>8 DEF roots

\* copyNodes: what is copied is a forest by itself.
LEMMA CopyNodesTrees ==
  ASSUME Inv, Trees, NEW ids \in Selection, CopyNodes(ids)
  PROVE  Trees'
<1> DEFINE whole == Hit("slots")' = {}
           slips == Spread(activePageId, Null)
<1>1. /\ clipboard' = Snapshot(Tree, Copied(ids)) /\ known' = known \union slips
      /\ docs' = docs /\ Target = activePageId
  BY DEF CopyNodes, OnPage
<1>2. TypeOK /\ Target \in DOMAIN docs /\ Tree = docs[Target]
  BY TargetIs DEF Inv
<1>3. known \subseteq known' /\ (whole => Hit("slots")' = {})
  BY <1>1
<1>4. Hit("shared")' \subseteq Page \union {Null}
  BY <1>1, SpreadIs DEF Trees, Hit
<1>5. slips \subseteq known'
  BY <1>1
<1> HIDE DEF whole
<1>6. ASSUME Hit("parent")' = {}
      PROVE  /\ \A d \in DOMAIN docs \ Hit("shared")' : Grown(docs[d], whole)
             /\ \A d, e \in DOMAIN docs \ Hit("shared")' :
                   d # e => DOMAIN docs[d].nodes \intersect DOMAIN docs[e].nodes = {}
  BY <1>3, <1>6, TreesNow
<1>7. ASSUME Hit("parent")' = {}, Null \notin Hit("shared")' PROVE Clipped(clipboard', whole)
  <2>1. Target \notin Hit("shared")
    BY <1>1, <1>5, <1>7, SpreadIs
  <2>2. Grown(Tree, whole)
    BY <1>2, <1>3, <1>7, <2>1, GoodNow
  <2> QED BY <1>1, <1>2, <2>2, CopiedApart
<1> QED BY <1>1, <1>4, <1>6, <1>7 DEF Trees, whole

\* cutNodes copies, then deletes.
LEMMA CutNodesTrees ==
  ASSUME Inv, Trees, NEW ids \in Selection, CutNodes(ids)
  PROVE  Trees'
<1> DEFINE list == Copied(ids)
           gone == DeleteSubtrees(Tree, list)
           spread == Spread(activePageId, Null)
           slips == SlotSlips(ids) \union spread
           whole == Hit("slots")' = {}
<1>1. Commit(gone, next, slips) /\ clipboard' = Snapshot(Tree, list) /\ Target = activePageId
  BY DEF CutNodes, OnPage
<1>2. /\ TypeOK /\ next \in Nat /\ next <= next /\ IsDocument(Tree, next)
      /\ Target \in DOMAIN docs /\ Tree = docs[Target]
  BY TypesAre, TargetIs DEF Inv
<1>3. list \in Seq(Nat) /\ Tree.rootNodeId \notin ToSet(list)
  BY <1>2, CopiedIs DEF Ids
<1>4. \A w : Grown(Tree, w) => Clipped(Snapshot(Tree, list), w)
  BY <1>2, CopiedApart
<1>5. known \subseteq known' /\ spread \subseteq known'
  BY <1>1 DEF Commit
<1>6. \A k \in slips : k[1] = "shared" => k[2] \in Page \union {Null}
  BY SlotSlipsShareNothing, SpreadIs
<1>7. whole <=> Hit("slots")' = {}
  OBVIOUS
<1> HIDE DEF list, slips, whole
<1>8. IsDocument(gone, next)
  <2>1. Removed(gone, Tree, next, ToSet(list))
    BY <1>2, <1>3, DeleteSubtreesIs
  <2> QED BY <2>1 DEF Removed, Like, Grows
<1>9. \A w \in BOOLEAN : Grown(Tree, w) => Regrown(gone, Tree, next, w)
  BY <1>2, <1>3, DeleteSubtreesGrows
<1> HIDE DEF gone
<1>10. ASSUME Hit("parent")' = {}, Target \notin Hit("shared") PROVE Grown(Tree, whole)
  BY <1>2, <1>5, <1>7, <1>10, GoodNow
<1>11. Hit("parent")' = {} /\ Target \notin Hit("shared")' => Regrown(gone, Tree, next, whole)
  BY <1>5, <1>7, <1>9, <1>10, HitsStay
<1>12. Hit("parent")' = {} /\ Null \notin Hit("shared")' => Clipped(clipboard', whole)
  BY <1>1, <1>4, <1>5, <1>10, SpreadIs
<1> QED BY <1>1, <1>2, <1>6, <1>7, <1>8, <1>11, <1>12, CommitTrees

\* A paste that leaves no parent stale hangs every root where it belongs.
LEMMA PasteTrees ==
  ASSUME Inv, Trees, NEW target \in Ids, Paste(target)
  PROVE  Trees'
<1> DEFINE to == InsertLocation(Tree, target)
           roots == clipboard.rootNodeIds
           ids == DOMAIN clipboard.nodes
           stale == {i \in 1..(Len(roots) - 1) :
                        clipboard.nodes[roots[i]].parentId # to.parentId}
           new == PasteSnapshot(Tree, clipboard, to.parentId, to.index, next)
           m == next + Cardinality(ids)
           map == FreshIds(ids, next)
           parents == {<<"parent", map[roots[i]]>> : i \in stale}
           spread == Spread(Null, activePageId)
           slips == parents \union {<<"slots", clipboard.nodes[r].componentId>> : r \in Outdated} \union spread
           whole == Hit("slots")' = {}
<1>1. /\ OnPage /\ roots # <<>> /\ to.parentId # Null
      /\ Commit(new, m, slips) /\ clipboard' = clipboard
  BY DEF Paste
<1>2. /\ TypeOK /\ next \in Nat /\ IsDocument(Tree, next) /\ IsSnapshot(clipboard, next)
      /\ Target \in DOMAIN docs /\ Tree = docs[Target] /\ Target = activePageId /\ Target \in Page
      /\ target \in DOMAIN Tree.nodes
  BY <1>1, TypesAre, TargetIs DEF Inv, OnPage, TypeOK, Ids
<1>3. to.parentId \in DOMAIN Tree.nodes /\ to.index \in Int
  <2>1. to \in Place(Tree)
    BY <1>2, InsertLocationIs
  <2> QED BY <1>1, <2>1 DEF Place
<1>4. \A w \in BOOLEAN : Grown(Tree, w) => Open(Tree, to.parentId, w)
  BY <1>1, <1>2, InsertLocationOpen
<1>5. known \subseteq known' /\ spread \subseteq known' /\ parents \subseteq known'
  BY <1>1 DEF Commit
<1>6. ASSUME Hit("parent")' = {}
      PROVE  \A i \in 1..(Len(roots) - 1) : clipboard.nodes[roots[i]].parentId = to.parentId
  <2>1. \A k \in known' : k[1] # "parent"
    BY <1>6 DEF Hit
  <2>2. parents = {}
    BY <1>5, <2>1
  <2> QED BY <2>2
<1>7. \A k \in slips : k[1] = "shared" => k[2] \in Page \union {Null}
  <2>1. \A k \in spread : k[2] = activePageId
    BY SpreadIs
  <2> QED BY <1>2, <2>1
<1>8. whole \in BOOLEAN /\ (whole <=> Hit("slots")' = {})
  OBVIOUS
<1> HIDE DEF to, stale, parents, slips, whole
<1>9. m \in Nat /\ next <= m /\ IsDocument(new, m)
  <2> DEFINE comps == Used(clipboard.nodes)
             outs == {map[id] : id \in Content(clipboard.nodes)}
  <2>1. m \in Nat /\ next <= m /\ Grows(new, Tree, m, comps, outs)
    BY <1>1, <1>2, <1>3, PasteSnapshotIs
  <2> QED BY <2>1 DEF Grows
<1>10. ASSUME Hit("parent")' = {}, Target \notin Hit("shared")' PROVE Regrown(new, Tree, next, whole)
  <2>1. Target \notin Hit("shared") /\ Null \notin Hit("shared")
    BY <1>2, <1>5, <1>10, HitsStay, SpreadIs
  <2>2. Grown(Tree, whole) /\ Clipped(clipboard, whole)
    BY <1>2, <1>5, <1>8, <1>10, <2>1, GoodNow
  <2>3. \A i \in 1..(Len(roots) - 1) : clipboard.nodes[roots[i]].parentId = to.parentId
    BY <1>6, <1>10
  <2>4. Open(Tree, to.parentId, whole)
    BY <1>4, <1>8, <2>2
  <2> QED BY <1>1, <1>2, <1>3, <2>2, <2>3, <2>4, PasteGrows
<1> HIDE DEF new, m
<1>11. Hit("parent")' = {} /\ Null \notin Hit("shared")' => Clipped(clipboard', whole)
  BY <1>1, <1>2, <1>8, BeforeCommit
<1> QED BY <1>1, <1>2, <1>7, <1>8, <1>9, <1>10, <1>11, CommitTrees

-----------------------------------------------------------------------------
\* A ref put into a tree, with the slots it gets at once.
LEMMA RefGrows ==
  ASSUME NEW n \in Nat, NEW tree, IsDocument(tree, n), NEW whole, Grown(tree, whole),
         NEW node \in Node(n + 1), node.children = <<>>, node.moduleId = "ref",
         NEW parent, Open(tree, parent, whole), NEW index \in Int,
         NEW names \in Seq(Name), IsInjective(names),
         NEW placed, placed = InsertNode(tree, n, node, parent, index), IsDocument(placed, n + 1)
  PROVE  Regrown([placed EXCEPT !.nodes = SyncSlotInstances(@, n, node, names, n)], tree, n, whole)
<1> DEFINE nodes == placed.nodes
           synced == SyncSlotInstances(nodes, n, node, names, n)
           b == n + 1
<1>1. Regrown(placed, tree, n, whole)
  BY InsertNodeGrows
<1>2. placed.nodes[n] = [node EXCEPT !.parentId = parent]
  BY InsertNodeGrows
<1>3. nodes[n].children = node.children /\ nodes[n].moduleId = "ref"
  BY <1>2, Rehung
<1>4. n \in DOMAIN nodes /\ placed.rootNodeId = tree.rootNodeId
  <2>1. Grows(placed, tree, n + 1, UsedBy(node), {id \in {n} : node.moduleId = "outlet"})
        /\ n \in DOMAIN placed.nodes
    <3>1. n < n + 1 /\ n + 1 \in Nat
      OBVIOUS
    <3>2. parent \in DOMAIN tree.nodes
      BY DEF Open
    <3> QED BY <3>1, <3>2, InsertNodeIs
  <2> QED BY <2>1 DEF Grows
<1>5. b \in Nat /\ b <= n + 1
  OBVIOUS
<1>6. /\ Shaped(nodes) /\ Cached(nodes) /\ DOMAIN nodes \subseteq 1..(b - 1)
      /\ \A id \in DOMAIN nodes : nodes[id] \in Node(b)
      /\ placed = [rootNodeId |-> placed.rootNodeId, nodes |-> placed.nodes]
      /\ whole => IsWhole(nodes, {tree.rootNodeId})
  <2>1. IsDocument(placed, b) /\ Grown(placed, whole)
    BY <1>1 DEF Regrown
  <2> QED BY <1>4, <1>5, <2>1, GrownNodes DEF Grown
<1> HIDE DEF b
<1>7. \E gone : \E fresh \in SUBSET Later(n + 1) :
         IsFiniteSet(fresh) /\ Turned(synced, nodes, n, gone, fresh)
  <2> HIDE DEF nodes, synced
  <2> QED BY <1>3, <1>4, <1>5, <1>6, SyncTurned DEF synced
<1>8. PICK gone, fresh : /\ fresh \subseteq Later(n + 1) /\ IsFiniteSet(fresh)
                         /\ Turned(synced, nodes, n, gone, fresh)
  BY <1>7
<1>9. fresh \subseteq Nat /\ fresh \intersect DOMAIN nodes = {} /\ fresh \subseteq Later(n)
  BY <1>6, <1>8 DEF Later, b
<1> HIDE DEF synced
<1>10. /\ Shaped(synced) /\ Cached(synced)
       /\ \A roots : IsWhole(nodes, roots) /\ nodes[n].moduleId # "slot-outlet" => IsWhole(synced, roots)
  BY <1>6, <1>8, <1>9, TurnedIs
<1>11. DOMAIN synced \subseteq DOMAIN tree.nodes \union Later(n)
  BY <1>1, <1>8, <1>9 DEF Turned, Regrown
<1> DEFINE new == [rootNodeId |-> tree.rootNodeId, nodes |-> synced]
<1>12. Regrown(new, tree, n, whole)
  BY <1>3, <1>6, <1>10, <1>11 DEF Regrown, Grown
<1>13. [placed EXCEPT !.nodes = SyncSlotInstances(@, n, node, names, n)] = new
  <2>1. [placed EXCEPT !.nodes = SyncSlotInstances(@, n, node, names, n)] = [placed EXCEPT !.nodes = synced]
    BY DEF synced
  <2>2. [placed EXCEPT !.nodes = synced] = new
    BY <1>4, <1>6, SetNodes
  <2> QED BY <2>1, <2>2
<1> QED BY <1>12, <1>13

\* insertComponentRef keeps the trees.
LEMMA InsertComponentRefTrees ==
  ASSUME Inv, Trees, NEW target \in Ids, NEW comp \in Component, InsertComponentRef(target, comp)
  PROVE  Trees'
<1> DEFINE to == InsertLocation(Tree, target)
           node == [NewNode("ref") EXCEPT !.componentId = comp, !.parentId = to.parentId]
           names == OutletNames(docs[comp])
           placed == InsertNode(Tree, next, node, to.parentId, to.index)
           synced == SyncSlotInstances(placed.nodes, next, node, names, next)
           new == [placed EXCEPT !.nodes = synced]
           m == next + 1 + Len(names)
           b == next + 1
           slips == {<<"cycle", Target>> : h \in
                        {h \in {Target} : h \in Component /\ WouldCreateCycle(docs, h, comp)}}
<1>1. to.parentId # Null /\ Commit(new, m, slips) /\ clipboard' = clipboard
  BY DEF InsertComponentRef
<1>2. /\ TypeOK /\ next \in Nat /\ IsDocument(Tree, next) /\ IsDocument(docs[comp], next)
      /\ comp \in 0..(next - 1) /\ comp \notin Page /\ target \in DOMAIN Tree.nodes
  BY TypesAre, TargetIs, DocumentsAre DEF Inv, Component, Ids
<1>3. to.parentId \in DOMAIN Tree.nodes /\ to.index \in Int /\ to.parentId \in Nat
  <2>1. to \in Place(Tree)
    BY <1>2, InsertLocationIs
  <2>2. to.parentId \in DOMAIN Tree.nodes /\ to.index \in Int
    BY <1>1, <2>1 DEF Place
  <2> HIDE DEF to
  <2> QED BY <1>2, <2>2, DocumentLists
<1>4. \A w \in BOOLEAN : Grown(Tree, w) => Open(Tree, to.parentId, w)
  BY <1>1, <1>2, InsertLocationOpen
<1>5. names \in Seq(Name) /\ IsInjective(names)
  BY <1>2, OutletNamesTyped, OutletNamesOnce
<1> HIDE DEF to, names
<1>6. Len(names) \in Nat
  BY <1>5
<1>7. /\ b \in Nat /\ next < b /\ b <= next + 1 /\ m = next + 1 + Len(names)
      /\ m \in Nat /\ next <= m /\ b <= m
  BY <1>2, <1>6
<1>8. /\ node \in Node(b) /\ node.children = <<>> /\ node.moduleId = "ref"
  <2> DEFINE root == Tree.rootNodeId
  <2>1. b # 0 /\ "ref" \in Module \union {"body", "ref", "slot-instance"}
    BY <1>2
  <2>2. NodeOK(NewNode("ref"), root, b)
    BY <1>7, <2>1, NewNodeOK
  <2>3. comp \in (0..(b - 1)) \ Page
    BY <1>2
  <2> QED BY <1>3, <2>2, <2>3 DEF NodeOK, Node, NewNode
<1>9. \A k \in slips : k[1] # "shared"
  OBVIOUS
<1> HIDE DEF node, m, slips
<1>10. IsDocument(placed, b)
  <2>1. Grows(placed, Tree, b, UsedBy(node), {id \in {next} : node.moduleId = "outlet"})
    BY <1>2, <1>3, <1>7, <1>8, InsertNodeIs
  <2> QED BY <2>1 DEF Grows
<1>11. \A w \in BOOLEAN : Grown(Tree, w) => Regrown(new, Tree, next, w)
  <2> SUFFICES ASSUME NEW w \in BOOLEAN, Grown(Tree, w) PROVE Regrown(new, Tree, next, w)
    OBVIOUS
  <2>1. node \in Node(next + 1) /\ IsDocument(placed, next + 1)
    BY <1>8, <1>10
  <2>2. Open(Tree, to.parentId, w)
    BY <1>4
  <2> HIDE DEF b
  <2> QED BY <1>2, <1>3, <1>5, <1>8, <2>1, <2>2, RefGrows
<1> HIDE DEF b, placed
<1>12. IsDocument(new, m)
  <2> DEFINE root == placed.rootNodeId
  <2>1. Sound(placed.nodes, root, b)
    BY <1>7, <1>10, DocumentLists
  <2>2. NodeOK(node, root, b)
    BY <1>8 DEF NodeOK, ToSet
  <2> HIDE DEF root, synced
  <2>3. Synced(synced, placed.nodes, root, m)
    BY <1>2, <1>5, <1>7, <2>1, <2>2, SyncSlotInstancesIs DEF synced
  <2>4. Like(new, placed, m)
    BY <1>7, <1>10, <2>3, LikeNodes DEF Synced, root
  <2> QED BY <2>4 DEF Like, Grows
<1> HIDE DEF new
<1> QED BY <1>1, <1>2, <1>7, <1>9, <1>11, <1>12, CommitGrows

-----------------------------------------------------------------------------
\* Navigating, components and their slots, convert.

\* What a step that leaves the clipboard alone has to show.
LEMMA TreesHold ==
  ASSUME Trees, known \subseteq known', clipboard' = clipboard,
         Hit("shared")' \subseteq Page \union {Null},
         Hit("parent")' = {} =>
            /\ \A d \in DOMAIN docs' \ Hit("shared")' : Grown(docs'[d], Hit("slots")' = {})
            /\ \A d, e \in DOMAIN docs' \ Hit("shared")' :
                  d # e => DOMAIN docs'[d].nodes \intersect DOMAIN docs'[e].nodes = {}
  PROVE  Trees'
<1> DEFINE whole == Hit("slots")' = {}
<1>1. whole => Hit("slots")' = {}
  OBVIOUS
<1> HIDE DEF whole
<1>2. Hit("parent")' = {} /\ Null \notin Hit("shared")' => Clipped(clipboard', whole)
  BY <1>1, TreesNow
<1> QED BY <1>2 DEF Trees, whole

\* Slips of other kinds leave what is shared as it was.
LEMMA StillShared ==
  ASSUME Trees, NEW slips, known' = known \union slips, \A k \in slips : k[1] # "shared"
  PROVE  Hit("shared")' \subseteq Page \union {Null}
  BY DEF Hit, Trees

\* What is open, and the steps that change nothing.
LEMMA NavigateTrees ==
  ASSUME Trees, UNCHANGED <<docs, clipboard, known>>
  PROVE  Trees'
  BY DEF Trees, Hit

\* createVisualComponent: its one node has an id of its own.
LEMMA CreateComponentTrees ==
  ASSUME Inv, Trees, CreateComponent
  PROVE  Trees'
<1> DEFINE comp == next
           id == next + 1
           tree == [rootNodeId |-> id, nodes |-> [k \in {id} |-> NewNode("body")]]
           whole == Hit("slots")' = {}
<1>1. docs' = With(docs, comp, tree) /\ clipboard' = clipboard /\ known' = known
  BY DEF CreateComponent
<1>2. /\ next \in Nat /\ DOMAIN docs \subseteq 1..(next - 1)
      /\ \A d \in DOMAIN docs : IsDocument(docs[d], next)
  BY TypesAre, DocumentsAre DEF Inv
<1>3. id \in Nat /\ comp \notin DOMAIN docs /\ next < id
  BY <1>2
<1>4. tree.rootNodeId = id /\ DOMAIN tree.nodes = {id} /\ tree.nodes[id].children = <<>>
  BY DEF NewNode
<1>5. whole => Hit("slots")' = {}
  OBVIOUS
<1> HIDE DEF tree, id, comp, whole
<1>6. /\ DOMAIN docs' = DOMAIN docs \union {comp} /\ docs'[comp] = tree
      /\ \A d \in DOMAIN docs : docs'[d] = docs[d]
  BY <1>1, <1>3 DEF With
<1>7. Grown(tree, whole)
  <2> DEFINE b == tree.nodes
  <2>1. IsFiniteSet(DOMAIN b) /\ DOMAIN b \subseteq Nat /\ \A k \in DOMAIN b : b[k].children = <<>>
    BY <1>3, <1>4, FS_Singleton
  <2> HIDE DEF b
  <2>2. Shaped(b) /\ Cached(b) /\ IsWhole(b, DOMAIN b)
    BY <2>1, LeavesShaped
  <2> QED BY <1>4, <2>2 DEF b, Grown
<1>8. \A d \in DOMAIN docs : DOMAIN docs[d].nodes \intersect DOMAIN tree.nodes = {}
  <2> SUFFICES ASSUME NEW d \in DOMAIN docs PROVE id \notin DOMAIN docs[d].nodes
    BY <1>4
  <2>1. DOMAIN docs[d].nodes \subseteq 1..(next - 1)
    BY <1>2, DocumentLists DEF Sound
  <2> QED BY <1>2, <1>3, <2>1
<1>9. ASSUME Hit("parent")' = {}
      PROVE  /\ \A d \in DOMAIN docs' \ Hit("shared")' : Grown(docs'[d], whole)
             /\ \A d, e \in DOMAIN docs' \ Hit("shared")' :
                   d # e => DOMAIN docs'[d].nodes \intersect DOMAIN docs'[e].nodes = {}
  <2> DEFINE shared == Hit("shared")'
  <2>1. /\ \A d \in DOMAIN docs \ shared : Grown(docs[d], whole)
        /\ \A d, e \in DOMAIN docs \ shared :
              d # e => DOMAIN docs[d].nodes \intersect DOMAIN docs[e].nodes = {}
    BY <1>1, <1>5, <1>9, TreesNow
  <2> HIDE DEF shared
  <2>2. \A d \in DOMAIN docs' \ shared : Grown(docs'[d], whole)
    BY <1>6, <1>7, <2>1
  <2>3. \A d, e \in DOMAIN docs' \ shared :
           d # e => DOMAIN docs'[d].nodes \intersect DOMAIN docs'[e].nodes = {}
    BY <1>6, <1>8, <2>1
  <2> QED BY <2>2, <2>3 DEF shared
<1>10. Hit("shared")' \subseteq Page \union {Null}
  BY <1>1 DEF Hit, Trees
<1> QED BY <1>1, <1>9, <1>10, TreesHold DEF whole

\* deleteVisualComponent: every ref goes with what it holds; no root is a ref.
LEMMA DeleteComponentTrees ==
  ASSUME Inv, Trees, NEW comp \in Component, DeleteComponent(comp)
  PROVE  Trees'
<1> DEFINE left == [d \in DOMAIN docs \ {comp} |-> CascadeRemoveRefs(docs[d], comp)]
           slips == {<<"slots", c>> : c \in OutletsChanged(docs, left)}
           whole == Hit("slots")' = {}
<1>1. docs' = left /\ known' = known \union slips /\ clipboard' = clipboard
  BY DEF DeleteComponent
<1>2. next \in Nat /\ \A d \in DOMAIN docs : IsDocument(docs[d], next)
  BY TypesAre DEF Inv
<1>3. ASSUME NEW d \in DOMAIN docs, NEW w \in BOOLEAN, Grown(docs[d], w)
      PROVE  /\ Grown(CascadeRemoveRefs(docs[d], comp), w)
             /\ DOMAIN CascadeRemoveRefs(docs[d], comp).nodes \subseteq DOMAIN docs[d].nodes
  <2> DEFINE tree == docs[d]
             ids == Refs(tree, comp)
             list == Ascending(ids)
             b == next - 1
  <2>1. IsDocument(tree, next) /\ Sound(tree.nodes, tree.rootNodeId, next)
    BY <1>2, DocumentLists
  <2>2. ids \subseteq 1..b /\ b \in Int /\ tree.rootNodeId \notin ids
    BY <1>2, <2>1 DEF Sound, Refs, IsRefTo
  <2> HIDE DEF ids, b
  <2>3. list \in Seq(ids) /\ ToSet(list) = ids
    BY <2>2, AscendingIs
  <2>4. ids \subseteq Nat
    BY <2>2
  <2> HIDE DEF list
  <2>5. list \in Seq(Nat) /\ tree.rootNodeId \notin ToSet(list)
    <3> HIDE DEF tree
    <3>1. list \in Seq(Nat)
      BY <2>3, <2>4, SeqOver
    <3> QED BY <2>2, <2>3, <3>1
  <2>6. /\ Regrown(DeleteSubtrees(tree, list), tree, next, w)
        /\ DOMAIN DeleteSubtrees(tree, list).nodes \subseteq DOMAIN tree.nodes
    <3> HIDE DEF tree
    <3> QED BY <1>2, <1>3, <2>1, <2>5, DeleteSubtreesGrows DEF tree
  <2>7. CascadeRemoveRefs(tree, comp) = DeleteSubtrees(tree, list)
    BY DEF CascadeRemoveRefs, list, ids
  <2> QED BY <2>6, <2>7 DEF Regrown
<1>4. /\ DOMAIN docs' \subseteq DOMAIN docs
      /\ \A d \in DOMAIN docs' : docs'[d] = CascadeRemoveRefs(docs[d], comp)
  BY <1>1
<1> HIDE DEF left
<1>5. \A k \in slips : k[1] # "shared"
  OBVIOUS
<1>6. whole \in BOOLEAN /\ (whole => Hit("slots")' = {})
  OBVIOUS
<1> HIDE DEF slips, whole
<1>7. known \subseteq known'
  BY <1>1
<1>8. ASSUME Hit("parent")' = {}
      PROVE  /\ \A d \in DOMAIN docs' \ Hit("shared")' : Grown(docs'[d], whole)
             /\ \A d, e \in DOMAIN docs' \ Hit("shared")' :
                   d # e => DOMAIN docs'[d].nodes \intersect DOMAIN docs'[e].nodes = {}
  <2> DEFINE shared == Hit("shared")'
  <2>1. /\ \A d \in DOMAIN docs \ shared : Grown(docs[d], whole)
        /\ \A d, e \in DOMAIN docs \ shared :
              d # e => DOMAIN docs[d].nodes \intersect DOMAIN docs[e].nodes = {}
    BY <1>6, <1>7, <1>8, TreesNow
  <2> HIDE DEF shared
  <2>2. \A d \in DOMAIN docs' \ shared :
           Grown(docs'[d], whole) /\ DOMAIN docs'[d].nodes \subseteq DOMAIN docs[d].nodes
    BY <1>3, <1>4, <1>6, <2>1
  <2>3. \A d, e \in DOMAIN docs' \ shared :
           d # e => DOMAIN docs'[d].nodes \intersect DOMAIN docs'[e].nodes = {}
    BY <1>4, <2>1, <2>2
  <2> QED BY <2>2, <2>3 DEF shared
<1>9. Hit("shared")' \subseteq Page \union {Null}
  BY <1>1, <1>5, StillShared
<1> QED BY <1>1, <1>7, <1>8, <1>9, TreesHold DEF whole

\* addParam, renameParam, removeParamWithCleanup: a sweep.
LEMMA ChangeSlotParamTrees ==
  ASSUME Inv, Trees, NEW comp \in Component, ChangeSlotParam(comp)
  PROVE  Trees'
<1> DEFINE swept == SyncAllRefs(docs, comp, next)
           slips == {<<"slots", c>> : c \in OutletsChanged(docs, swept.docs)
                                              \union {c \in {comp} : NestedUse(docs, c)}}
           whole == Hit("slots")' = {}
<1>1. docs' = swept.docs /\ known' = known \union slips /\ clipboard' = clipboard
  BY DEF ChangeSlotParam
<1>2. next \in Nat /\ IsDocuments(docs, next) /\ comp \in DOMAIN docs
  BY TypesAre DEF Inv, Component
<1>3. whole => \A x \in DOMAIN docs : ~Nested(docs[x], comp)
  <2> SUFFICES ASSUME whole, NestedUse(docs, comp) PROVE FALSE
    BY DEF NestedUse, Nested
  <2> DEFINE k == <<"slots", comp>>
  <2>1. k \in slips /\ k[1] = "slots"
    OBVIOUS
  <2> HIDE DEF k, slips, swept
  <2>2. k \in known'
    BY <1>1, <2>1
  <2> QED BY <2>1, <2>2 DEF Hit
<1>4. \A k \in slips : k[1] # "shared"
  OBVIOUS
<1>5. whole => Hit("slots")' = {}
  OBVIOUS
<1> HIDE DEF slips, whole
<1>6. known \subseteq known'
  BY <1>1
<1> HIDE DEF swept
<1>7. DOMAIN docs' = DOMAIN docs
  <2>1. SweptTo(swept, docs, next)
    BY <1>2, SyncAllRefsIs DEF swept
  <2> QED BY <1>1, <2>1 DEF SweptTo, Alike
<1>8. ASSUME Hit("parent")' = {}
      PROVE  /\ \A d \in DOMAIN docs' \ Hit("shared")' : Grown(docs'[d], whole)
             /\ \A d, e \in DOMAIN docs' \ Hit("shared")' :
                   d # e => DOMAIN docs'[d].nodes \intersect DOMAIN docs'[e].nodes = {}
  <2> DEFINE shared == Hit("shared")'
  <2>1. /\ \A d \in DOMAIN docs \ shared : Grown(docs[d], whole)
        /\ \A d, e \in DOMAIN docs \ shared :
              d # e => DOMAIN docs[d].nodes \intersect DOMAIN docs[e].nodes = {}
    BY <1>5, <1>6, <1>8, TreesNow
  <2> HIDE DEF shared
  <2>2. ASSUME NEW d \in DOMAIN docs \ shared, NEW e \in DOMAIN docs \ shared
        PROVE  Tended(swept, docs, comp, next, d, e, whole)
    <3>1. Sweepable(docs, comp, next, d, e, whole)
      BY <1>2, <1>3, <2>1, <2>2 DEF Sweepable
    <3> QED BY <2>1, <2>2, <3>1, SyncAllRefsTends DEF swept
  <2>3. ASSUME NEW d \in DOMAIN docs \ shared PROVE Grown(docs'[d], whole)
    <3>1. Sweeping(swept.docs[d], docs[d], comp, next, whole)
      BY <2>2 DEF Tended
    <3> QED BY <1>1, <3>1 DEF Sweeping, Grown
  <2>4. ASSUME NEW d \in DOMAIN docs \ shared, NEW e \in DOMAIN docs \ shared, d # e
        PROVE  DOMAIN docs'[d].nodes \intersect DOMAIN docs'[e].nodes = {}
    BY <1>1, <2>2, <2>4 DEF Tended
  <2> QED BY <1>7, <2>3, <2>4 DEF shared
<1>9. Hit("shared")' \subseteq Page \union {Null}
  BY <1>1, <1>4, StillShared
<1> QED BY <1>1, <1>6, <1>8, <1>9, TreesHold DEF whole

\* convertNodeToComponent: the new ref's parent is known to be stale.
LEMMA ConvertTrees ==
  ASSUME Inv, Trees, NEW id \in DOMAIN docs[activePageId].nodes, Convert(id)
  PROVE  Trees'
<1> DEFINE page == docs[activePageId]
           comp == next
           made == ExtractedComponent(page, id, next + 2)
           stale == <<"parent", next + 1>>
           slips == {stale} \union {<<"slots", c>> : c \in {c \in {comp} : OutletNames(made) # <<>>}}
<1>1. known' = known \union slips
  BY DEF Convert
<1>2. stale[1] = "parent" /\ stale \in slips /\ \A k \in slips : k[1] # "shared"
  OBVIOUS
<1> HIDE DEF slips, stale
<1>3. Hit("parent")' # {}
  BY <1>1, <1>2 DEF Hit
<1>4. Hit("shared")' \subseteq Page \union {Null}
  BY <1>1, <1>2, StillShared
<1> QED BY <1>3, <1>4 DEF Trees

-----------------------------------------------------------------------------
\* Detach, every step, and the theorems.

\* detachComponentRef: unless two of its outlets share a name, and with it
\* their content, the component's copy is hung where the ref was.
LEMMA DetachTrees ==
  ASSUME Inv, Trees, NEW ref \in DOMAIN docs[activePageId].nodes, Detach(ref)
  PROVE  Trees'
<1> DEFINE page == docs[activePageId]
           used == page.nodes[ref].componentId
           comp == docs[used]
           new == DetachRef(page, ref, comp, next)
           outlets == {o \in DOMAIN comp.nodes : comp.nodes[o].moduleId = "slot-outlet"}
           twice == \E o, p \in outlets : o # p /\ comp.nodes[o].slotName = comp.nodes[p].slotName
           both == {<<"shared", p>> : p \in {p \in {activePageId} : twice}}
           clash == {<<"outlet", p>> : p \in
                        {p \in {activePageId} : TreeHasOutlet(page) /\ TreeHasOutlet(comp)}}
           whole == Hit("slots")' = {}
<1>1. /\ page.nodes[ref].moduleId = "ref" /\ used \in Component
      /\ CanDetach(page, ref, comp)
      /\ docs' = [docs EXCEPT ![activePageId] = new]
      /\ known' = known \union both \union clash
      /\ clipboard' = clipboard
  BY DEF Detach
<1>2. /\ next \in Nat /\ activePageId \in DOMAIN docs /\ activePageId \in Page
      /\ used \in DOMAIN docs /\ used \notin Page
      /\ IsDocument(page, next) /\ IsDocument(comp, next)
      /\ \A d \in DOMAIN docs : IsDocument(docs[d], next)
  BY <1>1, TypesAre DEF Inv, TypeOK, Component
<1>3. ref \in DOMAIN page.nodes /\ ref # page.rootNodeId
  <2>1. page.nodes[page.rootNodeId].moduleId = "body"
    BY <1>2, DocumentLists DEF Sound
  <2> QED BY <1>1, <2>1
<1>4. known \subseteq known' /\ both \subseteq known' /\ (whole => Hit("slots")' = {})
  BY <1>1
<1>5. /\ \A k \in both : k[1] = "shared" /\ k[2] \in Page
      /\ \A k \in clash : k[1] # "shared"
  BY <1>2
<1>6. activePageId \notin Hit("shared")' =>
         \A o, p \in Outlets(comp) : o # p => comp.nodes[o].slotName # comp.nodes[p].slotName
  <2> SUFFICES ASSUME twice PROVE activePageId \in Hit("shared")'
    BY DEF Outlets
  <2> DEFINE k == <<"shared", activePageId>>
  <2>1. k \in both /\ k[1] = "shared" /\ k[2] = activePageId
    OBVIOUS
  <2> HIDE DEF k, both
  <2>2. k \in known'
    BY <1>4, <2>1
  <2> QED BY <2>1, <2>2 DEF Hit
<1> HIDE DEF both, clash, whole, twice, outlets
<1>7. Hit("shared")' \subseteq Page \union {Null}
  BY <1>1, <1>5 DEF Hit, Trees
<1>8. /\ DOMAIN docs' = DOMAIN docs /\ docs'[activePageId] = new
      /\ \A d \in DOMAIN docs \ {activePageId} : docs'[d] = docs[d]
  <2> HIDE DEF new
  <2> QED BY <1>1, <1>2
<1> HIDE DEF comp, used, new
<1>9. ASSUME Hit("parent")' = {}
      PROVE  /\ \A d \in DOMAIN docs' \ Hit("shared")' : Grown(docs'[d], whole)
             /\ \A d, e \in DOMAIN docs' \ Hit("shared")' :
                   d # e => DOMAIN docs'[d].nodes \intersect DOMAIN docs'[e].nodes = {}
  <2> DEFINE shared == Hit("shared")'
  <2>1. /\ \A d \in DOMAIN docs \ shared : Grown(docs[d], whole)
        /\ \A d, e \in DOMAIN docs \ shared :
              d # e => DOMAIN docs[d].nodes \intersect DOMAIN docs[e].nodes = {}
    BY <1>4, <1>9, TreesNow
  <2>2. activePageId \notin shared => Regrown(new, page, next, whole)
    <3> SUFFICES ASSUME activePageId \notin shared PROVE Regrown(new, page, next, whole)
      OBVIOUS
    <3>1. used \in DOMAIN docs \ shared /\ used # activePageId /\ Null \notin DOMAIN docs
      <4>1. Null \notin DOMAIN docs
        BY TypesAre, DocumentsAre DEF Inv, Null
      <4> QED BY <1>2, <1>7, <4>1
    <3> HIDE DEF shared
    <3>2. Grown(page, whole) /\ Grown(comp, whole) /\ DOMAIN page.nodes \intersect DOMAIN comp.nodes = {}
      BY <1>2, <2>1, <3>1 DEF comp
    <3>3. \A o, p \in Outlets(comp) : o # p => comp.nodes[o].slotName # comp.nodes[p].slotName
      BY <1>6 DEF shared
    <3> HIDE DEF page
    <3> QED BY <1>1, <1>2, <1>3, <3>2, <3>3, DetachRefGrows DEF new
  <2> HIDE DEF shared
  <2>3. \A d \in DOMAIN docs : DOMAIN docs[d].nodes \intersect Later(next) = {}
    <3> SUFFICES ASSUME NEW d \in DOMAIN docs PROVE DOMAIN docs[d].nodes \intersect Later(next) = {}
      OBVIOUS
    <3>1. DOMAIN docs[d].nodes \subseteq 1..(next - 1)
      BY <1>2, DocumentLists DEF Sound
    <3> QED BY <1>2, <3>1 DEF Later
  <2>4. \A d \in DOMAIN docs' \ shared :
           Grown(docs'[d], whole) /\ DOMAIN docs'[d].nodes \subseteq DOMAIN docs[d].nodes \union Later(next)
    BY <1>8, <2>1, <2>2 DEF Regrown
  <2>5. \A d, e \in DOMAIN docs' \ shared :
           d # e => DOMAIN docs'[d].nodes \intersect DOMAIN docs'[e].nodes = {}
    BY <1>8, <2>1, <2>3, <2>4
  <2> QED BY <2>4, <2>5 DEF shared
<1> QED BY <1>1, <1>4, <1>7, <1>9, TreesHold DEF whole

\* The sites the editor may load are all forests.
LEMMA InitTrees == Init => Trees
<1> SUFFICES ASSUME Init PROVE Trees
  OBVIOUS
<1>1. PICK site \in Site : docs = site[1] /\ clipboard = site[2]
  BY DEF Init
<1>2. /\ \A d \in DOMAIN docs : IsForest(docs[d].nodes) /\ IsWhole(docs[d].nodes, {docs[d].rootNodeId})
      /\ Apart(docs)
      /\ IsCut(clipboard) /\ IsWhole(clipboard.nodes, ToSet(clipboard.rootNodeIds))
  BY <1>1, SiteAssumption
<1>3. Hit("shared") = {} /\ Hit("parent") = {} /\ Hit("slots") = {}
  BY DEF Init, Hit
<1>4. TypeOK
  BY InitKeeps DEF Inv
<1>5. \A d \in DOMAIN docs : Grown(docs[d], TRUE)
  <2> SUFFICES ASSUME NEW d \in DOMAIN docs PROVE Grown(docs[d], TRUE)
    OBVIOUS
  <2>1. Lists(docs[d].nodes)
    BY <1>4, TypesAre, DocumentLists
  <2> QED BY <1>2, <2>1, ForestIs DEF Grown
<1>6. Clipped(clipboard, TRUE)
  <2>1. IsNodes(clipboard.nodes, next) /\ next \in Nat
    BY <1>4, TypesAre DEF IsSnapshot
  <2>2. Lists(clipboard.nodes)
    BY <2>1, NodesAre, NodesList
  <2> QED BY <1>2, <2>2, ForestIs DEF Clipped, IsCut, Held
<1> QED BY <1>2, <1>3, <1>5, <1>6 DEF Trees, Apart

\* Every step keeps them.
LEMMA NextTrees == Inv /\ Trees /\ [Next]_vars => Trees'
<1> SUFFICES ASSUME Inv, Trees, [Next]_vars PROVE Trees'
  OBVIOUS
<1>1. CASE EditTree
  <2>1. CASE \E target \in Ids, module \in Module : InsertModule(target, module)
    BY <2>1, InsertModuleTrees
  <2>2. CASE \E target \in Ids, comp \in Component : InsertComponentRef(target, comp)
    BY <2>2, InsertComponentRefTrees
  <2>3. CASE \E ids \in Selection : DeleteNodes(ids)
    BY <2>3, DeleteNodesTrees
  <2>4. CASE \E ids \in Selection : DuplicateNodes(ids)
    BY <2>4, DuplicateNodesTrees
  <2>5. CASE \E ids \in Selection : Wrap(ids)
    BY <2>5, WrapTrees
  <2>6. CASE \E ids \in Selection : \E dragged \in ToSet(ids), over \in Ids, zone \in Zone :
                 Drop(ids, dragged, over, zone)
    BY <2>6, DropTrees
  <2>7. CASE \E id \in Ids, name \in SlotName : RenameOutlet(id, name)
    BY <2>7, RenameOutletTrees
  <2>8. CASE \E ids \in Selection : CopyNodes(ids)
    BY <2>8, CopyNodesTrees
  <2>9. CASE \E ids \in Selection : CutNodes(ids)
    BY <2>9, CutNodesTrees
  <2>10. CASE \E target \in Ids : Paste(target)
    BY <2>10, PasteTrees
  <2> QED BY <1>1, <2>1, <2>2, <2>3, <2>4, <2>5, <2>6, <2>7, <2>8, <2>9, <2>10 DEF EditTree
<1>2. CASE EditComponents
  <2>1. CASE CreateComponent
    BY <2>1, CreateComponentTrees
  <2>2. CASE \E comp \in Component : DeleteComponent(comp)
    BY <2>2, DeleteComponentTrees
  <2>3. CASE \E comp \in Component : ChangeSlotParam(comp)
    BY <2>3, ChangeSlotParamTrees
  <2>4. CASE \E id \in DOMAIN docs[activePageId].nodes : Convert(id)
    BY <2>4, ConvertTrees
  <2>5. CASE \E ref \in DOMAIN docs[activePageId].nodes : Detach(ref)
    BY <2>5, DetachTrees
  <2> QED BY <1>2, <2>1, <2>2, <2>3, <2>4, <2>5 DEF EditComponents
<1>3. CASE Navigate
  BY <1>3, NavigateTrees
     DEF Navigate, OpenComponent, ExitComponent, StartInlineEdit, EndInlineEdit, OpenPageInCanvas
<1>4. CASE UNCHANGED vars
  BY <1>4, NavigateTrees DEF vars
<1> QED BY <1>1, <1>2, <1>3, <1>4 DEF Next

\* The inductive invariant of the trees: the lists of every document nothing has
\* been left in twice are a forest, parentId agrees with them, documents share
\* no node, and the clipboard is a forest whose tops are its roots.
THEOREM AlwaysTrees == Spec => []Trees
<1>1. Init => Trees
  BY InitTrees
<1>2. Inv /\ Trees /\ [Next]_vars => Trees'
  BY NextTrees
<1>3. Spec => []Inv
  BY Invariant
<1> QED BY <1>1, <1>2, <1>3, PTL DEF Spec

\* baseNode.ts, selectors.ts: parentId is maintained by every edit.
THEOREM ParentIndexTrue == Spec => []ParentIndex
<1>1. Trees => ParentIndex
  <2> SUFFICES ASSUME Trees, Hit("parent") = {}, NEW d \in DOMAIN docs \ Hit("shared"),
                      NEW p \in DOMAIN docs[d].nodes, NEW c \in ToSet(docs[d].nodes[p].children)
               PROVE  docs[d].nodes[c].parentId = p
    BY DEF ParentIndex
  <2>1. Cached(docs[d].nodes)
    BY DEF Trees, Grown
  <2> QED BY <2>1 DEF Cached, Held
<1>2. Spec => []Trees
  BY AlwaysTrees
<1> QED BY <1>1, <1>2, PTL

\* Every document stays one tree, through every edit of any length of session.
THEOREM AlwaysATree == Spec => []IsTree
<1>1. Inv /\ Trees => IsTree
  <2> SUFFICES ASSUME Inv, Trees, Hit("parent") = {}, NEW d \in DOMAIN docs \ Hit("shared")
               PROVE  OneTree(docs[d], Hit("slots") = {})
    BY DEF IsTree, OneTree
  <2>1. Grown(docs[d], Hit("slots") = {})
    BY DEF Trees
  <2>2. next \in Nat /\ IsDocument(docs[d], next)
    BY TypesAre DEF Inv
  <2> QED BY <2>1, <2>2, GrownIsTree
<1>2. Spec => []Inv
  BY Invariant
<1>3. Spec => []Trees
  BY AlwaysTrees
<1> QED BY <1>1, <1>2, <1>3, PTL

-----------------------------------------------------------------------------
\* What a list holds in a row.

\* Filtering out the element at one place (or at none: 0) moves those behind it
\* up by one.
LEMMA KeepBut ==
  ASSUME NEW E, NEW list \in Seq(E), NEW set, NEW at \in Nat,
         \A i \in 1..Len(list) : list[i] \in set <=> i # at
  PROVE  /\ Len(Keep(list, set)) = IF at \in 1..Len(list) THEN Len(list) - 1 ELSE Len(list)
         /\ \A i \in 1..Len(list) :
               i # at => Keep(list, set)[IF at \in 1..i THEN i - 1 ELSE i] = list[i]
<1> DEFINE n == Len(list)
<1>0. n \in Nat /\ n \in 0..n
  OBVIOUS
<1>1. PICK f : /\ f = [k \in 0..n |-> IF k = 0 THEN <<>>
                          ELSE IF list[k] \in set THEN Append(f[k - 1], list[k]) ELSE f[k - 1]]
               /\ Keep(list, set) = f[n]
  BY <1>0, KeepTurns
<1> DEFINE Good(k) == /\ f[k] \in Seq(E)
                      /\ Len(f[k]) = IF at \in 1..k THEN k - 1 ELSE k
                      /\ \A i \in 1..k : i # at => f[k][IF at \in 1..i THEN i - 1 ELSE i] = list[i]
           S == {k \in 0..n : Good(k)}
<1>2. 0 \in S
  BY <1>1
<1>3. ASSUME NEW k \in 0..(n - 1), k \in S PROVE k + 1 \in S
  <2>1. k + 1 \in 0..n /\ k + 1 # 0 /\ (k + 1) - 1 = k /\ list[k + 1] \in E /\ k + 1 \in 1..n
    BY <1>0
  <2>2. f[k + 1] = IF k + 1 = at THEN f[k] ELSE Append(f[k], list[k + 1])
    BY <1>1, <2>1
  <2>3. Good(k)
    BY <1>3
  <2>4. CASE k + 1 = at
    BY <2>1, <2>2, <2>3, <2>4
  <2>5. CASE k + 1 # at
    <3> DEFINE m == IF at \in 1..k THEN k - 1 ELSE k
    <3>1. /\ f[k + 1] = Append(f[k], list[k + 1]) /\ f[k + 1] \in Seq(E)
          /\ Len(f[k]) = m /\ Len(f[k + 1]) = m + 1 /\ f[k + 1][m + 1] = list[k + 1]
          /\ \A j \in 1..m : f[k + 1][j] = f[k][j]
      BY <2>1, <2>2, <2>3, <2>5
    <3>2. Len(f[k + 1]) = IF at \in 1..(k + 1) THEN (k + 1) - 1 ELSE k + 1
      BY <2>1, <2>5, <3>1
    <3>3. ASSUME NEW i \in 1..(k + 1), i # at
          PROVE  f[k + 1][IF at \in 1..i THEN i - 1 ELSE i] = list[i]
      <4>1. CASE i = k + 1
        BY <2>1, <2>5, <3>1, <4>1
      <4>2. CASE i # k + 1
        <5>1. i \in 1..k /\ (IF at \in 1..i THEN i - 1 ELSE i) \in 1..m
          BY <2>1, <3>3, <4>2
        <5> QED BY <2>3, <3>1, <3>3, <5>1
      <4> QED BY <4>1, <4>2
    <3> QED BY <2>1, <3>1, <3>2, <3>3
  <2> QED BY <2>4, <2>5
<1>4. n \in S
  <2> HIDE DEF S
  <2> QED BY <1>0, <1>2, <1>3, UpTo
<1> QED BY <1>1, <1>4

\* An index within the list is taken as it is.
LEMMA SpliceMid ==
  ASSUME NEW E, NEW list \in Seq(E), NEW ids, NEW k \in 0..Len(list)
  PROVE  Splice(list, k, ids) = SubSeq(list, 1, k) \o ids \o SubSeq(list, k + 1, Len(list))
<1> DEFINE c == IF k > Len(list) THEN Len(list) ELSE IF k < 0 THEN 0 ELSE k
<1>1. Splice(list, k, ids) = SubSeq(list, 1, c) \o ids \o SubSeq(list, c + 1, Len(list))
  BY DEF Splice
<1>2. c = k
  OBVIOUS
<1> HIDE DEF c
<1> QED BY <1>1, <1>2

\* What is spliced in stands where it was put, between what stood there.
LEMMA SpliceAt ==
  ASSUME NEW E, NEW list \in Seq(E), NEW ids \in Seq(E), NEW k \in 0..Len(list),
         NEW new, new = Splice(list, k, ids)
  PROVE  /\ Len(new) = Len(list) + Len(ids)
         /\ \A i \in 1..Len(ids) : new[k + i] = ids[i]
         /\ k > 0 => new[k] = list[k]
         /\ k < Len(list) => new[k + Len(ids) + 1] = list[k + 1]
<1>1. Splice(list, k, ids) = SubSeq(list, 1, k) \o ids \o SubSeq(list, k + 1, Len(list))
  BY SpliceMid
<1> DEFINE a == SubSeq(list, 1, k)
           c == SubSeq(list, k + 1, Len(list))
<1>2. a \in Seq(E) /\ Len(a) = k /\ \A i \in 1..k : a[i] = list[i]
  OBVIOUS
<1>3. c \in Seq(E) /\ Len(c) = Len(list) - k /\ (k < Len(list) => c[1] = list[k + 1])
  OBVIOUS
<1> HIDE DEF a, c
<1>4. /\ a \o ids \in Seq(E) /\ Len(a \o ids) = k + Len(ids)
      /\ \A i \in 1..Len(ids) : (a \o ids)[k + i] = ids[i]
      /\ \A i \in 1..k : (a \o ids)[i] = a[i]
  BY <1>2
<1> DEFINE ab == a \o ids
<1> HIDE DEF ab
<1>5. /\ Len(ab \o c) = Len(list) + Len(ids)
      /\ \A i \in 1..(k + Len(ids)) : (ab \o c)[i] = ab[i]
      /\ k < Len(list) => (ab \o c)[k + Len(ids) + 1] = c[1]
  <2>1. ab \in Seq(E) /\ Len(ab) = k + Len(ids) /\ Len(ids) \in Nat /\ k \in Nat /\ Len(list) \in Nat
    BY <1>4 DEF ab
  <2>2. Len(ab \o c) = Len(ab) + Len(c)
    BY <1>3, <2>1
  <2>3. ASSUME NEW i \in 1..Len(ab) PROVE (ab \o c)[i] = ab[i]
    BY <1>3, <2>1
  <2>4. k < Len(list) => (ab \o c)[Len(ab) + 1] = c[1]
    BY <1>3, <2>1
  <2> QED BY <1>3, <2>1, <2>2, <2>3, <2>4
<1>6. \A i \in 1..Len(ids) : k + i \in 1..(k + Len(ids))
  OBVIOUS
<1>7. Splice(list, k, ids) = ab \o c
  BY <1>1 DEF a, c, ab
<1>8. k > 0 => k \in 1..k /\ k \in 1..(k + Len(ids))
  OBVIOUS
<1> QED BY <1>2, <1>3, <1>4, <1>5, <1>6, <1>7, <1>8 DEF ab

\* An index outside the list is one of its ends.
LEMMA SpliceWhere ==
  ASSUME NEW E, NEW list \in Seq(E), NEW ids, NEW index \in Int
  PROVE  \E k \in 0..Len(list) : Splice(list, index, ids) = Splice(list, k, ids)
<1> DEFINE k == IF index > Len(list) THEN Len(list) ELSE IF index < 0 THEN 0 ELSE index
<1>1. k \in 0..Len(list)
  OBVIOUS
<1>2. Splice(list, index, ids) = SubSeq(list, 1, k) \o ids \o SubSeq(list, k + 1, Len(list))
  BY DEF Splice
<1> HIDE DEF k
<1>3. Splice(list, k, ids) = SubSeq(list, 1, k) \o ids \o SubSeq(list, k + 1, Len(list))
  BY <1>1, SpliceMid
<1> QED BY <1>1, <1>2, <1>3

\* A list holds another from some place on.
Holds(kids, seq) ==
    \E i \in 0..(Len(kids) - Len(seq)) : SubSeq(kids, i + 1, i + Len(seq)) = seq

\* It holds it from the place where it stands.
LEMMA HoldsAt ==
  ASSUME NEW E, NEW kids \in Seq(E), NEW seq \in Seq(E), NEW i \in 0..(Len(kids) - Len(seq)),
         \A j \in 1..Len(seq) : kids[i + j] = seq[j]
  PROVE  Holds(kids, seq)
<1> DEFINE part == SubSeq(kids, i + 1, i + Len(seq))
<1>1. part \in Seq(E) /\ Len(part) = Len(seq) /\ \A j \in 1..Len(seq) : part[j] = kids[i + j]
  OBVIOUS
<1> HIDE DEF part
<1>2. part = seq
  BY <1>1
<1> QED BY <1>2 DEF Holds, part

\* What a drop promises of the list it ends in.
Landed(kids, moved, alone, over, zone) ==
    IF alone
    THEN CASE zone = "before" -> Holds(kids, moved \o <<over>>)
           [] zone = "after" -> Holds(kids, <<over>> \o moved)
           [] zone = "inside" -> IsSuffix(moved, kids)
    ELSE Holds(kids, moved)

\* Several arrive together wherever they are put.
LEMMA SplicedHolds ==
  ASSUME NEW E, NEW list \in Seq(E), NEW ids \in Seq(E), NEW index \in Int
  PROVE  Holds(Splice(list, index, ids), ids)
<1>1. PICK k \in 0..Len(list) : Splice(list, index, ids) = Splice(list, k, ids)
  BY SpliceWhere
<1> DEFINE new == Splice(list, k, ids)
<1>2. /\ new \in Seq(E) /\ Len(new) = Len(list) + Len(ids)
      /\ \A i \in 1..Len(ids) : new[k + i] = ids[i]
  <2>1. new \in Seq(E)
    BY SpliceIs
  <2>2. Len(new) = Len(list) + Len(ids) /\ \A i \in 1..Len(ids) : new[k + i] = ids[i]
    BY SpliceAt
  <2> QED BY <2>1, <2>2
<1> HIDE DEF new
<1>3. k \in 0..(Len(new) - Len(ids))
  BY <1>2
<1>4. Holds(new, ids)
  BY <1>2, <1>3, HoldsAt
<1> QED BY <1>1, <1>4 DEF new

-----------------------------------------------------------------------------
\* Where a drop lands.

\* The only one selected is what is moved.
LEMMA AloneIs ==
  ASSUME NEW tree, NEW ids \in Seq(Nat), Len(ids) = 1, NEW x \in ToSet(ids)
  PROVE  TopLevel(tree, ids) = <<x>>
<1> DEFINE set == {id \in ToSet(ids) : \A other \in ToSet(ids) \ {id} : ~IsAncestor(tree, other, id)}
           tops == Keep(ids, set)
<1>1. ToSet(ids) = {x}
  BY DEF ToSet
<1>2. set = {x}
  BY <1>1
<1> HIDE DEF set
<1>3. tops \in Seq(Nat) /\ ToSet(tops) = ToSet(ids) \intersect set /\ Len(tops) <= Len(ids)
  BY KeepIs
<1> HIDE DEF tops
<1>4. ToSet(tops) = {x} /\ Len(tops) \in Nat /\ Len(tops) <= 1
  BY <1>1, <1>2, <1>3
<1>5. Len(tops) = 1 /\ tops[1] = x
  BY <1>3, <1>4 DEF ToSet
<1>6. tops = <<x>>
  BY <1>3, <1>5
<1> QED BY <1>6 DEF tops, set, TopLevel

\* One list followed by another.
Follow(all, s, t) ==
    /\ all \in Seq(Nat) /\ Len(all) = Len(s) + Len(t)
    /\ \A i \in 1..Len(s) : all[i] = s[i]
    /\ \A i \in 1..Len(t) : all[Len(s) + i] = t[i]

\* What a concatenation holds, place by place.
LEMMA Follows ==
  ASSUME NEW s \in Seq(Nat), NEW t \in Seq(Nat)
  PROVE  Follow(s \o t, s, t)
<1>1. s \o t \in Seq(Nat) /\ Len(s \o t) = Len(s) + Len(t)
  OBVIOUS
<1>2. \A i \in 1..Len(s) : (s \o t)[i] = s[i]
  OBVIOUS
<1>3. \A i \in 1..Len(t) : (s \o t)[Len(s) + i] = t[i]
  OBVIOUS
<1> QED BY <1>1, <1>2, <1>3 DEF Follow

\* Two lists of one make the list of two.
LEMMA JoinTwo ==
  ASSUME NEW s \in Seq(Nat), NEW t \in Seq(Nat), NEW st \in Seq(Nat),
         Len(s) = 1, Len(t) = 1, Len(st) = 2, st[1] = s[1], st[2] = t[1]
  PROVE  s \o t = st
<1> DEFINE all == s \o t
<1>1. Follow(all, s, t)
  BY Follows
<1> HIDE DEF all
<1>2. /\ all \in Seq(Nat) /\ Len(all) = Len(s) + Len(t) /\ all[1] = s[1]
      /\ \A i \in 1..Len(t) : all[Len(s) + i] = t[i]
  BY <1>1 DEF Follow
<1>3. all = st
  BY <1>2
<1> QED BY <1>3 DEF all

\* One before the other.
LEMMA PairIs ==
  ASSUME NEW a \in Nat, NEW b \in Nat
  PROVE  <<a>> \o <<b>> = <<a, b>>
<1> DEFINE s == <<a>>
           t == <<b>>
           st == <<a, b>>
<1>1. /\ s \in Seq(Nat) /\ t \in Seq(Nat) /\ st \in Seq(Nat) /\ Len(s) = 1 /\ Len(t) = 1 /\ Len(st) = 2
      /\ s[1] = a /\ t[1] = b /\ st[1] = a /\ st[2] = b
  OBVIOUS
<1> HIDE DEF s, t, st
<1>2. s \o t = st
  BY <1>1, JoinTwo
<1> QED BY <1>2 DEF s, t, st

\* The last of a list is its suffix.
LEMMA LastIs ==
  ASSUME NEW kids \in Seq(Nat), Len(kids) > 0, NEW x, kids[Len(kids)] = x
  PROVE  IsSuffix(<<x>>, kids)
<1> DEFINE one == Reverse(<<x>>)
           back == Reverse(kids)
<1>1. one = <<x>>
  BY DEF Reverse
<1>2. back \in Seq(Nat) /\ Len(back) = Len(kids) /\ back[1] = x
  BY DEF Reverse
<1> HIDE DEF one, back
<1>3. Len(one) = 1 /\ Len(one) <= Len(back)
  BY <1>1, <1>2
<1>4. SubSeq(one, 1, Len(one)) = SubSeq(back, 1, Len(one))
  <2>1. x \in Nat /\ one \in Seq(Nat) /\ one[1] = x
    BY <1>1
  <2> DEFINE a == SubSeq(one, 1, Len(one))
             b == SubSeq(back, 1, Len(one))
  <2>2. a \in Seq(Nat) /\ Len(a) = 1 /\ a[1] = x
    BY <1>3, <2>1
  <2>3. b \in Seq(Nat) /\ Len(b) = 1 /\ b[1] = x
    BY <1>2, <1>3
  <2> HIDE DEF a, b
  <2>4. a = b
    BY <2>2, <2>3
  <2> QED BY <2>4 DEF a, b
<1>5. IsPrefix(one, back)
  BY <1>3, <1>4 DEF IsPrefix
<1> QED BY <1>5 DEF IsSuffix, one, back

\* One list put into another at a place.
Put(new, list, k, ids) ==
    /\ Len(new) = Len(list) + Len(ids)
    /\ \A i \in 1..Len(ids) : new[k + i] = ids[i]
    /\ k > 0 => new[k] = list[k]
    /\ k < Len(list) => new[k + Len(ids) + 1] = list[k + 1]

\* What a splice at a place inside the list is.
LEMMA SplicePuts ==
  ASSUME NEW list \in Seq(Nat), NEW ids \in Seq(Nat), NEW k \in 0..Len(list)
  PROVE  Put(Splice(list, k, ids), list, k, ids)
BY SpliceAt DEF Put

\* dnd.ts and mutations.ts: the place was counted as if what is dragged had
\* already left it.
LEMMA DropLandsAt ==
  ASSUME NEW n \in Nat, NEW tree, IsDocument(tree, n), NEW whole, Grown(tree, whole),
         NEW ids \in Seq(Nat), NEW dragged \in ToSet(ids),
         NEW over \in DOMAIN tree.nodes, NEW zone \in {"before", "after", "inside"},
         NEW to, to = ResolveDropTarget(tree, dragged, ids, over, zone), to # Nowhere,
         NEW tops, tops = TopLevel(tree, ids),
         NEW new, new = Gathered(tree, tops, to.parentId, to.index, to.parentId)
  PROVE  /\ IF zone = "inside" THEN to.parentId = over ELSE Contains(new, over)
         /\ Landed(new, tops, Len(ids) = 1, over, zone)
<1> DEFINE parent == IF zone = "inside" THEN over ELSE Parent(tree, over)
           old == tree.nodes[parent].children
           at == IndexOf(old, over)
           raw == CASE zone = "inside" -> Len(old)
                    [] zone = "before" -> at
                    [] zone = "after" -> at + 1
           index == NormalizeIndexAfterRemoval(tree, dragged, parent, raw)
           some == {c \in ToSet(old) : ~(Contains(tops, c) /\ Parent(tree, c) = parent)}
           stay == Keep(old, some)
<1>1. /\ to.parentId = parent /\ to.index = index /\ parent # Null
      /\ ~Contains(ids, over) /\ (zone # "inside" => at # -1)
  BY DEF ResolveDropTarget
<1>2. parent \in DOMAIN tree.nodes /\ (zone = "inside" => parent = over)
  <2>1. Parent(tree, over) \in DOMAIN tree.nodes \union {Null}
    BY DocumentLists, ParentIs
  <2> QED BY <1>1, <2>1
<1>3. new = Splice(stay, index, tops)
  BY <1>1 DEF Gathered, Left
<1> HIDE DEF parent
<1>4. /\ old \in Seq(Nat) /\ IsInjective(old) /\ Len(old) \in Nat
      /\ \A c \in ToSet(old) : Parent(tree, c) = parent
  BY <1>2, GrownNodes
<1> HIDE DEF old
<1>5. /\ tops \in Seq(Nat) /\ (\A x : Contains(tops, x) <=> x \in ToSet(tops))
      /\ over \notin ToSet(tops)
  <2>1. tops \in Seq(Nat) /\ ToSet(tops) \subseteq ToSet(ids)
    BY TopLevelIs
  <2>2. \A x : Contains(tops, x) <=> x \in ToSet(tops)
    BY <2>1, ContainsIs
  <2>3. over \notin ToSet(ids)
    BY <1>1, ContainsIs
  <2> QED BY <2>1, <2>2, <2>3
<1>6. at \in Int /\ (Contains(old, over) => at + 1 \in 1..Len(old) /\ old[at + 1] = over)
      /\ (zone # "inside" => Contains(old, over)) /\ (Contains(old, over) <=> over \in ToSet(old))
  BY <1>1, <1>4, IndexOfIs, ContainsIs
<1> HIDE DEF at
<1>7. raw \in Int
  BY <1>4, <1>6
<1>8. index \in Int
  <2> HIDE DEF raw
  <2> QED BY <1>7 DEF NormalizeIndexAfterRemoval
<1>9. \A c : c \in some <=> c \in ToSet(old) /\ c \notin ToSet(tops)
  BY <1>4, <1>5
<1> HIDE DEF some
<1>10. stay \in Seq(Nat) /\ ToSet(stay) = ToSet(old) \intersect some
  BY <1>4, KeepIs
<1>11. zone # "inside" => Contains(new, over)
  <2> HIDE DEF stay, index
  <2>0. tops \in Seq(Nat) /\ stay \in Seq(Nat) /\ index \in Int
    BY <1>5, <1>8, <1>10
  <2>1. new \in Seq(Nat)
    BY <1>3, <2>0, SpliceIs
  <2>2. Contains(new, over) <=> over \in ToSet(new)
    BY <2>1, ContainsIs
  <2>3. ToSet(new) = ToSet(stay) \union ToSet(tops)
    BY <1>3, <2>0, SplicedSet
  <2> QED BY <1>5, <1>6, <1>9, <1>10, <2>2, <2>3
<1>12. Holds(new, tops)
  <2> HIDE DEF stay, index
  <2> QED BY <1>3, <1>5, <1>8, <1>10, SplicedHolds
<1>13. ASSUME Len(ids) = 1 PROVE Landed(new, tops, TRUE, over, zone)
  <2> DEFINE gone == IF Contains(old, dragged) THEN IndexOf(old, dragged) + 1 ELSE 0
  <2>1. tops = <<dragged>> /\ dragged \in Nat
    <3>1. tops = <<dragged>>
      BY <1>13, AloneIs
    <3> QED BY <3>1 DEF ToSet
  <2>2. gone \in 0..Len(old) /\ (gone # 0 <=> Contains(old, dragged)) /\ (gone # 0 => old[gone] = dragged)
        /\ (Contains(old, dragged) <=> dragged \in ToSet(old))
    BY <1>4, IndexOfIs, ContainsIs
  <2>3. dragged # over
    BY <1>1, ContainsIs
  <2>4. \A i \in 1..Len(old) : old[i] \in some <=> i # gone
    <3>1. \A c : c \in some <=> c \in ToSet(old) /\ c # dragged
      BY <1>9, <2>1 DEF ToSet
    <3>2. \A i \in 1..Len(old) : old[i] \in ToSet(old) /\ (old[i] = dragged => gone # 0)
      BY <1>4, <2>2 DEF ToSet
    <3>3. \A i, j \in 1..Len(old) : old[i] = old[j] => i = j
      BY <1>4 DEF IsInjective
    <3> HIDE DEF gone
    <3> QED BY <1>4, <2>2, <3>1, <3>2, <3>3
  <2>5. index = IF gone \in 1..raw THEN raw - 1 ELSE raw
    <3> DEFINE here == IndexOf(old, dragged)
    <3>1. here \in Int /\ (Contains(old, dragged) => Parent(tree, dragged) = parent)
          /\ (~Contains(old, dragged) => here = -1) /\ (Contains(old, dragged) => here >= 0)
      BY <1>4, <2>2, IndexOfIs
    <3>2. index = IF Parent(tree, dragged) # parent \/ here = -1 \/ here >= raw THEN raw ELSE raw - 1
      BY DEF NormalizeIndexAfterRemoval, old
    <3>3. gone = IF Contains(old, dragged) THEN here + 1 ELSE 0
      OBVIOUS
    <3> HIDE DEF here, raw, index, gone
    <3> QED BY <1>7, <3>1, <3>2, <3>3
  <2> HIDE DEF gone, index
  <2>6. /\ Len(stay) = IF gone \in 1..Len(old) THEN Len(old) - 1 ELSE Len(old)
        /\ \A i \in 1..Len(old) : i # gone => stay[IF gone \in 1..i THEN i - 1 ELSE i] = old[i]
    <3>1. gone \in Nat
      BY <2>2
    <3> QED BY <1>4, <2>4, <3>1, KeepBut
  <2> HIDE DEF stay
  <2>7. index \in 0..Len(stay)
        => /\ new \in Seq(Nat) /\ Len(new) = Len(stay) + 1 /\ new[index + 1] = dragged
           /\ index > 0 => new[index] = stay[index]
           /\ index < Len(stay) => new[index + 2] = stay[index + 1]
    <3> SUFFICES ASSUME index \in 0..Len(stay)
                 PROVE  /\ new \in Seq(Nat) /\ Len(new) = Len(stay) + 1 /\ new[index + 1] = dragged
                        /\ index > 0 => new[index] = stay[index]
                        /\ index < Len(stay) => new[index + 2] = stay[index + 1]
      OBVIOUS
    <3> DEFINE one == <<dragged>>
    <3>1. one \in Seq(Nat) /\ Len(one) = 1 /\ one[1] = dragged /\ new = Splice(stay, index, one)
      BY <1>3, <2>1
    <3> HIDE DEF one
    <3>0. stay \in Seq(Nat)
      BY <1>10
    <3>2. new \in Seq(Nat)
      BY <1>8, <3>0, <3>1, SpliceIs
    <3>3. Put(new, stay, index, one)
      BY <3>0, <3>1, SplicePuts
    <3> QED BY <1>8, <3>0, <3>1, <3>2, <3>3 DEF Put
  <2>8. CASE zone = "inside"
    <3>1. index = Len(stay) /\ index \in 0..Len(stay)
      BY <1>4, <2>2, <2>5, <2>6, <2>8
    <3>2. new \in Seq(Nat) /\ Len(new) > 0 /\ new[Len(new)] = dragged
      BY <2>7, <3>1
    <3>3. IsSuffix(<<dragged>>, new)
      BY <3>2, LastIs
    <3> QED BY <2>1, <2>8, <3>3 DEF Landed
  <2>9. CASE zone = "before"
    <3>1. /\ index \in 0..Len(stay) /\ index < Len(stay) /\ stay[index + 1] = over
      <4>1. at + 1 \in 1..Len(old) /\ old[at + 1] = over /\ at + 1 # gone /\ raw = at
        BY <1>6, <2>2, <2>3, <2>9
      <4>2. stay[IF gone \in 1..(at + 1) THEN (at + 1) - 1 ELSE at + 1] = over
        BY <2>6, <4>1
      <4> HIDE DEF raw
      <4>3. index + 1 = IF gone \in 1..(at + 1) THEN (at + 1) - 1 ELSE at + 1
        BY <1>6, <2>2, <2>5, <4>1
      <4>4. index \in 0..Len(stay) /\ index < Len(stay)
        BY <1>4, <1>6, <1>8, <1>10, <2>2, <2>6, <4>1, <4>3
      <4> QED BY <4>2, <4>3, <4>4
    <3> DEFINE pair == <<dragged, over>>
    <3>2. pair \in Seq(Nat) /\ Len(pair) = 2 /\ pair[1] = dragged /\ pair[2] = over
      BY <2>1, DocumentLists
    <3>3. tops \o <<over>> = pair
      BY <2>1, PairIs, DocumentLists
    <3> HIDE DEF pair
    <3>4. index \in 0..(Len(new) - Len(pair)) /\ \A j \in 1..Len(pair) : new[index + j] = pair[j]
      BY <2>7, <3>1, <3>2
    <3>5. new \in Seq(Nat) /\ pair \in Seq(Nat)
      BY <2>7, <3>1, <3>2
    <3>6. Holds(new, pair)
      BY <3>4, <3>5, HoldsAt
    <3> QED BY <2>9, <3>3, <3>6 DEF Landed
  <2>10. CASE zone = "after"
    <3>1. /\ index \in 1..Len(stay) /\ stay[index] = over
      <4>1. at + 1 \in 1..Len(old) /\ old[at + 1] = over /\ at + 1 # gone /\ raw = at + 1
        BY <1>6, <2>2, <2>3, <2>10
      <4>2. stay[IF gone \in 1..(at + 1) THEN (at + 1) - 1 ELSE at + 1] = over
        BY <2>6, <4>1
      <4> HIDE DEF raw
      <4>3. index = IF gone \in 1..(at + 1) THEN (at + 1) - 1 ELSE at + 1
        BY <1>6, <2>2, <2>5, <4>1
      <4>4. index \in 1..Len(stay)
        BY <1>4, <1>6, <1>8, <1>10, <2>2, <2>6, <4>1, <4>3
      <4> QED BY <4>2, <4>3, <4>4
    <3> DEFINE pair == <<over, dragged>>
               from == index - 1
    <3>2. pair \in Seq(Nat) /\ Len(pair) = 2 /\ pair[1] = over /\ pair[2] = dragged
      BY <2>1, DocumentLists
    <3>3. <<over>> \o tops = pair
      BY <2>1, PairIs, DocumentLists
    <3> HIDE DEF pair
    <3>4. from \in 0..(Len(new) - Len(pair)) /\ \A j \in 1..Len(pair) : new[from + j] = pair[j]
      BY <2>7, <3>1, <3>2
    <3> HIDE DEF from
    <3>5. new \in Seq(Nat) /\ pair \in Seq(Nat)
      BY <2>7, <3>1, <3>2
    <3>6. Holds(new, pair)
      BY <3>4, <3>5, HoldsAt
    <3> QED BY <2>10, <3>3, <3>6 DEF Landed
  <2> QED BY <2>8, <2>9, <2>10
<1>14. ASSUME Len(ids) # 1 PROVE Landed(new, tops, FALSE, over, zone)
  BY <1>12 DEF Landed
<1>15. Landed(new, tops, Len(ids) = 1, over, zone)
  BY <1>13, <1>14
<1> QED BY <1>1, <1>2, <1>11, <1>15

-----------------------------------------------------------------------------
\* That it does in every session.

\* A tree nothing in which is a ref to the component swept for is as it was.
LEMMA CommitLands ==
  ASSUME TypeOK, NoComponentInItself, Trees, known = {},
         NEW tree, Regrown(tree, Tree, next, TRUE), IsDocument(tree, next),
         Used(tree.nodes) \subseteq Used(Tree.nodes),
         NEW slips, Commit(tree, next, slips)
  PROVE  docs'[Target] = tree
<1> DEFINE target == Target
           changed == target \in Component /\ OutletNames(docs[target]) # OutletNames(tree)
           site == [docs EXCEPT ![target] = tree]
           swept == IF changed THEN SyncAllRefs(site, target, next) ELSE [docs |-> site, next |-> next]
<1>1. docs' = swept.docs
  BY DEF Commit
<1>2. /\ next \in Nat /\ IsDocuments(docs, next) /\ target \in DOMAIN docs /\ Tree = docs[target]
      /\ DOMAIN docs \subseteq Nat
  <2>1. next \in Nat /\ IsDocuments(docs, next) /\ target \in DOMAIN docs /\ Tree = docs[target]
    BY TypesAre, TargetIs
  <2>2. DOMAIN docs \subseteq 1..(next - 1)
    BY <2>1, DocumentsAre
  <2> QED BY <2>1, <2>2
<1>3. /\ DOMAIN site = DOMAIN docs /\ site[target] = tree
      /\ site = [d \in DOMAIN docs |-> IF d = target THEN tree ELSE docs[d]]
  BY <1>2, DocumentsAre
<1>4. IsDocuments(site, next)
  BY <1>2, <1>3, DocumentsAre DEF IsDocuments
<1>5. Grown(tree, FALSE)
  BY DEF Regrown, Grown
<1>6. target \in Component => Refs(tree, target) = {}
  <2> SUFFICES ASSUME target \in Component, NEW r \in Refs(tree, target) PROVE FALSE
    OBVIOUS
  <2>1. target \in Used(tree.nodes)
    BY DEF Refs, IsRefTo, Used
  <2>2. target \in Uses(docs, target)
    BY <1>2, <2>1, UsesAre
  <2>3. target \in TransitivelyReachable(docs, target)
    BY <1>2, <2>2, ReachClosed
  <2>4. Hit("cycle") = {}
    BY DEF Hit
  <2> QED BY <2>3, <2>4 DEF NoComponentInItself
<1> HIDE DEF site
<1>7. CASE changed
  <2> DEFINE now == SyncAllRefs(site, target, next)
  <2>1. target \in Component /\ docs' = now.docs
    BY <1>1, <1>7
  <2>2. Sweepable(site, target, next, target, target, FALSE)
    BY <1>2, <1>3, <1>4, <1>5 DEF Sweepable
  <2>3. Tended(now, site, target, next, target, target, FALSE)
    BY <2>2, SyncAllRefsTends
  <2> HIDE DEF now, swept, changed, target
  <2>4. now.docs[target] = site[target]
    BY <1>3, <1>6, <2>1, <2>3 DEF Tended
  <2> QED BY <1>3, <2>1, <2>4 DEF target
<1>8. CASE ~changed
  BY <1>1, <1>3, <1>8
<1> QED BY <1>7, <1>8

\* Where a drop is to go, and the list that is there after it.
Lands(given, place, tops, alone, over, zone) ==
    /\ IF zone = "inside" THEN place.parentId = over ELSE Contains(given, over)
    /\ Landed(given, tops, alone, over, zone)

\* The promise of a drop, kept by the lists.
LEMMA LandsAt ==
  ASSUME NEW n \in Nat, NEW tree, IsDocument(tree, n), NEW whole, Grown(tree, whole),
         NEW ids \in Seq(Nat), NEW dragged \in ToSet(ids),
         NEW over \in DOMAIN tree.nodes, NEW zone \in {"before", "after", "inside"},
         NEW to, to = ResolveDropTarget(tree, dragged, ids, over, zone), to # Nowhere
  PROVE  Lands(Gathered(tree, TopLevel(tree, ids), to.parentId, to.index, to.parentId), to,
               TopLevel(tree, ids), Len(ids) = 1, over, zone)
<1> DEFINE tops == TopLevel(tree, ids)
           new == Gathered(tree, tops, to.parentId, to.index, to.parentId)
<1>1. tops = TopLevel(tree, ids) /\ new = Gathered(tree, tops, to.parentId, to.index, to.parentId)
  OBVIOUS
<1> HIDE DEF tops, new
<1>2. /\ IF zone = "inside" THEN to.parentId = over ELSE Contains(new, over)
      /\ Landed(new, tops, Len(ids) = 1, over, zone)
  BY <1>1, DropLandsAt
<1> QED BY <1>2 DEF Lands, tops, new

\* A drop lands where it was seen to.
LEMMA DropLandsThere ==
  ASSUME Inv, Trees, NEW ids \in Selection, NEW dragged \in ToSet(ids), NEW over \in Ids, NEW zone \in Zone,
         Drop(ids, dragged, over, zone)
  PROVE  DropLands'
<1> DEFINE to == ResolveDropTarget(Tree, dragged, ids, over, zone)
           parent == to.parentId
           new == MoveNodes(Tree, ids, parent, to.index)
           slips == {}
           tops == TopLevel(Tree, ids)
           alone == Len(ids) = 1
           target == Target
<1>1. to # Nowhere /\ CanMove(Tree, ids, parent) /\ Commit(new, next, slips)
  BY DEF Drop
<1>2. TypeOK /\ next \in Nat /\ IsDocument(Tree, next) /\ NoComponentInItself
  BY TypesAre, TargetIs DEF Inv
<1>3. ids \in Seq(Nat) /\ IsInjective(ids)
  BY <1>2, SelectionIs, SelectionOnce
<1>4. zone \in {"before", "after", "inside"} /\ over \in DOMAIN Tree.nodes
  BY NameAssumption DEF Ids
<1>5. parent \in DOMAIN Tree.nodes /\ to.index \in Int /\ Tree.rootNodeId \notin ToSet(ids)
  BY <1>1, <1>2, <1>3, <1>4, DropTargetIs
<1>6. CASE known # {}
  <2>1. last' = Nothing
    BY <1>6 DEF Drop
  <2>2. last'.op # "drop"
    BY <2>1 DEF Nothing
  <2> QED BY <2>2 DEF DropLands
<1>7. CASE known = {}
  <2>1. last' = [op |-> "drop", doc |-> target, moved |-> tops, alone |-> alone, over |-> over, zone |-> zone]
    BY <1>7 DEF Drop
  <2>2. Grown(Tree, TRUE)
    <3>1. Hit("parent") = {} /\ Hit("shared") = {} /\ Hit("slots") = {}
      BY <1>7 DEF Hit
    <3>2. \A d \in DOMAIN docs : Grown(docs[d], TRUE)
      BY <3>1 DEF Trees
    <3> QED BY <1>2, <3>2, TargetIs
  <2>3. Open(Tree, parent, TRUE)
    BY <1>1, <1>2, <1>3, <1>4, <2>2, DropTargetOpen
  <2> DEFINE list == Gathered(Tree, tops, parent, to.index, parent)
  <2>4. /\ IF zone = "inside" THEN parent = over ELSE Contains(list, over)
        /\ Landed(list, tops, alone, over, zone)
    <3>1. Lands(list, to, tops, alone, over, zone)
      BY <1>1, <1>2, <1>3, <1>4, <2>2, LandsAt
    <3> QED BY <3>1 DEF Lands
  <2> HIDE DEF list, to, tops, target
  <2>5. Regrown(new, Tree, next, TRUE)
    BY <1>1, <1>2, <1>3, <1>5, <2>2, <2>3, MoveNodesGrows
  <2>6. Like(new, Tree, next)
    BY <1>2, <1>3, <1>5, MoveNodesIs
  <2>7. Moved(new, Tree, tops, parent, to.index)
    BY <1>2, <1>3, <1>5, MovedAre DEF tops
  <2> HIDE DEF new, slips, parent
  <2>8. IsDocument(new, next) /\ Used(new.nodes) \subseteq Used(Tree.nodes)
    BY <2>6 DEF Like, Grows
  <2>9. docs'[target] = new
    BY <1>1, <1>2, <1>7, <2>5, <2>8, CommitLands DEF target
  <2> DEFINE kids == new.nodes[parent].children
  <2>10. parent \in DOMAIN new.nodes /\ kids = list
    BY <1>5, <2>7 DEF Moved, list
  <2>11. Landed(kids, tops, alone, over, zone) /\ IF zone = "inside" THEN parent = over ELSE Contains(kids, over)
    BY <2>4, <2>10
  <2> HIDE DEF kids, alone
  <2> QED BY <2>1, <2>9, <2>10, <2>11 DEF DropLands, Landed, Holds, kids
<1> QED BY <1>6, <1>7

\* Every other step promises nothing about a place, or changes neither what is
\* promised nor the documents.
LEMMA NextLands == Inv /\ Trees /\ DropLands /\ [Next]_vars => DropLands'
<1> SUFFICES ASSUME Inv, Trees, DropLands, [Next]_vars PROVE DropLands'
  OBVIOUS
<1>1. last' = Nothing \/ last' = Promise => DropLands'
  <2>1. Nothing.op # "drop" /\ Promise.op # "drop"
    BY DEF Nothing, Promise
  <2> QED BY <2>1 DEF DropLands
<1>2. CASE EditTree
  <2>1. CASE \E ids \in Selection : \E dragged \in ToSet(ids), over \in Ids, zone \in Zone :
                 Drop(ids, dragged, over, zone)
    BY <2>1, DropLandsThere
  <2>2. CASE last' = Nothing \/ last' = Promise
    BY <1>1, <2>2
  <2> QED BY <1>2, <2>1, <2>2
          DEF EditTree, InsertModule, InsertComponentRef, DeleteNodes, DuplicateNodes, Wrap, RenameOutlet,
              CopyNodes, CutNodes, Paste
<1>3. CASE EditComponents
  <2>1. last' = Nothing \/ last' = Promise
    BY <1>3 DEF EditComponents, CreateComponent, DeleteComponent, ChangeSlotParam, Convert, Detach
  <2> QED BY <1>1, <2>1
<1>4. CASE Navigate
  <2>1. last' = Nothing \/ last' = Promise
    BY <1>4 DEF Navigate, Navigating, OpenComponent, ExitComponent, StartInlineEdit, EndInlineEdit, OpenPageInCanvas
  <2> QED BY <1>1, <2>1
<1>5. CASE UNCHANGED vars
  BY <1>5 DEF vars, DropLands
<1> QED BY <1>2, <1>3, <1>4, <1>5 DEF Next

\* dnd.ts and mutations.ts: what is dragged lands where the pointer was.
THEOREM DropsLand == Spec => []DropLands
<1>1. Init => DropLands
  BY DEF Init, DropLands, Nothing
<1>2. Inv /\ Trees /\ DropLands /\ [Next]_vars => DropLands'
  BY NextLands
<1>3. Spec => []Inv
  BY Invariant
<1>4. Spec => []Trees
  BY AlwaysTrees
<1> QED BY <1>1, <1>2, <1>3, <1>4, PTL DEF Spec
=============================================================================
