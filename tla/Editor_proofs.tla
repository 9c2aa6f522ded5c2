--------------------------- MODULE Editor_proofs ----------------------------
(***************************************************************************)
(* For any site, ids, modules and bound on the edits that satisfy Editor's *)
(* assumptions: the types of the whole site, that refs resolve, that no    *)
(* component contains itself, and that no document gets two content        *)
(* outlets.                                                                *)
(*                                                                         *)
(* Only the types are inductive alone. A component cannot contain itself   *)
(* when it is new because uses are typed: nothing refers to an id that has *)
(* not been given out. A second content outlet may come from the           *)
(* clipboard, or out of a component that detaches. Inv is the conjunction  *)
(* of the four, with the outlets counted in the clipboard too. What an     *)
(* edit brings is bounded by the names it uses and the outlets it adds     *)
(* (Turn), and the cycle guard is shown to be enough: a use that           *)
(* wouldCreateCycle lets pass leaves the relation acyclic                  *)
(* (GuardKeepsAcyclic).                                                    *)
(*                                                                         *)
(* The tree operators are loops written as functions. Each is followed     *)
(* turn by turn (UpTo), and what it does to a tree is said by relations    *)
(* the actions need: Sound (the nodes of a document), Narrows (no use and  *)
(* no outlet that was not there) and Grows (at most those named).          *)
(***************************************************************************)
EXTENDS Editor, FiniteSetTheorems, WellFoundedInduction, TLAPS

-----------------------------------------------------------------------------
\* Lists, sets of naturals, loops.

LessThan == {p \in Nat \X Nat : p[1] < p[2]}

\* The order of the naturals is well founded.
LEMMA NatWF == IsWellFoundedOn(LessThan, Nat)
<1>1. OpToRel(<, Nat) = LessThan
  BY Zenon DEF OpToRel, LessThan
<1> QED BY <1>1, NatLessThanWellFounded

\* A nonempty set of naturals has a least member.
LEMMA Least ==
  ASSUME NEW T, T \subseteq Nat, T # {}
  PROVE  \E x \in T : \A y \in T : x <= y
<1>1. PICK x \in T : \A y \in T : ~(<<y, x>> \in LessThan)
  BY NatWF, WFMin
<1>2. ASSUME NEW y \in T PROVE x <= y
  <2>1. x \in Nat /\ y \in Nat
    OBVIOUS
  <2>2. <<y, x>> \in Nat \X Nat /\ <<y, x>>[1] = y /\ <<y, x>>[2] = x
    BY <2>1
  <2>3. ~(y < x)
    BY <1>1, <2>2 DEF LessThan
  <2> QED BY <2>1, <2>3
<1> QED BY <1>2

\* What holds of 0 and of each next number holds up to N: how the loops below
\* are followed, the statement being the set S of the turns it holds of.
LEMMA UpTo ==
  ASSUME NEW N \in Nat, NEW S, 0 \in S, \A k \in 0..(N - 1) : k \in S => k + 1 \in S
  PROVE  \A k \in 0..N : k \in S
<1> SUFFICES ASSUME NEW k \in 0..N, k \notin S PROVE FALSE
  OBVIOUS
<1> DEFINE T == {j \in 0..N : j \notin S}
<1>1. PICK x \in T : \A y \in T : x <= y
  <2>1. T \subseteq Nat /\ T # {}
    OBVIOUS
  <2> HIDE DEF T
  <2> QED BY <2>1, Least
<1>2. x # 0 /\ x - 1 \in 0..(N-1)
  BY <1>1
<1>3. x - 1 \in S
  BY <1>1, <1>2
<1> QED BY <1>1, <1>2, <1>3

\* Keep is the last turn of a loop over the list.
LEMMA KeepTurns ==
  ASSUME NEW list, Len(list) \in Nat, NEW set
  PROVE  \E f : /\ f = [k \in 0..Len(list) |-> IF k = 0 THEN <<>>
                          ELSE IF list[k] \in set THEN Append(f[k - 1], list[k]) ELSE f[k - 1]]
                /\ Keep(list, set) = f[Len(list)]
<1> DEFINE Turn(k, v) == IF list[k] \in set THEN Append(v, list[k]) ELSE v
           Made(n, g) == g = [k \in 0..n |-> IF k = 0 THEN <<>> ELSE Turn(k, g[k - 1])]
<1>1. \E g : Made(0, g)
  <2>1. Made(0, [k \in 0..0 |-> <<>>])
    OBVIOUS
  <2> HIDE DEF Made
  <2> QED BY <2>1
<1>2. ASSUME NEW n \in 0..(Len(list) - 1), \E g : Made(n, g)
      PROVE  \E g : Made(n + 1, g)
  <2> HIDE DEF Turn
  <2>1. PICK g : Made(n, g)
    BY <1>2
  <2> DEFINE h == [k \in 0..(n + 1) |-> IF k = n + 1 THEN Turn(n + 1, g[n]) ELSE g[k]]
  <2>2. ASSUME NEW k \in 0..(n + 1)
        PROVE  h[k] = IF k = 0 THEN <<>> ELSE Turn(k, h[k - 1])
    BY <2>1
  <2>3. Made(n + 1, h)
    BY <2>2
  <2> HIDE DEF Made
  <2> QED BY <2>3
<1>3. PICK g : Made(Len(list), g)
  <2> HIDE DEF Made
  <2> DEFINE S == {n \in 0..Len(list) : \E g : Made(n, g)}
  <2>1. 0 \in S /\ \A n \in 0..(Len(list) - 1) : n \in S => n + 1 \in S
    BY <1>1, <1>2
  <2>2. Len(list) \in 0..Len(list)
    OBVIOUS
  <2> HIDE DEF S
  <2>3. Len(list) \in S
    BY <2>1, <2>2, UpTo
  <2> QED BY <2>3 DEF S
<1>4. Made(Len(list), CHOOSE f : Made(Len(list), f))
  <2> HIDE DEF Made
  <2> QED BY <1>3
<1> QED BY <1>4 DEF Keep

-----------------------------------------------------------------------------
\* A list contains its elements.
LEMMA ContainsIs ==
  ASSUME NEW E, NEW s \in Seq(E), NEW x
  PROVE  Contains(s, x) <=> x \in ToSet(s)
  BY DEF Contains, ToSet

\* A list whose elements are in B is a list over B.
LEMMA SeqOver ==
  ASSUME NEW E, NEW s \in Seq(E), NEW B, ToSet(s) \subseteq B
  PROVE  s \in Seq(B)
<1>1. \A i \in 1..Len(s) : s[i] \in B
  BY DEF ToSet
<1> QED BY <1>1

\* What Append adds.
LEMMA AppendIs ==
  ASSUME NEW E, NEW s \in Seq(E), NEW x \in E
  PROVE  /\ Append(s, x) \in Seq(E)
         /\ Len(Append(s, x)) = Len(s) + 1
         /\ ToSet(Append(s, x)) = ToSet(s) \union {x}
<1>1. \A i \in 1..Len(s) : Append(s, x)[i] = s[i]
  OBVIOUS
<1>2. Append(s, x)[Len(s) + 1] = x
  OBVIOUS
<1>3. DOMAIN Append(s, x) = 1..(Len(s) + 1) /\ DOMAIN s = 1..Len(s)
  OBVIOUS
<1> QED BY <1>1, <1>2, <1>3 DEF ToSet

\* Keep returns what of the list is in the set.
LEMMA KeepIs ==
  ASSUME NEW E, NEW list \in Seq(E), NEW set
  PROVE  /\ Keep(list, set) \in Seq(E)
         /\ ToSet(Keep(list, set)) = ToSet(list) \intersect set
         /\ Len(Keep(list, set)) <= Len(list)
<1> DEFINE n == Len(list)
           Upto(k) == {list[i] : i \in 1..k}
<1>0. n \in Nat /\ DOMAIN list = 1..n /\ n \in 0..n
  OBVIOUS
<1>1. PICK f : /\ f = [k \in 0..n |-> IF k = 0 THEN <<>>
                          ELSE IF list[k] \in set THEN Append(f[k - 1], list[k]) ELSE f[k - 1]]
               /\ Keep(list, set) = f[n]
  BY <1>0, KeepTurns
<1> DEFINE S == {k \in 0..n : /\ f[k] \in Seq(E) /\ Len(f[k]) <= k
                               /\ ToSet(f[k]) = Upto(k) \intersect set}
<1>2. 0 \in S
  BY <1>1 DEF ToSet
<1>3. ASSUME NEW k \in 0..(n - 1), k \in S PROVE k + 1 \in S
  <2>1. k + 1 \in 0..n /\ k + 1 # 0 /\ (k + 1) - 1 = k /\ list[k + 1] \in E
    OBVIOUS
  <2>2. f[k + 1] = IF list[k + 1] \in set THEN Append(f[k], list[k + 1]) ELSE f[k]
    BY <1>1, <2>1
  <2>3. Upto(k + 1) = Upto(k) \union {list[k + 1]}
    OBVIOUS
  <2>4. CASE list[k + 1] \in set
    <3>1. f[k] \in Seq(E) /\ Len(f[k]) <= k /\ ToSet(f[k]) = Upto(k) \intersect set
      BY <1>3
    <3>2. /\ f[k + 1] \in Seq(E) /\ Len(f[k + 1]) = Len(f[k]) + 1
          /\ ToSet(f[k + 1]) = ToSet(f[k]) \union {list[k + 1]}
      BY <2>1, <2>2, <2>4, <3>1, AppendIs
    <3>3. Len(f[k]) \in Nat
      BY <3>1
    <3> HIDE DEF Upto
    <3> QED BY <2>1, <2>3, <2>4, <3>1, <3>2, <3>3
  <2>5. CASE list[k + 1] \notin set
    <3>1. f[k] \in Seq(E) /\ Len(f[k]) <= k /\ ToSet(f[k]) = Upto(k) \intersect set
      BY <1>3
    <3>2. Len(f[k]) \in Nat
      BY <3>1
    <3> HIDE DEF Upto
    <3> QED BY <2>1, <2>2, <2>3, <2>5, <3>1, <3>2
  <2> QED BY <2>4, <2>5
<1>4. n \in S
  <2> HIDE DEF S
  <2> QED BY <1>0, <1>2, <1>3, UpTo
<1>5. Upto(n) = ToSet(list)
  BY <1>0 DEF ToSet
<1> HIDE DEF Upto
<1> QED BY <1>1, <1>4, <1>5

\* Min of a set of naturals.
LEMMA LeastIs ==
  ASSUME NEW T, T \subseteq Nat, T # {}
  PROVE  Min(T) \in T /\ \A y \in T : Min(T) <= y
  BY Least DEF Min

\* Max of a bounded set of naturals.
LEMMA GreatestIs ==
  ASSUME NEW T, NEW b \in Nat, T \subseteq 0..b, T # {}
  PROVE  Max(T) \in T /\ \A y \in T : y <= Max(T)
<1> DEFINE L == {b - x : x \in T}
<1>1. L \subseteq Nat /\ L # {}
  <2>1. \A x \in T : b - x \in Nat
    OBVIOUS
  <2> QED BY <2>1
<1>2. PICK z \in L : \A y \in L : z <= y
  <2> HIDE DEF L
  <2> QED BY <1>1, Least
<1>3. PICK x \in T : z = b - x
  BY <1>2
<1>4. ASSUME NEW y \in T PROVE x >= y
  <2>1. b - y \in L
    OBVIOUS
  <2>2. z <= b - y
    BY <1>2, <2>1
  <2> QED BY <1>3, <2>2
<1>5. /\ (CHOOSE g \in T : \A y \in T : g >= y) \in T
      /\ \A y \in T : (CHOOSE g \in T : \A h \in T : g >= h) >= y
  BY <1>4
<1> QED BY <1>5 DEF Max

\* Ascending lists a set of ids.
LEMMA AscendingIs ==
  ASSUME NEW b \in Int, NEW ids, ids \subseteq 1..b
  PROVE  Ascending(ids) \in Seq(ids) /\ ToSet(Ascending(ids)) = ids
<1>1. CASE ids = {}
  BY <1>1 DEF Ascending, ToSet
<1>2. CASE ids # {}
  <2> DEFINE m == Max(ids)
             all == [i \in 1..m |-> i]
  <2>1. b \in Nat /\ ids \subseteq 0..b
    <3>1. PICK x \in ids : x \in 1..b
      BY <1>2
    <3> QED BY <3>1
  <2>2. m \in ids /\ \A y \in ids : y <= m
    BY <1>2, <2>1, GreatestIs
  <2>3. m \in Nat /\ ids \subseteq 1..m
    <3> HIDE DEF m
    <3>1. m \in 1..b
      BY <2>2
    <3> QED BY <2>2, <3>1
  <2>4. all \in Seq(1..m) /\ ToSet(all) = 1..m
    BY <2>3 DEF ToSet
  <2>5. Keep(all, ids) \in Seq(1..m) /\ ToSet(Keep(all, ids)) = ids
    <3> DEFINE upto == 1..m
    <3>1. all \in Seq(upto) /\ ToSet(all) = upto /\ ids \subseteq upto
      BY <2>3, <2>4
    <3> HIDE DEF all, upto
    <3>2. ToSet(Keep(all, ids)) = ToSet(all) \intersect ids /\ Keep(all, ids) \in Seq(upto)
      BY <3>1, KeepIs
    <3> QED BY <3>1, <3>2 DEF upto
  <2>6. Ascending(ids) = Keep(all, ids)
    BY <1>2 DEF Ascending
  <2> HIDE DEF all, m
  <2> QED BY <2>5, <2>6, SeqOver
<1> QED BY <1>1, <1>2

\* What a concatenation holds.
LEMMA ConcatIs ==
  ASSUME NEW E, NEW s \in Seq(E), NEW t \in Seq(E)
  PROVE  s \o t \in Seq(E) /\ ToSet(s \o t) = ToSet(s) \union ToSet(t)
<1>1. s \o t \in Seq(E) /\ Len(s \o t) = Len(s) + Len(t)
  OBVIOUS
<1>2. \A i \in 1..Len(s) : (s \o t)[i] = s[i]
  OBVIOUS
<1>3. \A i \in 1..Len(t) : (s \o t)[Len(s) + i] = t[i]
  OBVIOUS
<1>4. \A i \in 1..(Len(s) + Len(t)) : i \in 1..Len(s) \/ \E j \in 1..Len(t) : i = Len(s) + j
  <2> TAKE i \in 1..(Len(s) + Len(t))
  <2>1. i \notin 1..Len(s) => i - Len(s) \in 1..Len(t) /\ i = Len(s) + (i - Len(s))
    OBVIOUS
  <2> QED BY <2>1
<1>5. DOMAIN (s \o t) = 1..(Len(s) + Len(t)) /\ DOMAIN s = 1..Len(s) /\ DOMAIN t = 1..Len(t)
  BY <1>1
<1>6. ToSet(s \o t) \subseteq ToSet(s) \union ToSet(t)
  BY <1>2, <1>3, <1>4, <1>5 DEF ToSet
<1>7. ToSet(s) \subseteq ToSet(s \o t)
  BY <1>2, <1>5 DEF ToSet
<1>8. ToSet(t) \subseteq ToSet(s \o t)
  <2>1. \A i \in 1..Len(t) : Len(s) + i \in 1..(Len(s) + Len(t))
    OBVIOUS
  <2> QED BY <1>3, <1>5, <2>1 DEF ToSet
<1> QED BY <1>1, <1>6, <1>7, <1>8

\* What a part of a list holds.
LEMMA PartIs ==
  ASSUME NEW E, NEW s \in Seq(E), NEW a \in Nat \ {0}, NEW b \in 0..Len(s)
  PROVE  /\ SubSeq(s, a, b) \in Seq(E)
         /\ ToSet(SubSeq(s, a, b)) \subseteq {s[i] : i \in a..b}
         /\ {s[i] : i \in a..b} \subseteq ToSet(SubSeq(s, a, b))
<1>1. SubSeq(s, a, b) \in Seq(E)
  OBVIOUS
<1>2. Len(SubSeq(s, a, b)) = IF a <= b THEN b - a + 1 ELSE 0
  OBVIOUS
<1>3. \A i \in 1..Len(SubSeq(s, a, b)) : SubSeq(s, a, b)[i] = s[a + i - 1] /\ a + i - 1 \in a..b
  BY <1>2
<1>4. DOMAIN SubSeq(s, a, b) = 1..Len(SubSeq(s, a, b))
  BY <1>1
<1>5. ToSet(SubSeq(s, a, b)) \subseteq {s[i] : i \in a..b}
  BY <1>3, <1>4 DEF ToSet
<1>6. ASSUME NEW i \in a..b PROVE s[i] \in ToSet(SubSeq(s, a, b))
  <2>1. i - a + 1 \in 1..Len(SubSeq(s, a, b)) /\ a + (i - a + 1) - 1 = i
    BY <1>2
  <2> QED BY <1>3, <1>4, <2>1 DEF ToSet
<1> QED BY <1>1, <1>5, <1>6

\* splice adds the ids and takes nothing away, wherever the index falls.
LEMMA SpliceIs ==
  ASSUME NEW E, NEW list \in Seq(E), NEW ids \in Seq(E), NEW index \in Int
  PROVE  /\ Splice(list, index, ids) \in Seq(E)
         /\ ToSet(Splice(list, index, ids)) = ToSet(list) \union ToSet(ids)
<1> DEFINE k == IF index > Len(list) THEN Len(list) ELSE IF index < 0 THEN 0 ELSE index
           front == SubSeq(list, 1, k)
           back == SubSeq(list, k + 1, Len(list))
<1>1. k \in 0..Len(list) /\ k + 1 \in Nat \ {0} /\ Len(list) \in 0..Len(list)
  OBVIOUS
<1>2. Splice(list, index, ids) = front \o ids \o back
  BY DEF Splice
<1>3. front \in Seq(E) /\ ToSet(front) = {list[i] : i \in 1..k}
  <2> HIDE DEF k
  <2> QED BY <1>1, PartIs
<1>4. back \in Seq(E) /\ ToSet(back) = {list[i] : i \in (k + 1)..Len(list)}
  <2> HIDE DEF k
  <2> QED BY <1>1, PartIs
<1>5. ToSet(front) \union ToSet(back) = ToSet(list)
  <2> HIDE DEF k
  <2>1. 1..Len(list) = (1..k) \union ((k + 1)..Len(list)) /\ DOMAIN list = 1..Len(list)
    BY <1>1
  <2> QED BY <1>3, <1>4, <2>1 DEF ToSet
<1> HIDE DEF front, back, k
<1>6. front \o ids \in Seq(E) /\ ToSet(front \o ids) = ToSet(front) \union ToSet(ids)
  BY <1>3, ConcatIs
<1>7. /\ (front \o ids) \o back \in Seq(E)
      /\ ToSet((front \o ids) \o back) = ToSet(front \o ids) \union ToSet(back)
  <2> DEFINE fi == front \o ids
  <2> HIDE DEF fi
  <2>1. fi \in Seq(E) /\ ToSet(fi) = ToSet(front) \union ToSet(ids)
    BY <1>6 DEF fi
  <2>2. fi \o back \in Seq(E) /\ ToSet(fi \o back) = ToSet(fi) \union ToSet(back)
    BY <1>4, <2>1, ConcatIs
  <2> QED BY <2>2 DEF fi
<1> QED BY <1>2, <1>5, <1>6, <1>7

\* indexOf: the position, or -1.
LEMMA IndexOfIs ==
  ASSUME NEW E, NEW list \in Seq(E), NEW x
  PROVE  /\ IndexOf(list, x) \in Int
         /\ Contains(list, x) => IndexOf(list, x) + 1 \in 1..Len(list)
         /\ Contains(list, x) => list[IndexOf(list, x) + 1] = x
         /\ ~Contains(list, x) => IndexOf(list, x) = -1
<1> DEFINE I == {i \in 1..Len(list) : list[i] = x}
<1>1. IndexOf(list, x) = (IF I # {} THEN Min(I) ELSE 0) - 1
  BY DEF IndexOf, SelectInSeq
<1>2. I # {} <=> Contains(list, x)
  BY DEF Contains
<1>3. CASE I # {}
  <2>1. Min(I) \in I
    <3>1. I \subseteq Nat
      OBVIOUS
    <3> HIDE DEF I
    <3> QED BY <1>3, <3>1, LeastIs
  <2>2. Min(I) \in 1..Len(list) /\ list[Min(I)] = x /\ Min(I) \in Nat
    BY <2>1
  <2> HIDE DEF I
  <2>3. IndexOf(list, x) = Min(I) - 1
    BY <1>1, <1>3
  <2>4. IndexOf(list, x) + 1 = Min(I) /\ IndexOf(list, x) \in Int
    BY <2>2, <2>3
  <2> QED BY <1>2, <1>3, <2>2, <2>4
<1>4. CASE I = {}
  <2>1. IndexOf(list, x) = 0 - 1
    BY <1>1, <1>4
  <2> QED BY <1>2, <1>4, <2>1
<1> QED BY <1>3, <1>4

\* Replacing one element of a list.
LEMMA ReplaceIs ==
  ASSUME NEW E, NEW list \in Seq(E), NEW x, NEW new \in E
  PROVE  /\ Replace(list, x, new) \in Seq(E)
         /\ ToSet(Replace(list, x, new)) \subseteq ToSet(list) \union {new}
<1>1. DOMAIN list = 1..Len(list) /\ Len(list) \in Nat
  OBVIOUS
<1>2. Replace(list, x, new) = [i \in 1..Len(list) |-> IF i = IndexOf(list, x) + 1 THEN new ELSE list[i]]
  BY <1>1 DEF Replace
<1>3. Replace(list, x, new) \in Seq(E)
  BY <1>1, <1>2
<1> QED BY <1>1, <1>2, <1>3 DEF ToSet

-----------------------------------------------------------------------------
\* Fresh ids, and the walk over a subtree.

\* Fresh ids are new and differ.
LEMMA FreshIs ==
  ASSUME NEW ids, IsFiniteSet(ids), ids \subseteq Nat, NEW from \in Nat
  PROVE  /\ Cardinality(ids) \in Nat
         /\ FreshIds(ids, from) \in [ids -> from..(from + Cardinality(ids) - 1)]
         /\ \A i, j \in ids : FreshIds(ids, from)[i] = FreshIds(ids, from)[j] => i = j
<1> DEFINE Below(id) == {j \in ids : j < id}
<1>1. Cardinality(ids) \in Nat
  BY FS_CardinalityType
<1>2. ASSUME NEW id \in ids PROVE Cardinality(Below(id)) \in 0..(Cardinality(ids) - 1)
  <2>1. Below(id) \in SUBSET ids /\ id \notin Below(id)
    OBVIOUS
  <2>2. /\ IsFiniteSet(Below(id)) /\ Cardinality(Below(id)) <= Cardinality(ids)
        /\ Cardinality(ids) = Cardinality(Below(id)) => ids = Below(id)
    BY <2>1, FS_Subset
  <2>3. Cardinality(Below(id)) \in Nat
    BY <2>2, FS_CardinalityType
  <2> QED BY <1>1, <2>1, <2>2, <2>3
<1>3. ASSUME NEW i \in ids, NEW j \in ids, i < j PROVE Cardinality(Below(i)) # Cardinality(Below(j))
  <2>1. Below(i) \in SUBSET Below(j) /\ i \in Below(j) /\ i \notin Below(i)
    <3>1. \A x \in ids : x < i => x < j
      BY <1>3
    <3>2. ~(i < i)
      OBVIOUS
    <3> QED BY <1>3, <3>1, <3>2
  <2>2. IsFiniteSet(Below(j))
    BY FS_Subset, Below(j) \in SUBSET ids
  <2> HIDE DEF Below
  <2>3. Cardinality(Below(j)) = Cardinality(Below(i)) => Below(j) = Below(i)
    BY <2>1, <2>2, FS_Subset
  <2> QED BY <2>1, <2>3
<1>4. FreshIds(ids, from) = [id \in ids |-> from + Cardinality(Below(id))]
  BY DEF FreshIds
<1> HIDE DEF Below
<1>5. FreshIds(ids, from) \in [ids -> from..(from + Cardinality(ids) - 1)]
  <2>1. ASSUME NEW id \in ids
        PROVE  from + Cardinality(Below(id)) \in from..(from + Cardinality(ids) - 1)
    BY <1>1, <1>2
  <2> QED BY <1>4, <2>1
<1>6. ASSUME NEW i \in ids, NEW j \in ids, FreshIds(ids, from)[i] = FreshIds(ids, from)[j]
      PROVE  i = j
  <2>1. Cardinality(Below(i)) = Cardinality(Below(j))
    BY <1>1, <1>2, <1>4, <1>6
  <2> QED BY <1>3, <2>1
<1> QED BY <1>1, <1>5, <1>6

-----------------------------------------------------------------------------
\* What the walks need of a node map.
Lists(nodes) ==
    /\ IsFiniteSet(DOMAIN nodes)
    /\ DOMAIN nodes \subseteq Nat
    /\ \A id \in DOMAIN nodes : nodes[id].children \in Seq(Nat)

Kids(tree, id) == ToSet(tree.nodes[id].children)

\* One turn of CollectSubtreeIds, and where it can get.
Visit(tree, now) ==
    LET new == {i \in DOMAIN now.todo :
                   Has(tree, now.todo[i]) /\ ~Contains(now.done, now.todo[i])}
        i == Min(new)
        id == now.todo[i]
    IN  IF new = {} THEN now
        ELSE [todo |-> tree.nodes[id].children
                         \o SubSeq(now.todo, i + 1, Len(now.todo)),
              done |-> Append(now.done, id)]

Stage == [todo : Seq(Nat), done : Seq(Nat)]

Stuck(tree, now) ==
    \A id \in ToSet(now.todo) : Has(tree, id) => id \in ToSet(now.done)

\* A turn of the walk over a subtree: nothing to do, or one node more is done.
LEMMA VisitIs ==
  ASSUME NEW tree, Lists(tree.nodes), NEW now \in Stage
  PROVE  \/ Stuck(tree, now) /\ Visit(tree, now) = now
         \/ \E id \in ToSet(now.todo) :
               /\ Has(tree, id) /\ id \notin ToSet(now.done)
               /\ Visit(tree, now) \in Stage
               /\ ToSet(Visit(tree, now).done) = ToSet(now.done) \union {id}
               /\ ToSet(Visit(tree, now).todo) \subseteq ToSet(now.todo) \union Kids(tree, id)
               /\ Kids(tree, id) \subseteq ToSet(Visit(tree, now).todo)
               /\ \A x \in ToSet(now.todo) : \/ x \in ToSet(Visit(tree, now).todo)
                                             \/ x \in ToSet(Visit(tree, now).done)
                                             \/ ~Has(tree, x)
<1> DEFINE new == {i \in DOMAIN now.todo :
                      Has(tree, now.todo[i]) /\ ~Contains(now.done, now.todo[i])}
           i == Min(new)
           id == now.todo[i]
           rest == SubSeq(now.todo, i + 1, Len(now.todo))
           v == [todo |-> tree.nodes[id].children \o rest, done |-> Append(now.done, id)]
<1>0. now.todo \in Seq(Nat) /\ now.done \in Seq(Nat) /\ DOMAIN now.todo = 1..Len(now.todo)
  BY DEF Stage
<1>1. Visit(tree, now) = IF new = {} THEN now ELSE v
  BY DEF Visit
<1>2. \A x : Contains(now.done, x) <=> x \in ToSet(now.done)
  BY <1>0, ContainsIs
<1>3. CASE new = {}
  <2>1. Stuck(tree, now)
    BY <1>0, <1>2, <1>3 DEF Stuck, ToSet
  <2> QED BY <1>1, <1>3, <2>1
<1>4. CASE new # {}
  <2>1. i \in new /\ \A j \in new : i <= j
    <3>1. new \subseteq Nat
      BY <1>0
    <3> HIDE DEF new
    <3> QED BY <1>4, <3>1, LeastIs
  <2>2. i \in 1..Len(now.todo) /\ Has(tree, id) /\ id \notin ToSet(now.done)
    BY <1>0, <1>2, <2>1
  <2>3. \A j \in 1..Len(now.todo) : j < i => ~Has(tree, now.todo[j]) \/ now.todo[j] \in ToSet(now.done)
    <3> TAKE j \in 1..Len(now.todo)
    <3>1. j \notin new \/ ~(j < i)
      BY <2>1, <2>2
    <3> QED BY <1>0, <1>2, <3>1
  <2> HIDE DEF new, i
  <2>4. id \in ToSet(now.todo) /\ id \in Nat
    BY <1>0, <2>2 DEF ToSet
  <2>5. tree.nodes[id].children \in Seq(Nat)
    BY <2>2 DEF Has, Lists
  <2>6. rest \in Seq(Nat) /\ ToSet(rest) = {now.todo[j] : j \in (i + 1)..Len(now.todo)}
    <3>1. i + 1 \in Nat \ {0} /\ Len(now.todo) \in 0..Len(now.todo)
      BY <1>0, <2>2
    <3> QED BY <1>0, <3>1, PartIs
  <2> HIDE DEF id, rest
  <2>7. v.todo \in Seq(Nat) /\ ToSet(v.todo) = Kids(tree, id) \union ToSet(rest)
    BY <2>5, <2>6, ConcatIs DEF Kids
  <2>8. v.done \in Seq(Nat) /\ ToSet(v.done) = ToSet(now.done) \union {id}
    BY <1>0, <2>4, AppendIs
  <2>9. v \in Stage
    BY <2>7, <2>8 DEF Stage
  <2>10. Visit(tree, now) = v
    BY <1>1, <1>4
  <2>11. id = now.todo[i]
    BY DEF id
  <2> HIDE DEF v
  <2>12. ToSet(rest) \subseteq ToSet(now.todo)
    <3>1. (i + 1)..Len(now.todo) \subseteq DOMAIN now.todo
      BY <1>0, <2>2
    <3> QED BY <2>6, <3>1 DEF ToSet
  <2>13. ASSUME NEW x \in ToSet(now.todo)
         PROVE  x \in ToSet(v.todo) \/ x \in ToSet(v.done) \/ ~Has(tree, x)
    <3>1. PICK j \in 1..Len(now.todo) : x = now.todo[j]
      BY <1>0 DEF ToSet
    <3>2. CASE j < i
      BY <2>3, <2>8, <3>1, <3>2
    <3>3. CASE j = i
      BY <2>8, <2>11, <3>1, <3>3
    <3>4. CASE i < j
      <4>1. j \in (i + 1)..Len(now.todo)
        BY <2>2, <3>4
      <4> QED BY <2>6, <2>7, <3>1, <4>1
    <3> QED BY <2>2, <3>2, <3>3, <3>4
  <2> QED BY <2>2, <2>4, <2>7, <2>8, <2>9, <2>10, <2>12, <2>13
<1> QED BY <1>3, <1>4

\* collectSubtreeIds is a loop of as many turns as there are nodes.
LEMMA CollectTurns ==
  ASSUME NEW tree, NEW root, Cardinality(DOMAIN tree.nodes) \in Nat
  PROVE  \E f : /\ f = [k \in 0..Cardinality(DOMAIN tree.nodes) |->
                          IF k = 0 THEN [todo |-> <<root>>, done |-> <<>>] ELSE Visit(tree, f[k - 1])]
                /\ CollectSubtreeIds(tree, root) = f[Cardinality(DOMAIN tree.nodes)].done
<1> DEFINE n == Cardinality(DOMAIN tree.nodes)
           base == [todo |-> <<root>>, done |-> <<>>]
           Made(m, g) == g = [k \in 0..m |-> IF k = 0 THEN base ELSE Visit(tree, g[k - 1])]
<1> HIDE DEF base
<1>1. \E g : Made(0, g)
  <2>1. Made(0, [k \in 0..0 |-> base])
    OBVIOUS
  <2> HIDE DEF Made
  <2> QED BY <2>1
<1>2. ASSUME NEW m \in 0..(n - 1), \E g : Made(m, g)
      PROVE  \E g : Made(m + 1, g)
  <2>1. PICK g : Made(m, g)
    BY <1>2
  <2> DEFINE h == [k \in 0..(m + 1) |-> IF k = m + 1 THEN Visit(tree, g[m]) ELSE g[k]]
  <2>2. ASSUME NEW k \in 0..(m + 1)
        PROVE  h[k] = IF k = 0 THEN base ELSE Visit(tree, h[k - 1])
    BY <2>1
  <2>3. Made(m + 1, h)
    BY <2>2
  <2> HIDE DEF Made
  <2> QED BY <2>3
<1>3. PICK g : Made(n, g)
  <2> HIDE DEF Made
  <2> DEFINE S == {m \in 0..n : \E g : Made(m, g)}
  <2>1. 0 \in S /\ \A m \in 0..(n - 1) : m \in S => m + 1 \in S
    BY <1>1, <1>2
  <2>2. n \in 0..n
    OBVIOUS
  <2> HIDE DEF S, n
  <2>3. n \in S
    BY <2>1, <2>2, UpTo
  <2> QED BY <2>3 DEF S
<1>4. Made(n, CHOOSE f : Made(n, f))
  <2> HIDE DEF Made
  <2> QED BY <1>3
<1> QED BY <1>4 DEF CollectSubtreeIds, Visit, base

\* Where the walk ends: what is done is reached from the root and is closed
\* under the children that exist.
LEMMA StageIs ==
  ASSUME NEW tree, Lists(tree.nodes), NEW root \in Nat
  PROVE  \E now \in Stage :
            /\ CollectSubtreeIds(tree, root) = now.done
            /\ ToSet(now.done) \subseteq DOMAIN tree.nodes
            /\ \A x \in ToSet(now.done) \union ToSet(now.todo) :
                  x = root \/ \E p \in ToSet(now.done) : x \in Kids(tree, p)
            /\ Has(tree, root) => root \in ToSet(now.done)
            /\ \A p \in ToSet(now.done) : \A c \in Kids(tree, p) :
                  Has(tree, c) => c \in ToSet(now.done)
<1> DEFINE n == Cardinality(DOMAIN tree.nodes)
           base == [todo |-> <<root>>, done |-> <<>>]
           Good(k, now) ==
              /\ now \in Stage
              /\ ToSet(now.done) \subseteq DOMAIN tree.nodes
              /\ \A x \in ToSet(now.done) \union ToSet(now.todo) :
                    x = root \/ \E p \in ToSet(now.done) : x \in Kids(tree, p)
              /\ Has(tree, root) => root \in ToSet(now.done) \union ToSet(now.todo)
              /\ \A p \in ToSet(now.done) : \A c \in Kids(tree, p) :
                    Has(tree, c) => c \in ToSet(now.done) \union ToSet(now.todo)
              /\ Stuck(tree, now) \/ Cardinality(ToSet(now.done)) = k
<1>0. n \in Nat
  BY FS_CardinalityType DEF Lists
<1>1. PICK f : /\ f = [k \in 0..n |-> IF k = 0 THEN base ELSE Visit(tree, f[k - 1])]
               /\ CollectSubtreeIds(tree, root) = f[n].done
  BY <1>0, CollectTurns
<1>2. Good(0, f[0])
  <2>1. f[0] = base
    BY <1>0, <1>1
  <2>2. ToSet(base.todo) = {root} /\ ToSet(base.done) = {} /\ base \in Stage
    BY DEF ToSet, Stage
  <2>3. Cardinality({}) = 0
    BY FS_EmptySet
  <2> HIDE DEF base
  <2> QED BY <2>1, <2>2, <2>3
<1>3. ASSUME NEW k \in 0..(n - 1), Good(k, f[k]) PROVE Good(k + 1, f[k + 1])
  <2> DEFINE now == f[k]
             then == Visit(tree, now)
  <2>1. f[k + 1] = then
    <3>1. k + 1 \in 0..n /\ k + 1 # 0 /\ (k + 1) - 1 = k
      BY <1>0
    <3> HIDE DEF base
    <3> QED BY <1>1, <3>1
  <2>2. now \in Stage
    BY <1>3
  <2> HIDE DEF now, then
  <2>3. CASE Stuck(tree, now) /\ then = now
    <3>1. Good(k, now)
      BY <1>3 DEF now
    <3> QED BY <2>1, <2>3, <3>1
  <2>4. ASSUME NEW id \in ToSet(now.todo),
               Has(tree, id), id \notin ToSet(now.done), then \in Stage,
               ToSet(then.done) = ToSet(now.done) \union {id},
               ToSet(then.todo) \subseteq ToSet(now.todo) \union Kids(tree, id),
               Kids(tree, id) \subseteq ToSet(then.todo),
               \A x \in ToSet(now.todo) : \/ x \in ToSet(then.todo)
                                           \/ x \in ToSet(then.done)
                                           \/ ~Has(tree, x)
        PROVE  Good(k + 1, then)
    <3>0. Good(k, now)
      BY <1>3 DEF now
    <3>1. ToSet(then.done) \subseteq DOMAIN tree.nodes
      BY <2>4, <3>0 DEF Has
    <3>2. ASSUME NEW x \in ToSet(then.done) \union ToSet(then.todo)
          PROVE  x = root \/ \E p \in ToSet(then.done) : x \in Kids(tree, p)
      BY <2>4, <3>0
    <3>3. Has(tree, root) => root \in ToSet(then.done) \union ToSet(then.todo)
      BY <2>4, <3>0
    <3>4. ASSUME NEW p \in ToSet(then.done), NEW c \in Kids(tree, p), Has(tree, c)
          PROVE  c \in ToSet(then.done) \union ToSet(then.todo)
      BY <2>4, <3>0, <3>4
    <3>5. Stuck(tree, then) \/ Cardinality(ToSet(then.done)) = k + 1
      <4>1. ~Stuck(tree, now)
        BY <2>4 DEF Stuck
      <4>2. Cardinality(ToSet(now.done)) = k
        BY <3>0, <4>1
      <4>3. IsFiniteSet(ToSet(now.done))
        BY <3>0, FS_Subset DEF Lists
      <4>4. Cardinality(ToSet(now.done) \union {id}) = Cardinality(ToSet(now.done)) + 1
        BY <2>4, <4>3, FS_AddElement
      <4> QED BY <2>4, <4>2, <4>4
    <3> QED BY <2>4, <3>1, <3>2, <3>3, <3>4, <3>5
  <2> HIDE DEF Good
  <2> QED BY <2>1, <2>2, <2>3, <2>4, VisitIs DEF then
<1>4. Good(n, f[n])
  <2> HIDE DEF Good, n
  <2> DEFINE S == {k \in 0..n : Good(k, f[k])}
  <2>1. 0 \in S /\ \A k \in 0..(n - 1) : k \in S => k + 1 \in S
    BY <1>0, <1>2, <1>3
  <2>2. n \in 0..n
    BY <1>0
  <2> HIDE DEF S
  <2>3. n \in S
    BY <1>0, <2>1, <2>2, UpTo
  <2> QED BY <2>3 DEF S
<1>5. Stuck(tree, f[n])
  <2>1. CASE Cardinality(ToSet(f[n].done)) = n
    <3>1. ToSet(f[n].done) = DOMAIN tree.nodes
      BY <1>4, <2>1, FS_Subset DEF Lists
    <3> QED BY <3>1 DEF Stuck, Has
  <2> QED BY <1>4, <2>1
<1>6. \A x \in ToSet(f[n].todo) : Has(tree, x) => x \in ToSet(f[n].done)
  BY <1>5 DEF Stuck
<1> HIDE DEF n
<1> QED BY <1>1, <1>4, <1>6

\* collectSubtreeIds: what a node's subtree is.
LEMMA SubtreeIs ==
  ASSUME NEW tree, Lists(tree.nodes), NEW root \in Nat
  PROVE  /\ CollectSubtreeIds(tree, root) \in Seq(Nat)
         /\ Subtree(tree, root) \subseteq DOMAIN tree.nodes
         /\ Has(tree, root) => root \in Subtree(tree, root)
         /\ \A x \in Subtree(tree, root) :
               x = root \/ \E p \in Subtree(tree, root) : x \in Kids(tree, p)
         /\ \A p \in Subtree(tree, root) : \A c \in Kids(tree, p) :
               Has(tree, c) => c \in Subtree(tree, root)
<1>1. PICK now \in Stage :
         /\ CollectSubtreeIds(tree, root) = now.done
         /\ ToSet(now.done) \subseteq DOMAIN tree.nodes
         /\ \A x \in ToSet(now.done) \union ToSet(now.todo) :
               x = root \/ \E p \in ToSet(now.done) : x \in Kids(tree, p)
         /\ Has(tree, root) => root \in ToSet(now.done)
         /\ \A p \in ToSet(now.done) : \A c \in Kids(tree, p) :
               Has(tree, c) => c \in ToSet(now.done)
  BY StageIs
<1>2. now.done \in Seq(Nat)
  BY DEF Stage
<1> QED BY <1>1, <1>2 DEF Subtree

\* ... and the least such set.
LEMMA SubtreeLeast ==
  ASSUME NEW tree, Lists(tree.nodes), NEW root \in Nat, NEW T, root \in T,
         \A p \in T : Has(tree, p) => \A c \in Kids(tree, p) : Has(tree, c) => c \in T
  PROVE  Subtree(tree, root) \subseteq T
<1> DEFINE n == Cardinality(DOMAIN tree.nodes)
           base == [todo |-> <<root>>, done |-> <<>>]
           Good(now) ==
              /\ now \in Stage
              /\ ToSet(now.done) \subseteq T
              /\ \A x \in ToSet(now.todo) : Has(tree, x) => x \in T
<1>0. n \in Nat
  BY FS_CardinalityType DEF Lists
<1>1. PICK f : /\ f = [k \in 0..n |-> IF k = 0 THEN base ELSE Visit(tree, f[k - 1])]
               /\ CollectSubtreeIds(tree, root) = f[n].done
  BY <1>0, CollectTurns
<1>2. Good(f[0])
  <2>1. f[0] = base
    BY <1>0, <1>1
  <2>2. ToSet(base.todo) = {root} /\ ToSet(base.done) = {} /\ base \in Stage
    BY DEF ToSet, Stage
  <2> HIDE DEF base
  <2> QED BY <2>1, <2>2
<1>3. ASSUME NEW k \in 0..(n - 1), Good(f[k]) PROVE Good(f[k + 1])
  <2> DEFINE now == f[k]
             then == Visit(tree, now)
  <2>1. f[k + 1] = then
    <3>1. k + 1 \in 0..n /\ k + 1 # 0 /\ (k + 1) - 1 = k
      BY <1>0
    <3> HIDE DEF base
    <3> QED BY <1>1, <3>1
  <2>2. Good(now)
    BY <1>3
  <2> HIDE DEF now, then
  <2>3. \/ then = now
        \/ \E id \in ToSet(now.todo) :
               /\ Has(tree, id) /\ then \in Stage
               /\ ToSet(then.done) = ToSet(now.done) \union {id}
               /\ ToSet(then.todo) \subseteq ToSet(now.todo) \union Kids(tree, id)
    BY <2>2, VisitIs DEF then
  <2> QED BY <2>1, <2>2, <2>3
<1>4. Good(f[n])
  <2> HIDE DEF Good, n
  <2> DEFINE S == {k \in 0..n : Good(f[k])}
  <2>1. 0 \in S /\ \A k \in 0..(n - 1) : k \in S => k + 1 \in S
    BY <1>0, <1>2, <1>3
  <2>2. n \in 0..n
    BY <1>0
  <2> HIDE DEF S
  <2>3. n \in S
    BY <1>0, <2>1, <2>2, UpTo
  <2> QED BY <2>3 DEF S
<1> HIDE DEF n
<1> QED BY <1>1, <1>4 DEF Subtree

-----------------------------------------------------------------------------
\* Parents, chains, places.

\* A parent is a node, or there is none.
LEMMA ParentIs ==
  ASSUME NEW tree, Lists(tree.nodes), NEW id
  PROVE  /\ Parent(tree, id) \in DOMAIN tree.nodes \union {Null}
         /\ Parent(tree, id) \in Nat
         /\ Parent(tree, id) # Null => Parent(tree, id) = tree.nodes[id].parentId
  BY DEF Parent, Has, Lists, Null

\* Chain is a loop up the parents.
LEMMA ChainTurns ==
  ASSUME NEW tree, NEW id, Cardinality(DOMAIN tree.nodes) \in Nat
  PROVE  \E f : /\ f = [k \in 0..Cardinality(DOMAIN tree.nodes) |->
                          IF k = 0 THEN <<id>>
                          ELSE LET above == f[k - 1]
                                   parent == Parent(tree, Head(above))
                               IN  IF parent = Null \/ Contains(above, parent) THEN above
                                   ELSE <<parent>> \o above]
                /\ Chain(tree, id) = f[Cardinality(DOMAIN tree.nodes)]
<1> DEFINE n == Cardinality(DOMAIN tree.nodes)
           Turn(above) == LET parent == Parent(tree, Head(above))
                          IN  IF parent = Null \/ Contains(above, parent) THEN above
                              ELSE <<parent>> \o above
           Made(m, g) == g = [k \in 0..m |-> IF k = 0 THEN <<id>> ELSE Turn(g[k - 1])]
<1>1. \E g : Made(0, g)
  <2>1. Made(0, [k \in 0..0 |-> <<id>>])
    OBVIOUS
  <2> HIDE DEF Made
  <2> QED BY <2>1
<1>2. ASSUME NEW m \in 0..(n - 1), \E g : Made(m, g)
      PROVE  \E g : Made(m + 1, g)
  <2> HIDE DEF Turn
  <2>1. PICK g : Made(m, g)
    BY <1>2
  <2> DEFINE h == [k \in 0..(m + 1) |-> IF k = m + 1 THEN Turn(g[m]) ELSE g[k]]
  <2>2. ASSUME NEW k \in 0..(m + 1)
        PROVE  h[k] = IF k = 0 THEN <<id>> ELSE Turn(h[k - 1])
    BY <2>1
  <2>3. Made(m + 1, h)
    BY <2>2
  <2> HIDE DEF Made
  <2> QED BY <2>3
<1>3. PICK g : Made(n, g)
  <2> HIDE DEF Made
  <2> DEFINE S == {m \in 0..n : \E g : Made(m, g)}
  <2>1. 0 \in S /\ \A m \in 0..(n - 1) : m \in S => m + 1 \in S
    BY <1>1, <1>2
  <2>2. n \in 0..n
    OBVIOUS
  <2> HIDE DEF S, n
  <2>3. n \in S
    BY <2>1, <2>2, UpTo
  <2> QED BY <2>3 DEF S
<1>4. Made(n, CHOOSE f : Made(n, f))
  <2> HIDE DEF Made
  <2> QED BY <1>3
<1> QED BY <1>4 DEF Chain

\* Chain lists nodes of the tree.
LEMMA ChainIs ==
  ASSUME NEW tree, Lists(tree.nodes), NEW id \in Nat
  PROVE  /\ Chain(tree, id) \in Seq(Nat)
         /\ ToSet(Chain(tree, id)) \subseteq DOMAIN tree.nodes \union {id}
<1> DEFINE n == Cardinality(DOMAIN tree.nodes)
           Turn(above) == LET parent == Parent(tree, Head(above))
                          IN  IF parent = Null \/ Contains(above, parent) THEN above
                              ELSE <<parent>> \o above
           Good(s) == s \in Seq(Nat) /\ ToSet(s) \subseteq DOMAIN tree.nodes \union {id}
<1>0. n \in Nat
  BY FS_CardinalityType DEF Lists
<1>1. PICK f : /\ f = [k \in 0..n |-> IF k = 0 THEN <<id>> ELSE Turn(f[k - 1])]
               /\ Chain(tree, id) = f[n]
  BY <1>0, ChainTurns
<1>2. Good(f[0])
  <2>1. f[0] = <<id>>
    BY <1>0, <1>1
  <2> QED BY <2>1 DEF ToSet
<1>3. ASSUME NEW k \in 0..(n - 1), Good(f[k]) PROVE Good(f[k + 1])
  <2> DEFINE s == f[k]
             p == Parent(tree, Head(s))
  <2>1. f[k + 1] = Turn(s)
    <3>1. k + 1 \in 0..n /\ k + 1 # 0 /\ (k + 1) - 1 = k
      BY <1>0
    <3> HIDE DEF Turn
    <3> QED BY <1>1, <3>1
  <2>2. Good(s)
    BY <1>3
  <2>3. CASE Turn(s) = s
    BY <2>1, <2>2, <2>3
  <2>4. CASE Turn(s) = <<p>> \o s /\ p # Null
    <3>1. p \in DOMAIN tree.nodes /\ p \in Nat
      <4> HIDE DEF s
      <4> QED BY <2>4, ParentIs DEF Null
    <3> HIDE DEF p, s
    <3>2. <<p>> \in Seq(Nat) /\ ToSet(<<p>>) = {p}
      BY <3>1 DEF ToSet
    <3>3. <<p>> \o s \in Seq(Nat) /\ ToSet(<<p>> \o s) = {p} \union ToSet(s)
      <4> DEFINE one == <<p>>
      <4>1. one \in Seq(Nat) /\ ToSet(one) = {p} /\ s \in Seq(Nat)
        BY <2>2, <3>2
      <4> HIDE DEF one
      <4>2. one \o s \in Seq(Nat) /\ ToSet(one \o s) = ToSet(one) \union ToSet(s)
        BY <4>1, ConcatIs
      <4> QED BY <4>1, <4>2 DEF one
    <3> QED BY <2>1, <2>2, <2>4, <3>1, <3>3
  <2> QED BY <2>3, <2>4
<1>4. Good(f[n])
  <2> HIDE DEF Good, n
  <2> DEFINE S == {k \in 0..n : Good(f[k])}
  <2>1. 0 \in S /\ \A k \in 0..(n - 1) : k \in S => k + 1 \in S
    BY <1>0, <1>2, <1>3
  <2>2. n \in 0..n
    BY <1>0
  <2> HIDE DEF S
  <2>3. n \in S
    BY <1>0, <2>1, <2>2, UpTo
  <2> QED BY <2>3 DEF S
<1> HIDE DEF n
<1> QED BY <1>1, <1>4

\* The top-level nodes of a selection are some of it.
LEMMA TopLevelIs ==
  ASSUME NEW tree, NEW E, NEW ids \in Seq(E)
  PROVE  TopLevel(tree, ids) \in Seq(E) /\ ToSet(TopLevel(tree, ids)) \subseteq ToSet(ids)
<1> DEFINE tops == {id \in ToSet(ids) :
                      \A other \in ToSet(ids) \ {id} : ~IsAncestor(tree, other, id)}
<1>1. TopLevel(tree, ids) = Keep(ids, tops)
  BY DEF TopLevel
<1> HIDE DEF tops
<1> QED BY <1>1, KeepIs

\* A closest common ancestor is a node, or there is none.
LEMMA ClosestIs ==
  ASSUME NEW tree, Lists(tree.nodes), NEW ids \in Seq(Nat)
  PROVE  ClosestCommonAncestor(tree, ids) \in DOMAIN tree.nodes \union {Null}
<1> DEFINE chain == Chain(tree, ids[1])
           above == {a \in ToSet(chain) :
                       /\ ~Contains(ids, a)
                       /\ \A i \in DOMAIN ids : Contains(Chain(tree, ids[i]), a)}
           shared == Keep(chain, above)
<1>1. ClosestCommonAncestor(tree, ids) = IF ids = <<>> \/ shared = <<>> THEN Null ELSE Last(shared)
  BY DEF ClosestCommonAncestor
<1>2. CASE ids # <<>> /\ shared # <<>>
  <2>1. ids[1] \in Nat /\ Contains(ids, ids[1])
    BY <1>2 DEF Contains
  <2>2. chain \in Seq(Nat) /\ ToSet(chain) \subseteq DOMAIN tree.nodes \union {ids[1]}
    BY <2>1, ChainIs
  <2>3. above \subseteq DOMAIN tree.nodes
    BY <2>1, <2>2
  <2> HIDE DEF chain, above
  <2>4. shared \in Seq(Nat) /\ ToSet(shared) = ToSet(chain) \intersect above
    BY <2>2, KeepIs
  <2> HIDE DEF shared
  <2>5. Last(shared) \in ToSet(shared)
    BY <1>2, <2>4 DEF Last, ToSet
  <2> QED BY <1>1, <1>2, <2>3, <2>4, <2>5
<1> QED BY <1>1, <1>2

\* Lists that share nothing and repeat nothing, one after the other.
LEMMA ConcatOnce ==
  ASSUME NEW E, NEW s \in Seq(E), NEW t \in Seq(E), IsInjective(s), IsInjective(t),
         ToSet(s) \intersect ToSet(t) = {}
  PROVE  IsInjective(s \o t)
<1>1. /\ Len(s) \in Nat /\ Len(t) \in Nat /\ DOMAIN s = 1..Len(s) /\ DOMAIN t = 1..Len(t)
      /\ DOMAIN (s \o t) = 1..(Len(s) + Len(t))
  OBVIOUS
<1>2. \A i \in 1..(Len(s) + Len(t)) :
         \/ i \in 1..Len(s) /\ (s \o t)[i] = s[i]
         \/ i - Len(s) \in 1..Len(t) /\ (s \o t)[i] = t[i - Len(s)]
  BY <1>1
<1> SUFFICES ASSUME NEW i \in 1..(Len(s) + Len(t)), NEW j \in 1..(Len(s) + Len(t)),
                    (s \o t)[i] = (s \o t)[j]
             PROVE  i = j
  BY <1>1 DEF IsInjective
<1>3. CASE i \in 1..Len(s) /\ (s \o t)[i] = s[i] /\ j \in 1..Len(s) /\ (s \o t)[j] = s[j]
  BY <1>1, <1>3 DEF IsInjective
<1>4. CASE /\ i - Len(s) \in 1..Len(t) /\ (s \o t)[i] = t[i - Len(s)]
           /\ j - Len(s) \in 1..Len(t) /\ (s \o t)[j] = t[j - Len(s)]
  <2>1. i - Len(s) = j - Len(s)
    BY <1>1, <1>4 DEF IsInjective
  <2> QED BY <1>1, <2>1
<1>5. ASSUME NEW a \in 1..Len(s), NEW b \in 1..Len(t) PROVE s[a] # t[b]
  BY <1>1 DEF ToSet
<1> QED BY <1>2, <1>3, <1>4, <1>5

\* FlattenSeq is a loop over the lists.
LEMMA FlattenTurns ==
  ASSUME NEW seqs, NEW n \in Nat, n # 0, Len(seqs) = n
  PROVE  \E f : /\ \A i \in 1..n : f[i] = IF i = 1 THEN seqs[i] ELSE f[i - 1] \o seqs[i]
                /\ FlattenSeq(seqs) = f[n]
<1> DEFINE Made(m, g) == g = [i \in 1..m |-> IF i = 1 THEN seqs[i] ELSE g[i - 1] \o seqs[i]]
<1>1. \E g : Made(1, g)
  <2>1. Made(1, [i \in 1..1 |-> seqs[i]])
    OBVIOUS
  <2> HIDE DEF Made
  <2> QED BY <2>1
<1>2. ASSUME NEW m \in 1..(n - 1), \E g : Made(m, g)
      PROVE  \E g : Made(m + 1, g)
  <2>1. PICK g : Made(m, g)
    BY <1>2
  <2> DEFINE h == [k \in 1..(m + 1) |-> IF k = m + 1 THEN g[m] \o seqs[k] ELSE g[k]]
  <2>2. ASSUME NEW k \in 1..(m + 1)
        PROVE  h[k] = IF k = 1 THEN seqs[k] ELSE h[k - 1] \o seqs[k]
    <3>1. CASE k = m + 1
      <4>1. k # 1 /\ k - 1 = m /\ m \in 1..(m + 1) /\ m # m + 1
        BY <3>1
      <4> QED BY <3>1, <4>1
    <3>2. CASE k # m + 1
      <4>1. k \in 1..m /\ (k # 1 => k - 1 \in 1..(m + 1) /\ k - 1 # m + 1)
        BY <3>2
      <4> QED BY <2>1, <3>2, <4>1
    <3> QED BY <3>1, <3>2
  <2>3. Made(m + 1, h)
    BY <2>2
  <2> HIDE DEF Made
  <2> QED BY <2>3
<1>3. PICK g : Made(n, g)
  <2> HIDE DEF Made
  <2> DEFINE S == {m \in 0..n : m = 0 \/ \E g : Made(m, g)}
  <2>1. 0 \in S /\ \A m \in 0..(n - 1) : m \in S => m + 1 \in S
    <3>1. ASSUME NEW m \in 0..(n - 1), m \in S PROVE \E g : Made(m + 1, g)
      <4>1. m = 0 \/ m \in 1..(n - 1)
        OBVIOUS
      <4>2. 0 + 1 = 1
        OBVIOUS
      <4> QED BY <1>1, <1>2, <3>1, <4>1, <4>2
    <3>2. \A m \in 0..(n - 1) : m + 1 \in 0..n
      OBVIOUS
    <3> QED BY <3>1, <3>2
  <2>2. n \in 0..n
    OBVIOUS
  <2> HIDE DEF S
  <2>3. n \in S
    BY <2>1, <2>2, UpTo
  <2> QED BY <2>3 DEF S
<1> DEFINE f == CHOOSE f : Made(n, f)
<1>4. Made(n, f)
  <2> HIDE DEF Made
  <2> QED BY <1>3
<1>5. FlattenSeq(seqs) = f[n]
  <2>1. seqs # <<>>
    <3>1. Len(<<>>) = 0
      OBVIOUS
    <3> QED BY <3>1
  <2> QED BY <2>1 DEF FlattenSeq
<1> HIDE DEF f
<1> QED BY <1>4, <1>5

\* What a list of lists, flattened, holds.
LEMMA FlattenIs ==
  ASSUME NEW E, NEW seqs \in Seq(Seq(E))
  PROVE  /\ FlattenSeq(seqs) \in Seq(E)
         /\ ToSet(FlattenSeq(seqs)) = UNION {ToSet(seqs[i]) : i \in 1..Len(seqs)}
         /\ /\ \A i \in 1..Len(seqs) : IsInjective(seqs[i])
            /\ \A i, j \in 1..Len(seqs) : i # j => ToSet(seqs[i]) \intersect ToSet(seqs[j]) = {}
            => IsInjective(FlattenSeq(seqs))
<1> DEFINE n == Len(seqs)
           Upto(k) == UNION {ToSet(seqs[i]) : i \in 1..k}
           Once == /\ \A i \in 1..n : IsInjective(seqs[i])
                   /\ \A i, j \in 1..n : i # j => ToSet(seqs[i]) \intersect ToSet(seqs[j]) = {}
<1>0. n \in Nat /\ DOMAIN seqs = 1..n /\ \A i \in 1..n : seqs[i] \in Seq(E)
  OBVIOUS
<1>1. CASE n = 0
  <2>1. FlattenSeq(seqs) = seqs /\ seqs = <<>>
    BY <1>1 DEF FlattenSeq
  <2> QED BY <1>1, <2>1 DEF ToSet, IsInjective
<1>2. CASE n # 0
  <2>1. PICK f : /\ \A i \in 1..n : f[i] = IF i = 1 THEN seqs[i] ELSE f[i - 1] \o seqs[i]
                 /\ FlattenSeq(seqs) = f[n]
    BY <1>0, <1>2, FlattenTurns
  <2> DEFINE Good(k) == f[k] \in Seq(E) /\ ToSet(f[k]) = Upto(k) /\ (Once => IsInjective(f[k]))
  <2>2. Good(1)
    <3>1. f[1] = seqs[1] /\ seqs[1] \in Seq(E) /\ 1 \in 1..n
      BY <1>0, <1>2, <2>1
    <3>2. Upto(1) = ToSet(seqs[1])
      OBVIOUS
    <3> HIDE DEF Upto
    <3> QED BY <3>1, <3>2
  <2>3. ASSUME NEW k \in 1..(n - 1), Good(k) PROVE Good(k + 1)
    <3>0. k + 1 \in 1..n /\ k + 1 # 1 /\ (k + 1) - 1 = k
      BY <1>0
    <3>1. f[k + 1] = f[k] \o seqs[k + 1] /\ seqs[k + 1] \in Seq(E)
      BY <1>0, <2>1, <3>0
    <3>2. Upto(k + 1) = Upto(k) \union ToSet(seqs[k + 1])
      <4>1. 1..(k + 1) = (1..k) \union {k + 1}
        BY <1>0
      <4> QED BY <4>1
    <3>3. Once => Upto(k) \intersect ToSet(seqs[k + 1]) = {} /\ IsInjective(seqs[k + 1])
      <4> SUFFICES ASSUME Once, NEW x \in Upto(k), x \in ToSet(seqs[k + 1]) PROVE FALSE
        BY <3>0
      <4>1. PICK i \in 1..k : x \in ToSet(seqs[i])
        OBVIOUS
      <4>2. i \in 1..n /\ i # k + 1
        BY <1>0
      <4> QED BY <3>0, <4>1, <4>2
    <3> HIDE DEF Upto, Once
    <3>4. f[k] \in Seq(E) /\ ToSet(f[k]) = Upto(k) /\ (Once => IsInjective(f[k]))
      BY <2>3
    <3>5. /\ f[k] \o seqs[k + 1] \in Seq(E)
          /\ ToSet(f[k] \o seqs[k + 1]) = ToSet(f[k]) \union ToSet(seqs[k + 1])
      BY <3>1, <3>4, ConcatIs
    <3>6. Once => IsInjective(f[k] \o seqs[k + 1])
      BY <3>1, <3>3, <3>4, ConcatOnce
    <3> QED BY <3>1, <3>2, <3>4, <3>5, <3>6
  <2>4. Good(n)
    <3> HIDE DEF Good
    <3> DEFINE S == {m \in 0..n : m = 0 \/ Good(m)}
    <3>1. 0 \in S /\ \A m \in 0..(n - 1) : m \in S => m + 1 \in S
      BY <2>2, <2>3
    <3>2. n \in 0..n
      BY <1>0
    <3> HIDE DEF S, n
    <3>3. n \in S
      BY <1>0, <3>1, <3>2, UpTo
    <3> QED BY <1>2, <3>3 DEF S
  <2> QED BY <2>1, <2>4
<1> QED BY <1>1, <1>2

\* The names a component's outlets declare.
LEMMA OutletNamesAre ==
  ASSUME NEW tree, Lists(tree.nodes), NEW E, tree.rootNodeId \in Nat,
         \A id \in DOMAIN tree.nodes : tree.nodes[id].slotName \in E
  PROVE  OutletNames(tree) \in Seq(E)
<1> DEFINE outlets == Keep(CollectSubtreeIds(tree, tree.rootNodeId), Outlets(tree))
           name(i) == tree.nodes[outlets[i]].slotName
           firsts == {i \in DOMAIN outlets : \A j \in 1..(i - 1) : name(j) # name(i)}
           kept == Ascending(firsts)
<1>1. outlets \in Seq(Nat) /\ ToSet(outlets) \subseteq DOMAIN tree.nodes
  <2>1. CollectSubtreeIds(tree, tree.rootNodeId) \in Seq(Nat)
    BY SubtreeIs
  <2>2. Outlets(tree) \subseteq DOMAIN tree.nodes
    BY DEF Outlets
  <2> QED BY <2>1, <2>2, KeepIs
<1> HIDE DEF outlets
<1>2. DOMAIN outlets = 1..Len(outlets) /\ Len(outlets) \in Int
  BY <1>1
<1>3. \A i \in DOMAIN outlets : name(i) \in E
  BY <1>1 DEF ToSet
<1>4. firsts \subseteq 1..Len(outlets)
  BY <1>2
<1> HIDE DEF name, firsts
<1>5. kept \in Seq(firsts)
  BY <1>2, <1>4, AscendingIs
<1> HIDE DEF kept
<1>6. [k \in DOMAIN kept |-> name(kept[k])] \in Seq(E)
  <2>1. DOMAIN kept = 1..Len(kept) /\ Len(kept) \in Nat
    BY <1>5
  <2>2. \A k \in 1..Len(kept) : name(kept[k]) \in E
    <3> TAKE k \in 1..Len(kept)
    <3>1. kept[k] \in firsts
      BY <1>5
    <3> QED BY <1>2, <1>3, <1>4, <3>1
  <2> QED BY <2>1, <2>2
<1> QED BY <1>6 DEF OutletNames, EachOnce, outlets, name, firsts, kept

-----------------------------------------------------------------------------
\* Node maps and documents.

NodeOK(node, root, n) == node \in Node(n) /\ root \notin ToSet(node.children)

Sound(nodes, root, n) ==
    /\ DOMAIN nodes \subseteq 1..(n - 1)
    /\ nodes = [id \in DOMAIN nodes |-> nodes[id]]
    /\ \A id \in DOMAIN nodes : NodeOK(nodes[id], root, n)
    /\ root \in DOMAIN nodes
    /\ nodes[root].moduleId = "body"

\* Every ref and every outlet of new was one in old, under the same id.
Narrows(new, old) ==
    \A id \in DOMAIN new : new[id].moduleId \in {"ref", "outlet"} =>
        /\ id \in DOMAIN old
        /\ new[id].moduleId = old[id].moduleId
        /\ new[id].componentId = old[id].componentId

Used(nodes) ==
    {nodes[id].componentId : id \in {id \in DOMAIN nodes : nodes[id].moduleId = "ref"}}

\* Narrowing twice.
LEMMA NarrowsOn ==
  ASSUME NEW a, NEW b, NEW c, Narrows(a, b), Narrows(b, c) PROVE Narrows(a, c)
  BY DEF Narrows

\* Narrowing brings no use of a component.
LEMMA NarrowsUses ==
  ASSUME NEW a, NEW b, Narrows(a, b) PROVE Used(a) \subseteq Used(b)
  BY DEF Narrows, Used

\* A node map, spelt out.
LEMMA NodesAre ==
  ASSUME NEW n \in Nat, NEW nodes
  PROVE  IsNodes(nodes, n) <=>
           /\ DOMAIN nodes \subseteq 1..(n - 1)
           /\ nodes = [id \in DOMAIN nodes |-> nodes[id]]
           /\ \A id \in DOMAIN nodes : nodes[id] \in Node(n)
  BY DEF IsNodes

\* The nodes of a node map list their children.
LEMMA NodesList ==
  ASSUME NEW n \in Nat, NEW nodes, DOMAIN nodes \subseteq 1..(n - 1),
         \A id \in DOMAIN nodes : nodes[id] \in Node(n)
  PROVE  Lists(nodes)
<1>1. IsFiniteSet(1..(n - 1))
  BY FS_Interval
<1>2. IsFiniteSet(DOMAIN nodes)
  BY <1>1, FS_Subset
<1>3. DOMAIN nodes \subseteq Nat
  OBVIOUS
<1>4. \A id \in DOMAIN nodes : nodes[id].children \in Seq(Nat)
  BY DEF Node
<1> QED BY <1>2, <1>3, <1>4 DEF Lists

\* A document is a record of a root and sound nodes.
LEMMA DocumentIs ==
  ASSUME NEW n \in Nat, NEW tree
  PROVE  IsDocument(tree, n) <=>
           /\ tree = [rootNodeId |-> tree.rootNodeId, nodes |-> tree.nodes]
           /\ Sound(tree.nodes, tree.rootNodeId, n)
<1>1. /\ IsNodes(tree.nodes, n) <=>
           /\ DOMAIN tree.nodes \subseteq 1..(n - 1)
           /\ tree.nodes = [id \in DOMAIN tree.nodes |-> tree.nodes[id]]
           /\ \A id \in DOMAIN tree.nodes : tree.nodes[id] \in Node(n)
  BY NodesAre
<1>2. tree \in [rootNodeId : DOMAIN tree.nodes, nodes : {tree.nodes}] <=>
        /\ tree = [rootNodeId |-> tree.rootNodeId, nodes |-> tree.nodes]
        /\ tree.rootNodeId \in DOMAIN tree.nodes
  OBVIOUS
<1>3. ASSUME NEW id, tree.nodes[id] \in Node(n)
      PROVE  Contains(tree.nodes[id].children, tree.rootNodeId)
               <=> tree.rootNodeId \in ToSet(tree.nodes[id].children)
  <2>1. tree.nodes[id].children \in Seq(Nat)
    BY <1>3 DEF Node
  <2> QED BY <2>1, ContainsIs
<1> QED BY <1>1, <1>2, <1>3 DEF IsDocument, Sound, NodeOK

\* Sound nodes list their children.
LEMMA SoundLists ==
  ASSUME NEW n \in Nat, NEW root, NEW nodes, Sound(nodes, root, n)
  PROVE  Lists(nodes) /\ root \in Nat
  BY NodesList DEF Sound, NodeOK

\* A node stays one as ids are handed out.
LEMMA NodeLater ==
  ASSUME NEW n \in Nat, NEW m \in Nat, n <= m
  PROVE  Node(n) \subseteq Node(m)
<1>1. (0..(n - 1)) \ Page \subseteq (0..(m - 1)) \ Page
  OBVIOUS
<1> DEFINE before == (0..(n - 1)) \ Page
           after == (0..(m - 1)) \ Page
<1> SUFFICES ASSUME NEW node \in Node(n) PROVE node \in Node(m)
  OBVIOUS
<1>2. before \subseteq after
  BY <1>1
<1> HIDE DEF before, after
<1> QED BY <1>2 DEF Node, before, after

\* Sound nodes stay sound as ids are handed out.
LEMMA SoundLater ==
  ASSUME NEW n \in Nat, NEW m \in Nat, n <= m, NEW root, NEW nodes, Sound(nodes, root, n)
  PROVE  Sound(nodes, root, m)
<1>1. Node(n) \subseteq Node(m)
  BY NodeLater
<1>2. 1..(n - 1) \subseteq 1..(m - 1)
  OBVIOUS
<1> QED BY <1>1, <1>2 DEF Sound, NodeOK

\* A node map stays one as ids are handed out.
LEMMA NodesLater ==
  ASSUME NEW n \in Nat, NEW m \in Nat, n <= m, NEW nodes, IsNodes(nodes, n)
  PROVE  IsNodes(nodes, m)
<1>1. Node(n) \subseteq Node(m)
  BY NodeLater
<1>2. 1..(n - 1) \subseteq 1..(m - 1)
  OBVIOUS
<1> QED BY <1>1, <1>2 DEF IsNodes

\* A tree with other nodes.
LEMMA SetNodes ==
  ASSUME NEW tree, tree = [rootNodeId |-> tree.rootNodeId, nodes |-> tree.nodes], NEW nodes
  PROVE  [tree EXCEPT !.nodes = nodes] = [rootNodeId |-> tree.rootNodeId, nodes |-> nodes]
  OBVIOUS

-----------------------------------------------------------------------------
\* createNode makes a node that may be put into a tree.
LEMMA NewNodeOK ==
  ASSUME NEW n \in Nat, NEW root, n # 0,
         NEW m \in Module \union {"body", "ref", "slot-instance"}
  PROVE  NodeOK(NewNode(m), root, n) /\ NewNode(m).moduleId = m
<1>1. 0 \in (0..(n - 1)) \ Page
  BY PageAssumption DEF Null
<1>2. ToSet(<<>>) = {} /\ <<>> \in Seq(Nat)
  BY DEF ToSet
<1> QED BY <1>1, <1>2 DEF NodeOK, Node, NewNode, Null

\* A node with other children.
LEMMA WithKids ==
  ASSUME NEW n \in Nat, NEW root, NEW node, NodeOK(node, root, n),
         NEW kids \in Seq(Nat), root \notin ToSet(kids)
  PROVE  /\ NodeOK([node EXCEPT !.children = kids], root, n)
         /\ [node EXCEPT !.children = kids].moduleId = node.moduleId
         /\ [node EXCEPT !.children = kids].componentId = node.componentId
         /\ [node EXCEPT !.children = kids].slotName = node.slotName
         /\ [node EXCEPT !.children = kids].children = kids
  BY DEF NodeOK, Node

\* A node with another parent.
LEMMA WithParent ==
  ASSUME NEW n \in Nat, NEW root, NEW node, NodeOK(node, root, n), NEW p \in Nat
  PROVE  /\ NodeOK([node EXCEPT !.parentId = p], root, n)
         /\ [node EXCEPT !.parentId = p].moduleId = node.moduleId
         /\ [node EXCEPT !.parentId = p].componentId = node.componentId
         /\ [node EXCEPT !.parentId = p].slotName = node.slotName
         /\ [node EXCEPT !.parentId = p].children = node.children
  BY DEF NodeOK, Node

\* new is nodes with other children or parents in places.
Edited(new, nodes, root, n) ==
    Sound(new, root, n) /\ Narrows(new, nodes) /\ DOMAIN new = DOMAIN nodes

\* Setting the children of one node.
LEMMA KidsSet ==
  ASSUME NEW n \in Nat, NEW root, NEW nodes, Sound(nodes, root, n),
         NEW p \in DOMAIN nodes, NEW kids \in Seq(Nat), root \notin ToSet(kids)
  PROVE  Edited([nodes EXCEPT ![p].children = kids], nodes, root, n)
<1> DEFINE new == [nodes EXCEPT ![p].children = kids]
<1>1. new = [id \in DOMAIN nodes |-> IF id = p THEN [nodes[p] EXCEPT !.children = kids] ELSE nodes[id]]
  BY DEF Sound
<1>2. DOMAIN new = DOMAIN nodes
  BY <1>1
<1>3. /\ NodeOK([nodes[p] EXCEPT !.children = kids], root, n)
      /\ [nodes[p] EXCEPT !.children = kids].moduleId = nodes[p].moduleId
      /\ [nodes[p] EXCEPT !.children = kids].componentId = nodes[p].componentId
  BY WithKids DEF Sound
<1> HIDE DEF new
<1>4. ASSUME NEW id \in DOMAIN nodes
      PROVE  /\ NodeOK(new[id], root, n)
             /\ new[id].moduleId = nodes[id].moduleId
             /\ new[id].componentId = nodes[id].componentId
  BY <1>1, <1>3 DEF Sound
<1>5. new = [id \in DOMAIN new |-> new[id]]
  BY <1>1
<1>6. Sound(new, root, n)
  BY <1>2, <1>4, <1>5 DEF Sound
<1>7. Narrows(new, nodes)
  BY <1>2, <1>4 DEF Narrows
<1> QED BY <1>2, <1>6, <1>7 DEF new, Edited

\* Setting the parent of one node.
LEMMA ParentSet ==
  ASSUME NEW n \in Nat, NEW root, NEW nodes, Sound(nodes, root, n),
         NEW p, NEW q \in Nat
  PROVE  /\ Edited([nodes EXCEPT ![p].parentId = q], nodes, root, n)
         /\ \A id \in DOMAIN nodes : [nodes EXCEPT ![p].parentId = q][id].children = nodes[id].children
<1> DEFINE new == [nodes EXCEPT ![p].parentId = q]
<1>1. new = [id \in DOMAIN nodes |-> IF id = p THEN [nodes[id] EXCEPT !.parentId = q] ELSE nodes[id]]
  BY DEF Sound
<1>2. DOMAIN new = DOMAIN nodes
  BY <1>1
<1> HIDE DEF new
<1>3. ASSUME NEW id \in DOMAIN nodes
      PROVE  /\ NodeOK(new[id], root, n)
             /\ new[id].moduleId = nodes[id].moduleId
             /\ new[id].componentId = nodes[id].componentId
             /\ new[id].children = nodes[id].children
  <2>1. NodeOK(nodes[id], root, n)
    BY DEF Sound
  <2>2. /\ NodeOK([nodes[id] EXCEPT !.parentId = q], root, n)
        /\ [nodes[id] EXCEPT !.parentId = q].moduleId = nodes[id].moduleId
        /\ [nodes[id] EXCEPT !.parentId = q].componentId = nodes[id].componentId
        /\ [nodes[id] EXCEPT !.parentId = q].children = nodes[id].children
    BY <2>1, WithParent
  <2> QED BY <1>1, <2>1, <2>2
<1>4. new = [id \in DOMAIN new |-> new[id]]
  BY <1>1
<1>5. Sound(new, root, n)
  BY <1>2, <1>3, <1>4 DEF Sound
<1>6. Narrows(new, nodes)
  BY <1>2, <1>3 DEF Narrows
<1> QED BY <1>2, <1>3, <1>5, <1>6 DEF new, Edited

\* Setting the parent of a set of nodes.
LEMMA ParentsSet ==
  ASSUME NEW n \in Nat, NEW root, NEW nodes, Sound(nodes, root, n), NEW set, NEW q \in Nat,
         NEW new, DOMAIN new = DOMAIN nodes, new = [id \in DOMAIN new |-> new[id]],
         \A id \in DOMAIN nodes :
            new[id] = IF id \in set THEN [nodes[id] EXCEPT !.parentId = q] ELSE nodes[id]
  PROVE  Edited(new, nodes, root, n)
<1>1. ASSUME NEW id \in DOMAIN nodes
      PROVE  /\ NodeOK(new[id], root, n)
             /\ new[id].moduleId = nodes[id].moduleId
             /\ new[id].componentId = nodes[id].componentId
  <2>1. NodeOK(nodes[id], root, n)
    BY DEF Sound
  <2>2. /\ NodeOK([nodes[id] EXCEPT !.parentId = q], root, n)
        /\ [nodes[id] EXCEPT !.parentId = q].moduleId = nodes[id].moduleId
        /\ [nodes[id] EXCEPT !.parentId = q].componentId = nodes[id].componentId
    BY <2>1, WithParent
  <2> QED BY <2>1, <2>2
<1>2. Sound(new, root, n)
  BY <1>1 DEF Sound
<1>3. Narrows(new, nodes)
  BY <1>1 DEF Narrows
<1> QED BY <1>2, <1>3 DEF Edited

\* Adding one node.
LEMMA Added ==
  ASSUME NEW n \in Nat, NEW root, NEW nodes, Sound(nodes, root, n),
         NEW id \in 1..(n - 1), id # root, NEW node, NodeOK(node, root, n)
  PROVE  /\ Sound(With(nodes, id, node), root, n)
         /\ DOMAIN With(nodes, id, node) = DOMAIN nodes \union {id}
<1> DEFINE new == With(nodes, id, node)
<1>1. new = [k \in DOMAIN nodes \union {id} |-> IF k = id THEN node ELSE nodes[k]]
  BY DEF With
<1>2. DOMAIN new = DOMAIN nodes \union {id}
  BY <1>1
<1> HIDE DEF new
<1>3. \A k \in DOMAIN new : NodeOK(new[k], root, n)
  BY <1>1, <1>2 DEF Sound
<1>4. new[root] = nodes[root] /\ root \in DOMAIN new
  BY <1>1, <1>2 DEF Sound
<1>5. new = [k \in DOMAIN new |-> new[k]]
  BY <1>1
<1>6. DOMAIN new \subseteq 1..(n - 1)
  BY <1>2 DEF Sound
<1>7. nodes[root].moduleId = "body"
  BY DEF Sound
<1>8. Sound(new, root, n)
  BY <1>3, <1>4, <1>5, <1>6, <1>7 DEF Sound
<1> QED BY <1>2, <1>8 DEF new

\* Keeping only some of the nodes.
LEMMA KeptNodes ==
  ASSUME NEW n \in Nat, NEW root, NEW nodes, Sound(nodes, root, n),
         NEW set, set \subseteq DOMAIN nodes, root \in set
  PROVE  Sound(Restrict(nodes, set), root, n) /\ Narrows(Restrict(nodes, set), nodes)
  BY DEF Sound, Narrows, Restrict

-----------------------------------------------------------------------------
\* What an edit of a tree brings; deleting a subtree.

\* The content outlets of a node map.
Content(nodes) == {id \in DOMAIN nodes : nodes[id].moduleId = "outlet"}

\* new is a tree with the root of old that uses comps and has the outlets outs
\* at most beyond what old uses and has.
Grows(new, old, n, comps, outs) ==
    /\ IsDocument(new, n)
    /\ new.rootNodeId = old.rootNodeId
    /\ Used(new.nodes) \subseteq Used(old.nodes) \union comps
    /\ Content(new.nodes) \subseteq Content(old.nodes) \union outs

Like(new, old, n) == Grows(new, old, n, {}, {})

\* Narrowing brings neither uses nor content outlets.
LEMMA NarrowsKeeps ==
  ASSUME NEW a, NEW b, Narrows(a, b)
  PROVE  Used(a) \subseteq Used(b) /\ Content(a) \subseteq Content(b)
<1>1. Used(a) \subseteq Used(b)
  BY NarrowsUses
<1> QED BY <1>1 DEF Narrows, Content

\* Two edits that bring neither uses nor content outlets.
LEMMA LikeOn ==
  ASSUME NEW a, NEW b, NEW c, NEW n, NEW m, Like(b, a, n), Like(c, b, m)
  PROVE  Like(c, a, m)
  BY DEF Like, Grows

\* No edit.
LEMMA LikeSelf ==
  ASSUME NEW tree, NEW n, IsDocument(tree, n)
  PROVE  Like(tree, tree, n)
  BY DEF Like, Grows

\* The nodes of a tree replaced by others that are sound.
LEMMA GrowsNodes ==
  ASSUME NEW n \in Nat, NEW m \in Nat, NEW tree, IsDocument(tree, n), NEW nodes, NEW comps, NEW outs,
         Sound(nodes, tree.rootNodeId, m),
         Used(nodes) \subseteq Used(tree.nodes) \union comps,
         Content(nodes) \subseteq Content(tree.nodes) \union outs
  PROVE  Grows([tree EXCEPT !.nodes = nodes], tree, m, comps, outs)
<1> DEFINE new == [tree EXCEPT !.nodes = nodes]
<1>1. tree = [rootNodeId |-> tree.rootNodeId, nodes |-> tree.nodes]
  BY DocumentIs
<1>2. new = [rootNodeId |-> tree.rootNodeId, nodes |-> nodes]
  BY <1>1, SetNodes
<1>3. new.nodes = nodes /\ new.rootNodeId = tree.rootNodeId
  BY <1>2
<1> HIDE DEF new
<1>4. IsDocument(new, m)
  BY <1>2, <1>3, DocumentIs
<1> QED BY <1>3, <1>4 DEF Grows, new

\* Other nodes that narrow those of the tree.
LEMMA LikeNodes ==
  ASSUME NEW n \in Nat, NEW m \in Nat, NEW tree, IsDocument(tree, n), NEW nodes,
         Sound(nodes, tree.rootNodeId, m), Narrows(nodes, tree.nodes)
  PROVE  Like([tree EXCEPT !.nodes = nodes], tree, m)
<1>1. Used(nodes) \subseteq Used(tree.nodes) /\ Content(nodes) \subseteq Content(tree.nodes)
  BY NarrowsKeeps
<1> QED BY <1>1, GrowsNodes DEF Like

\* What is known of a document.
LEMMA DocumentLists ==
  ASSUME NEW n \in Nat, NEW tree, IsDocument(tree, n)
  PROVE  /\ Sound(tree.nodes, tree.rootNodeId, n)
         /\ Lists(tree.nodes)
         /\ tree.rootNodeId \in Nat
         /\ tree.rootNodeId \in DOMAIN tree.nodes
         /\ \A id \in DOMAIN tree.nodes : id \in Nat /\ tree.nodes[id] \in Node(n)
                                          /\ tree.nodes[id].children \in Seq(Nat)
                                          /\ tree.rootNodeId \notin ToSet(tree.nodes[id].children)
<1>1. Sound(tree.nodes, tree.rootNodeId, n)
  BY DocumentIs
<1>2. Lists(tree.nodes) /\ tree.rootNodeId \in Nat
  BY <1>1, SoundLists
<1>3. \A id \in DOMAIN tree.nodes : NodeOK(tree.nodes[id], tree.rootNodeId, n)
  BY <1>1 DEF Sound
<1> QED BY <1>1, <1>2, <1>3 DEF Sound, NodeOK, Lists

\* A document stays one as ids are handed out.
LEMMA DocumentLater ==
  ASSUME NEW n \in Nat, NEW m \in Nat, n <= m, NEW tree, IsDocument(tree, n)
  PROVE  IsDocument(tree, m)
<1>1. /\ tree = [rootNodeId |-> tree.rootNodeId, nodes |-> tree.nodes]
      /\ Sound(tree.nodes, tree.rootNodeId, n)
  BY DocumentIs
<1>2. Sound(tree.nodes, tree.rootNodeId, m)
  BY <1>1, SoundLater
<1> QED BY <1>1, <1>2, DocumentIs

\* The root is in no subtree but its own.
LEMMA RootStays ==
  ASSUME NEW n \in Nat, NEW tree, IsDocument(tree, n), NEW id \in Nat, id # tree.rootNodeId
  PROVE  tree.rootNodeId \notin Subtree(tree, id)
<1>1. /\ Lists(tree.nodes)
      /\ \A p \in DOMAIN tree.nodes : tree.rootNodeId \notin Kids(tree, p)
  BY DocumentLists DEF Kids
<1>2. /\ Subtree(tree, id) \subseteq DOMAIN tree.nodes
      /\ \A x \in Subtree(tree, id) : x = id \/ \E p \in Subtree(tree, id) : x \in Kids(tree, p)
  BY <1>1, SubtreeIs
<1> QED BY <1>1, <1>2

-----------------------------------------------------------------------------
\* new has the nodes of tree or fewer of them, some with another parent or
\* other children.
Touched(new, tree, n) ==
    /\ new = [id \in DOMAIN new |-> new[id]]
    /\ DOMAIN new \subseteq DOMAIN tree.nodes
    /\ tree.rootNodeId \in DOMAIN new
    /\ \A id \in DOMAIN new :
          /\ NodeOK(new[id], tree.rootNodeId, n)
          /\ new[id].moduleId = tree.nodes[id].moduleId
          /\ new[id].componentId = tree.nodes[id].componentId

\* Touched nodes are sound and narrow.
LEMMA TouchedIs ==
  ASSUME NEW n \in Nat, NEW tree, IsDocument(tree, n), NEW new, Touched(new, tree, n)
  PROVE  Sound(new, tree.rootNodeId, n) /\ Narrows(new, tree.nodes)
<1>1. Sound(tree.nodes, tree.rootNodeId, n)
  BY DocumentLists
<1>2. /\ DOMAIN new \subseteq 1..(n - 1)
      /\ new[tree.rootNodeId].moduleId = "body"
  BY <1>1 DEF Sound, Touched
<1>3. Sound(new, tree.rootNodeId, n)
  BY <1>2 DEF Sound, Touched
<1>4. Narrows(new, tree.nodes)
  BY DEF Narrows, Touched
<1> QED BY <1>3, <1>4

\* One node with some of its children only.
LEMMA KeptKids ==
  ASSUME NEW n \in Nat, NEW root, NEW node, NodeOK(node, root, n), NEW set
  PROVE  LET kept == [node EXCEPT !.children = Keep(node.children, set)]
         IN  /\ NodeOK(kept, root, n)
             /\ kept.moduleId = node.moduleId
             /\ kept.componentId = node.componentId
             /\ ToSet(kept.children) = ToSet(node.children) \intersect set
<1> DEFINE kids == Keep(node.children, set)
<1>1. node.children \in Seq(Nat) /\ root \notin ToSet(node.children)
  BY DEF NodeOK, Node
<1>2. kids \in Seq(Nat) /\ ToSet(kids) = ToSet(node.children) \intersect set
  BY <1>1, KeepIs
<1> HIDE DEF kids
<1>3. root \notin ToSet(kids)
  BY <1>1, <1>2
<1>4. /\ NodeOK([node EXCEPT !.children = kids], root, n)
      /\ [node EXCEPT !.children = kids].moduleId = node.moduleId
      /\ [node EXCEPT !.children = kids].componentId = node.componentId
      /\ [node EXCEPT !.children = kids].children = kids
  BY <1>2, <1>3, WithKids
<1> QED BY <1>2, <1>4 DEF kids

\* deleteNodeSubtree adds no node.
LEMMA DeleteSubtreeLess ==
  ASSUME NEW n \in Nat, NEW tree, IsDocument(tree, n), NEW id
  PROVE  DOMAIN DeleteSubtree(tree, id).nodes \subseteq DOMAIN tree.nodes
<1> DEFINE new == [i \in DOMAIN tree.nodes \ Subtree(tree, id) |->
                      IF i = Parent(tree, id)
                      THEN [tree.nodes[i] EXCEPT !.children = Keep(@, ToSet(@) \ {id})]
                      ELSE tree.nodes[i]]
<1>1. DeleteSubtree(tree, id) = [tree EXCEPT !.nodes = new]
  BY DEF DeleteSubtree
<1>2. DOMAIN new \subseteq DOMAIN tree.nodes
  OBVIOUS
<1> HIDE DEF new
<1>3. [tree EXCEPT !.nodes = new].nodes = new
  BY DocumentIs
<1> QED BY <1>1, <1>2, <1>3

\* deleteSubtree
LEMMA DeleteSubtreeIs ==
  ASSUME NEW n \in Nat, NEW tree, IsDocument(tree, n), NEW id \in Nat, id # tree.rootNodeId
  PROVE  /\ Like(DeleteSubtree(tree, id), tree, n)
         /\ Narrows(DeleteSubtree(tree, id).nodes, tree.nodes)
         /\ id \notin DOMAIN DeleteSubtree(tree, id).nodes
<1> DEFINE new == [i \in DOMAIN tree.nodes \ Subtree(tree, id) |->
                      IF i = Parent(tree, id)
                      THEN [tree.nodes[i] EXCEPT !.children = Keep(@, ToSet(@) \ {id})]
                      ELSE tree.nodes[i]]
<1>1. tree.rootNodeId \notin Subtree(tree, id)
  BY RootStays
<1>2. Sound(tree.nodes, tree.rootNodeId, n)
  BY DocumentLists
<1>3. ASSUME NEW i \in DOMAIN new
      PROVE  /\ NodeOK(new[i], tree.rootNodeId, n)
             /\ new[i].moduleId = tree.nodes[i].moduleId
             /\ new[i].componentId = tree.nodes[i].componentId
  <2> DEFINE less == [tree.nodes[i] EXCEPT !.children = Keep(tree.nodes[i].children, ToSet(tree.nodes[i].children) \ {id})]
  <2>1. NodeOK(tree.nodes[i], tree.rootNodeId, n)
    BY <1>2 DEF Sound
  <2>2. /\ NodeOK(less, tree.rootNodeId, n)
        /\ less.moduleId = tree.nodes[i].moduleId
        /\ less.componentId = tree.nodes[i].componentId
    BY <2>1, KeptKids
  <2>3. new[i] = IF i = Parent(tree, id) THEN less ELSE tree.nodes[i]
    OBVIOUS
  <2> HIDE DEF new, less
  <2> QED BY <2>1, <2>2, <2>3
<1>4. new = [i \in DOMAIN new |-> new[i]] /\ DOMAIN new = DOMAIN tree.nodes \ Subtree(tree, id)
  OBVIOUS
<1>5. DeleteSubtree(tree, id) = [tree EXCEPT !.nodes = new]
  BY DEF DeleteSubtree
<1> HIDE DEF new
<1>6. Touched(new, tree, n)
  BY <1>1, <1>2, <1>3, <1>4 DEF Touched, Sound
<1>7. Sound(new, tree.rootNodeId, n) /\ Narrows(new, tree.nodes)
  BY <1>6, TouchedIs
<1>8. Like([tree EXCEPT !.nodes = new], tree, n)
  BY <1>7, LikeNodes
<1>9. [tree EXCEPT !.nodes = new].nodes = new
  BY DocumentIs
<1>10. id \notin DOMAIN new
  <2>1. Lists(tree.nodes)
    BY DocumentLists
  <2>2. Has(tree, id) => id \in Subtree(tree, id)
    BY <2>1, SubtreeIs
  <2> QED BY <1>4, <2>2 DEF Has
<1> QED BY <1>5, <1>7, <1>8, <1>9, <1>10

-----------------------------------------------------------------------------
\* Inserting and moving.

\* The components a node uses: what a ref names.
UsedBy(node) == {c \in {node.componentId} : node.moduleId = "ref"}

\* The root does not get into a list by a splice of others.
LEMMA SplicedKids ==
  ASSUME NEW list \in Seq(Nat), NEW ids \in Seq(Nat), NEW index \in Int, NEW root,
         root \notin ToSet(list), root \notin ToSet(ids)
  PROVE  Splice(list, index, ids) \in Seq(Nat) /\ root \notin ToSet(Splice(list, index, ids))
<1>1. Splice(list, index, ids) \in Seq(Nat)
  BY SpliceIs
<1>2. ToSet(Splice(list, index, ids)) = ToSet(list) \union ToSet(ids)
  BY SpliceIs
<1> QED BY <1>1, <1>2

\* splice over ids.
LEMMA SplicedSet ==
  ASSUME NEW list \in Seq(Nat), NEW ids \in Seq(Nat), NEW index \in Int
  PROVE  ToSet(Splice(list, index, ids)) = ToSet(list) \union ToSet(ids)
  BY SpliceIs

\* A list of one id.
LEMMA OneId ==
  ASSUME NEW n \in Nat
  PROVE  <<n>> \in Seq(Nat) /\ ToSet(<<n>>) = {n}
  BY DEF ToSet

\* insertNode, with the next id.
LEMMA InsertNodeIs ==
  ASSUME NEW n \in Nat, NEW m \in Nat, n < m, NEW tree, IsDocument(tree, n), NEW node \in Node(m),
         node.children = <<>>, NEW parent \in DOMAIN tree.nodes, NEW index \in Int
  PROVE  /\ Grows(InsertNode(tree, n, node, parent, index), tree, m, UsedBy(node),
                  {id \in {n} : node.moduleId = "outlet"})
         /\ n \in DOMAIN InsertNode(tree, n, node, parent, index).nodes
<1> DEFINE root == tree.rootNodeId
           inner == [node EXCEPT !.parentId = parent]
           added == With(tree.nodes, n, inner)
           kids == added[parent].children
           placed == Splice(kids, index, <<n>>)
           new == [added EXCEPT ![parent].children = placed]
<1>1. Sound(tree.nodes, root, n) /\ Sound(tree.nodes, root, m) /\ parent \in Nat
      /\ root \in 1..(n - 1)
  BY DocumentLists, SoundLater DEF Sound
<1>2. NodeOK(node, root, m)
  <2>1. ToSet(<<>>) = {}
    BY DEF ToSet
  <2> QED BY <2>1 DEF NodeOK
<1>3. /\ NodeOK(inner, root, m)
      /\ inner.moduleId = node.moduleId
      /\ inner.componentId = node.componentId
  BY <1>1, <1>2, WithParent
<1>4. n \in 1..(m - 1) /\ n # root /\ parent # n
  BY <1>1 DEF Sound
<1> HIDE DEF inner
<1>5. /\ Sound(added, root, m)
      /\ DOMAIN added = DOMAIN tree.nodes \union {n}
      /\ added[n] = inner
      /\ \A id \in DOMAIN tree.nodes : id # n => added[id] = tree.nodes[id]
  <2>1. Sound(added, root, m)
    BY <1>1, <1>3, <1>4, Added
  <2> QED BY <2>1 DEF With
<1>6. kids \in Seq(Nat) /\ root \notin ToSet(kids)
  BY <1>5 DEF Sound, NodeOK, Node
<1> HIDE DEF added
<1>7. placed \in Seq(Nat) /\ root \notin ToSet(placed)
  <2> HIDE DEF kids
  <2> DEFINE one == <<n>>
  <2>1. one \in Seq(Nat) /\ root \notin ToSet(one)
    BY <1>4, OneId
  <2> HIDE DEF one
  <2>2. Splice(kids, index, one) \in Seq(Nat) /\ root \notin ToSet(Splice(kids, index, one))
    BY <1>6, <2>1, SplicedKids
  <2> QED BY <2>2 DEF one
<1> HIDE DEF placed
<1>8. /\ Sound(new, root, m)
      /\ Narrows(new, added)
      /\ DOMAIN new = DOMAIN added
  <2>1. Edited(new, added, root, m)
    BY <1>5, <1>7, KidsSet
  <2> QED BY <2>1 DEF Edited
<1>9. Used(new) \subseteq Used(tree.nodes) \union UsedBy(node)
  <2>1. Used(new) \subseteq Used(added)
    BY <1>8, NarrowsKeeps
  <2>2. Used(added) \subseteq Used(tree.nodes) \union UsedBy(node)
    BY <1>3, <1>5 DEF Used, UsedBy
  <2> QED BY <2>1, <2>2
<1>10. Content(new) \subseteq Content(tree.nodes) \union {id \in {n} : node.moduleId = "outlet"}
  <2>1. Content(new) \subseteq Content(added)
    BY <1>8, NarrowsKeeps
  <2>2. Content(added) \subseteq Content(tree.nodes) \union {id \in {n} : node.moduleId = "outlet"}
    BY <1>3, <1>5 DEF Content
  <2> QED BY <2>1, <2>2
<1>11. InsertNode(tree, n, node, parent, index) = [tree EXCEPT !.nodes = new]
  BY DEF InsertNode, new, placed, added, inner
<1>12. n \in DOMAIN [tree EXCEPT !.nodes = new].nodes
  <2>1. [tree EXCEPT !.nodes = new].nodes = new
    BY DocumentIs
  <2> QED BY <1>5, <1>8, <2>1
<1> HIDE DEF new
<1> DEFINE comps == UsedBy(node)
           outs == {id \in {n} : node.moduleId = "outlet"}
<1>13. Grows([tree EXCEPT !.nodes = new], tree, m, comps, outs)
  <2> HIDE DEF comps, outs
  <2>1. Sound(new, tree.rootNodeId, m)
    BY <1>8
  <2>2. Used(new) \subseteq Used(tree.nodes) \union comps /\ Content(new) \subseteq Content(tree.nodes) \union outs
    BY <1>9, <1>10 DEF comps, outs
  <2> QED BY <2>1, <2>2, GrowsNodes
<1> QED BY <1>11, <1>12, <1>13

-----------------------------------------------------------------------------
\* moveNodes
LEMMA MoveNodesIs ==
  ASSUME NEW n \in Nat, NEW tree, IsDocument(tree, n), NEW ids \in Seq(Nat),
         tree.rootNodeId \notin ToSet(ids), NEW parent \in DOMAIN tree.nodes, NEW index \in Int
  PROVE  Like(MoveNodes(tree, ids, parent, index), tree, n)
<1> DEFINE root == tree.rootNodeId
           tops == TopLevel(tree, ids)
           left == [id \in DOMAIN tree.nodes |->
                      [tree.nodes[id] EXCEPT !.children =
                          Keep(@, {c \in ToSet(@) :
                                      ~(Contains(tops, c) /\ Parent(tree, c) = id)})]]
           kids == left[parent].children
           joined == Splice(kids, index, tops)
           placed == [left EXCEPT ![parent].children = joined]
           new == [id \in DOMAIN placed |->
                     IF id \in ToSet(tops) THEN [placed[id] EXCEPT !.parentId = parent]
                     ELSE placed[id]]
<1>1. Sound(tree.nodes, root, n) /\ parent \in Nat
  BY DocumentLists DEF Sound
<1>2. tops \in Seq(Nat) /\ root \notin ToSet(tops)
  <2>1. tops \in Seq(Nat) /\ ToSet(tops) \subseteq ToSet(ids)
    BY TopLevelIs
  <2> QED BY <2>1
<1> HIDE DEF tops
<1>3. Sound(left, root, n) /\ Narrows(left, tree.nodes) /\ DOMAIN left = DOMAIN tree.nodes
  <2>1. ASSUME NEW id \in DOMAIN left
        PROVE  /\ NodeOK(left[id], root, n)
               /\ left[id].moduleId = tree.nodes[id].moduleId
               /\ left[id].componentId = tree.nodes[id].componentId
    <3> DEFINE set == {c \in ToSet(tree.nodes[id].children) :
                          ~(Contains(tops, c) /\ Parent(tree, c) = id)}
               less == [tree.nodes[id] EXCEPT !.children = Keep(tree.nodes[id].children, set)]
    <3>1. left[id] = less
      OBVIOUS
    <3>2. NodeOK(tree.nodes[id], root, n)
      BY <1>1 DEF Sound
    <3> HIDE DEF set
    <3>3. /\ NodeOK(less, root, n)
          /\ less.moduleId = tree.nodes[id].moduleId
          /\ less.componentId = tree.nodes[id].componentId
      BY <3>2, KeptKids
    <3> HIDE DEF less, left
    <3> QED BY <3>1, <3>3
  <2>2. left = [id \in DOMAIN left |-> left[id]] /\ DOMAIN left = DOMAIN tree.nodes
    OBVIOUS
  <2> HIDE DEF left
  <2>3. Touched(left, tree, n)
    BY <1>1, <2>1, <2>2 DEF Touched, Sound
  <2> QED BY <2>2, <2>3, TouchedIs
<1>4. kids \in Seq(Nat) /\ root \notin ToSet(kids)
  <2> HIDE DEF left
  <2> QED BY <1>3 DEF Sound, NodeOK, Node
<1> HIDE DEF left, kids
<1>5. joined \in Seq(Nat) /\ root \notin ToSet(joined)
  BY <1>2, <1>4, SplicedKids
<1> HIDE DEF joined
<1>6. Sound(placed, root, n) /\ Narrows(placed, left)
  <2>1. Edited(placed, left, root, n)
    BY <1>3, <1>5, KidsSet
  <2> QED BY <2>1 DEF Edited
<1> HIDE DEF placed
<1>7. Sound(new, root, n) /\ Narrows(new, placed)
  <2> DEFINE set == ToSet(tops)
  <2>1. /\ DOMAIN new = DOMAIN placed /\ new = [id \in DOMAIN new |-> new[id]]
        /\ \A id \in DOMAIN placed :
              new[id] = IF id \in set THEN [placed[id] EXCEPT !.parentId = parent] ELSE placed[id]
    OBVIOUS
  <2> HIDE DEF set, new
  <2>2. Edited(new, placed, root, n)
    BY <1>1, <1>6, <2>1, ParentsSet
  <2> QED BY <2>2 DEF Edited
<1>8. MoveNodes(tree, ids, parent, index) = [tree EXCEPT !.nodes = new]
  <2>1. \A id : Contains(tops, id) <=> id \in ToSet(tops)
    BY <1>2, ContainsIs
  <2> DEFINE moved == [id \in DOMAIN placed |->
                     IF Contains(tops, id) THEN [placed[id] EXCEPT !.parentId = parent]
                     ELSE placed[id]]
  <2>2. MoveNodes(tree, ids, parent, index) = [tree EXCEPT !.nodes = moved]
    BY DEF MoveNodes, moved, placed, joined, kids, left, tops
  <2>3. moved = new
    BY <2>1
  <2> HIDE DEF moved, new
  <2> QED BY <2>2, <2>3
<1> HIDE DEF new
<1>9. Narrows(new, tree.nodes)
  BY <1>3, <1>6, <1>7, NarrowsOn
<1>10. Like([tree EXCEPT !.nodes = new], tree, n)
  BY <1>7, <1>9, LikeNodes
<1> QED BY <1>8, <1>10

-----------------------------------------------------------------------------
\* Wrapping, dropping, renaming.

\* A sequence that is not empty: its first and its last element.
LEMMA EndsOf ==
  ASSUME NEW E, NEW s \in Seq(E), s # <<>>
  PROVE  /\ Len(s) \in Nat \ {0}
         /\ s[1] \in ToSet(s) /\ s[1] \in E /\ s[1] = Head(s)
         /\ s[Len(s)] \in ToSet(s) /\ s[Len(s)] \in E /\ s[Len(s)] = Last(s)
<1>1. Len(s) \in Nat \ {0} /\ DOMAIN s = 1..Len(s)
  OBVIOUS
<1>2. 1 \in 1..Len(s) /\ Len(s) \in 1..Len(s)
  BY <1>1
<1> QED BY <1>1, <1>2 DEF ToSet, Last

\* wrapNode and wrapNodes, the wrapper having the next id.
LEMMA WrapNodesIs ==
  ASSUME NEW n \in Nat, NEW m \in Nat, n < m, NEW tree, IsDocument(tree, n), NEW ids \in Seq(Nat),
         tree.rootNodeId \notin ToSet(ids), ids # <<>>, CanWrap(tree, ids)
  PROVE  Like(WrapNodes(tree, ids, n), tree, m)
<1> DEFINE root == tree.rootNodeId
           tops == TopLevel(tree, ids)
           above == IF Len(ids) = 1 THEN Parent(tree, ids[1])
                    ELSE ClosestCommonAncestor(tree, tops)
           kids == tree.nodes[above].children
           inside == IF Len(ids) = 1 THEN ids ELSE Branches(tree, tops, above)
           rest == Keep(kids, ToSet(kids) \ ToSet(inside))
           after == IF Len(ids) = 1 THEN Replace(kids, ids[1], n)
                    ELSE Splice(rest, IndexOf(kids, inside[1]), <<n>>)
           node == [NewNode("container") EXCEPT !.children = inside, !.parentId = above]
           added == With(tree.nodes, n, node)
           placed == [added EXCEPT ![above].children = after]
           new == [id \in DOMAIN placed |->
                     IF id \in ToSet(inside) THEN [placed[id] EXCEPT !.parentId = n]
                     ELSE placed[id]]
<1>1. /\ Sound(tree.nodes, root, n) /\ Sound(tree.nodes, root, m)
      /\ Lists(tree.nodes)
      /\ root \in 1..(n - 1)
  <2>1. Sound(tree.nodes, root, n) /\ Lists(tree.nodes)
    BY DocumentLists
  <2>2. Sound(tree.nodes, root, m)
    BY <2>1, SoundLater
  <2> QED BY <2>1, <2>2 DEF Sound
<1>2. tops \in Seq(Nat)
  BY TopLevelIs
<1>3. above \in DOMAIN tree.nodes
  <2>1. CASE Len(ids) = 1
    <3>1. Parent(tree, ids[1]) # Null
      BY <2>1 DEF CanWrap
    <3>2. Parent(tree, ids[1]) \in DOMAIN tree.nodes \union {Null}
      BY <1>1, ParentIs
    <3> QED BY <2>1, <3>1, <3>2
  <2>2. CASE Len(ids) # 1
    <3>1. ClosestCommonAncestor(tree, tops) # Null
      BY <2>2 DEF CanWrap
    <3>2. ClosestCommonAncestor(tree, tops) \in DOMAIN tree.nodes \union {Null}
      <4> HIDE DEF tops
      <4> QED BY <1>1, <1>2, ClosestIs
    <3> QED BY <2>2, <3>1, <3>2
  <2> QED BY <2>1, <2>2
<1>4. kids \in Seq(Nat) /\ root \notin ToSet(kids)
  <2> HIDE DEF above
  <2> QED BY <1>1, <1>3 DEF Sound, NodeOK, Node
<1>5. inside \in Seq(Nat) /\ root \notin ToSet(inside)
  <2>1. CASE Len(ids) = 1
    BY <2>1
  <2>2. CASE Len(ids) # 1
    <3> DEFINE set == {BranchOf(tree, tops[i], above) : i \in DOMAIN tops}
    <3>1. inside = Keep(kids, set)
      BY <2>2 DEF Branches
    <3> HIDE DEF inside, kids, set
    <3>2. Keep(kids, set) \in Seq(Nat)
      BY <1>4, KeepIs
    <3>3. ToSet(Keep(kids, set)) = ToSet(kids) \intersect set
      BY <1>4, KeepIs
    <3> QED BY <1>4, <3>1, <3>2, <3>3
  <2> QED BY <2>1, <2>2
<1>6. rest \in Seq(Nat) /\ root \notin ToSet(rest)
  <2> DEFINE set == ToSet(kids) \ ToSet(inside)
  <2> HIDE DEF kids, inside, set
  <2>1. Keep(kids, set) \in Seq(Nat)
    BY <1>4, KeepIs
  <2>2. ToSet(Keep(kids, set)) = ToSet(kids) \intersect set
    BY <1>4, KeepIs
  <2> QED BY <1>4, <2>1, <2>2 DEF set
<1>7. after \in Seq(Nat) /\ root \notin ToSet(after)
  <2> HIDE DEF kids, inside, rest
  <2>1. CASE Len(ids) = 1
    <3>1. Replace(kids, ids[1], n) \in Seq(Nat)
      BY <1>4, ReplaceIs
    <3>2. ToSet(Replace(kids, ids[1], n)) \subseteq ToSet(kids) \union {n}
      BY <1>4, ReplaceIs
    <3> QED BY <1>1, <1>4, <2>1, <3>1, <3>2
  <2>2. CASE Len(ids) # 1
    <3> DEFINE at == IndexOf(kids, inside[1])
               one == <<n>>
    <3>1. at \in Int
      BY <1>4, IndexOfIs
    <3>2. one \in Seq(Nat) /\ root \notin ToSet(one)
      BY <1>1, OneId
    <3> HIDE DEF at, one
    <3>3. Splice(rest, at, one) \in Seq(Nat) /\ root \notin ToSet(Splice(rest, at, one))
      BY <1>6, <3>1, <3>2, SplicedKids
    <3> QED BY <2>2, <3>3 DEF at, one
  <2> QED BY <2>1, <2>2
<1>8. NodeOK(node, root, m) /\ node.moduleId = "container" /\ n # 0
  <2>1. above \in Nat
    BY <1>1, <1>3 DEF Lists
  <2> HIDE DEF above, inside
  <2>2. n # 0 /\ m # 0
    BY <1>1
  <2>3. "container" \in Module \union {"body", "ref", "slot-instance"}
    BY DEF Module
  <2>4. NodeOK(NewNode("container"), root, m) /\ NewNode("container").moduleId = "container"
    BY <2>2, <2>3, NewNodeOK
  <2>5. node = [[NewNode("container") EXCEPT !.children = inside] EXCEPT !.parentId = above]
    BY DEF NewNode
  <2> DEFINE full == [NewNode("container") EXCEPT !.children = inside]
  <2>6. NodeOK(full, root, m) /\ full.moduleId = "container"
    BY <1>5, <2>4, WithKids
  <2> HIDE DEF full, node
  <2>7. NodeOK([full EXCEPT !.parentId = above], root, m)
        /\ [full EXCEPT !.parentId = above].moduleId = full.moduleId
    BY <2>1, <2>6, WithParent
  <2> QED BY <2>2, <2>5, <2>6, <2>7 DEF full
<1> HIDE DEF node, after, inside, rest
<1>9. n \in 1..(m - 1) /\ n # root /\ n \notin DOMAIN tree.nodes
  BY <1>1, <1>8 DEF Sound
<1>10. /\ Sound(added, root, m)
       /\ Narrows(added, tree.nodes)
       /\ above \in DOMAIN added
  <2> HIDE DEF above
  <2>1. Sound(added, root, m)
    BY <1>1, <1>8, <1>9, Added
  <2>2. Narrows(added, tree.nodes)
    BY <1>8, <1>9 DEF Narrows, With
  <2> QED BY <1>3, <2>1, <2>2 DEF With
<1> HIDE DEF above, added
<1>11. Sound(placed, root, m) /\ Narrows(placed, added)
  <2>1. Edited(placed, added, root, m)
    BY <1>7, <1>10, KidsSet
  <2> QED BY <2>1 DEF Edited
<1> HIDE DEF placed
<1>12. Sound(new, root, m) /\ Narrows(new, placed)
  <2> DEFINE set == ToSet(inside)
  <2>1. /\ DOMAIN new = DOMAIN placed /\ new = [id \in DOMAIN new |-> new[id]]
        /\ \A id \in DOMAIN placed :
              new[id] = IF id \in set THEN [placed[id] EXCEPT !.parentId = n] ELSE placed[id]
    OBVIOUS
  <2> HIDE DEF set, new
  <2>2. Edited(new, placed, root, m)
    BY <1>11, <2>1, ParentsSet
  <2> QED BY <2>2 DEF Edited
<1>13. WrapNodes(tree, ids, n) = [tree EXCEPT !.nodes = new]
  <2>1. \A id : Contains(inside, id) <=> id \in ToSet(inside)
    BY <1>5, ContainsIs
  <2> DEFINE moved == [id \in DOMAIN placed |->
                     IF Contains(inside, id) THEN [placed[id] EXCEPT !.parentId = n]
                     ELSE placed[id]]
  <2>2. WrapNodes(tree, ids, n) = [tree EXCEPT !.nodes = moved]
    BY DEF WrapNodes, moved, placed, added, node, after, rest, inside, kids, above, tops
  <2>3. moved = new
    BY <2>1
  <2> HIDE DEF moved, new
  <2> QED BY <2>2, <2>3
<1> HIDE DEF new
<1>14. Narrows(new, tree.nodes)
  BY <1>10, <1>11, <1>12, NarrowsOn
<1>15. Like([tree EXCEPT !.nodes = new], tree, m)
  BY <1>12, <1>14, LikeNodes
<1> QED BY <1>13, <1>15

-----------------------------------------------------------------------------
Place(tree) == [parentId : DOMAIN tree.nodes \union {Null}, index : Int]

\* A place beside a node is a place.
LEMMA SiblingAfterIs ==
  ASSUME NEW n \in Nat, NEW tree, IsDocument(tree, n), NEW target
  PROVE  SiblingAfter(tree, target) \in Place(tree)
<1> DEFINE listing == {p \in DOMAIN tree.nodes : Contains(tree.nodes[p].children, target)}
           best == CHOOSE p \in listing : \A q \in listing : p <= q
<1>1. CASE listing = {}
  BY <1>1 DEF SiblingAfter, Nowhere, Place
<1>2. CASE listing # {}
  <2>1. best \in listing
    <3>1. listing \subseteq Nat
      BY DocumentLists
    <3> HIDE DEF listing
    <3>2. \E p \in listing : \A q \in listing : p <= q
      BY <1>2, <3>1, Least
    <3> QED BY <3>2
  <2>2. best \in DOMAIN tree.nodes /\ tree.nodes[best].children \in Seq(Nat)
    BY <2>1, DocumentLists
  <2>3. SiblingAfter(tree, target) =
          [parentId |-> best, index |-> IndexOf(tree.nodes[best].children, target) + 1]
    BY <1>2 DEF SiblingAfter
  <2> HIDE DEF best
  <2>4. IndexOf(tree.nodes[best].children, target) \in Int
    BY <2>2, IndexOfIs
  <2> QED BY <2>2, <2>3, <2>4 DEF Place
<1> QED BY <1>1, <1>2

\* resolveInsertLocation
LEMMA InsertLocationIs ==
  ASSUME NEW n \in Nat, NEW tree, IsDocument(tree, n), NEW target \in DOMAIN tree.nodes
  PROVE  InsertLocation(tree, target) \in Place(tree)
<1> DEFINE node == tree.nodes[target]
           slots == Keep(node.children, Slots(tree))
           End(id) == [parentId |-> id, index |-> Len(tree.nodes[id].children)]
<1>1. \A id \in DOMAIN tree.nodes : End(id) \in Place(tree)
  <2> TAKE id \in DOMAIN tree.nodes
  <2>1. Len(tree.nodes[id].children) \in Int
    BY DocumentLists
  <2> QED BY <2>1 DEF Place
<1>2. SiblingAfter(tree, target) \in Place(tree)
  BY SiblingAfterIs
<1>3. slots # <<>> => slots[1] \in DOMAIN tree.nodes
  <2> DEFINE set == Slots(tree)
             kids == node.children
  <2>1. kids \in Seq(Nat) /\ set \subseteq DOMAIN tree.nodes
    BY DocumentLists DEF Slots
  <2> HIDE DEF set, kids
  <2>2. Keep(kids, set) \in Seq(Nat)
    BY <2>1, KeepIs
  <2>3. ToSet(Keep(kids, set)) = ToSet(kids) \intersect set
    BY <2>1, KeepIs
  <2>4. Keep(kids, set) # <<>> => Keep(kids, set)[1] \in ToSet(Keep(kids, set))
    BY <2>2, EndsOf
  <2> QED BY <2>1, <2>3, <2>4 DEF set, kids
<1>4. \/ InsertLocation(tree, target) = SiblingAfter(tree, target)
      \/ InsertLocation(tree, target) = End(target)
      \/ slots # <<>> /\ InsertLocation(tree, target) = End(slots[1])
  BY DEF InsertLocation
<1> HIDE DEF End, slots
<1> QED BY <1>1, <1>2, <1>3, <1>4

\* resolvePageTreeDropTarget
LEMMA DropTargetIs ==
  ASSUME NEW n \in Nat, NEW tree, IsDocument(tree, n), NEW dragged, NEW ids \in Seq(Nat),
         NEW over \in DOMAIN tree.nodes, NEW zone \in {"before", "after", "inside"},
         ResolveDropTarget(tree, dragged, ids, over, zone) # Nowhere
  PROVE  LET to == ResolveDropTarget(tree, dragged, ids, over, zone)
         IN  /\ to.parentId \in DOMAIN tree.nodes
             /\ to.index \in Int
             /\ tree.rootNodeId \notin ToSet(ids)
<1> DEFINE parent == IF zone = "inside" THEN over ELSE Parent(tree, over)
           node == tree.nodes[parent]
           at == IndexOf(node.children, over)
           raw == CASE zone = "inside" -> Len(node.children)
                    [] zone = "before" -> at
                    [] zone = "after" -> at + 1
           index == NormalizeIndexAfterRemoval(tree, dragged, parent, raw)
           to == ResolveDropTarget(tree, dragged, ids, over, zone)
<1>1. /\ to = [parentId |-> parent, index |-> index]
      /\ parent # Null
      /\ \A id \in ToSet(ids) : id # tree.rootNodeId
  BY DEF ResolveDropTarget
<1>2. parent \in DOMAIN tree.nodes
  <2>1. Parent(tree, over) \in DOMAIN tree.nodes \union {Null}
    BY DocumentLists, ParentIs
  <2> QED BY <1>1, <2>1
<1> HIDE DEF parent
<1>3. node.children \in Seq(Nat)
  BY <1>2, DocumentLists
<1>4. raw \in Int
  <2>1. at \in Int
    BY <1>3, IndexOfIs
  <2>2. Len(node.children) \in Int
    BY <1>3
  <2> HIDE DEF at
  <2> QED BY <2>1, <2>2
<1> HIDE DEF raw
<1>5. index \in Int
  BY <1>4 DEF NormalizeIndexAfterRemoval
<1> HIDE DEF index
<1> QED BY <1>1, <1>2, <1>5

\* updateNodeProps of an outlet's name.
LEMMA RenamedIs ==
  ASSUME NEW n \in Nat, NEW tree, IsDocument(tree, n), NEW id \in DOMAIN tree.nodes,
         NEW name \in SlotName
  PROVE  Like([tree EXCEPT !.nodes[id].slotName = name], tree, n)
<1> DEFINE new == [tree.nodes EXCEPT ![id].slotName = name]
<1>1. Sound(tree.nodes, tree.rootNodeId, n)
  BY DocumentLists
<1>2. DOMAIN new = DOMAIN tree.nodes /\ new = [i \in DOMAIN new |-> new[i]]
  BY <1>1 DEF Sound
<1>3. ASSUME NEW i \in DOMAIN tree.nodes
      PROVE  /\ NodeOK(new[i], tree.rootNodeId, n)
             /\ new[i].moduleId = tree.nodes[i].moduleId
             /\ new[i].componentId = tree.nodes[i].componentId
  <2> DEFINE named == [tree.nodes[i] EXCEPT !.slotName = name]
  <2>1. NodeOK(tree.nodes[i], tree.rootNodeId, n)
    BY <1>1 DEF Sound
  <2>2. /\ NodeOK(named, tree.rootNodeId, n)
        /\ named.moduleId = tree.nodes[i].moduleId
        /\ named.componentId = tree.nodes[i].componentId
    BY <2>1 DEF NodeOK, Node
  <2>3. new[i] = IF i = id THEN named ELSE tree.nodes[i]
    BY <1>1 DEF Sound
  <2> HIDE DEF new, named
  <2> QED BY <2>1, <2>2, <2>3
<1>4. [tree EXCEPT !.nodes[id].slotName = name] = [tree EXCEPT !.nodes = new]
  OBVIOUS
<1> HIDE DEF new
<1>5. Touched(new, tree, n)
  BY <1>1, <1>2, <1>3 DEF Touched, Sound
<1>6. Sound(new, tree.rootNodeId, n) /\ Narrows(new, tree.nodes)
  BY <1>5, TouchedIs
<1>7. Like([tree EXCEPT !.nodes = new], tree, n)
  BY <1>6, LikeNodes
<1> QED BY <1>4, <1>7

-----------------------------------------------------------------------------
\* Copies of nodes.

\* New nodes with ids from n to m - 1 that list only each other.
Fresh(new, n, m) ==
    /\ new = [id \in DOMAIN new |-> new[id]]
    /\ DOMAIN new \subseteq n..(m - 1)
    /\ \A id \in DOMAIN new : /\ new[id] \in Node(m)
                              /\ ToSet(new[id].children) \subseteq DOMAIN new

\* both is nodes and new together.
Joined(both, new, nodes, root, m) ==
    /\ Sound(both, root, m)
    /\ DOMAIN both = DOMAIN new \union DOMAIN nodes
    /\ \A id \in DOMAIN new : both[id] = new[id]
    /\ \A id \in DOMAIN nodes : both[id] = nodes[id]

\* New nodes laid over old ones.
LEMMA OverIs ==
  ASSUME NEW n \in Nat, NEW m \in Nat, n <= m, NEW root, NEW nodes, Sound(nodes, root, n),
         NEW new, Fresh(new, n, m)
  PROVE  Joined(Over(new, nodes), new, nodes, root, m)
<1> DEFINE both == Over(new, nodes)
<1>1. DOMAIN both = DOMAIN new \union DOMAIN nodes /\ both = [id \in DOMAIN both |-> both[id]]
  BY DEF Over
<1>2. Sound(nodes, root, m) /\ DOMAIN nodes \subseteq 1..(n - 1) /\ root \in DOMAIN nodes
  BY SoundLater DEF Sound
<1>3. \A id \in DOMAIN new : id \notin DOMAIN nodes
  BY <1>2 DEF Fresh
<1>4. \A id \in DOMAIN new : both[id] = new[id]
  BY DEF Over
<1>5. \A id \in DOMAIN nodes : both[id] = nodes[id]
  BY <1>3 DEF Over
<1>6. \A id \in DOMAIN new : NodeOK(new[id], root, m)
  BY <1>2, <1>3 DEF Fresh, NodeOK
<1> HIDE DEF both
<1>7. \A id \in DOMAIN both : NodeOK(both[id], root, m)
  BY <1>1, <1>2, <1>4, <1>5, <1>6 DEF Sound
<1>8. DOMAIN both \subseteq 1..(m - 1)
  <2>1. 1 <= n
    BY <1>2
  <2> QED BY <1>1, <1>2, <2>1 DEF Fresh
<1>9. Sound(both, root, m)
  BY <1>1, <1>2, <1>5, <1>7, <1>8 DEF Sound
<1> QED BY <1>1, <1>4, <1>5, <1>9 DEF both, Joined

-----------------------------------------------------------------------------
\* The copy of one node.
Copy(nodes, ids, map, id) ==
    [nodes[id] EXCEPT !.children =
        LET kept == Keep(@, DOMAIN map)
        IN  [i \in DOMAIN kept |-> map[kept[i]]],
     !.parentId = IF \E p \in ids : Contains(nodes[p].children, id)
                  THEN map[CHOOSE p \in ids : Contains(nodes[p].children, id)]
                  ELSE @]

Same(copy, node, m, new) ==
    /\ copy \in Node(m)
    /\ ToSet(copy.children) \subseteq new
    /\ copy.moduleId = node.moduleId
    /\ copy.componentId = node.componentId

\* A copied node has children and a parent among the new ids.
LEMMA CopyIs ==
  ASSUME NEW m \in Nat, NEW nodes, NEW ids, ids \subseteq DOMAIN nodes, NEW map,
         NEW new, new \subseteq Nat, map \in [ids -> new], NEW id \in ids, nodes[id] \in Node(m)
  PROVE  Same(Copy(nodes, ids, map, id), nodes[id], m, new)
<1> DEFINE kept == Keep(nodes[id].children, ids)
           kids == [i \in DOMAIN kept |-> map[kept[i]]]
           parent == IF \E p \in ids : Contains(nodes[p].children, id)
                     THEN map[CHOOSE p \in ids : Contains(nodes[p].children, id)]
                     ELSE nodes[id].parentId
<1>1. nodes[id].children \in Seq(Nat)
  BY DEF Node
<1>2. kept \in Seq(Nat) /\ ToSet(kept) \subseteq ids
  <2>1. Keep(nodes[id].children, ids) \in Seq(Nat)
    BY <1>1, KeepIs
  <2>2. ToSet(Keep(nodes[id].children, ids)) = ToSet(nodes[id].children) \intersect ids
    BY <1>1, KeepIs
  <2> QED BY <2>1, <2>2
<1>3. kept \in Seq(ids)
  <2> HIDE DEF kept
  <2> QED BY <1>2, SeqOver
<1>4. kids \in Seq(new) /\ ToSet(kids) \subseteq new
  <2> HIDE DEF kept
  <2>1. DOMAIN kept = 1..Len(kept) /\ Len(kept) \in Nat /\ \A i \in DOMAIN kept : kept[i] \in ids
    BY <1>3
  <2>2. kids \in [1..Len(kept) -> new]
    BY <2>1
  <2>3. kids \in Seq(new)
    <3> HIDE DEF kids
    <3> QED BY <2>1, <2>2
  <2> HIDE DEF kids
  <2> QED BY <2>2, <2>3 DEF ToSet
<1>5. parent \in Nat
  <2>1. CASE \E p \in ids : Contains(nodes[p].children, id)
    <3>1. (CHOOSE p \in ids : Contains(nodes[p].children, id)) \in ids
      BY <2>1
    <3>2. map[CHOOSE p \in ids : Contains(nodes[p].children, id)] \in new
      BY <3>1
    <3> QED BY <2>1, <3>2
  <2>2. CASE ~\E p \in ids : Contains(nodes[p].children, id)
    BY <2>2 DEF Node
  <2> QED BY <2>1, <2>2
<1>6. kids \in Seq(Nat)
  <2>1. ToSet(kids) \subseteq Nat
    BY <1>4
  <2> HIDE DEF kids
  <2> QED BY <1>4, <2>1, SeqOver
<1>7. Copy(nodes, ids, map, id) = [nodes[id] EXCEPT !.children = kids, !.parentId = parent]
  <2>1. DOMAIN map = ids
    OBVIOUS
  <2> QED BY <2>1 DEF Copy
<1> HIDE DEF kids, parent
<1> QED BY <1>4, <1>5, <1>6, <1>7 DEF Node, Same

\* new has the copies of ids, each under the id that map gives it.
Cloned(new, nodes, ids, map) ==
    /\ DOMAIN new = {map[id] : id \in ids}
    /\ \A id \in ids : /\ map[id] \in Nat
                       /\ new[map[id]].moduleId = nodes[id].moduleId
                       /\ new[map[id]].componentId = nodes[id].componentId

\* cloneNodeWithRemap of a set of nodes with fresh ids.
LEMMA CopiesAre ==
  ASSUME NEW n \in Nat, NEW from \in Nat, n <= from, NEW m \in Nat, NEW nodes, NEW ids,
         DOMAIN nodes \subseteq 1..(n - 1), \A id \in DOMAIN nodes : nodes[id] \in Node(n),
         ids \subseteq DOMAIN nodes, m = from + Cardinality(ids)
  PROVE  LET map == FreshIds(ids, from)
             new == Copies(nodes, ids, map)
         IN  Fresh(new, from, m) /\ Cloned(new, nodes, ids, map)
<1> DEFINE map == FreshIds(ids, from)
           new == Copies(nodes, ids, map)
           range == {map[id] : id \in ids}
<1>1. IsFiniteSet(ids) /\ ids \subseteq Nat
  <2>1. IsFiniteSet(1..(n - 1))
    BY FS_Interval
  <2>2. ids \subseteq 1..(n - 1)
    OBVIOUS
  <2> QED BY <2>1, <2>2, FS_Subset
<1>2. map \in [ids -> from..(m - 1)]
  BY <1>1, FreshIs
<1>3. \A i, j \in ids : map[i] = map[j] => i = j
  BY <1>1, FreshIs
<1>4. n <= m
  BY <1>1, FreshIs
<1>5. new = [x \in range |-> Copy(nodes, ids, map, CHOOSE id \in ids : map[id] = x)]
  BY DEF Copies, Copy
<1> HIDE DEF map
<1>6. range \subseteq from..(m - 1) /\ range \subseteq Nat /\ map \in [ids -> range]
  <2>1. \A id \in ids : map[id] \in from..(m - 1)
    BY <1>2
  <2> QED BY <1>2, <2>1
<1>7. \A id \in ids : map[id] \in range
  OBVIOUS
<1> HIDE DEF range, new
<1>8. DOMAIN new = range /\ new = [x \in DOMAIN new |-> new[x]]
  BY <1>5
<1>9. ASSUME NEW id \in ids
      PROVE  /\ map[id] \in Nat
             /\ new[map[id]] = Copy(nodes, ids, map, id)
             /\ new[map[id]] \in Node(m)
             /\ ToSet(new[map[id]].children) \subseteq range
             /\ new[map[id]].moduleId = nodes[id].moduleId
             /\ new[map[id]].componentId = nodes[id].componentId
  <2>1. (CHOOSE i \in ids : map[i] = map[id]) = id
    BY <1>3
  <2>2. new[map[id]] = Copy(nodes, ids, map, id)
    BY <1>5, <1>7, <2>1
  <2>3. nodes[id] \in Node(m)
    <3>1. Node(n) \subseteq Node(m)
      BY <1>4, NodeLater
    <3> QED BY <3>1
  <2>4. Same(Copy(nodes, ids, map, id), nodes[id], m, range)
    BY <1>6, <2>3, CopyIs
  <2>5. map[id] \in Nat
    BY <1>6, <1>7
  <2> QED BY <2>2, <2>4, <2>5 DEF Same
<1>10. \A x \in DOMAIN new : \E id \in ids : x = map[id]
  BY <1>8 DEF range
<1>11. Fresh(new, from, m)
  BY <1>6, <1>8, <1>9, <1>10 DEF Fresh
<1> QED BY <1>8, <1>9, <1>11 DEF range, new, map, Cloned

\* What copies use and the outlets among them.
LEMMA CopiesUse ==
  ASSUME NEW new, NEW nodes, NEW ids, NEW map, ids \subseteq DOMAIN nodes,
         Cloned(new, nodes, ids, map)
  PROVE  /\ Used(new) \subseteq Used(nodes)
         /\ Content(new) \subseteq {map[id] : id \in ids \intersect Content(nodes)}
<1>1. Used(new) \subseteq Used(nodes)
  BY DEF Used, Cloned
<1>2. Content(new) \subseteq {map[id] : id \in ids \intersect Content(nodes)}
  BY DEF Content, Cloned
<1> QED BY <1>1, <1>2

-----------------------------------------------------------------------------
\* Duplicating.

\* duplicateNode of a node with no content outlet under it: the copy has none
\* either, and no other node gets one under it.
LEMMA DuplicateNodeIs ==
  ASSUME NEW n \in Nat, NEW tree, IsDocument(tree, n), NEW id \in DOMAIN tree.nodes,
         id # tree.rootNodeId, ~SubtreeHasOutlet(tree, id), NEW m,
         m = n + Cardinality(Subtree(tree, id))
  PROVE  /\ m \in Nat /\ n <= m
         /\ Like(DuplicateNode(tree, id, n), tree, m)
         /\ DOMAIN tree.nodes \subseteq DOMAIN DuplicateNode(tree, id, n).nodes
         /\ \A b \in DOMAIN tree.nodes :
               ~SubtreeHasOutlet(tree, b) => ~SubtreeHasOutlet(DuplicateNode(tree, id, n), b)
<1> DEFINE root == tree.rootNodeId
           ids == Subtree(tree, id)
           map == FreshIds(ids, n)
           parent == Parent(tree, id)
           copies == Copies(tree.nodes, ids, map)
           copied == Over(copies, tree.nodes)
           up == IF parent # Null THEN parent ELSE tree.nodes[id].parentId
           linked == [copied EXCEPT ![map[id]].parentId = up]
           kids == linked[parent].children
           joined == Splice(kids, IndexOf(kids, id) + 1, <<map[id]>>)
           new == IF parent = Null THEN linked ELSE [linked EXCEPT ![parent].children = joined]
           dup == DuplicateNode(tree, id, n)
<1>1. /\ Sound(tree.nodes, root, n)
      /\ Lists(tree.nodes)
      /\ \A i \in DOMAIN tree.nodes : i \in Nat /\ tree.nodes[i] \in Node(n)
      /\ root \in DOMAIN tree.nodes
      /\ DOMAIN tree.nodes \subseteq 1..(n - 1)
  <2>1. Sound(tree.nodes, root, n) /\ Lists(tree.nodes)
    BY DocumentLists
  <2> QED BY <2>1, DocumentLists DEF Sound
<1>2. ids \subseteq DOMAIN tree.nodes /\ id \in ids
  <2>1. id \in Nat
    BY <1>1
  <2> QED BY <1>1, <2>1, SubtreeIs DEF Has
<1>3. Cardinality(ids) \in Nat
  <2>1. IsFiniteSet(ids)
    BY <1>1, <1>2, FS_Subset DEF Lists
  <2> QED BY <2>1, FS_CardinalityType
<1>4. m \in Nat /\ n <= m
  BY <1>3
<1>5. Fresh(copies, n, m) /\ Cloned(copies, tree.nodes, ids, map)
  <2> DEFINE nodes == tree.nodes
  <2>1. DOMAIN nodes \subseteq 1..(n - 1) /\ (\A i \in DOMAIN nodes : nodes[i] \in Node(n)) /\ n <= n
    BY <1>1
  <2> HIDE DEF ids, nodes
  <2> QED BY <1>2, <1>4, <2>1, CopiesAre DEF nodes, ids
<1>6. Used(copies) \subseteq Used(tree.nodes) /\ Content(copies) = {}
  <2>1. ids \intersect Content(tree.nodes) = {}
    BY DEF SubtreeHasOutlet, Content
  <2> HIDE DEF copies, map, ids
  <2>2. /\ Used(copies) \subseteq Used(tree.nodes)
        /\ Content(copies) \subseteq {map[i] : i \in ids \intersect Content(tree.nodes)}
    BY <1>2, <1>5, CopiesUse
  <2> QED BY <2>1, <2>2
<1> HIDE DEF copies, map, ids
<1>7. /\ Sound(copied, root, m)
      /\ DOMAIN copied = DOMAIN copies \union DOMAIN tree.nodes
      /\ \A i \in DOMAIN copies : copied[i] = copies[i]
      /\ \A i \in DOMAIN tree.nodes : copied[i] = tree.nodes[i]
  <2>1. Joined(copied, copies, tree.nodes, root, m)
    BY <1>1, <1>4, <1>5, OverIs
  <2> HIDE DEF copied
  <2> QED BY <2>1 DEF Joined
<1> HIDE DEF copied
<1>8. parent \in DOMAIN tree.nodes \union {Null} /\ parent \in Nat /\ up \in Nat
  <2>1. parent \in DOMAIN tree.nodes \union {Null} /\ parent \in Nat
    BY <1>1, ParentIs
  <2>2. tree.nodes[id].parentId \in Nat
    BY <1>1 DEF Node
  <2> QED BY <2>1, <2>2
<1> HIDE DEF parent, up
<1>9. /\ Sound(linked, root, m)
      /\ Narrows(linked, copied)
      /\ DOMAIN linked = DOMAIN copied
      /\ \A i \in DOMAIN copied : linked[i].children = copied[i].children
  <2>1. Edited(linked, copied, root, m)
    BY <1>4, <1>7, <1>8, ParentSet
  <2>2. \A i \in DOMAIN copied : linked[i].children = copied[i].children
    BY <1>4, <1>7, <1>8, ParentSet
  <2> QED BY <2>1, <2>2 DEF Edited
<1> HIDE DEF linked
<1>10. map[id] \in DOMAIN copies /\ map[id] \in Nat /\ map[id] # root
  BY <1>1, <1>2, <1>5 DEF Fresh, Cloned
<1>11. ASSUME parent # Null
       PROVE  /\ joined \in Seq(Nat)
              /\ root \notin ToSet(joined)
              /\ ToSet(joined) = ToSet(kids) \union {map[id]}
              /\ parent \in DOMAIN linked
  <2> DEFINE one == <<map[id]>>
             at == IndexOf(kids, id) + 1
  <2>1. parent \in DOMAIN linked
    BY <1>7, <1>8, <1>9, <1>11
  <2>2. kids \in Seq(Nat) /\ root \notin ToSet(kids)
    BY <1>9, <2>1 DEF Sound, NodeOK, Node
  <2> HIDE DEF kids
  <2>3. at \in Int
    BY <2>2, IndexOfIs
  <2>4. one \in Seq(Nat) /\ ToSet(one) = {map[id]}
    BY <1>10, OneId
  <2> HIDE DEF at, one
  <2>5. Splice(kids, at, one) \in Seq(Nat) /\ root \notin ToSet(Splice(kids, at, one))
    BY <1>10, <2>2, <2>3, <2>4, SplicedKids
  <2>6. ToSet(Splice(kids, at, one)) = ToSet(kids) \union ToSet(one)
    BY <2>2, <2>3, <2>4, SplicedSet
  <2> QED BY <2>1, <2>4, <2>5, <2>6 DEF at, one
<1> HIDE DEF joined
<1>12. Sound(new, root, m) /\ Narrows(new, linked) /\ DOMAIN new = DOMAIN linked
  <2>1. CASE parent = Null
    BY <1>9, <2>1 DEF Narrows
  <2>2. CASE parent # Null
    <3> DEFINE put == [linked EXCEPT ![parent].children = joined]
    <3>0. Edited(put, linked, root, m)
      BY <1>4, <1>9, <1>11, <2>2, KidsSet
    <3>1. Sound(put, root, m) /\ Narrows(put, linked) /\ DOMAIN put = DOMAIN linked
      BY <3>0 DEF Edited
    <3>2. new = put
      BY <2>2
    <3> HIDE DEF put, new
    <3> QED BY <3>1, <3>2
  <2> QED BY <2>1, <2>2
<1>13. \A i \in DOMAIN linked : \/ new[i].children = linked[i].children
                                 \/ /\ parent # Null /\ i = parent
                                    /\ new[i].children = joined
  <2> TAKE i \in DOMAIN linked
  <2>1. CASE parent = Null
    BY <2>1
  <2>2. CASE parent # Null /\ i # parent
    BY <2>2, <1>9 DEF Sound
  <2>3. CASE parent # Null /\ i = parent
    <3>1. linked[i] \in Node(m)
      BY <1>9 DEF Sound, NodeOK
    <3>2. new[i] = [linked[i] EXCEPT !.children = joined]
      BY <2>3, <1>9 DEF Sound
    <3> HIDE DEF new
    <3> QED BY <2>3, <3>1, <3>2 DEF Node
  <2> QED BY <2>1, <2>2, <2>3
<1>14. dup = [tree EXCEPT !.nodes = new]
  BY DEF DuplicateNode, new, joined, kids, linked, up, copied, copies, parent, map, ids
<1> HIDE DEF new
<1>15. Narrows(new, copied)
  BY <1>9, <1>12, NarrowsOn
<1>16. Used(new) \subseteq Used(tree.nodes) /\ Content(new) \subseteq Content(tree.nodes)
  <2>1. Used(new) \subseteq Used(copied) /\ Content(new) \subseteq Content(copied)
    BY <1>15, NarrowsKeeps
  <2>2. Used(copied) \subseteq Used(copies) \union Used(tree.nodes)
    BY <1>7 DEF Used
  <2>3. Content(copied) \subseteq Content(copies) \union Content(tree.nodes)
    BY <1>7 DEF Content
  <2> QED BY <1>6, <2>1, <2>2, <2>3
<1>17. Like([tree EXCEPT !.nodes = new], tree, m)
  <2> DEFINE none == {}
  <2>1. Used(new) \subseteq Used(tree.nodes) \union none /\ Content(new) \subseteq Content(tree.nodes) \union none
    BY <1>16
  <2> HIDE DEF none
  <2>2. Grows([tree EXCEPT !.nodes = new], tree, m, none, none)
    BY <1>4, <1>12, <2>1, GrowsNodes
  <2> QED BY <2>2 DEF Like, none
<1>18. [tree EXCEPT !.nodes = new].nodes = new
  BY DocumentIs
<1>19. dup.nodes = new
  BY <1>14, <1>18
<1>20. Like(dup, tree, m)
  BY <1>14, <1>17
<1>21. DOMAIN tree.nodes \subseteq DOMAIN dup.nodes
  BY <1>7, <1>9, <1>12, <1>19
<1> HIDE DEF dup
<1>22. Lists(dup.nodes)
  BY <1>4, <1>20, DocumentLists DEF Like, Grows
<1>23. ASSUME NEW b \in DOMAIN tree.nodes, ~SubtreeHasOutlet(tree, b)
       PROVE  ~SubtreeHasOutlet(dup, b)
  <2> DEFINE T == Subtree(tree, b) \union DOMAIN copies
  <2>1. b \in Subtree(tree, b) /\ b \in Nat
        /\ Subtree(tree, b) \subseteq DOMAIN tree.nodes
    BY <1>1, SubtreeIs DEF Has
  <2>2. \A p \in Subtree(tree, b) : \A c \in Kids(tree, p) : Has(tree, c) => c \in Subtree(tree, b)
    BY <1>1, <2>1, SubtreeIs
  <2>3. ASSUME NEW p \in T, Has(dup, p), NEW c \in Kids(dup, p), Has(dup, c)
        PROVE  c \in T
    <3>1. p \in DOMAIN linked /\ c \in DOMAIN linked /\ p \in DOMAIN copied
      BY <1>9, <1>12, <1>19, <2>3 DEF Has
    <3>2. c \in ToSet(new[p].children)
      BY <1>19 DEF Kids
    <3>3. c \in DOMAIN copies \/ c \in ToSet(copied[p].children)
      <4>1. CASE new[p].children = linked[p].children
        BY <1>9, <3>1, <3>2, <4>1
      <4>2. CASE parent # Null /\ p = parent /\ new[p].children = joined
        BY <1>9, <1>10, <1>11, <3>1, <3>2, <4>2
      <4> QED BY <1>13, <3>1, <4>1, <4>2
    <3>4. CASE c \in DOMAIN copies
      BY <3>4
    <3>5. CASE c \in ToSet(copied[p].children) /\ p \in DOMAIN copies
      BY <1>5, <1>7, <3>5 DEF Fresh
    <3>6. CASE c \in ToSet(copied[p].children) /\ p \in Subtree(tree, b) /\ c \notin DOMAIN copies
      <4>1. copied[p] = tree.nodes[p]
        BY <1>7, <2>1, <3>6
      <4>2. c \in Kids(tree, p)
        BY <3>6, <4>1 DEF Kids
      <4>3. Has(tree, c)
        BY <1>7, <1>9, <3>1, <3>6 DEF Has
      <4> QED BY <2>2, <3>6, <4>2, <4>3
    <3> QED BY <3>3, <3>4, <3>5, <3>6
  <2>4. Subtree(dup, b) \subseteq T
    <3>1. b \in T
      BY <2>1
    <3>2. \A p \in T : Has(dup, p) => \A c \in Kids(dup, p) : Has(dup, c) => c \in T
      BY <2>3
    <3> HIDE DEF T
    <3> QED BY <1>22, <2>1, <3>1, <3>2, SubtreeLeast
  <2>5. ASSUME NEW x \in Subtree(dup, b), dup.nodes[x].moduleId = "outlet" PROVE FALSE
    <3>1. x \in DOMAIN dup.nodes
      BY <1>22, <2>1, SubtreeIs
    <3>2. x \in Content(tree.nodes)
      BY <1>16, <1>19, <2>5, <3>1 DEF Content
    <3>3. x \notin DOMAIN copies
      BY <1>1, <1>5, <3>2 DEF Content, Fresh
    <3>4. x \in Subtree(tree, b)
      BY <2>4, <3>3
    <3> QED BY <1>23, <3>2, <3>4 DEF SubtreeHasOutlet, Content
  <2> QED BY <2>5 DEF SubtreeHasOutlet
<1> QED BY <1>4, <1>20, <1>21, <1>23 DEF dup

\* DuplicateAll is a loop over the ids.
LEMMA DuplicateTurns ==
  ASSUME NEW tree, NEW ids, NEW from, Len(ids) \in Nat
  PROVE  \E f : /\ f[0] = [tree |-> tree, next |-> from]
                /\ \A k \in 1..Len(ids) : f[k] = [tree |-> DuplicateNode(f[k - 1].tree, ids[k], f[k - 1].next),
                            next |-> f[k - 1].next + Cardinality(Subtree(f[k - 1].tree, ids[k]))]
                /\ DuplicateAll(tree, ids, from) = f[Len(ids)]
<1> DEFINE Turn(k, v) == [tree |-> DuplicateNode(v.tree, ids[k], v.next),
                            next |-> v.next + Cardinality(Subtree(v.tree, ids[k]))]
           Made(n, g) == g = [k \in 0..n |-> IF k = 0 THEN [tree |-> tree, next |-> from] ELSE Turn(k, g[k - 1])]
<1>1. \E g : Made(0, g)
  <2>1. Made(0, [k \in 0..0 |-> [tree |-> tree, next |-> from]])
    OBVIOUS
  <2> HIDE DEF Made
  <2> QED BY <2>1
<1>2. ASSUME NEW n \in 0..(Len(ids) - 1), \E g : Made(n, g)
      PROVE  \E g : Made(n + 1, g)
  <2> HIDE DEF Turn
  <2>1. PICK g : Made(n, g)
    BY <1>2
  <2> DEFINE h == [k \in 0..(n + 1) |-> IF k = n + 1 THEN Turn(n + 1, g[n]) ELSE g[k]]
  <2>2. ASSUME NEW k \in 0..(n + 1)
        PROVE  h[k] = IF k = 0 THEN [tree |-> tree, next |-> from] ELSE Turn(k, h[k - 1])
    BY <2>1
  <2>3. Made(n + 1, h)
    BY <2>2
  <2> HIDE DEF Made
  <2> QED BY <2>3
<1>3. PICK g : Made(Len(ids), g)
  <2> HIDE DEF Made
  <2> DEFINE S == {n \in 0..Len(ids) : \E g : Made(n, g)}
  <2>1. 0 \in S /\ \A n \in 0..(Len(ids) - 1) : n \in S => n + 1 \in S
    BY <1>1, <1>2
  <2>2. Len(ids) \in 0..Len(ids)
    OBVIOUS
  <2> HIDE DEF S
  <2>3. Len(ids) \in S
    BY <2>1, <2>2, UpTo
  <2> QED BY <2>3 DEF S
<1>4. Made(Len(ids), CHOOSE f : Made(Len(ids), f))
  <2> HIDE DEF Made
  <2> QED BY <1>3
<1> DEFINE f == CHOOSE f : Made(Len(ids), f)
<1>5. DuplicateAll(tree, ids, from) = f[Len(ids)]
  BY DEF DuplicateAll
<1>6. f[0] = [tree |-> tree, next |-> from] /\ \A k \in 1..Len(ids) : f[k] = Turn(k, f[k - 1])
  <2> HIDE DEF f, Turn
  <2>1. Made(Len(ids), f)
    BY <1>4 DEF f
  <2> QED BY <2>1
<1> HIDE DEF f
<1> QED BY <1>5, <1>6

-----------------------------------------------------------------------------
\* Several nodes at once, the clipboard, reindexing.

\* duplicateNodes
LEMMA DuplicateAllIs ==
  ASSUME NEW n \in Nat, NEW tree, IsDocument(tree, n), NEW ids \in Seq(DOMAIN tree.nodes),
         \A id \in ToSet(ids) : id # tree.rootNodeId /\ ~SubtreeHasOutlet(tree, id)
  PROVE  LET done == DuplicateAll(tree, ids, n)
         IN  done.next \in Nat /\ n <= done.next /\ Like(done.tree, tree, done.next)
<1> DEFINE base == [tree |-> tree, next |-> n]
           Turn(v, id) == [tree |-> DuplicateNode(v.tree, id, v.next),
                           next |-> v.next + Cardinality(Subtree(v.tree, id))]
           Good(now) == /\ now.next \in Nat /\ n <= now.next
                        /\ Like(now.tree, tree, now.next)
                        /\ \A id \in ToSet(ids) : /\ id \in DOMAIN now.tree.nodes
                                                  /\ ~SubtreeHasOutlet(now.tree, id)
<1>0. Len(ids) \in Nat /\ DOMAIN ids = 1..Len(ids) /\ ToSet(ids) \subseteq DOMAIN tree.nodes
  BY DEF ToSet
<1>1. PICK f : /\ f[0] = base
               /\ \A k \in 1..Len(ids) : f[k] = Turn(f[k - 1], ids[k])
               /\ DuplicateAll(tree, ids, n) = f[Len(ids)]
  BY <1>0, DuplicateTurns
<1>2. Good(f[0])
  <2>1. f[0] = base
    BY <1>0, <1>1
  <2>2. Like(tree, tree, n)
    BY LikeSelf
  <2> QED BY <1>0, <2>1, <2>2
<1>3. ASSUME NEW k \in 0..(Len(ids) - 1), Good(f[k]) PROVE Good(f[k + 1])
  <2> DEFINE now == f[k]
             id == ids[k + 1]
  <2>1. f[k + 1] = Turn(now, id)
    <3>1. k + 1 \in 1..Len(ids) /\ (k + 1) - 1 = k
      BY <1>0
    <3> QED BY <1>1, <3>1
  <2>2. id \in ToSet(ids)
    <3>1. k + 1 \in DOMAIN ids
      BY <1>0
    <3> QED BY <3>1 DEF ToSet
  <2>3. Good(now)
    BY <1>3
  <2> HIDE DEF now, id
  <2> DEFINE from == now.next
             was == now.tree
             m == from + Cardinality(Subtree(was, id))
  <2>4. from \in Nat /\ IsDocument(was, from) /\ was.rootNodeId = tree.rootNodeId
    BY <2>3 DEF Like, Grows
  <2>5. id \in DOMAIN was.nodes /\ id # was.rootNodeId /\ ~SubtreeHasOutlet(was, id)
    BY <2>2, <2>3, <2>4
  <2> HIDE DEF from, was
  <2>6. /\ m \in Nat /\ from <= m
        /\ Like(DuplicateNode(was, id, from), was, m)
        /\ DOMAIN was.nodes \subseteq DOMAIN DuplicateNode(was, id, from).nodes
        /\ \A b \in DOMAIN was.nodes :
              ~SubtreeHasOutlet(was, b) => ~SubtreeHasOutlet(DuplicateNode(was, id, from), b)
    BY <2>4, <2>5, DuplicateNodeIs
  <2> DEFINE then == DuplicateNode(was, id, from)
  <2>7. f[k + 1].tree = then /\ f[k + 1].next = m
    BY <2>1 DEF was, from
  <2> HIDE DEF m, then
  <2>8. Like(then, tree, m)
    <3>1. Like(was, tree, from)
      BY <2>3 DEF was, from
    <3> QED BY <2>6, <3>1, LikeOn DEF then
  <2>9. n <= m
    BY <2>3, <2>4, <2>6 DEF from
  <2>10. \A i \in ToSet(ids) : i \in DOMAIN then.nodes /\ ~SubtreeHasOutlet(then, i)
    BY <2>3, <2>6 DEF was, then
  <2> QED BY <2>6, <2>7, <2>8, <2>9, <2>10
<1>4. Good(f[Len(ids)])
  <2> HIDE DEF Good
  <2> DEFINE S == {k \in 0..Len(ids) : Good(f[k])}
  <2>1. 0 \in S /\ \A k \in 0..(Len(ids) - 1) : k \in S => k + 1 \in S
    BY <1>0, <1>2, <1>3
  <2>2. Len(ids) \in 0..Len(ids)
    BY <1>0
  <2> HIDE DEF S
  <2>3. Len(ids) \in S
    BY <1>0, <2>1, <2>2, UpTo
  <2> QED BY <2>3 DEF S
<1> QED BY <1>1, <1>4

-----------------------------------------------------------------------------
\* DeleteSubtrees is a loop over the ids.
LEMMA DeleteTurns ==
  ASSUME NEW tree, NEW ids, Len(ids) \in Nat
  PROVE  \E f : /\ f[0] = tree
                /\ \A k \in 1..Len(ids) : f[k] = DeleteSubtree(f[k - 1], ids[k])
                /\ DeleteSubtrees(tree, ids) = f[Len(ids)]
<1> DEFINE Turn(k, v) == DeleteSubtree(v, ids[k])
           Made(n, g) == g = [k \in 0..n |-> IF k = 0 THEN tree ELSE Turn(k, g[k - 1])]
<1>1. \E g : Made(0, g)
  <2>1. Made(0, [k \in 0..0 |-> tree])
    OBVIOUS
  <2> HIDE DEF Made
  <2> QED BY <2>1
<1>2. ASSUME NEW n \in 0..(Len(ids) - 1), \E g : Made(n, g)
      PROVE  \E g : Made(n + 1, g)
  <2> HIDE DEF Turn
  <2>1. PICK g : Made(n, g)
    BY <1>2
  <2> DEFINE h == [k \in 0..(n + 1) |-> IF k = n + 1 THEN Turn(n + 1, g[n]) ELSE g[k]]
  <2>2. ASSUME NEW k \in 0..(n + 1)
        PROVE  h[k] = IF k = 0 THEN tree ELSE Turn(k, h[k - 1])
    BY <2>1
  <2>3. Made(n + 1, h)
    BY <2>2
  <2> HIDE DEF Made
  <2> QED BY <2>3
<1>3. PICK g : Made(Len(ids), g)
  <2> HIDE DEF Made
  <2> DEFINE S == {n \in 0..Len(ids) : \E g : Made(n, g)}
  <2>1. 0 \in S /\ \A n \in 0..(Len(ids) - 1) : n \in S => n + 1 \in S
    BY <1>1, <1>2
  <2>2. Len(ids) \in 0..Len(ids)
    OBVIOUS
  <2> HIDE DEF S
  <2>3. Len(ids) \in S
    BY <2>1, <2>2, UpTo
  <2> QED BY <2>3 DEF S
<1>4. Made(Len(ids), CHOOSE f : Made(Len(ids), f))
  <2> HIDE DEF Made
  <2> QED BY <1>3
<1> DEFINE f == CHOOSE f : Made(Len(ids), f)
<1>5. DeleteSubtrees(tree, ids) = f[Len(ids)]
  BY DEF DeleteSubtrees
<1>6. f[0] = tree /\ \A k \in 1..Len(ids) : f[k] = Turn(k, f[k - 1])
  <2> HIDE DEF f, Turn
  <2>1. Made(Len(ids), f)
    BY <1>4 DEF f
  <2> QED BY <2>1
<1> HIDE DEF f
<1> QED BY <1>5, <1>6

\* Every id of the list is gone in the end, and nothing new has come.
Removed(new, tree, n, ids) ==
    /\ Like(new, tree, n)
    /\ Narrows(new.nodes, tree.nodes)
    /\ ids \intersect DOMAIN new.nodes = {}

\* Deleting several nodes that are not the root.
LEMMA DeleteSubtreesIs ==
  ASSUME NEW n \in Nat, NEW tree, IsDocument(tree, n), NEW ids \in Seq(Nat),
         tree.rootNodeId \notin ToSet(ids)
  PROVE  Removed(DeleteSubtrees(tree, ids), tree, n, ToSet(ids))
<1> DEFINE Good(k, now) == /\ Like(now, tree, n)
                           /\ DOMAIN now.nodes \subseteq DOMAIN tree.nodes
                           /\ Narrows(now.nodes, tree.nodes)
                           /\ \A i \in 1..k : ids[i] \notin DOMAIN now.nodes
<1>0. Len(ids) \in Nat /\ DOMAIN ids = 1..Len(ids)
  OBVIOUS
<1>1. PICK f : /\ f[0] = tree
               /\ \A k \in 1..Len(ids) : f[k] = DeleteSubtree(f[k - 1], ids[k])
               /\ DeleteSubtrees(tree, ids) = f[Len(ids)]
  BY <1>0, DeleteTurns
<1>2. Good(0, f[0])
  <2>1. f[0] = tree
    BY <1>0, <1>1
  <2>2. Like(tree, tree, n)
    BY LikeSelf
  <2>3. Narrows(tree.nodes, tree.nodes)
    BY DEF Narrows
  <2> QED BY <2>1, <2>2, <2>3
<1>3. ASSUME NEW k \in 0..(Len(ids) - 1), Good(k, f[k]) PROVE Good(k + 1, f[k + 1])
  <2> DEFINE now == f[k]
             id == ids[k + 1]
             then == DeleteSubtree(now, id)
  <2>1. f[k + 1] = then
    <3>1. k + 1 \in 1..Len(ids) /\ (k + 1) - 1 = k
      BY <1>0
    <3> QED BY <1>1, <3>1
  <2>2. id \in Nat /\ id # tree.rootNodeId
    <3>1. k + 1 \in DOMAIN ids
      BY <1>0
    <3> QED BY <3>1 DEF ToSet
  <2>3. Good(k, now)
    BY <1>3
  <2> HIDE DEF now, id
  <2>4. IsDocument(now, n) /\ now.rootNodeId = tree.rootNodeId
    BY <2>3 DEF Like, Grows
  <2>5. Like(then, now, n)
    BY <2>2, <2>4, DeleteSubtreeIs
  <2>6. Narrows(then.nodes, now.nodes) /\ id \notin DOMAIN then.nodes
    BY <2>2, <2>4, DeleteSubtreeIs
  <2>7. DOMAIN then.nodes \subseteq DOMAIN now.nodes
    BY <2>2, <2>4, DeleteSubtreeLess
  <2> HIDE DEF then
  <2>8. Like(then, tree, n)
    BY <2>3, <2>5, LikeOn
  <2>9. Narrows(then.nodes, tree.nodes)
    BY <2>3, <2>6, NarrowsOn
  <2>10. \A i \in 1..(k + 1) : ids[i] \notin DOMAIN then.nodes
    BY <2>3, <2>6, <2>7 DEF id
  <2> QED BY <2>1, <2>3, <2>7, <2>8, <2>9, <2>10
<1>4. Good(Len(ids), f[Len(ids)])
  <2> HIDE DEF Good
  <2> DEFINE S == {k \in 0..Len(ids) : Good(k, f[k])}
  <2>1. 0 \in S /\ \A k \in 0..(Len(ids) - 1) : k \in S => k + 1 \in S
    BY <1>0, <1>2, <1>3
  <2>2. Len(ids) \in 0..Len(ids)
    BY <1>0
  <2> HIDE DEF S
  <2>3. Len(ids) \in S
    BY <1>0, <2>1, <2>2, UpTo
  <2> QED BY <2>3 DEF S
<1> QED BY <1>0, <1>1, <1>4 DEF Removed, ToSet

-----------------------------------------------------------------------------
\* collectSubtreeNodes
LEMMA SnapshotIs ==
  ASSUME NEW n \in Nat, NEW tree, IsDocument(tree, n), NEW roots \in Seq(DOMAIN tree.nodes)
  PROVE  /\ IsSnapshot(Snapshot(tree, roots), n)
         /\ Content(Snapshot(tree, roots).nodes) \subseteq Content(tree.nodes)
<1> DEFINE under == UNION {Subtree(tree, r) : r \in ToSet(roots)}
           nodes == Restrict(tree.nodes, under)
           snapshot == Snapshot(tree, roots)
<1>1. /\ Lists(tree.nodes)
      /\ \A id \in DOMAIN tree.nodes : id \in Nat /\ tree.nodes[id] \in Node(n)
      /\ DOMAIN tree.nodes \subseteq 1..(n - 1)
  <2>1. Sound(tree.nodes, tree.rootNodeId, n) /\ Lists(tree.nodes)
    BY DocumentLists
  <2> QED BY <2>1, DocumentLists DEF Sound
<1>2. ToSet(roots) \subseteq DOMAIN tree.nodes
  BY DEF ToSet
<1>3. ASSUME NEW r \in ToSet(roots) PROVE r \in Subtree(tree, r) /\ Subtree(tree, r) \subseteq DOMAIN tree.nodes
  BY <1>1, <1>2, SubtreeIs DEF Has
<1>4. under \subseteq DOMAIN tree.nodes /\ ToSet(roots) \subseteq under
  BY <1>3
<1> HIDE DEF under
<1>5. DOMAIN nodes = under /\ \A id \in under : nodes[id] = tree.nodes[id]
  BY DEF Restrict
<1>6. nodes = [id \in DOMAIN nodes |-> nodes[id]]
  BY DEF Restrict
<1>7. roots \in Seq(under)
  BY <1>4, SeqOver
<1>8. snapshot = [rootNodeIds |-> roots, nodes |-> nodes]
  BY DEF Snapshot, under
<1> HIDE DEF nodes
<1>9. IsNodes(nodes, n)
  <2>1. DOMAIN nodes \subseteq 1..(n - 1) /\ \A id \in DOMAIN nodes : nodes[id] \in Node(n)
    BY <1>1, <1>4, <1>5
  <2> QED BY <1>6, <2>1, NodesAre
<1>10. snapshot.nodes = nodes /\ snapshot.rootNodeIds = roots
  BY <1>8
<1> HIDE DEF snapshot
<1>11. IsSnapshot(snapshot, n)
  BY <1>5, <1>7, <1>8, <1>9, <1>10 DEF IsSnapshot
<1>12. Content(nodes) \subseteq Content(tree.nodes)
  BY <1>4, <1>5 DEF Content
<1> QED BY <1>10, <1>11, <1>12 DEF snapshot

\* insertSnapshotSubtrees
LEMMA PasteSnapshotIs ==
  ASSUME NEW n \in Nat, NEW tree, IsDocument(tree, n), NEW snapshot, IsSnapshot(snapshot, n),
         snapshot.rootNodeIds # <<>>, NEW parent \in DOMAIN tree.nodes, NEW index \in Int,
         NEW m, m = n + Cardinality(DOMAIN snapshot.nodes)
  PROVE  /\ m \in Nat /\ n <= m
         /\ Grows(PasteSnapshot(tree, snapshot, parent, index, n), tree, m,
                  Used(snapshot.nodes),
                  {FreshIds(DOMAIN snapshot.nodes, n)[id] : id \in Content(snapshot.nodes)})
<1> DEFINE root == tree.rootNodeId
           nodes == snapshot.nodes
           ids == DOMAIN nodes
           map == FreshIds(ids, n)
           tops == snapshot.rootNodeIds
           roots == [i \in DOMAIN tops |-> map[tops[i]]]
           copies == Copies(nodes, ids, map)
           copied == Over(copies, tree.nodes)
           kids == copied[parent].children
           joined == Splice(kids, index, roots)
           placed == [copied EXCEPT ![parent].children = joined]
           new == [placed EXCEPT ![Last(roots)].parentId = parent]
           comps == Used(nodes)
           outs == {map[id] : id \in Content(nodes)}
<1>1. /\ Sound(tree.nodes, root, n) /\ parent \in Nat /\ root \in 1..(n - 1)
      /\ DOMAIN tree.nodes \subseteq 1..(n - 1)
  BY DocumentLists DEF Sound
<1>2. /\ DOMAIN nodes \subseteq 1..(n - 1)
      /\ \A id \in DOMAIN nodes : nodes[id] \in Node(n)
      /\ tops \in Seq(ids)
  <2>1. IsNodes(nodes, n) /\ tops \in Seq(ids)
    BY DEF IsSnapshot
  <2> QED BY <2>1 DEF IsNodes
<1>3. m \in Nat /\ n <= m
  <2>1. IsFiniteSet(1..(n - 1))
    BY FS_Interval
  <2>2. IsFiniteSet(ids)
    BY <1>2, <2>1, FS_Subset
  <2>3. Cardinality(ids) \in Nat
    BY <2>2, FS_CardinalityType
  <2> QED BY <2>3
<1>4. Fresh(copies, n, m) /\ Cloned(copies, nodes, ids, map)
  <2>1. n <= n /\ ids \subseteq DOMAIN nodes
    OBVIOUS
  <2> HIDE DEF nodes, ids
  <2> QED BY <1>2, <1>3, <2>1, CopiesAre DEF nodes, ids
<1>5. /\ Used(copies) \subseteq comps
      /\ Content(copies) \subseteq outs
  <2>1. ids \subseteq DOMAIN nodes /\ ids \intersect Content(nodes) = Content(nodes)
    BY DEF Content
  <2> HIDE DEF copies, map, ids, nodes
  <2>2. Used(copies) \subseteq Used(nodes)
    BY <1>4, <2>1, CopiesUse
  <2>3. Content(copies) \subseteq {map[i] : i \in ids \intersect Content(nodes)}
    BY <1>4, <2>1, CopiesUse
  <2> QED BY <2>1, <2>2, <2>3
<1>6. roots \in Seq(Nat) /\ root \notin ToSet(roots)
  <2>1. \A id \in ids : map[id] \in Nat /\ map[id] # root
    BY <1>1, <1>4 DEF Fresh, Cloned
  <2> HIDE DEF map, tops, ids
  <2>2. DOMAIN tops = 1..Len(tops) /\ Len(tops) \in Nat /\ \A i \in DOMAIN tops : tops[i] \in ids
    BY <1>2
  <2>3. roots \in [1..Len(tops) -> Nat]
    BY <2>1, <2>2
  <2>4. \A i \in DOMAIN roots : roots[i] # root
    BY <2>1, <2>2
  <2>5. roots \in Seq(Nat)
    <3> HIDE DEF roots
    <3> QED BY <2>2, <2>3
  <2> QED BY <2>4, <2>5 DEF ToSet
<1> HIDE DEF copies, map, ids, nodes, tops, roots, comps, outs
<1>7. /\ Sound(copied, root, m)
      /\ DOMAIN copied = DOMAIN copies \union DOMAIN tree.nodes
      /\ \A i \in DOMAIN copies : copied[i] = copies[i]
      /\ \A i \in DOMAIN tree.nodes : copied[i] = tree.nodes[i]
  <2>1. Joined(copied, copies, tree.nodes, root, m)
    BY <1>1, <1>3, <1>4, OverIs
  <2> HIDE DEF copied
  <2> QED BY <2>1 DEF Joined
<1> HIDE DEF copied
<1>8. kids \in Seq(Nat) /\ root \notin ToSet(kids) /\ parent \in DOMAIN copied
  BY <1>7 DEF Sound, NodeOK, Node
<1> HIDE DEF kids
<1>9. joined \in Seq(Nat) /\ root \notin ToSet(joined)
  BY <1>6, <1>8, SplicedKids
<1> HIDE DEF joined
<1>10. Sound(placed, root, m) /\ Narrows(placed, copied)
  <2>1. Edited(placed, copied, root, m)
    BY <1>3, <1>7, <1>8, <1>9, KidsSet
  <2> QED BY <2>1 DEF Edited
<1> HIDE DEF placed
<1>11. Sound(new, root, m) /\ Narrows(new, placed)
  <2>1. Edited(new, placed, root, m)
    BY <1>1, <1>3, <1>10, ParentSet
  <2> QED BY <2>1 DEF Edited
<1>12. PasteSnapshot(tree, snapshot, parent, index, n) = [tree EXCEPT !.nodes = new]
  BY DEF PasteSnapshot, new, placed, joined, kids, copied, copies, roots, map, ids, nodes, tops
<1> HIDE DEF new
<1>13. Narrows(new, copied)
  BY <1>10, <1>11, NarrowsOn
<1>14. /\ Used(new) \subseteq Used(tree.nodes) \union comps
       /\ Content(new) \subseteq Content(tree.nodes) \union outs
  <2>1. Used(new) \subseteq Used(copied) /\ Content(new) \subseteq Content(copied)
    BY <1>13, NarrowsKeeps
  <2>2. Used(copied) \subseteq Used(copies) \union Used(tree.nodes)
    BY <1>7 DEF Used
  <2>3. Content(copied) \subseteq Content(copies) \union Content(tree.nodes)
    BY <1>7 DEF Content
  <2> QED BY <1>5, <2>1, <2>2, <2>3
<1>15. Grows([tree EXCEPT !.nodes = new], tree, m, comps, outs)
  BY <1>3, <1>11, <1>14, GrowsNodes
<1> QED BY <1>3, <1>12, <1>15 DEF comps, outs, map, ids, nodes

-----------------------------------------------------------------------------
\* reindexNodeParents changes parents only.
LEMMA ReindexIs ==
  ASSUME NEW n \in Nat, NEW root, NEW nodes, Sound(nodes, root, n)
  PROVE  Edited(ReindexNodeParents(nodes), nodes, root, n)
<1> DEFINE new == ReindexNodeParents(nodes)
           Listing(id) == {p \in DOMAIN nodes : Contains(nodes[p].children, id)}
           Up(id) == IF Listing(id) = {} THEN Null ELSE CHOOSE p \in Listing(id) : TRUE
<1>1. new = [id \in DOMAIN nodes |-> [nodes[id] EXCEPT !.parentId = Up(id)]]
  BY DEF ReindexNodeParents
<1>2. ASSUME NEW id \in DOMAIN nodes
      PROVE  /\ NodeOK(new[id], root, n)
             /\ new[id].moduleId = nodes[id].moduleId
             /\ new[id].componentId = nodes[id].componentId
  <2>1. NodeOK(nodes[id], root, n)
    BY DEF Sound
  <2>2. Up(id) \in Nat
    <3>1. Listing(id) # {} => (CHOOSE p \in Listing(id) : TRUE) \in Listing(id)
      OBVIOUS
    <3>2. Listing(id) \subseteq Nat
      BY DEF Sound
    <3> QED BY <3>1, <3>2 DEF Null
  <2> DEFINE up == Up(id)
             one == [nodes[id] EXCEPT !.parentId = up]
  <2>3. new[id] = one
    BY <1>1
  <2> HIDE DEF up, Up, new
  <2>4. up \in Nat
    BY <2>2 DEF up
  <2>5. NodeOK(one, root, n) /\ one.moduleId = nodes[id].moduleId /\ one.componentId = nodes[id].componentId
    BY <2>1, <2>4, WithParent
  <2> QED BY <2>3, <2>5
<1>3. DOMAIN new = DOMAIN nodes /\ new = [id \in DOMAIN new |-> new[id]]
  BY <1>1
<1> HIDE DEF new
<1>4. Sound(new, root, n)
  BY <1>2, <1>3 DEF Sound
<1>5. Narrows(new, nodes)
  BY <1>2, <1>3 DEF Narrows
<1> QED BY <1>3, <1>4, <1>5 DEF Edited, new

-----------------------------------------------------------------------------
\* The slots of one ref.

\* The root, which is nobody's child, is under no other node.
LEMMA RootNotUnder ==
  ASSUME NEW tree, Lists(tree.nodes), NEW root, NEW c \in Nat, c # root,
         \A p \in DOMAIN tree.nodes : root \notin ToSet(tree.nodes[p].children)
  PROVE  root \notin Subtree(tree, c)
<1>1. /\ Subtree(tree, c) \subseteq DOMAIN tree.nodes
      /\ \A x \in Subtree(tree, c) : x = c \/ \E p \in Subtree(tree, c) : x \in Kids(tree, p)
  BY SubtreeIs
<1> QED BY <1>1 DEF Kids

Synced(new, nodes, root, m) == Sound(new, root, m) /\ Narrows(new, nodes)

Name == SlotName \union {""}

\* syncSlotInstances: new slot instances are all that comes, and the root of
\* the document stays.
LEMMA SyncSlotInstancesIs ==
  ASSUME NEW b \in Nat, NEW n \in Nat, b <= n + 1, NEW root, NEW nodes, Sound(nodes, root, b),
         NEW refNode, NodeOK(refNode, root, b), NEW ref \in Nat, NEW names \in Seq(Name),
         NEW m, m = n + 1 + Len(names)
  PROVE  Synced(SyncSlotInstances(nodes, ref, refNode, names, n), nodes, root, m)
<1> DEFINE here == [nodes |-> nodes]
           all == Slots(here)
           kids == refNode.children
           slots == Keep(kids, all)
           Named(name) == Keep(slots, {c \in ToSet(slots) : nodes[c].slotName = name})
           spareSet == {c \in ToSet(slots) :
                     LET name == nodes[c].slotName
                     IN  ~Contains(names, name) \/ Head(Named(name)) # c}
           spare == Keep(slots, spareSet)
           missing == Keep(names, {name \in ToSet(names) : Named(name) = <<>>})
           paired == {i \in DOMAIN missing : i <= Len(spare)}
           made == DOMAIN missing \ paired
           IdOf(i) == IF i \in paired THEN spare[i] ELSE n + i
           Instance(name) == IF Named(name) # <<>> THEN Head(Named(name))
                             ELSE IdOf(IndexOf(missing, name) + 1)
           outdated == (ToSet(kids) \ all) \union {spare[i] : i \in DOMAIN spare \ paired}
           gone == UNION {Subtree(here, c) : c \in outdated}
           fresh == [id \in {IdOf(i) : i \in made} |-> NewSlot(missing[id - n], ref)]
           listed == [k \in DOMAIN names |-> Instance(names[k])]
           Inst(id) == \E k \in DOMAIN names : Instance(names[k]) = id
           nameOf(id) == names[CHOOSE k \in DOMAIN names : Instance(names[k]) = id]
           new == [id \in (DOMAIN nodes \ gone) \union DOMAIN fresh |->
                     IF id \in DOMAIN fresh THEN fresh[id]
                     ELSE IF id = ref THEN [nodes[id] EXCEPT !.children = listed]
                     ELSE IF Inst(id)
                     THEN [nodes[id] EXCEPT !.parentId = ref, !.slotName = nameOf(id)]
                     ELSE nodes[id]]
<1>1. SyncSlotInstances(nodes, ref, refNode, names, n) = new
  BY DEF SyncSlotInstances, ApplySlotSync, UnmatchedInstances, UnmatchedNames, SlotsNamed
<1>2. /\ Len(names) \in Nat /\ m \in Nat /\ DOMAIN names = 1..Len(names) /\ b <= m
      /\ root \in DOMAIN nodes /\ DOMAIN nodes \subseteq 1..(b - 1) /\ root <= n
      /\ \A id \in DOMAIN nodes : NodeOK(nodes[id], root, b)
      /\ nodes[root].moduleId = "body"
  BY DEF Sound
<1>3. all \subseteq DOMAIN nodes /\ root \notin all
  BY <1>2 DEF Slots
<1>4. kids \in Seq(Nat) /\ root \notin ToSet(kids)
  BY DEF NodeOK, Node
<1> HIDE DEF all, kids
<1>5. slots \in Seq(Nat) /\ ToSet(slots) \subseteq Nat \ {root}
  <2>1. slots \in Seq(Nat)
    BY <1>4, KeepIs
  <2>2. ToSet(slots) = ToSet(kids) \intersect all
    BY <1>4, KeepIs
  <2> QED BY <1>2, <1>3, <2>1, <2>2
<1> HIDE DEF slots
<1>6. ASSUME NEW name PROVE Named(name) # <<>> => Head(Named(name)) \in Nat \ {root}
  <2> DEFINE set == {c \in ToSet(slots) : nodes[c].slotName = name}
             some == Keep(slots, set)
  <2>1. Named(name) = some
    OBVIOUS
  <2>2. some \in Seq(Nat)
    <3> HIDE DEF set
    <3> QED BY <1>5, KeepIs
  <2>3. ToSet(some) = ToSet(slots) \intersect set
    <3> HIDE DEF set
    <3> QED BY <1>5, KeepIs
  <2> HIDE DEF some, set, Named
  <2>4. some # <<>> => Head(some) \in ToSet(some)
    BY <2>2, EndsOf
  <2> QED BY <1>5, <2>1, <2>3, <2>4
<1>7. spare \in Seq(Nat) /\ ToSet(spare) \subseteq Nat \ {root}
      /\ DOMAIN spare = 1..Len(spare) /\ Len(spare) \in Nat
  <2> HIDE DEF spareSet
  <2>1. spare \in Seq(Nat)
    BY <1>5, KeepIs
  <2>2. ToSet(spare) = ToSet(slots) \intersect spareSet
    BY <1>5, KeepIs
  <2> HIDE DEF spare
  <2> QED BY <1>5, <2>1, <2>2
<1>8. \A i \in DOMAIN spare : spare[i] \in Nat \ {root}
  BY <1>7 DEF ToSet
<1> HIDE DEF spare, spareSet
<1> DEFINE lacking == {name \in ToSet(names) : Named(name) = <<>>}
<1>9. missing \in Seq(Name) /\ ToSet(missing) = lacking /\ Len(missing) <= Len(names)
  <2>1. lacking \subseteq ToSet(names) /\ missing = Keep(names, lacking)
    OBVIOUS
  <2> HIDE DEF lacking, missing
  <2>2. Keep(names, lacking) \in Seq(Name)
    BY KeepIs
  <2>3. ToSet(Keep(names, lacking)) = ToSet(names) \intersect lacking
    BY KeepIs
  <2>4. Len(Keep(names, lacking)) <= Len(names)
    BY KeepIs
  <2> QED BY <2>1, <2>2, <2>3, <2>4
<1>10. Len(missing) \in Nat /\ DOMAIN missing = 1..Len(missing)
       /\ \A i \in DOMAIN missing : missing[i] \in Name
  <2> HIDE DEF missing
  <2> QED BY <1>9
<1> HIDE DEF missing, Named
<1>11. ASSUME NEW i \in DOMAIN missing
       PROVE  /\ IdOf(i) \in Nat \ {root}
              /\ i \notin paired => IdOf(i) = n + i /\ n + i \in (n + 1)..(m - 1)
  <2>1. n + i \in (n + 1)..(m - 1)
    BY <1>2, <1>9, <1>10
  <2>2. CASE i \in paired
    <3>1. i \in DOMAIN spare
      BY <1>7, <1>10, <2>2
    <3> QED BY <1>8, <2>2, <3>1
  <2>3. CASE i \notin paired
    BY <1>2, <2>1, <2>3
  <2> QED BY <2>2, <2>3
<1> HIDE DEF IdOf, paired
<1>12. ASSUME NEW name \in ToSet(names) PROVE Instance(name) \in Nat \ {root}
  <2>1. CASE Named(name) # <<>>
    BY <1>6, <2>1
  <2>2. CASE Named(name) = <<>>
    <3> DEFINE at == IndexOf(missing, name) + 1
    <3>1. Contains(missing, name)
      <4>1. name \in ToSet(missing)
        BY <1>9, <2>2
      <4> QED BY <1>9, <4>1, ContainsIs
    <3>2. at \in DOMAIN missing
      BY <1>9, <1>10, <3>1, IndexOfIs
    <3>3. Instance(name) = IdOf(at)
      BY <2>2
    <3> HIDE DEF at
    <3> QED BY <1>11, <3>2, <3>3
  <2> QED BY <2>1, <2>2
<1> HIDE DEF Instance, lacking
<1>13. listed \in Seq(Nat) /\ root \notin ToSet(listed)
  <2>1. \A k \in DOMAIN names : Instance(names[k]) \in Nat \ {root}
    BY <1>12 DEF ToSet
  <2>2. listed \in [1..Len(names) -> Nat]
    BY <1>2, <2>1
  <2>3. \A i \in DOMAIN listed : listed[i] # root
    BY <2>1
  <2>4. listed \in Seq(Nat)
    <3> HIDE DEF listed
    <3> QED BY <1>2, <2>2
  <2> QED BY <2>3, <2>4 DEF ToSet
<1> HIDE DEF listed
<1>14. root \notin gone
  <2>1. Lists(here.nodes)
    <3>1. Lists(nodes)
      BY SoundLists
    <3> QED BY <3>1
  <2>2. \A p \in DOMAIN here.nodes : root \notin ToSet(here.nodes[p].children)
    BY <1>2 DEF NodeOK
  <2>3. ASSUME NEW c \in outdated PROVE root \notin Subtree(here, c)
    <3>1. c \in Nat \ {root}
      <4>1. ToSet(kids) \subseteq Nat
        BY <1>4 DEF ToSet
      <4> QED BY <1>4, <1>8, <2>3, <4>1
    <3> HIDE DEF here
    <3> QED BY <2>1, <2>2, <3>1, RootNotUnder
  <2> QED BY <2>3
<1> HIDE DEF gone
<1>15. ASSUME NEW id \in DOMAIN fresh
       PROVE  /\ NodeOK(fresh[id], root, m)
              /\ fresh[id].moduleId = "slot-instance"
              /\ id \in 1..(m - 1) /\ id # root
  <2>1. PICK i \in made : id = IdOf(i)
    OBVIOUS
  <2>2. i \in DOMAIN missing /\ i \notin paired
    OBVIOUS
  <2>3. id = n + i /\ n + i \in (n + 1)..(m - 1) /\ i \in Nat
    BY <1>10, <1>11, <2>1, <2>2
  <2>4. id - n = i
    BY <2>3
  <2> DEFINE name == missing[i]
  <2>5. fresh[id] = NewSlot(name, ref) /\ name \in Name
    BY <1>10, <2>2, <2>4
  <2> HIDE DEF name
  <2>6. "slot-instance" \in Module \union {"body", "ref", "slot-instance"} /\ m # 0
    BY <1>2
  <2>7. NodeOK(NewNode("slot-instance"), root, m) /\ NewNode("slot-instance").moduleId = "slot-instance"
    BY <1>2, <2>6, NewNodeOK
  <2>8. NodeOK(NewSlot(name, ref), root, m) /\ NewSlot(name, ref).moduleId = "slot-instance"
    BY <2>5, <2>7 DEF NewSlot, NodeOK, Node, Name
  <2>9. id \in 1..(m - 1) /\ id # root
    BY <1>2, <2>3
  <2> QED BY <2>5, <2>8, <2>9
<1> HIDE DEF fresh
<1>16. ASSUME NEW id \in DOMAIN nodes
       PROVE  /\ NodeOK(nodes[id], root, m)
              /\ NodeOK([nodes[id] EXCEPT !.children = listed], root, m)
              /\ [nodes[id] EXCEPT !.children = listed].moduleId = nodes[id].moduleId
              /\ [nodes[id] EXCEPT !.children = listed].componentId = nodes[id].componentId
  <2>1. Node(b) \subseteq Node(m)
    BY <1>2, NodeLater
  <2>2. NodeOK(nodes[id], root, m)
    BY <1>2, <2>1 DEF NodeOK
  <2> QED BY <1>2, <1>13, <2>2, WithKids
<1>17. ASSUME NEW id \in DOMAIN nodes, Inst(id)
       PROVE  LET named == [nodes[id] EXCEPT !.parentId = ref, !.slotName = nameOf(id)]
              IN  /\ NodeOK(named, root, m)
                  /\ named.moduleId = nodes[id].moduleId
                  /\ named.componentId = nodes[id].componentId
  <2>1. (CHOOSE k \in DOMAIN names : Instance(names[k]) = id) \in DOMAIN names
    BY <1>17
  <2>2. nameOf(id) \in Name
    BY <1>2, <2>1
  <2> DEFINE name == nameOf(id)
  <2>3. name \in Name
    BY <2>2
  <2> HIDE DEF name, nameOf
  <2>4. NodeOK(nodes[id], root, m)
    BY <1>16
  <2> DEFINE named == [nodes[id] EXCEPT !.parentId = ref, !.slotName = name]
  <2>5. /\ NodeOK(named, root, m)
        /\ named.moduleId = nodes[id].moduleId
        /\ named.componentId = nodes[id].componentId
    BY <2>3, <2>4 DEF NodeOK, Node, Name
  <2> QED BY <2>5 DEF name
<1> HIDE DEF Inst, nameOf
<1>18. DOMAIN new = (DOMAIN nodes \ gone) \union DOMAIN fresh /\ new = [id \in DOMAIN new |-> new[id]]
  OBVIOUS
<1>19. \A id \in DOMAIN fresh : new[id] = fresh[id]
  OBVIOUS
<1>20. \A id \in DOMAIN new \ DOMAIN fresh :
          /\ id \in DOMAIN nodes
          /\ \/ new[id] = nodes[id]
             \/ new[id] = [nodes[id] EXCEPT !.children = listed]
             \/ Inst(id) /\ new[id] = [nodes[id] EXCEPT !.parentId = ref, !.slotName = nameOf(id)]
  OBVIOUS
<1> HIDE DEF new
<1>21. ASSUME NEW id \in DOMAIN new \ DOMAIN fresh
       PROVE  /\ id \in DOMAIN nodes
              /\ NodeOK(new[id], root, m)
              /\ new[id].moduleId = nodes[id].moduleId
              /\ new[id].componentId = nodes[id].componentId
  BY <1>16, <1>17, <1>20
<1>22. Sound(new, root, m)
  <2>1. DOMAIN new \subseteq 1..(m - 1)
    BY <1>2, <1>15, <1>18
  <2>2. \A id \in DOMAIN new : NodeOK(new[id], root, m)
    BY <1>15, <1>19, <1>21
  <2>3. root \in DOMAIN new /\ root \notin DOMAIN fresh
    BY <1>2, <1>14, <1>15, <1>18
  <2>4. new[root].moduleId = "body"
    BY <1>2, <1>21, <2>3
  <2> QED BY <1>18, <2>1, <2>2, <2>3, <2>4 DEF Sound
<1>23. Narrows(new, nodes)
  BY <1>15, <1>19, <1>21 DEF Narrows
<1> QED BY <1>1, <1>22, <1>23 DEF Synced

-----------------------------------------------------------------------------
\* The slots of every ref of the site.

\* The documents, spelt out.
LEMMA DocumentsAre ==
  ASSUME NEW n \in Nat, NEW trees, IsDocuments(trees, n)
  PROVE  /\ trees = [d \in DOMAIN trees |-> trees[d]]
         /\ Page \subseteq DOMAIN trees
         /\ DOMAIN trees \subseteq 1..(n - 1)
         /\ \A d \in DOMAIN trees : IsDocument(trees[d], n)
  BY DEF IsDocuments

\* The documents stay documents as ids are handed out.
LEMMA DocumentsLater ==
  ASSUME NEW n \in Nat, NEW m \in Nat, n <= m, NEW trees, IsDocuments(trees, n)
  PROVE  IsDocuments(trees, m)
<1>1. \A d \in DOMAIN trees : IsDocument(trees[d], m)
  BY DocumentLater DEF IsDocuments
<1> QED BY <1>1 DEF IsDocuments

\* The documents new are those of old, each with the refs and outlets it had or
\* fewer of them.
Alike(new, old, n) ==
    /\ IsDocuments(new, n)
    /\ DOMAIN new = DOMAIN old
    /\ \A d \in DOMAIN old : /\ new[d].rootNodeId = old[d].rootNodeId
                             /\ Narrows(new[d].nodes, old[d].nodes)

\* A site is alike itself.
LEMMA AlikeSelf ==
  ASSUME NEW trees, NEW n, IsDocuments(trees, n) PROVE Alike(trees, trees, n)
  BY DEF Alike, Narrows

\* Two changes of a site that bring no use and no outlet.
LEMMA AlikeOn ==
  ASSUME NEW a, NEW b, NEW c, NEW n, NEW m, Alike(b, a, n), Alike(c, b, m)
  PROVE  Alike(c, a, m)
<1>1. \A d \in DOMAIN a : Narrows(c[d].nodes, a[d].nodes)
  BY NarrowsOn DEF Alike
<1> QED BY <1>1 DEF Alike

\* The names a document's outlets declare.
LEMMA OutletNamesTyped ==
  ASSUME NEW n \in Nat, NEW tree, IsDocument(tree, n)
  PROVE  OutletNames(tree) \in Seq(Name)
<1>1. /\ Lists(tree.nodes) /\ tree.rootNodeId \in Nat
      /\ \A id \in DOMAIN tree.nodes : tree.nodes[id] \in Node(n)
  BY DocumentLists
<1>2. \A id \in DOMAIN tree.nodes : tree.nodes[id].slotName \in Name
  BY <1>1 DEF Node, Name
<1> QED BY <1>1, <1>2, OutletNamesAre

\* What a sweep keeps of the documents site it started from.
SweptTo(now, site, n) ==
    now.next \in Nat /\ n <= now.next /\ Alike(now.docs, site, now.next)

\* One turn of syncAllVCRefSlotInstances.
LEMMA SyncRefIs ==
  ASSUME NEW n \in Nat, NEW site, IsDocuments(site, n), NEW now, SweptTo(now, site, n),
         NEW comp \in DOMAIN site, NEW d \in DOMAIN site, NEW ref \in DOMAIN site[d].nodes
  PROVE  SweptTo(SyncRef(now, site, comp, d, ref), site, n)
<1> DEFINE names == OutletNames(now.docs[comp])
           refNode == IF Has(now.docs[d], ref) THEN now.docs[d].nodes[ref]
                      ELSE site[d].nodes[ref]
           k == now.next
           tree == now.docs[d]
           root == site[d].rootNodeId
           nodes == SyncSlotInstances(tree.nodes, ref, refNode, names, k)
           new == [tree EXCEPT !.nodes = nodes]
           m == k + 1 + Len(names)
           trees == [now.docs EXCEPT ![d].nodes = nodes]
           then == SyncRef(now, site, comp, d, ref)
<1>1. k \in Nat /\ n <= k /\ Alike(now.docs, site, k)
  BY DEF SweptTo
<1>2. /\ IsDocuments(now.docs, k) /\ DOMAIN now.docs = DOMAIN site
      /\ tree.rootNodeId = root
      /\ IsDocument(tree, k) /\ IsDocument(now.docs[comp], k) /\ IsDocument(site[d], k)
      /\ now.docs = [x \in DOMAIN site |-> now.docs[x]]
  <2>1. IsDocuments(now.docs, k) /\ DOMAIN now.docs = DOMAIN site /\ tree.rootNodeId = root
    BY <1>1 DEF Alike
  <2>2. IsDocuments(site, k)
    BY <1>1, DocumentsLater
  <2> QED BY <2>1, <2>2 DEF IsDocuments
<1>3. names \in Seq(Name)
  <2> HIDE DEF k
  <2> QED BY <1>1, <1>2, OutletNamesTyped
<1>4. NodeOK(refNode, root, k)
  <2>1. Sound(tree.nodes, root, k) /\ Sound(site[d].nodes, root, k)
    <3> HIDE DEF k, tree
    <3>1. Sound(tree.nodes, tree.rootNodeId, k)
      BY <1>1, <1>2, DocumentLists
    <3>2. Sound(site[d].nodes, root, k)
      BY <1>1, <1>2, DocumentLists
    <3> QED BY <1>2, <3>1, <3>2
  <2> QED BY <2>1 DEF Sound, Has
<1>5. Sound(tree.nodes, root, k) /\ ref \in Nat /\ m \in Nat /\ k <= m
  <2> HIDE DEF k, tree
  <2>1. Sound(tree.nodes, tree.rootNodeId, k)
    BY <1>1, <1>2, DocumentLists
  <2>2. ref \in Nat
    BY <1>1, <1>2, DocumentLists
  <2> HIDE DEF names
  <2> QED BY <1>1, <1>2, <1>3, <2>1, <2>2
<1>6. then = [docs |-> trees, next |-> now.next + Len(names) + 1]
  BY DEF SyncRef
<1>7. now.next + Len(names) + 1 = m
  <2> HIDE DEF names
  <2> QED BY <1>1, <1>3
<1>8. trees = [x \in DOMAIN site |-> IF x = d THEN new ELSE now.docs[x]]
  BY <1>2
<1> HIDE DEF k, tree, names, refNode, root
<1>9. Synced(nodes, tree.nodes, root, m)
  <2> DEFINE len == Len(names)
  <2>1. m = k + 1 + Len(names) /\ k <= k + 1
    BY <1>1
  <2> HIDE DEF m
  <2> QED BY <1>1, <1>3, <1>4, <1>5, <2>1, SyncSlotInstancesIs
<1> HIDE DEF nodes, m
<1>10. Like(new, tree, m)
  BY <1>1, <1>2, <1>5, <1>9, LikeNodes DEF Synced
<1>11. new.nodes = nodes
  BY <1>1, <1>2, DocumentIs
<1> HIDE DEF new, trees
<1>12. IsDocuments(trees, m)
  <2>1. IsDocuments(now.docs, m)
    BY <1>1, <1>2, <1>5, DocumentsLater
  <2>2. IsDocument(new, m)
    BY <1>10 DEF Like, Grows
  <2> QED BY <1>2, <1>8, <2>1, <2>2 DEF IsDocuments
<1>13. Alike(trees, now.docs, m)
  <2>1. \A x \in DOMAIN site : x # d => trees[x] = now.docs[x]
    BY <1>8
  <2>2. trees[d] = new /\ DOMAIN trees = DOMAIN site
    BY <1>8
  <2>3. new.rootNodeId = tree.rootNodeId /\ Narrows(new.nodes, tree.nodes)
    BY <1>9, <1>10, <1>11 DEF Like, Grows, Synced
  <2>4. \A x \in DOMAIN site : Narrows(now.docs[x].nodes, now.docs[x].nodes)
    BY DEF Narrows
  <2> QED BY <1>2, <1>12, <2>1, <2>2, <2>3, <2>4 DEF Alike, tree
<1>14. Alike(trees, site, m)
  BY <1>1, <1>13, AlikeOn
<1>15. then.docs = trees /\ then.next = m
  BY <1>6, <1>7
<1> HIDE DEF then
<1>16. n <= m
  BY <1>1, <1>5
<1>17. SweptTo(then, site, n)
  BY <1>5, <1>14, <1>15, <1>16 DEF SweptTo
<1> QED BY <1>17 DEF then

-----------------------------------------------------------------------------
\* SyncRefsIn is a loop over the refs of one document.
LEMMA RefTurns ==
  ASSUME NEW now, NEW site, NEW comp, NEW d, NEW refs, Len(refs) \in Nat,
         refs = Ascending(Refs(site[d], comp))
  PROVE  \E f : /\ f[0] = now
                /\ \A k \in 1..Len(refs) : f[k] = SyncRef(f[k - 1], site, comp, d, refs[k])
                /\ SyncRefsIn(now, site, comp, d) = f[Len(refs)]
<1> DEFINE Turn(k, v) == SyncRef(v, site, comp, d, refs[k])
           Made(n, g) == g = [k \in 0..n |-> IF k = 0 THEN now ELSE Turn(k, g[k - 1])]
<1>1. \E g : Made(0, g)
  <2>1. Made(0, [k \in 0..0 |-> now])
    OBVIOUS
  <2> HIDE DEF Made
  <2> QED BY <2>1
<1>2. ASSUME NEW n \in 0..(Len(refs) - 1), \E g : Made(n, g)
      PROVE  \E g : Made(n + 1, g)
  <2> HIDE DEF Turn
  <2>1. PICK g : Made(n, g)
    BY <1>2
  <2> DEFINE h == [k \in 0..(n + 1) |-> IF k = n + 1 THEN Turn(n + 1, g[n]) ELSE g[k]]
  <2>2. ASSUME NEW k \in 0..(n + 1)
        PROVE  h[k] = IF k = 0 THEN now ELSE Turn(k, h[k - 1])
    BY <2>1
  <2>3. Made(n + 1, h)
    BY <2>2
  <2> HIDE DEF Made
  <2> QED BY <2>3
<1>3. PICK g : Made(Len(refs), g)
  <2> HIDE DEF Made
  <2> DEFINE S == {n \in 0..Len(refs) : \E g : Made(n, g)}
  <2>1. 0 \in S /\ \A n \in 0..(Len(refs) - 1) : n \in S => n + 1 \in S
    BY <1>1, <1>2
  <2>2. Len(refs) \in 0..Len(refs)
    OBVIOUS
  <2> HIDE DEF S
  <2>3. Len(refs) \in S
    BY <2>1, <2>2, UpTo
  <2> QED BY <2>3 DEF S
<1>4. Made(Len(refs), CHOOSE f : Made(Len(refs), f))
  <2> HIDE DEF Made
  <2> QED BY <1>3
<1> DEFINE f == CHOOSE f : Made(Len(refs), f)
<1>5. SyncRefsIn(now, site, comp, d) = f[Len(refs)]
  BY DEF SyncRefsIn
<1>6. f[0] = now /\ \A k \in 1..Len(refs) : f[k] = Turn(k, f[k - 1])
  <2> HIDE DEF f, Turn
  <2>1. Made(Len(refs), f)
    BY <1>4 DEF f
  <2> QED BY <2>1
<1> HIDE DEF f
<1> QED BY <1>5, <1>6

\* The refs of one document, synchronised.
LEMMA SyncRefsInIs ==
  ASSUME NEW n \in Nat, NEW site, IsDocuments(site, n), NEW now, SweptTo(now, site, n),
         NEW comp \in DOMAIN site, NEW d \in DOMAIN site
  PROVE  SweptTo(SyncRefsIn(now, site, comp, d), site, n)
<1> DEFINE refs == Ascending(Refs(site[d], comp))
<1>1. refs \in Seq(DOMAIN site[d].nodes)
  <2> DEFINE set == Refs(site[d], comp)
             b == n - 1
  <2>1. set \subseteq DOMAIN site[d].nodes
    BY DEF Refs
  <2>2. IsDocument(site[d], n)
    BY DocumentsAre
  <2>3. DOMAIN site[d].nodes \subseteq 1..b
    BY <2>2, DocumentLists DEF Sound
  <2>4. b \in Int /\ set \subseteq 1..b
    BY <2>1, <2>3
  <2> HIDE DEF set, b
  <2>5. Ascending(set) \in Seq(set) /\ ToSet(Ascending(set)) = set
    BY <2>4, AscendingIs
  <2> QED BY <2>1, <2>5, SeqOver DEF set
<1>0. Len(refs) \in Nat /\ DOMAIN refs = 1..Len(refs)
  <2> HIDE DEF refs
  <2> QED BY <1>1
<1>2. PICK f : /\ f[0] = now
               /\ \A k \in 1..Len(refs) : f[k] = SyncRef(f[k - 1], site, comp, d, refs[k])
               /\ SyncRefsIn(now, site, comp, d) = f[Len(refs)]
  BY <1>0, RefTurns
<1>3. ASSUME NEW k \in 0..(Len(refs) - 1), SweptTo(f[k], site, n)
      PROVE  SweptTo(f[k + 1], site, n)
  <2>1. k + 1 \in 1..Len(refs) /\ (k + 1) - 1 = k
    BY <1>0
  <2>2. f[k + 1] = SyncRef(f[k], site, comp, d, refs[k + 1])
    BY <1>2, <2>1
  <2> DEFINE ref == refs[k + 1]
  <2>3. ref \in DOMAIN site[d].nodes
    <3> HIDE DEF refs
    <3> QED BY <1>0, <1>1, <2>1
  <2> HIDE DEF ref, refs
  <2>4. SweptTo(SyncRef(f[k], site, comp, d, ref), site, n)
    BY <1>3, <2>3, SyncRefIs
  <2> QED BY <2>2, <2>4 DEF ref
<1> HIDE DEF refs
<1>4. SweptTo(f[Len(refs)], site, n)
  <2> DEFINE S == {k \in 0..Len(refs) : SweptTo(f[k], site, n)}
  <2>1. 0 \in S /\ \A k \in 0..(Len(refs) - 1) : k \in S => k + 1 \in S
    BY <1>0, <1>2, <1>3
  <2>2. Len(refs) \in 0..Len(refs)
    BY <1>0
  <2> HIDE DEF S
  <2>3. Len(refs) \in S
    BY <1>0, <2>1, <2>2, UpTo
  <2> QED BY <2>3 DEF S
<1> QED BY <1>2, <1>4

\* SyncAllRefs is a loop over the documents.
LEMMA SiteTurns ==
  ASSUME NEW site, NEW comp, NEW from, NEW ids, Len(ids) \in Nat,
         ids = Ascending(DOMAIN site)
  PROVE  \E f : /\ f[0] = [docs |-> site, next |-> from]
                /\ \A k \in 1..Len(ids) : f[k] = SyncRefsIn(f[k - 1], site, comp, ids[k])
                /\ SyncAllRefs(site, comp, from) = f[Len(ids)]
<1> DEFINE Turn(k, v) == SyncRefsIn(v, site, comp, ids[k])
           Made(n, g) == g = [k \in 0..n |-> IF k = 0 THEN [docs |-> site, next |-> from] ELSE Turn(k, g[k - 1])]
<1>1. \E g : Made(0, g)
  <2>1. Made(0, [k \in 0..0 |-> [docs |-> site, next |-> from]])
    OBVIOUS
  <2> HIDE DEF Made
  <2> QED BY <2>1
<1>2. ASSUME NEW n \in 0..(Len(ids) - 1), \E g : Made(n, g)
      PROVE  \E g : Made(n + 1, g)
  <2> HIDE DEF Turn
  <2>1. PICK g : Made(n, g)
    BY <1>2
  <2> DEFINE h == [k \in 0..(n + 1) |-> IF k = n + 1 THEN Turn(n + 1, g[n]) ELSE g[k]]
  <2>2. ASSUME NEW k \in 0..(n + 1)
        PROVE  h[k] = IF k = 0 THEN [docs |-> site, next |-> from] ELSE Turn(k, h[k - 1])
    BY <2>1
  <2>3. Made(n + 1, h)
    BY <2>2
  <2> HIDE DEF Made
  <2> QED BY <2>3
<1>3. PICK g : Made(Len(ids), g)
  <2> HIDE DEF Made
  <2> DEFINE S == {n \in 0..Len(ids) : \E g : Made(n, g)}
  <2>1. 0 \in S /\ \A n \in 0..(Len(ids) - 1) : n \in S => n + 1 \in S
    BY <1>1, <1>2
  <2>2. Len(ids) \in 0..Len(ids)
    OBVIOUS
  <2> HIDE DEF S
  <2>3. Len(ids) \in S
    BY <2>1, <2>2, UpTo
  <2> QED BY <2>3 DEF S
<1>4. Made(Len(ids), CHOOSE f : Made(Len(ids), f))
  <2> HIDE DEF Made
  <2> QED BY <1>3
<1> DEFINE f == CHOOSE f : Made(Len(ids), f)
<1>5. SyncAllRefs(site, comp, from) = f[Len(ids)]
  BY DEF SyncAllRefs
<1>6. f[0] = [docs |-> site, next |-> from] /\ \A k \in 1..Len(ids) : f[k] = Turn(k, f[k - 1])
  <2> HIDE DEF f, Turn
  <2>1. Made(Len(ids), f)
    BY <1>4 DEF f
  <2> QED BY <2>1
<1> HIDE DEF f
<1> QED BY <1>5, <1>6

\* syncAllVCRefSlotInstances
LEMMA SyncAllRefsIs ==
  ASSUME NEW n \in Nat, NEW site, IsDocuments(site, n), NEW comp \in DOMAIN site
  PROVE  SweptTo(SyncAllRefs(site, comp, n), site, n)
<1> DEFINE ids == Ascending(DOMAIN site)
<1>1. ids \in Seq(DOMAIN site)
  <2> DEFINE set == DOMAIN site
             b == n - 1
  <2>1. b \in Int /\ set \subseteq 1..b
    BY DocumentsAre
  <2> HIDE DEF set, b
  <2>2. Ascending(set) \in Seq(set)
    BY <2>1, AscendingIs
  <2> QED BY <2>2 DEF set
<1>0. Len(ids) \in Nat /\ DOMAIN ids = 1..Len(ids)
  <2> HIDE DEF ids
  <2> QED BY <1>1
<1>9. ids = Ascending(DOMAIN site)
  OBVIOUS
<1> HIDE DEF ids
<1>2. PICK f : /\ f[0] = [docs |-> site, next |-> n]
               /\ \A k \in 1..Len(ids) : f[k] = SyncRefsIn(f[k - 1], site, comp, ids[k])
               /\ SyncAllRefs(site, comp, n) = f[Len(ids)]
  BY <1>0, <1>9, SiteTurns
<1>3. SweptTo(f[0], site, n)
  <2>1. Alike(site, site, n)
    BY AlikeSelf
  <2> QED BY <1>2, <2>1 DEF SweptTo
<1>4. ASSUME NEW k \in 0..(Len(ids) - 1), SweptTo(f[k], site, n)
      PROVE  SweptTo(f[k + 1], site, n)
  <2>1. k + 1 \in 1..Len(ids) /\ (k + 1) - 1 = k
    BY <1>0
  <2>2. f[k + 1] = SyncRefsIn(f[k], site, comp, ids[k + 1])
    BY <1>2, <2>1
  <2> DEFINE d == ids[k + 1]
  <2>3. d \in DOMAIN site
    BY <1>0, <1>1, <2>1
  <2> HIDE DEF d
  <2>4. SweptTo(SyncRefsIn(f[k], site, comp, d), site, n)
    BY <1>4, <2>3, SyncRefsInIs
  <2> QED BY <2>2, <2>4 DEF d
<1>5. SweptTo(f[Len(ids)], site, n)
  <2> DEFINE S == {k \in 0..Len(ids) : SweptTo(f[k], site, n)}
  <2>1. 0 \in S /\ \A k \in 0..(Len(ids) - 1) : k \in S => k + 1 \in S
    BY <1>0, <1>3, <1>4
  <2>2. Len(ids) \in 0..Len(ids)
    BY <1>0
  <2> HIDE DEF S
  <2>3. Len(ids) \in S
    BY <1>0, <2>1, <2>2, UpTo
  <2> QED BY <2>3 DEF S
<1> QED BY <1>2, <1>5

-----------------------------------------------------------------------------
\* Removing the refs of a component; a subtree made a component.

\* cascadeRemoveVCRefs: no use of the component is left.
LEMMA CascadeIs ==
  ASSUME NEW n \in Nat, NEW tree, IsDocument(tree, n), NEW comp
  PROVE  /\ Like(CascadeRemoveRefs(tree, comp), tree, n)
         /\ Narrows(CascadeRemoveRefs(tree, comp).nodes, tree.nodes)
         /\ comp \notin Used(CascadeRemoveRefs(tree, comp).nodes)
<1> DEFINE set == Refs(tree, comp)
           ids == Ascending(set)
           new == CascadeRemoveRefs(tree, comp)
           b == n - 1
<1>1. /\ Sound(tree.nodes, tree.rootNodeId, n)
      /\ set \subseteq DOMAIN tree.nodes
      /\ DOMAIN tree.nodes \subseteq 1..b
      /\ tree.rootNodeId \notin set
  BY DocumentLists DEF Sound, Refs, IsRefTo
<1>2. new = DeleteSubtrees(tree, ids)
  BY DEF CascadeRemoveRefs
<1>3. b \in Int /\ set \subseteq 1..b /\ set \subseteq Nat
  BY <1>1
<1>4. ids \in Seq(set) /\ ToSet(ids) = set
  <2> HIDE DEF set, b
  <2> QED BY <1>3, AscendingIs
<1> HIDE DEF ids, set, b, new
<1>5. ids \in Seq(Nat)
  BY <1>3, <1>4, SeqOver
<1>6. Removed(new, tree, n, set)
  BY <1>1, <1>2, <1>4, <1>5, DeleteSubtreesIs
<1>7. comp \notin Used(new.nodes)
  <2>1. SUFFICES ASSUME NEW id \in DOMAIN new.nodes, new.nodes[id].moduleId = "ref",
                        new.nodes[id].componentId = comp
                 PROVE  FALSE
    BY DEF Used
  <2>2. id \in set
    BY <1>6, <2>1 DEF Removed, Narrows, set, Refs, IsRefTo
  <2> QED BY <1>6, <2>2 DEF Removed
<1> QED BY <1>6, <1>7 DEF Removed, new

-----------------------------------------------------------------------------
\* convertNodeToComponent: the new component holds the copy of the subtree.
Extracted(new, tree, id, from, m) ==
    LET map == FreshIds(Subtree(tree, id), from + 1)
    IN  /\ m \in Nat /\ from < m
        /\ IsDocument(new, m)
        /\ Used(new.nodes) \subseteq Used(tree.nodes)
        /\ Content(new.nodes) \subseteq {map[i] : i \in Content(tree.nodes)}

\* convertNodeToComponent takes a subtree out into a component of its own.
LEMMA ExtractedIs ==
  ASSUME NEW n \in Nat, NEW from \in Nat, n <= from, NEW tree, IsDocument(tree, n),
         NEW id \in DOMAIN tree.nodes,
         NEW m, m = from + 1 + Cardinality(Subtree(tree, id))
  PROVE  Extracted(ExtractedComponent(tree, id, from), tree, id, from, m)
<1> DEFINE ids == Subtree(tree, id)
           map == FreshIds(ids, from + 1)
           nodes == tree.nodes
           copies == Copies(nodes, ids, map)
           body == [NewNode("body") EXCEPT !.children = <<map[id]>>]
           both == With(copies, from, body)
           indexed == ReindexNodeParents(both)
           new == ExtractedComponent(tree, id, from)
<1>1. /\ Lists(nodes) /\ id \in Nat /\ id \in 1..(n - 1)
      /\ DOMAIN nodes \subseteq 1..(n - 1)
      /\ \A i \in DOMAIN nodes : nodes[i] \in Node(n)
  BY DocumentLists DEF Sound
<1>2. ids \subseteq DOMAIN nodes /\ id \in ids
  BY <1>1, SubtreeIs DEF Has
<1>3. IsFiniteSet(ids) /\ ids \subseteq Nat
  <2>1. IsFiniteSet(DOMAIN nodes) /\ DOMAIN nodes \subseteq Nat
    BY <1>1 DEF Lists
  <2> QED BY <1>2, <2>1, FS_Subset
<1>4. m \in Nat /\ from < m /\ from + 1 \in Nat /\ n <= from + 1 /\ m = (from + 1) + Cardinality(ids)
  <2>1. Cardinality(ids) \in Nat
    BY <1>3, FS_CardinalityType
  <2> HIDE DEF ids
  <2>2. m = from + 1 + Cardinality(ids)
    BY DEF ids
  <2> QED BY <2>1, <2>2
<1>5. Fresh(copies, from + 1, m) /\ Cloned(copies, nodes, ids, map)
  <2> DEFINE f == from + 1
  <2>1. f \in Nat /\ n <= f /\ m = f + Cardinality(ids)
    BY <1>4
  <2> HIDE DEF f, ids
  <2>2. LET a == FreshIds(ids, f)
            c == Copies(nodes, ids, a)
        IN  Fresh(c, f, m) /\ Cloned(c, nodes, ids, a)
    BY <1>1, <1>2, <1>4, <2>1, CopiesAre
  <2> QED BY <2>2 DEF f, ids
<1>6. /\ Used(copies) \subseteq Used(nodes)
      /\ Content(copies) \subseteq {map[i] : i \in ids \intersect Content(nodes)}
  <2> HIDE DEF copies, map, ids, nodes
  <2> QED BY <1>2, <1>5, CopiesUse
<1>7. new = [rootNodeId |-> from, nodes |-> indexed]
  BY DEF ExtractedComponent
<1> HIDE DEF copies, map, ids, nodes
<1>8. /\ DOMAIN copies \subseteq (from + 1)..(m - 1)
      /\ copies = [i \in DOMAIN copies |-> copies[i]]
      /\ \A i \in DOMAIN copies : copies[i] \in Node(m) /\ ToSet(copies[i].children) \subseteq DOMAIN copies
  BY <1>5 DEF Fresh
<1>9. NodeOK(body, from, m) /\ body.moduleId = "body"
  <2>1. map[id] \in DOMAIN copies
    BY <1>2, <1>5 DEF Cloned
  <2> DEFINE x == map[id]
             one == <<x>>
  <2>2. x \in Nat /\ x # from
    BY <1>8, <2>1
  <2> HIDE DEF x
  <2>3. one \in Seq(Nat) /\ ToSet(one) = {x}
    BY <2>2, OneId
  <2>4. m # 0 /\ "body" \in Module \union {"body", "ref", "slot-instance"}
    BY <1>4
  <2>5. NodeOK(NewNode("body"), from, m) /\ NewNode("body").moduleId = "body"
    BY <1>4, <2>4, NewNodeOK
  <2>6. from \notin ToSet(one)
    BY <2>2, <2>3
  <2> HIDE DEF one
  <2> DEFINE bare == NewNode("body")
             full == [bare EXCEPT !.children = one]
  <2>7. NodeOK(bare, from, m) /\ bare.moduleId = "body"
    BY <2>5
  <2> HIDE DEF bare
  <2>9. m \in Nat
    BY <1>4
  <2>10. NodeOK(full, from, m) /\ full.moduleId = bare.moduleId
    BY <2>3, <2>6, <2>7, <2>9, WithKids
  <2> QED BY <2>7, <2>10 DEF full, bare, one, x
<1> HIDE DEF body
<1>10. /\ both = [k \in DOMAIN copies \union {from} |-> IF k = from THEN body ELSE copies[k]]
       /\ from \notin DOMAIN copies
  BY <1>8 DEF With
<1> HIDE DEF both
<1>11. /\ DOMAIN both = DOMAIN copies \union {from} /\ both[from] = body
       /\ \A i \in DOMAIN copies : both[i] = copies[i]
       /\ both = [k \in DOMAIN both |-> both[k]]
  BY <1>10
<1>12. Sound(both, from, m)
  <2>1. \A i \in DOMAIN both : NodeOK(both[i], from, m)
    BY <1>8, <1>9, <1>10, <1>11 DEF NodeOK
  <2>2. from \in 1..(m - 1)
    BY <1>1, <1>4
  <2>3. DOMAIN both \subseteq 1..(m - 1)
    BY <1>8, <1>11, <2>2
  <2> QED BY <1>9, <1>11, <2>1, <2>3 DEF Sound
<1>13. /\ Used(both) \subseteq Used(copies)
       /\ Content(both) \subseteq Content(copies)
  BY <1>9, <1>11 DEF Used, Content
<1>14. Sound(indexed, from, m) /\ Used(indexed) \subseteq Used(both) /\ Content(indexed) \subseteq Content(both)
  <2>1. Edited(indexed, both, from, m)
    BY <1>4, <1>12, ReindexIs
  <2> QED BY <2>1, NarrowsKeeps DEF Edited
<1> HIDE DEF indexed
<1>15. IsDocument(new, m) /\ new.nodes = indexed
  <2>1. new.nodes = indexed /\ new.rootNodeId = from
    BY <1>7
  <2>2. new = [rootNodeId |-> new.rootNodeId, nodes |-> new.nodes]
    BY <1>7
  <2> HIDE DEF new
  <2> QED BY <1>4, <1>14, <2>1, <2>2, DocumentIs
<1> HIDE DEF new
<1>16. Content(new.nodes) \subseteq {map[i] : i \in Content(nodes)}
  BY <1>6, <1>13, <1>14, <1>15
<1>17. Used(new.nodes) \subseteq Used(nodes)
  BY <1>6, <1>13, <1>14, <1>15
<1> QED BY <1>4, <1>15, <1>16, <1>17 DEF Extracted, new, map, ids, nodes

-----------------------------------------------------------------------------
\* The parent of the place beside a node lists the node.
LEMMA SiblingListed ==
  ASSUME NEW n \in Nat, NEW tree, IsDocument(tree, n), NEW target,
         SiblingAfter(tree, target).parentId # Null
  PROVE  /\ SiblingAfter(tree, target).parentId \in DOMAIN tree.nodes
         /\ Contains(tree.nodes[SiblingAfter(tree, target).parentId].children, target)
<1> DEFINE listing == {p \in DOMAIN tree.nodes : Contains(tree.nodes[p].children, target)}
           p == CHOOSE p \in listing : \A q \in listing : p <= q
<1>1. listing # {}
  BY DEF SiblingAfter, Nowhere
<1>2. p \in listing
  <2>1. listing \subseteq Nat
    BY DocumentLists
  <2> HIDE DEF listing
  <2>2. \E x \in listing : \A y \in listing : x <= y
    BY <1>1, <2>1, Least
  <2> QED BY <2>2
<1>3. SiblingAfter(tree, target).parentId = p
  BY <1>1 DEF SiblingAfter
<1> HIDE DEF p
<1> QED BY <1>2, <1>3

\* convertNodeToComponent: a ref takes the node's place.
LEMMA ReplacedIs ==
  ASSUME NEW n \in Nat, NEW ref \in Nat, n <= ref, NEW m \in Nat, ref < m,
         NEW tree, IsDocument(tree, n), NEW id \in DOMAIN tree.nodes, id # tree.rootNodeId,
         NEW comp \in (0..(m - 1)) \ Page, SiblingAfter(tree, id).parentId # Null
  PROVE  Grows(ReplacedByRef(tree, id, comp, ref), tree, m, {comp}, {})
<1> DEFINE root == tree.rootNodeId
           nodes == tree.nodes
           parent == SiblingAfter(tree, id).parentId
           node == [NewNode("ref") EXCEPT !.componentId = comp]
           kids == nodes[parent].children
           after == Replace(kids, id, ref)
           swapped == [nodes EXCEPT ![parent].children = after]
           left == Restrict(swapped, DOMAIN swapped \ Subtree(tree, id))
           new == With(left, ref, node)
<1>1. /\ Sound(nodes, root, n) /\ id \in Nat /\ root \in DOMAIN nodes /\ root \in Nat
      /\ DOMAIN nodes \subseteq 1..(n - 1)
  BY DocumentLists DEF Sound
<1>2. parent \in DOMAIN nodes
  BY SiblingListed
<1>3. kids \in Seq(Nat) /\ root \notin ToSet(kids)
  BY <1>2, DocumentLists
<1>4. ref # root
  BY <1>1
<1> HIDE DEF parent, kids
<1>5. after \in Seq(Nat) /\ root \notin ToSet(after)
  <2>1. after \in Seq(Nat)
    BY <1>3, ReplaceIs
  <2>2. ToSet(after) \subseteq ToSet(kids) \union {ref}
    BY <1>3, ReplaceIs
  <2> QED BY <1>3, <1>4, <2>1, <2>2
<1> HIDE DEF after
<1>6. Sound(swapped, root, n) /\ Narrows(swapped, nodes) /\ DOMAIN swapped = DOMAIN nodes
  <2>1. Edited(swapped, nodes, root, n)
    BY <1>1, <1>2, <1>5, KidsSet
  <2> QED BY <2>1 DEF Edited
<1>7. root \notin Subtree(tree, id)
  BY <1>1, RootStays
<1> HIDE DEF swapped
<1>8. Sound(left, root, n) /\ Narrows(left, swapped)
  <2> DEFINE set == DOMAIN swapped \ Subtree(tree, id)
  <2>1. set \subseteq DOMAIN swapped /\ root \in set
    BY <1>1, <1>6, <1>7
  <2> HIDE DEF set
  <2>2. Sound(Restrict(swapped, set), root, n) /\ Narrows(Restrict(swapped, set), swapped)
    BY <1>6, <2>1, KeptNodes
  <2> QED BY <2>2 DEF set
<1> HIDE DEF left
<1>9. Sound(left, root, m) /\ ref \notin DOMAIN left /\ ref \in 1..(m - 1)
  <2>1. n <= m
    OBVIOUS
  <2>2. Sound(left, root, m)
    BY <1>8, <2>1, SoundLater
  <2>3. DOMAIN left \subseteq 1..(n - 1)
    BY <1>8 DEF Sound
  <2>4. 1 <= n
    BY <1>1
  <2> QED BY <2>2, <2>3, <2>4
<1>10. NodeOK(node, root, m) /\ node.moduleId = "ref" /\ node.componentId = comp
  <2>1. m # 0 /\ "ref" \in Module \union {"body", "ref", "slot-instance"}
    OBVIOUS
  <2>2. NodeOK(NewNode("ref"), root, m)
    BY <2>1, NewNodeOK
  <2> QED BY <2>2 DEF NodeOK, Node, NewNode
<1> HIDE DEF node
<1>11. Sound(new, root, m)
  BY <1>4, <1>9, <1>10, Added
<1>12. new = [k \in DOMAIN left \union {ref} |-> IF k = ref THEN node ELSE left[k]]
  BY DEF With
<1> HIDE DEF new
<1>13. Used(new) \subseteq Used(left) \union {comp} /\ Content(new) \subseteq Content(left)
  BY <1>10, <1>12 DEF Used, Content
<1>14. Used(left) \subseteq Used(nodes) /\ Content(left) \subseteq Content(nodes)
  <2>1. Narrows(left, nodes)
    BY <1>6, <1>8, NarrowsOn
  <2> QED BY <2>1, NarrowsKeeps
<1>15. Grows([tree EXCEPT !.nodes = new], tree, m, {comp}, {})
  <2>1. Used(new) \subseteq Used(tree.nodes) \union {comp} /\ Content(new) \subseteq Content(tree.nodes) \union {}
    BY <1>13, <1>14
  <2> HIDE DEF nodes
  <2> QED BY <1>11, <2>1, GrowsNodes
<1>16. ReplacedByRef(tree, id, comp, ref) = [tree EXCEPT !.nodes = new]
  <2>1. [nodes EXCEPT ![parent].children = Replace(nodes[parent].children, id, ref)] = swapped
    BY DEF swapped, after, kids
  <2> QED BY DEF ReplacedByRef, new, left, swapped, after, kids, parent, node
<1> QED BY <1>15, <1>16

-----------------------------------------------------------------------------
\* The nodes a component is instantiated with.

\* The subtree of a node of a subtree is within it.
LEMMA SubtreeWithin ==
  ASSUME NEW tree, Lists(tree.nodes), NEW root \in Nat, NEW c \in Nat,
         Has(tree, c) => c \in Subtree(tree, root)
  PROVE  Subtree(tree, c) \subseteq Subtree(tree, root)
<1> DEFINE T == Subtree(tree, root) \union {c}
<1>1. /\ Subtree(tree, c) \subseteq DOMAIN tree.nodes
      /\ \A p \in Subtree(tree, root) : \A k \in Kids(tree, p) : Has(tree, k) => k \in Subtree(tree, root)
  BY SubtreeIs
<1>2. \A p \in T : Has(tree, p) => \A k \in Kids(tree, p) : Has(tree, k) => k \in T
  BY <1>1
<1>3. c \in T
  OBVIOUS
<1> HIDE DEF T
<1>4. Subtree(tree, c) \subseteq T
  BY <1>2, <1>3, SubtreeLeast
<1> QED BY <1>1, <1>4 DEF T, Has

\* What the nodes of an instantiated component are: the component's own and
\* those under the ref.
Instance(inst, tree, ref, comp, n) ==
    /\ DOMAIN inst \subseteq 1..(n - 1)
    /\ \A id \in DOMAIN inst : inst[id] \in Node(n)
    /\ comp.rootNodeId \in DOMAIN inst
    /\ \A id \in DOMAIN inst :
          \/ /\ id \in DOMAIN comp.nodes
             /\ inst[id].moduleId = comp.nodes[id].moduleId
             /\ inst[id].componentId = comp.nodes[id].componentId
          \/ id \in Subtree(tree, ref) /\ inst[id] = tree.nodes[id]

\* instantiateVCAtRef
LEMMA InstantiatedIs ==
  ASSUME NEW n \in Nat, NEW tree, IsDocument(tree, n), NEW comp, IsDocument(comp, n),
         NEW ref \in DOMAIN tree.nodes
  PROVE  Instance(Instantiated(tree, ref, comp), tree, ref, comp, n)
<1> DEFINE slots == Keep(tree.nodes[ref].children, Slots(tree))
           Named(name) == Keep(slots, {c \in ToSet(slots) : tree.nodes[c].slotName = name})
           Filling(name) == IF Named(name) = <<>> THEN <<>> ELSE tree.nodes[Last(Named(name))].children
           own == Subtree(comp, comp.rootNodeId)
           Filled(id) == /\ comp.nodes[id].moduleId = "slot-outlet"
                         /\ Filling(comp.nodes[id].slotName) # <<>>
           InPlaceOf(id) == IF id \notin own THEN <<>>
                            ELSE IF Filled(id) THEN Filling(comp.nodes[id].slotName)
                            ELSE <<id>>
           content == UNION {Subtree(tree, c) : c \in UNION {ToSet(InPlaceOf(id)) :
                                 id \in {i \in own : Filled(i)}}}
           Kid(id) == [k \in DOMAIN comp.nodes[id].children |-> InPlaceOf(comp.nodes[id].children[k])]
           inst == [id \in {i \in own : ~Filled(i)} \union content |->
                       IF id \notin own THEN tree.nodes[id]
                       ELSE [comp.nodes[id] EXCEPT !.children = FlattenSeq(Kid(id))]]
<1>1. Instantiated(tree, ref, comp) = inst
  BY DEF Instantiated
<1>2. /\ Lists(tree.nodes) /\ Lists(comp.nodes)
      /\ DOMAIN tree.nodes \subseteq 1..(n - 1) /\ DOMAIN comp.nodes \subseteq 1..(n - 1)
      /\ \A id \in DOMAIN tree.nodes : tree.nodes[id] \in Node(n) /\ tree.nodes[id].children \in Seq(Nat)
      /\ \A id \in DOMAIN comp.nodes : comp.nodes[id] \in Node(n) /\ comp.nodes[id].children \in Seq(Nat)
      /\ ref \in Nat
      /\ comp.rootNodeId \in Nat /\ comp.rootNodeId \in DOMAIN comp.nodes
      /\ comp.nodes[comp.rootNodeId].moduleId = "body"
  BY DocumentLists DEF Sound
<1>3. own \subseteq DOMAIN comp.nodes /\ comp.rootNodeId \in own
  BY <1>2, SubtreeIs DEF Has
<1>4. slots \in Seq(Nat) /\ ToSet(slots) \subseteq Kids(tree, ref) /\ ToSet(slots) \subseteq DOMAIN tree.nodes
  <2> DEFINE list == tree.nodes[ref].children
             all == Slots(tree)
  <2>1. list \in Seq(Nat)
    BY <1>2
  <2>2. all \subseteq DOMAIN tree.nodes
    BY DEF Slots
  <2>3. ToSet(list) = Kids(tree, ref)
    BY DEF Kids
  <2> HIDE DEF list, all
  <2>4. Keep(list, all) \in Seq(Nat)
    BY <2>1, KeepIs
  <2>5. ToSet(Keep(list, all)) = ToSet(list) \intersect all
    BY <2>1, KeepIs
  <2> QED BY <2>2, <2>3, <2>4, <2>5 DEF list, all
<1> HIDE DEF slots, own
<1>5. ASSUME NEW name, Named(name) # <<>>
      PROVE  Last(Named(name)) \in ToSet(slots)
  <2> DEFINE set == {c \in ToSet(slots) : tree.nodes[c].slotName = name}
             named == Named(name)
  <2>1. named = Keep(slots, set)
    OBVIOUS
  <2> HIDE DEF set, named
  <2>2. named \in Seq(Nat)
    BY <1>4, <2>1, KeepIs
  <2>3. ToSet(Keep(slots, set)) = ToSet(slots) \intersect set
    BY <1>4, KeepIs
  <2>4. named # <<>>
    BY <1>5 DEF named
  <2>5. Last(named) \in ToSet(named)
    BY <2>2, <2>4, EndsOf
  <2>6. Last(named) \in ToSet(slots)
    BY <2>1, <2>3, <2>5
  <2> QED BY <2>6 DEF named
<1>6. ASSUME NEW name
      PROVE  /\ Filling(name) \in Seq(Nat)
             /\ \A c \in ToSet(Filling(name)) : Has(tree, c) => c \in Subtree(tree, ref)
  <2>1. CASE Named(name) = <<>>
    BY <2>1 DEF ToSet
  <2>2. CASE Named(name) # <<>>
    <3> DEFINE s == Last(Named(name))
    <3>1. s \in ToSet(slots)
      BY <1>5, <2>2
    <3>2. Filling(name) = tree.nodes[s].children
      BY <2>2
    <3> HIDE DEF s, Named, Filling
    <3>3. s \in DOMAIN tree.nodes /\ s \in Kids(tree, ref)
      BY <1>4, <3>1
    <3>4. Filling(name) \in Seq(Nat) /\ ToSet(Filling(name)) = Kids(tree, s)
      BY <1>2, <3>2, <3>3 DEF Kids
    <3>5. s \in Subtree(tree, ref)
      <4>1. ref \in Subtree(tree, ref)
            /\ \A p \in Subtree(tree, ref) : \A c \in Kids(tree, p) :
                  Has(tree, c) => c \in Subtree(tree, ref)
        BY <1>2, SubtreeIs DEF Has
      <4> QED BY <3>3, <4>1 DEF Has
    <3>6. \A c \in Kids(tree, s) : Has(tree, c) => c \in Subtree(tree, ref)
      BY <1>2, <3>5, SubtreeIs
    <3> QED BY <3>4, <3>6
  <2> HIDE DEF Filling, Named
  <2> QED BY <2>1, <2>2
<1> HIDE DEF Named, Filling
<1>7. ASSUME NEW id
      PROVE  InPlaceOf(id) \in Seq(Nat)
  <2>1. CASE id \in own /\ ~Filled(id)
    <3>1. id \in Nat
      BY <1>2, <1>3, <2>1
    <3>2. <<id>> \in Seq(Nat)
      BY <3>1, OneId
    <3> HIDE DEF Filled
    <3> QED BY <2>1, <3>2
  <2>2. CASE ~(id \in own /\ ~Filled(id))
    <3>1. <<>> \in Seq(Nat)
      OBVIOUS
    <3> HIDE DEF Filled
    <3> QED BY <1>6, <2>2, <3>1
  <2> QED BY <2>1, <2>2
<1>8. content \subseteq Subtree(tree, ref)
  <2>1. SUFFICES ASSUME NEW id \in own, Filled(id), NEW c \in ToSet(InPlaceOf(id))
                 PROVE  Subtree(tree, c) \subseteq Subtree(tree, ref)
    OBVIOUS
  <2>2. InPlaceOf(id) = Filling(comp.nodes[id].slotName)
    BY <2>1
  <2>3. c \in Nat
    <3> DEFINE list == InPlaceOf(id)
    <3>1. list \in Seq(Nat) /\ c \in ToSet(list)
      BY <1>7
    <3> HIDE DEF list
    <3> QED BY <3>1 DEF ToSet
  <2>4. Has(tree, c) => c \in Subtree(tree, ref)
    BY <1>6, <2>1, <2>2
  <2> QED BY <1>2, <2>3, <2>4, SubtreeWithin
<1>9. ASSUME NEW id \in own
      PROVE  FlattenSeq(Kid(id)) \in Seq(Nat)
  <2> DEFINE list == comp.nodes[id].children
             kid == Kid(id)
  <2>1. list \in Seq(Nat)
    BY <1>2, <1>3
  <2>2. kid = [k \in DOMAIN list |-> InPlaceOf(list[k])]
    OBVIOUS
  <2> HIDE DEF InPlaceOf, list, kid
  <2>3. DOMAIN list = 1..Len(list) /\ Len(list) \in Nat
    BY <2>1
  <2>4. kid \in [1..Len(list) -> Seq(Nat)]
    BY <1>7, <2>2, <2>3
  <2>5. kid \in Seq(Seq(Nat))
    BY <2>3, <2>4
  <2>6. FlattenSeq(kid) \in Seq(Nat)
    BY <2>5, FlattenIs
  <2> QED BY <2>6 DEF kid
<1> HIDE DEF InPlaceOf, Kid, content
<1>10. Subtree(tree, ref) \subseteq DOMAIN tree.nodes
  BY <1>2, SubtreeIs
<1>11. DOMAIN inst \subseteq own \union content /\ comp.rootNodeId \in DOMAIN inst
  <2>1. ~Filled(comp.rootNodeId)
    BY <1>2
  <2> QED BY <1>3, <2>1
<1>12. ASSUME NEW id \in DOMAIN inst
       PROVE  \/ /\ id \in DOMAIN comp.nodes
                 /\ inst[id] \in Node(n)
                 /\ inst[id].moduleId = comp.nodes[id].moduleId
                 /\ inst[id].componentId = comp.nodes[id].componentId
              \/ /\ id \in Subtree(tree, ref)
                 /\ inst[id] \in Node(n)
                 /\ inst[id] = tree.nodes[id]
  <2>1. CASE id \in own
    <3>1. inst[id] = [comp.nodes[id] EXCEPT !.children = FlattenSeq(Kid(id))]
      BY <2>1
    <3> DEFINE node == comp.nodes[id]
               list == FlattenSeq(Kid(id))
    <3>2. node \in Node(n) /\ list \in Seq(Nat) /\ id \in DOMAIN comp.nodes
      BY <1>2, <1>3, <1>9, <2>1
    <3> HIDE DEF node, list, inst
    <3>3. /\ [node EXCEPT !.children = list] \in Node(n)
          /\ [node EXCEPT !.children = list].moduleId = node.moduleId
          /\ [node EXCEPT !.children = list].componentId = node.componentId
      BY <3>2 DEF Node
    <3> QED BY <3>1, <3>2, <3>3 DEF node, list
  <2>2. CASE id \notin own
    <3>1. inst[id] = tree.nodes[id]
      BY <2>2
    <3>2. id \in content
      BY <1>11, <2>2
    <3> HIDE DEF inst
    <3> QED BY <1>2, <1>8, <1>10, <3>1, <3>2
  <2> QED BY <2>1, <2>2
<1>13. DOMAIN inst \subseteq 1..(n - 1)
  BY <1>2, <1>3, <1>8, <1>10, <1>11
<1> HIDE DEF inst
<1>14. Instance(inst, tree, ref, comp, n)
  BY <1>11, <1>12, <1>13 DEF Instance
<1> QED BY <1>1, <1>14

-----------------------------------------------------------------------------
\* Detaching a ref.

\* New nodes beside those of a tree; none of them lists the root.
LEMMA BesideIs ==
  ASSUME NEW n \in Nat, NEW m \in Nat, n <= m, NEW root, NEW nodes, Sound(nodes, root, n),
         NEW new, new = [id \in DOMAIN new |-> new[id]], DOMAIN new \subseteq n..(m - 1),
         \A id \in DOMAIN new : NodeOK(new[id], root, m)
  PROVE  Joined(Over(new, nodes), new, nodes, root, m)
<1> DEFINE both == Over(new, nodes)
<1>1. DOMAIN both = DOMAIN new \union DOMAIN nodes /\ both = [id \in DOMAIN both |-> both[id]]
  BY DEF Over
<1>2. Sound(nodes, root, m) /\ DOMAIN nodes \subseteq 1..(n - 1) /\ root \in DOMAIN nodes
  BY SoundLater DEF Sound
<1>3. \A id \in DOMAIN new : id \notin DOMAIN nodes
  BY <1>2
<1>4. \A id \in DOMAIN new : both[id] = new[id]
  BY DEF Over
<1>5. \A id \in DOMAIN nodes : both[id] = nodes[id]
  BY <1>3 DEF Over
<1> HIDE DEF both
<1>6. \A id \in DOMAIN both : NodeOK(both[id], root, m)
  BY <1>1, <1>2, <1>4, <1>5 DEF Sound
<1>7. DOMAIN both \subseteq 1..(m - 1)
  <2>1. 1 <= n
    BY <1>2
  <2> QED BY <1>1, <1>2, <2>1
<1>8. Sound(both, root, m)
  BY <1>1, <1>2, <1>5, <1>6, <1>7 DEF Sound
<1> QED BY <1>1, <1>4, <1>5, <1>8 DEF both, Joined

\* detachComponentRef: what the page uses is what it used or what the component
\* uses, and its content outlets are the ones it keeps and the copied ones.
Detached(new, tree, ref, comp, n, m) ==
    LET inst == Instantiated(tree, ref, comp)
        map == FreshIds(DOMAIN inst, n)
    IN  /\ m \in Nat /\ n <= m
        /\ IsDocument(new, m)
        /\ Used(new.nodes) \subseteq Used(tree.nodes) \union Used(comp.nodes)
        /\ Content(new.nodes) \subseteq (Content(tree.nodes) \ Subtree(tree, ref))
                                        \union {map[id] : id \in Content(inst)}

\* detachSymbolInstance puts copies of the component's nodes in the ref's place.
LEMMA DetachRefIs ==
  ASSUME NEW n \in Nat, NEW tree, IsDocument(tree, n), NEW comp, IsDocument(comp, n),
         NEW ref \in DOMAIN tree.nodes, ref # tree.rootNodeId, CanDetach(tree, ref, comp),
         NEW m, m = n + Cardinality(DOMAIN Instantiated(tree, ref, comp))
  PROVE  Detached(DetachRef(tree, ref, comp, n), tree, ref, comp, n, m)
<1> DEFINE root == tree.rootNodeId
           nodes == tree.nodes
           inst == Instantiated(tree, ref, comp)
           ids == DOMAIN inst
           map == FreshIds(ids, n)
           copied == Copies(inst, ids, map)
           body == map[comp.rootNodeId]
           inserted == copied[body].children
           parent == SiblingAfter(tree, ref).parentId
           at == IndexOf(nodes[parent].children, ref)
           rest == DOMAIN nodes \ Subtree(tree, ref)
           kept == Restrict(nodes, rest)
           kids == kept[parent].children
           others == Keep(kids, ToSet(kids) \ {ref})
           joined == Splice(others, at, inserted)
           placed == [kept EXCEPT ![parent].children = joined]
           added == Restrict(copied, DOMAIN copied \ {body})
           both == Over(added, placed)
           indexed == ReindexNodeParents(both)
           outs == {map[id] : id \in Content(inst)}
<1>1. /\ Sound(nodes, root, n) /\ ref \in Nat /\ root \in DOMAIN nodes /\ root \in Nat
      /\ DOMAIN nodes \subseteq 1..(n - 1)
  BY DocumentLists DEF Sound
<1>2. Instance(inst, tree, ref, comp, n)
  BY InstantiatedIs
<1>3. parent \in DOMAIN nodes /\ at \in Int
  <2>1. parent \in DOMAIN nodes
    BY SiblingListed DEF CanDetach
  <2> DEFINE list == nodes[parent].children
  <2>2. list \in Seq(Nat)
    BY <2>1, DocumentLists
  <2> HIDE DEF list, parent
  <2>3. IndexOf(list, ref) \in Int
    BY <2>2, IndexOfIs
  <2> QED BY <2>1, <2>3 DEF list
<1> HIDE DEF inst
<1>4. /\ ids \subseteq 1..(n - 1) /\ comp.rootNodeId \in ids
      /\ \A id \in ids : inst[id] \in Node(n)
  BY <1>2 DEF Instance
<1>5. m \in Nat /\ n <= m /\ m = n + Cardinality(ids)
  <2>1. IsFiniteSet(1..(n - 1))
    BY FS_Interval
  <2>2. IsFiniteSet(ids)
    BY <1>4, <2>1, FS_Subset
  <2>3. Cardinality(ids) \in Nat
    BY <2>2, FS_CardinalityType
  <2>4. m = n + Cardinality(ids)
    BY DEF inst
  <2> HIDE DEF ids
  <2> QED BY <2>3, <2>4
<1>6. Fresh(copied, n, m) /\ Cloned(copied, inst, ids, map)
  <2>1. n <= n /\ ids \subseteq DOMAIN inst
    OBVIOUS
  <2> HIDE DEF ids
  <2> QED BY <1>4, <1>5, <2>1, CopiesAre DEF ids
<1>7. Used(copied) \subseteq Used(inst) /\ Content(copied) \subseteq outs
  <2>1. ids \subseteq DOMAIN inst /\ ids \intersect Content(inst) = Content(inst)
    BY DEF Content
  <2> HIDE DEF copied, map, ids
  <2>2. Used(copied) \subseteq Used(inst)
    BY <1>6, <2>1, CopiesUse
  <2>3. Content(copied) \subseteq {map[i] : i \in ids \intersect Content(inst)}
    BY <1>6, <2>1, CopiesUse
  <2> QED BY <2>1, <2>2, <2>3
<1> HIDE DEF copied, ids, map, outs
<1>8. /\ copied = [id \in DOMAIN copied |-> copied[id]]
      /\ DOMAIN copied \subseteq n..(m - 1)
      /\ \A id \in DOMAIN copied : /\ copied[id] \in Node(m)
                                   /\ copied[id].children \in Seq(Nat)
                                   /\ ToSet(copied[id].children) \subseteq DOMAIN copied
                                   /\ root \notin ToSet(copied[id].children)
  <2>1. \A id \in DOMAIN copied : copied[id].children \in Seq(Nat)
    BY <1>6 DEF Fresh, Node
  <2>2. root \notin DOMAIN copied
    BY <1>1, <1>6 DEF Fresh
  <2> QED BY <1>6, <2>1, <2>2 DEF Fresh
<1>9. inserted \in Seq(Nat) /\ root \notin ToSet(inserted)
  <2>1. body \in DOMAIN copied
    BY <1>4, <1>6 DEF Cloned
  <2> QED BY <1>8, <2>1
<1> HIDE DEF body, inserted, parent, at
<1>10. Sound(kept, root, n) /\ Narrows(kept, nodes)
  <2>1. root \notin Subtree(tree, ref)
    BY <1>1, RootStays
  <2>2. rest \subseteq DOMAIN nodes /\ root \in rest
    BY <1>1, <2>1
  <2> HIDE DEF rest
  <2> QED BY <1>1, <2>2, KeptNodes
<1>11. Content(kept) \subseteq Content(nodes) \ Subtree(tree, ref)
  BY DEF Content, Restrict
<1> HIDE DEF kept
<1>12. Sound(placed, root, n) /\ Narrows(placed, kept)
  <2>1. CASE parent \in DOMAIN kept
    <3>1. kids \in Seq(Nat) /\ root \notin ToSet(kids)
      BY <1>10, <2>1 DEF Sound, NodeOK, Node
    <3> DEFINE set == ToSet(kids) \ {ref}
    <3> HIDE DEF kids, set
    <3>2. Keep(kids, set) \in Seq(Nat)
      BY <3>1, KeepIs
    <3>3. ToSet(Keep(kids, set)) = ToSet(kids) \intersect set
      BY <3>1, KeepIs
    <3>4. others \in Seq(Nat) /\ root \notin ToSet(others)
      BY <3>1, <3>2, <3>3 DEF set
    <3> HIDE DEF others
    <3>5. joined \in Seq(Nat) /\ root \notin ToSet(joined)
      BY <1>3, <1>9, <3>4, SplicedKids
    <3> HIDE DEF joined
    <3>6. Edited(placed, kept, root, n)
      BY <1>10, <2>1, <3>5, KidsSet
    <3> QED BY <3>6 DEF Edited
  <2>2. CASE parent \notin DOMAIN kept
    <3> HIDE DEF joined
    <3>1. kept = [id \in DOMAIN kept |-> kept[id]]
      BY <1>10 DEF Sound
    <3>2. placed = kept
      BY <2>2, <3>1
    <3>3. Narrows(kept, kept)
      BY DEF Narrows
    <3> QED BY <1>10, <3>2, <3>3
  <2> QED BY <2>1, <2>2
<1>13. /\ added = [id \in DOMAIN added |-> added[id]]
       /\ DOMAIN added \subseteq DOMAIN copied
       /\ \A id \in DOMAIN added : added[id] = copied[id]
  BY DEF Restrict
<1> HIDE DEF placed, added
<1>14. Joined(both, added, placed, root, m)
  <2>1. \A id \in DOMAIN added : NodeOK(added[id], root, m)
    BY <1>8, <1>13 DEF NodeOK
  <2>2. DOMAIN added \subseteq n..(m - 1)
    BY <1>8, <1>13
  <2> QED BY <1>5, <1>12, <1>13, <2>1, <2>2, BesideIs
<1> HIDE DEF both
<1>15. /\ Sound(both, root, m)
       /\ Used(both) \subseteq Used(added) \union Used(placed)
       /\ Content(both) \subseteq Content(added) \union Content(placed)
  BY <1>14 DEF Joined, Used, Content
<1>16. Used(added) \subseteq Used(copied) /\ Content(added) \subseteq Content(copied)
  BY <1>13 DEF Used, Content
<1>17. Sound(indexed, root, m) /\ Used(indexed) \subseteq Used(both) /\ Content(indexed) \subseteq Content(both)
  <2>1. Edited(indexed, both, root, m)
    BY <1>5, <1>15, ReindexIs
  <2> QED BY <2>1, NarrowsKeeps DEF Edited
<1> HIDE DEF indexed
<1>18. Used(inst) \subseteq Used(nodes) \union Used(comp.nodes)
  <2>1. Subtree(tree, ref) \subseteq DOMAIN nodes
    BY <1>1, DocumentLists, SubtreeIs
  <2> QED BY <1>2, <2>1 DEF Instance, Used
<1>19. Used(placed) \subseteq Used(nodes) /\ Content(placed) \subseteq Content(kept)
  <2>1. Used(placed) \subseteq Used(kept) /\ Content(placed) \subseteq Content(kept)
    BY <1>12, NarrowsKeeps
  <2>2. Used(kept) \subseteq Used(nodes)
    BY <1>10, NarrowsKeeps
  <2> QED BY <2>1, <2>2
<1>20. Used(indexed) \subseteq Used(nodes) \union Used(comp.nodes)
  BY <1>7, <1>15, <1>16, <1>17, <1>18, <1>19
<1>21. Content(indexed) \subseteq (Content(nodes) \ Subtree(tree, ref)) \union outs
  BY <1>7, <1>11, <1>15, <1>16, <1>17, <1>19
<1> DEFINE new == [tree EXCEPT !.nodes = indexed]
<1>22. new = [rootNodeId |-> root, nodes |-> indexed]
  BY DocumentIs, SetNodes
<1>23. IsDocument(new, m) /\ new.nodes = indexed
  <2>1. new.nodes = indexed /\ new.rootNodeId = root
    BY <1>22
  <2>2. new = [rootNodeId |-> new.rootNodeId, nodes |-> new.nodes]
    BY <1>22
  <2> HIDE DEF new
  <2> QED BY <1>5, <1>17, <2>1, <2>2, DocumentIs
<1>24. DetachRef(tree, ref, comp, n) = new
  BY DEF DetachRef, new, indexed, both, added, placed, joined, others, kids, kept, at, parent,
         inserted, body, copied, map, ids, inst
<1> HIDE DEF new
<1>25. Detached(new, tree, ref, comp, n, m)
  BY <1>5, <1>20, <1>21, <1>23 DEF Detached, outs, map, ids, inst
<1> QED BY <1>24, <1>25

-----------------------------------------------------------------------------
\* Which component uses which.

Uses(trees, d) == ReferencedComponentIds(trees[d])

\* The components a document refers to are those its nodes use.
LEMMA UsesAre ==
  ASSUME NEW trees, NEW d PROVE Uses(trees, d) = Used(trees[d].nodes)
  BY DEF Uses, ReferencedComponentIds, Used

\* The components a document refers to are ids.
LEMMA UsesTyped ==
  ASSUME NEW n \in Nat, NEW trees, IsDocuments(trees, n), NEW d \in DOMAIN trees
  PROVE  Uses(trees, d) \subseteq (0..(n - 1)) \ Page
<1>1. IsDocument(trees[d], n)
  BY DocumentsAre
<1>2. \A id \in DOMAIN trees[d].nodes : trees[d].nodes[id].componentId \in (0..(n - 1)) \ Page
  <2>1. \A id \in DOMAIN trees[d].nodes : trees[d].nodes[id] \in Node(n)
    BY <1>1, DocumentLists
  <2> QED BY <2>1 DEF Node
<1> QED BY <1>2 DEF Uses, ReferencedComponentIds

\* getTransitivelyReachable: what a component uses is in it, ...
LEMMA ReachClosed ==
  ASSUME NEW trees, NEW start \in DOMAIN trees
  PROVE  LET reach == TransitivelyReachable(trees, start)
         IN  /\ Uses(trees, start) \subseteq reach
             /\ \A c \in reach : c \in DOMAIN trees => Uses(trees, c) \subseteq reach
<1> DEFINE used == UNION {ReferencedComponentIds(trees[d]) : d \in DOMAIN trees}
           Closed(set) == /\ ReferencedComponentIds(trees[start]) \subseteq set
                          /\ \A c \in set \intersect DOMAIN trees :
                                ReferencedComponentIds(trees[c]) \subseteq set
           reach == TransitivelyReachable(trees, start)
<1>1. reach = {c \in used : \A set \in SUBSET used : Closed(set) => c \in set}
  BY DEF TransitivelyReachable
<1>2. \A d \in DOMAIN trees : Uses(trees, d) \subseteq used
  BY DEF Uses
<1> HIDE DEF reach, used
<1>3. Uses(trees, start) \subseteq reach
  BY <1>1, <1>2 DEF Uses
<1>4. ASSUME NEW c \in reach, c \in DOMAIN trees
      PROVE  Uses(trees, c) \subseteq reach
  <2>1. ASSUME NEW x \in Uses(trees, c), NEW set \in SUBSET used, Closed(set)
        PROVE  x \in set
    <3>1. c \in set
      BY <1>1, <1>4, <2>1
    <3> QED BY <1>4, <2>1, <3>1 DEF Uses
  <2>2. \A x \in Uses(trees, c) : x \in used
    BY <1>2, <1>4
  <2> HIDE DEF Closed
  <2> QED BY <1>1, <2>1, <2>2
<1> QED BY <1>3, <1>4 DEF reach

\* ... and nothing that is not in every set closed like that.
LEMMA ReachLeast ==
  ASSUME NEW trees, NEW start \in DOMAIN trees, NEW T, Uses(trees, start) \subseteq T,
         \A c \in T : c \in DOMAIN trees => Uses(trees, c) \subseteq T
  PROVE  TransitivelyReachable(trees, start) \subseteq T
<1> DEFINE used == UNION {ReferencedComponentIds(trees[d]) : d \in DOMAIN trees}
           Closed(set) == /\ ReferencedComponentIds(trees[start]) \subseteq set
                          /\ \A c \in set \intersect DOMAIN trees :
                                ReferencedComponentIds(trees[c]) \subseteq set
           reach == TransitivelyReachable(trees, start)
           own == T \intersect used
<1>1. reach = {c \in used : \A set \in SUBSET used : Closed(set) => c \in set}
  BY DEF TransitivelyReachable
<1>2. \A d \in DOMAIN trees : Uses(trees, d) \subseteq used
  BY DEF Uses
<1>3. own \in SUBSET used
  OBVIOUS
<1> HIDE DEF reach, used
<1>4. Closed(own)
  BY <1>2 DEF Uses
<1> HIDE DEF Closed
<1>5. reach \subseteq own
  BY <1>1, <1>3, <1>4
<1> QED BY <1>5 DEF reach

\* What is reached from what is reached.
LEMMA ReachThrough ==
  ASSUME NEW trees, NEW c \in DOMAIN trees, NEW d \in DOMAIN trees,
         d \in TransitivelyReachable(trees, c)
  PROVE  TransitivelyReachable(trees, d) \subseteq TransitivelyReachable(trees, c)
<1> DEFINE T == TransitivelyReachable(trees, c)
<1>1. \A x \in T : x \in DOMAIN trees => Uses(trees, x) \subseteq T
  BY ReachClosed
<1>2. Uses(trees, d) \subseteq T
  BY <1>1
<1> HIDE DEF T
<1>3. TransitivelyReachable(trees, d) \subseteq T
  BY <1>1, <1>2, ReachLeast
<1> QED BY <1>3 DEF T

\* What is reachable is used by some document.
LEMMA ReachUsed ==
  ASSUME NEW trees, NEW start \in DOMAIN trees
  PROVE  TransitivelyReachable(trees, start) \subseteq UNION {Uses(trees, d) : d \in DOMAIN trees}
  BY DEF TransitivelyReachable, Uses

Acyclic(trees) ==
    \A c \in DOMAIN trees \ Page : c \notin TransitivelyReachable(trees, c)

\* Components that use less, and new ones that use what was used before.
LEMMA StaysAcyclic ==
  ASSUME NEW n \in Nat, NEW old, IsDocuments(old, n), Acyclic(old), NEW new,
         \A d \in DOMAIN new \ Page :
            \/ d \in DOMAIN old /\ Uses(new, d) \subseteq Uses(old, d)
            \/ d \notin 0..(n - 1) /\ Uses(new, d) \subseteq UNION {Uses(old, x) : x \in DOMAIN old}
  PROVE  Acyclic(new)
<1> DEFINE used == UNION {Uses(old, x) : x \in DOMAIN old}
<1>1. used \subseteq (0..(n - 1)) \ Page
  BY UsesTyped
<1>2. ASSUME NEW c \in DOMAIN new \ Page
      PROVE  c \notin TransitivelyReachable(new, c)
  <2>1. CASE c \in DOMAIN old /\ Uses(new, c) \subseteq Uses(old, c)
    <3> DEFINE T == TransitivelyReachable(old, c)
    <3>1. /\ Uses(old, c) \subseteq T
          /\ \A x \in T : x \in DOMAIN old => Uses(old, x) \subseteq T
      BY <2>1, ReachClosed
    <3>2. T \subseteq used
      BY <2>1, ReachUsed
    <3>3. c \notin T
      BY <2>1 DEF Acyclic
    <3> HIDE DEF T, used
    <3>4. ASSUME NEW x \in T, x \in DOMAIN new PROVE Uses(new, x) \subseteq T
      <4>1. x \in DOMAIN new \ Page /\ x \in 0..(n - 1)
        BY <1>1, <3>2, <3>4
      <4>2. x \in DOMAIN old /\ Uses(new, x) \subseteq Uses(old, x)
        BY <4>1
      <4> QED BY <3>1, <4>2
    <3>5. Uses(new, c) \subseteq T
      BY <2>1, <3>1
    <3>6. TransitivelyReachable(new, c) \subseteq T
      BY <3>4, <3>5, ReachLeast
    <3> QED BY <3>3, <3>6
  <2>2. CASE c \notin 0..(n - 1) /\ Uses(new, c) \subseteq used
    <3>1. \A d \in DOMAIN old : Uses(old, d) \subseteq used
      OBVIOUS
    <3> HIDE DEF used
    <3>4. ASSUME NEW x \in used, x \in DOMAIN new PROVE Uses(new, x) \subseteq used
      <4>1. x \in DOMAIN new \ Page /\ x \in 0..(n - 1)
        BY <1>1, <3>4
      <4>2. x \in DOMAIN old /\ Uses(new, x) \subseteq Uses(old, x)
        BY <4>1
      <4> QED BY <3>1, <4>2
    <3>6. TransitivelyReachable(new, c) \subseteq used
      BY <2>2, <3>4, ReachLeast
    <3> QED BY <1>1, <2>2, <3>6
  <2> QED BY <2>1, <2>2
<1> QED BY <1>2 DEF Acyclic

\* The recursion guard: host may use one component more if that would close no
\* cycle.
LEMMA GuardKeepsAcyclic ==
  ASSUME NEW n \in Nat, NEW old, IsDocuments(old, n), Acyclic(old), NEW new,
         DOMAIN new = DOMAIN old,
         NEW host \in DOMAIN old \ Page, NEW more \in DOMAIN old \ Page,
         ~WouldCreateCycle(old, host, more),
         \A d \in DOMAIN old \ Page :
            Uses(new, d) \subseteq Uses(old, d) \union {x \in {more} : d = host}
  PROVE  Acyclic(new)
<1> DEFINE Reach(c) == TransitivelyReachable(old, c)
<1>1. ASSUME NEW c \in DOMAIN old
      PROVE  /\ Uses(old, c) \subseteq Reach(c)
             /\ \A x \in Reach(c) : x \in DOMAIN old => Uses(old, x) \subseteq Reach(c)
             /\ \A x \in Reach(c) : x \notin Page
  <2>1. /\ Uses(old, c) \subseteq Reach(c)
        /\ \A x \in Reach(c) : x \in DOMAIN old => Uses(old, x) \subseteq Reach(c)
    BY ReachClosed
  <2>2. \A x \in Reach(c) : x \notin Page
    BY ReachUsed, UsesTyped
  <2> QED BY <2>1, <2>2
<1>2. \A c, d \in DOMAIN old : d \in Reach(c) => Reach(d) \subseteq Reach(c)
  BY ReachThrough
<1>3. host # more /\ host \notin Reach(more)
  BY DEF WouldCreateCycle
<1>4. \A c \in DOMAIN old \ Page : c \notin Reach(c)
  BY DEF Acyclic
<1> HIDE DEF Reach
<1>5. ASSUME NEW c \in DOMAIN new \ Page
      PROVE  c \notin TransitivelyReachable(new, c)
  <2>1. CASE c = host \/ host \in Reach(c)
    <3> DEFINE T == Reach(c) \union {more} \union Reach(more)
    <3>1. Uses(new, c) \subseteq T
      BY <1>1
    <3>2. ASSUME NEW x \in T, x \in DOMAIN new PROVE Uses(new, x) \subseteq T
      <4>1. x \in DOMAIN old \ Page
        BY <1>1, <3>2
      <4>2. Uses(old, x) \subseteq T
        BY <1>1, <3>2, <4>1
      <4> QED BY <4>1, <4>2
    <3> HIDE DEF T
    <3>3. TransitivelyReachable(new, c) \subseteq T
      BY <3>1, <3>2, ReachLeast
    <3>4. c \notin T
      <4>1. c # more
        BY <1>3, <2>1
      <4>2. c \notin Reach(more)
        BY <1>2, <1>3, <2>1
      <4> QED BY <1>4, <4>1, <4>2 DEF T
    <3> QED BY <3>3, <3>4
  <2>2. CASE c # host /\ host \notin Reach(c)
    <3> DEFINE T == Reach(c)
    <3>1. Uses(new, c) \subseteq T
      BY <1>1, <2>2
    <3>2. ASSUME NEW x \in T, x \in DOMAIN new PROVE Uses(new, x) \subseteq T
      <4>1. x \in DOMAIN old \ Page /\ x # host
        BY <1>1, <2>2, <3>2
      <4>2. Uses(old, x) \subseteq T
        BY <1>1, <3>2, <4>1
      <4> QED BY <4>1, <4>2
    <3> HIDE DEF T
    <3>3. TransitivelyReachable(new, c) \subseteq T
      BY <3>1, <3>2, ReachLeast
    <3> QED BY <1>4, <3>3 DEF T
  <2> QED BY <2>1, <2>2
<1> QED BY <1>5 DEF Acyclic

-----------------------------------------------------------------------------
\* The invariant, and what follows a tree edit.

AtMostOne(set) == \A a, b \in set : a = b

\* At most one element, without counting.
LEMMA FewAre ==
  ASSUME NEW S, IsFiniteSet(S)
  PROVE  Cardinality(S) <= 1 <=> AtMostOne(S)
<1>1. ASSUME AtMostOne(S) PROVE Cardinality(S) <= 1
  <2>1. CASE S = {}
    BY <2>1, FS_EmptySet
  <2>2. CASE S # {}
    <3>1. PICK x : x \in S
      BY <2>2
    <3>2. S = {x}
      BY <1>1, <3>1 DEF AtMostOne
    <3> QED BY <3>2, FS_Singleton
  <2> QED BY <2>1, <2>2
<1>2. ASSUME Cardinality(S) <= 1, NEW a \in S, NEW b \in S, a # b PROVE FALSE
  <2> DEFINE T == {a, b}
             U == S \ {a}
  <2>1. IsFiniteSet(U) /\ Cardinality(U) = Cardinality(S) - 1
    BY FS_RemoveElement
  <2>2. Cardinality(S) \in Nat /\ Cardinality(U) \in Nat
    BY <2>1, FS_CardinalityType
  <2>3. Cardinality(U) = 0
    BY <1>2, <2>1, <2>2
  <2>4. U = {}
    BY <2>1, <2>3, FS_EmptySet
  <2> QED BY <1>2, <2>4
<1> QED BY <1>1, <1>2 DEF AtMostOne

Few(trees) == \A d \in DOMAIN trees : AtMostOne(Content(trees[d].nodes))

OutletsAreFew ==
    Hit("outlet") = {} => Few(docs) /\ AtMostOne(Content(clipboard.nodes))

Inv == TypeOK /\ RefsResolve /\ NoComponentInItself /\ OutletsAreFew

\* A known way to go wrong stays known.
LEMMA HitsStay ==
  ASSUME known \subseteq known', NEW what PROVE Hit(what) \subseteq Hit(what)'
  BY DEF Hit

\* RefsResolve, said of the nodes.
LEMMA ResolveIs ==
  RefsResolve <=> \A d \in DOMAIN docs : Used(docs[d].nodes) \subseteq Component \union Hit("slots")
  BY UsesAre DEF RefsResolve, Uses

\* What the type invariant says of the site.
LEMMA TypesAre ==
  ASSUME TypeOK
  PROVE  /\ next \in Nat
         /\ IsDocuments(docs, next)
         /\ Page \subseteq DOMAIN docs
         /\ \A d \in DOMAIN docs : IsDocument(docs[d], next)
         /\ activePageId \in DOMAIN docs
         /\ IsSnapshot(clipboard, next)
  BY DocumentsAre DEF TypeOK

\* The document an edit acts on is one.
LEMMA TargetIs ==
  ASSUME TypeOK
  PROVE  Target \in DOMAIN docs /\ Tree = docs[Target] /\ IsDocument(Tree, next)
<1>1. Target \in DOMAIN docs
  BY TypesAre DEF TypeOK, Target, Component
<1> QED BY <1>1, TypesAre DEF Tree

-----------------------------------------------------------------------------
\* One edit: target is changed and may use comps and have the outlets outs
\* besides its own; the other documents at most lose some.
Turn(target, comps, outs) ==
    /\ target \in DOMAIN docs
    /\ next' \in Nat /\ next <= next'
    /\ IsDocuments(docs', next')
    /\ DOMAIN docs' = DOMAIN docs
    /\ \A d \in DOMAIN docs :
          /\ Used(docs'[d].nodes) \subseteq Used(docs[d].nodes) \union {c \in comps : d = target}
          /\ Content(docs'[d].nodes) \subseteq Content(docs[d].nodes) \union {o \in outs : d = target}

\* mutateActiveTree
LEMMA CommitIs ==
  ASSUME TypeOK, NEW n \in Nat, next <= n, NEW tree, NEW comps, NEW outs,
         Grows(tree, Tree, n, comps, outs), NEW slips, Commit(tree, n, slips)
  PROVE  Turn(Target, comps, outs) /\ known \union slips \subseteq known'
<1> DEFINE target == Target
           edited == [docs EXCEPT ![target] = tree]
           changed == target \in Component /\ OutletNames(docs[target]) # OutletNames(tree)
           swept == IF changed THEN SyncAllRefs(edited, target, n)
                    ELSE [docs |-> edited, next |-> n]
<1>1. docs' = swept.docs /\ next' = swept.next /\ known \union slips \subseteq known'
  BY DEF Commit
<1>2. target \in DOMAIN docs /\ Tree = docs[target] /\ IsDocuments(docs, next) /\ next \in Nat
  BY TargetIs, TypesAre
<1> HIDE DEF target
<1>3. /\ docs = [d \in DOMAIN docs |-> docs[d]]
      /\ Page \subseteq DOMAIN docs
      /\ IsDocuments(docs, n)
  BY <1>2, DocumentsAre, DocumentsLater
<1>4. /\ DOMAIN edited = DOMAIN docs
      /\ edited[target] = tree
      /\ \A d \in DOMAIN docs : d # target => edited[d] = docs[d]
      /\ edited = [d \in DOMAIN edited |-> edited[d]]
  BY <1>2, <1>3
<1> HIDE DEF edited
<1>5. IsDocuments(edited, n)
  <2>1. \A d \in DOMAIN edited : IsDocument(edited[d], n)
    BY <1>3, <1>4, DocumentsAre DEF Grows
  <2>2. DOMAIN edited \subseteq 1..(n - 1)
    BY <1>3, <1>4, DocumentsAre
  <2> QED BY <1>3, <1>4, <2>1, <2>2 DEF IsDocuments
<1>6. SweptTo(swept, edited, n)
  <2>1. CASE changed
    BY <1>2, <1>4, <1>5, <2>1, SyncAllRefsIs
  <2>2. CASE ~changed
    <3>1. swept.docs = edited /\ swept.next = n
      BY <2>2
    <3> HIDE DEF swept
    <3> QED BY <1>5, <3>1, AlikeSelf DEF SweptTo
  <2> QED BY <2>1, <2>2
<1> HIDE DEF swept
<1>7. next' \in Nat /\ n <= next' /\ Alike(docs', edited, next')
  BY <1>1, <1>6 DEF SweptTo
<1>8. ASSUME NEW d \in DOMAIN docs
      PROVE  /\ Used(docs'[d].nodes) \subseteq Used(docs[d].nodes) \union {c \in comps : d = target}
             /\ Content(docs'[d].nodes) \subseteq Content(docs[d].nodes) \union {o \in outs : d = target}
  <2>1. Narrows(docs'[d].nodes, edited[d].nodes)
    BY <1>4, <1>7 DEF Alike
  <2>2. Used(docs'[d].nodes) \subseteq Used(edited[d].nodes) /\ Content(docs'[d].nodes) \subseteq Content(edited[d].nodes)
    BY <2>1, NarrowsKeeps
  <2>3. CASE d = target
    BY <1>2, <1>4, <2>2, <2>3 DEF Grows
  <2>4. CASE d # target
    BY <1>4, <2>2, <2>4
  <2> QED BY <2>3, <2>4
<1>9. next <= next' /\ IsDocuments(docs', next') /\ DOMAIN docs' = DOMAIN docs
  BY <1>2, <1>4, <1>7 DEF Alike
<1>10. Turn(target, comps, outs)
  BY <1>2, <1>7, <1>8, <1>9 DEF Turn
<1> QED BY <1>1, <1>10 DEF target

\* What keeps the invariant when one document is edited.
LEMMA TurnKeeps ==
  ASSUME Inv, NEW target, NEW comps, NEW outs, Turn(target, comps, outs),
         known \subseteq known',
         comps \subseteq Component \union Hit("slots")',
         \/ comps = {} \/ target \in Page \/ Hit("cycle")' # {}
         \/ \E c \in Component : comps = {c} /\ ~WouldCreateCycle(docs, target, c),
         Hit("outlet")' = {} =>
            /\ AtMostOne(Content(docs[target].nodes) \union outs)
            /\ AtMostOne(Content(clipboard'.nodes)),
         activePageId' = activePageId, activeDocument' = activeDocument, inlineRef' \in Nat,
         IsSnapshot(clipboard', next'), edits' \in 0..MaxEdits
  PROVE  Inv'
<1>1. TypeOK'
  <2>1. Component' = Component
    BY DEF Turn, Component
  <2> QED BY <2>1 DEF TypeOK, Inv, Turn
<1>2. RefsResolve'
  <2>1. Hit("slots") \subseteq Hit("slots")'
    BY HitsStay
  <2>2. \A d \in DOMAIN docs : Used(docs[d].nodes) \subseteq Component \union Hit("slots")
    BY ResolveIs DEF Inv
  <2>3. \A d \in DOMAIN docs : Used(docs'[d].nodes) \subseteq Component' \union Hit("slots")'
    BY <2>1, <2>2 DEF Turn, Component
  <2>4. \A d \in DOMAIN docs' : ReferencedComponentIds(docs'[d]) = Used(docs'[d].nodes)
    BY DEF ReferencedComponentIds, Used
  <2> QED BY <2>3, <2>4 DEF Turn, RefsResolve
<1>3. NoComponentInItself'
  <2>1. SUFFICES ASSUME Hit("cycle")' = {} PROVE Acyclic(docs')
    BY DEF NoComponentInItself, Acyclic, Component
  <2>2. Hit("cycle") = {}
    BY <2>1, HitsStay
  <2>3. Acyclic(docs)
    BY <2>2 DEF Inv, NoComponentInItself, Acyclic, Component
  <2>4. next \in Nat /\ IsDocuments(docs, next) /\ DOMAIN docs' = DOMAIN docs
    BY TypesAre DEF Inv, Turn
  <2>5. \A d \in DOMAIN docs :
           Uses(docs', d) \subseteq Uses(docs, d) \union {c \in comps : d = target}
    BY UsesAre DEF Turn
  <2>6. CASE comps = {} \/ target \in Page
    <3>1. \A d \in DOMAIN docs' \ Page : d \in DOMAIN docs /\ Uses(docs', d) \subseteq Uses(docs, d)
      BY <2>4, <2>5, <2>6
    <3> QED BY <2>3, <2>4, <3>1, StaysAcyclic
  <2>7. CASE target \notin Page /\ \E c \in Component : comps = {c} /\ ~WouldCreateCycle(docs, target, c)
    <3>1. PICK c \in Component : comps = {c} /\ ~WouldCreateCycle(docs, target, c)
      BY <2>7
    <3>2. \A d \in DOMAIN docs \ Page : Uses(docs', d) \subseteq Uses(docs, d) \union {x \in {c} : d = target}
      BY <2>5, <3>1
    <3>3. target \in DOMAIN docs \ Page /\ c \in DOMAIN docs \ Page
      BY <2>7 DEF Turn, Component
    <3> DEFINE new == docs'
    <3> HIDE DEF new
    <3> QED BY <2>3, <2>4, <3>1, <3>2, <3>3, GuardKeepsAcyclic
  <2> QED BY <2>1, <2>6, <2>7
<1>4. OutletsAreFew'
  <2>1. SUFFICES ASSUME Hit("outlet")' = {} PROVE Few(docs') /\ AtMostOne(Content(clipboard'.nodes))
    BY DEF OutletsAreFew
  <2>2. Hit("outlet") = {}
    BY <2>1, HitsStay
  <2>3. Few(docs)
    BY <2>2 DEF Inv, OutletsAreFew
  <2>4. Few(docs')
    BY <2>1, <2>3 DEF Turn, Few, AtMostOne
  <2> QED BY <2>1, <2>4
<1> QED BY <1>1, <1>2, <1>3, <1>4 DEF Inv

-----------------------------------------------------------------------------
\* The actions on the active tree.

\* An edit followed by one that brings nothing.
LEMMA GrowsOn ==
  ASSUME NEW a, NEW b, NEW c, NEW n, NEW m, NEW comps, NEW outs,
         Grows(b, a, n, comps, outs), Like(c, b, m)
  PROVE  Grows(c, a, m, comps, outs)
  BY DEF Grows, Like

\* An edit that brings neither uses nor content outlets.
LEMMA LikeKeeps ==
  ASSUME Inv, NEW target, Turn(target, {}, {}), known \subseteq known',
         activePageId' = activePageId, activeDocument' = activeDocument, inlineRef' \in Nat,
         \/ clipboard' = clipboard
         \/ IsSnapshot(clipboard', next') /\ \E d \in DOMAIN docs :
               Content(clipboard'.nodes) \subseteq Content(docs[d].nodes),
         edits' \in 0..MaxEdits
  PROVE  Inv'
<1>1. IsSnapshot(clipboard', next')
  <2>1. next \in Nat /\ next' \in Nat /\ next <= next' /\ IsSnapshot(clipboard, next)
    BY TypesAre DEF Inv, Turn
  <2>2. ASSUME clipboard' = clipboard PROVE IsSnapshot(clipboard', next')
    <3>1. IsNodes(clipboard.nodes, next')
      BY <2>1, NodesLater DEF IsSnapshot
    <3> QED BY <2>1, <2>2, <3>1 DEF IsSnapshot
  <2> QED BY <2>2
<1>2. Hit("outlet")' = {} =>
         /\ AtMostOne(Content(docs[target].nodes) \union {})
         /\ AtMostOne(Content(clipboard'.nodes))
  <2>1. SUFFICES ASSUME Hit("outlet")' = {}
                 PROVE  /\ AtMostOne(Content(docs[target].nodes))
                        /\ AtMostOne(Content(clipboard'.nodes))
    OBVIOUS
  <2>2. Few(docs) /\ AtMostOne(Content(clipboard.nodes))
    BY <2>1, HitsStay DEF Inv, OutletsAreFew
  <2> QED BY <2>2 DEF Few, AtMostOne, Turn
<1> DEFINE none == {}
<1>3. none \subseteq Component \union Hit("slots")'
  OBVIOUS
<1> QED BY <1>1, <1>2, <1>3, TurnKeeps

\* A selection is a list of ids.
LEMMA SelectionIs ==
  ASSUME TypeOK, NEW ids \in Selection
  PROVE  ids \in Seq(Nat) /\ ids \in Seq(Ids) /\ ids # <<>>
<1>1. Ids \subseteq Nat
  <2>1. next \in Nat /\ IsDocument(Tree, next)
    BY TypesAre, TargetIs
  <2> QED BY <2>1, DocumentLists DEF Ids
<1>2. CASE \E id \in Ids : ids = <<id>>
  BY <1>1, <1>2
<1>3. CASE \E a, b \in Ids : ids = <<a, b>>
  BY <1>1, <1>3
<1>4. ids \in {<<id>> : id \in Ids} \union (Ids \X Ids)
  BY DEF Selection, Ids
<1> QED BY <1>2, <1>3, <1>4

\* Those of the selected ids that are in set, the root excluded.
LEMMA SelectedIs ==
  ASSUME TypeOK, NEW ids \in Selection, NEW set
  PROVE  /\ Keep(ids, set) \in Seq(Nat) /\ Keep(ids, set) \in Seq(Ids)
         /\ ToSet(Keep(ids, set)) = ToSet(ids) \intersect set
  BY SelectionIs, KeepIs

\* An edit counts once.
LEMMA EditIs ==
  ASSUME Inv, Edit PROVE edits' \in 0..MaxEdits
  BY BoundAssumption DEF Inv, TypeOK, Edit

-----------------------------------------------------------------------------
\* insertNode of a module.
LEMMA InsertModuleKeeps ==
  ASSUME Inv, NEW target \in Ids, NEW module \in Module, InsertModule(target, module)
  PROVE  Inv'
<1> DEFINE to == InsertLocation(Tree, target)
           node == [NewNode(module) EXCEPT
                       !.slotName = IF module = "slot-outlet" THEN "children" ELSE ""]
           new == InsertNode(Tree, next, node, to.parentId, to.index)
           m == next + 1
           outs == {id \in {next} : module = "outlet"}
           none == {}
<1>1. /\ Edit /\ to.parentId # Null
      /\ module = "outlet" => ~TreeHasOutlet(Tree)
      /\ Commit(new, m, none)
      /\ UNCHANGED <<mode, clipboard>>
  BY DEF InsertModule
<1>2. TypeOK /\ next \in Nat /\ IsDocument(Tree, next) /\ Target \in DOMAIN docs /\ Tree = docs[Target]
  BY TypesAre, TargetIs DEF Inv
<1>3. to.parentId \in DOMAIN Tree.nodes /\ to.index \in Int
  <2>1. to \in Place(Tree)
    BY <1>2, InsertLocationIs DEF Ids
  <2> QED BY <1>1, <2>1 DEF Place
<1>4. m \in Nat /\ next < m /\ next <= m
  BY <1>2
<1>5. node \in Node(m) /\ node.children = <<>> /\ node.moduleId = module /\ module # "ref"
  <2> DEFINE root == Tree.rootNodeId
  <2>1. m # 0 /\ module \in Module \union {"body", "ref", "slot-instance"}
    BY <1>2
  <2>2. NodeOK(NewNode(module), root, m)
    BY <1>4, <2>1, NewNodeOK
  <2> QED BY <2>2, NameAssumption DEF NodeOK, Node, NewNode, Module
<1> HIDE DEF to, node
<1>6. Grows(new, Tree, m, none, outs)
  <2>1. Grows(new, Tree, m, UsedBy(node), {id \in {next} : node.moduleId = "outlet"})
    BY <1>2, <1>3, <1>4, <1>5, InsertNodeIs
  <2>2. UsedBy(node) = {}
    BY <1>5 DEF UsedBy
  <2> QED BY <1>5, <2>1, <2>2
<1> HIDE DEF new, m, outs
<1>7. Turn(Target, none, outs) /\ known \union none \subseteq known'
  BY <1>1, <1>2, <1>4, <1>6, CommitIs
<1>8. /\ activePageId' = activePageId /\ activeDocument' = activeDocument
      /\ inlineRef' \in Nat /\ clipboard' = clipboard
  BY <1>1 DEF mode, Inv, TypeOK
<1>9. CASE module # "outlet"
  <2>1. outs = {}
    BY <1>9 DEF outs
  <2>2. edits' \in 0..MaxEdits
    BY <1>1, EditIs
  <2> QED BY <1>7, <1>8, <2>1, <2>2, LikeKeeps
<1>10. CASE module = "outlet"
  <2>1. Content(docs[Target].nodes) = {} /\ outs = {next}
    BY <1>1, <1>2, <1>10 DEF TreeHasOutlet, Content, outs
  <2>2. IsSnapshot(clipboard', next')
    <3>1. IsNodes(clipboard.nodes, next')
      BY <1>2, <1>7, TypesAre, NodesLater DEF IsSnapshot, Turn
    <3> QED BY <1>2, <1>8, <3>1, TypesAre DEF IsSnapshot
  <2>3. Hit("outlet")' = {} =>
           /\ AtMostOne(Content(docs[Target].nodes) \union outs)
           /\ AtMostOne(Content(clipboard'.nodes))
    BY <1>7, <1>8, <2>1, HitsStay DEF Inv, OutletsAreFew, AtMostOne
  <2>4. edits' \in 0..MaxEdits /\ none \subseteq Component \union Hit("slots")'
    BY <1>1, EditIs
  <2> QED BY <1>7, <1>8, <2>2, <2>3, <2>4, TurnKeeps
<1> QED BY <1>9, <1>10

\* deleteNodes
LEMMA DeleteNodesKeeps ==
  ASSUME Inv, NEW ids \in Selection, DeleteNodes(ids)
  PROVE  Inv'
<1> DEFINE list == Keep(ids, Ids \ {Tree.rootNodeId})
           gone == DeleteSubtrees(Tree, list)
           slips == SlotSlips(ids)
<1>1. Edit /\ Commit(gone, next, slips) /\ UNCHANGED <<mode, clipboard>>
  BY DEF DeleteNodes
<1>2. TypeOK /\ next \in Nat /\ next <= next /\ IsDocument(Tree, next)
  BY TypesAre, TargetIs DEF Inv
<1>3. list \in Seq(Nat) /\ Tree.rootNodeId \notin ToSet(list)
  BY <1>2, SelectedIs
<1> HIDE DEF list
<1>4. Grows(gone, Tree, next, {}, {})
  <2>1. Removed(gone, Tree, next, ToSet(list))
    BY <1>2, <1>3, DeleteSubtreesIs
  <2> QED BY <2>1 DEF Removed, Like
<1> HIDE DEF gone, slips
<1>5. Turn(Target, {}, {}) /\ known \union slips \subseteq known'
  BY <1>1, <1>2, <1>4, CommitIs
<1>6. edits' \in 0..MaxEdits /\ inlineRef' \in Nat
  BY <1>1, EditIs DEF mode, Inv, TypeOK
<1> QED BY <1>1, <1>5, <1>6, LikeKeeps DEF mode

\* duplicateNodes
LEMMA DuplicateNodesKeeps ==
  ASSUME Inv, NEW ids \in Selection, DuplicateNodes(ids)
  PROVE  Inv'
<1> DEFINE list == Keep(ids, {id \in Ids : id # Tree.rootNodeId /\ ~SubtreeHasOutlet(Tree, id)})
           done == DuplicateAll(Tree, list, next)
           slips == SlotSlips(ids)
           m == done.next
           new == done.tree
<1>1. Edit /\ Commit(new, m, slips) /\ UNCHANGED <<mode, clipboard>>
  BY DEF DuplicateNodes
<1>2. TypeOK /\ next \in Nat /\ IsDocument(Tree, next)
  BY TypesAre, TargetIs DEF Inv
<1>3. list \in Seq(DOMAIN Tree.nodes)
      /\ \A id \in ToSet(list) : id # Tree.rootNodeId /\ ~SubtreeHasOutlet(Tree, id)
  BY <1>2, SelectedIs DEF Ids
<1> HIDE DEF list
<1>4. m \in Nat /\ next <= m /\ Like(new, Tree, m)
  BY <1>2, <1>3, DuplicateAllIs
<1> HIDE DEF m, new, slips
<1>5. Grows(new, Tree, m, {}, {})
  BY <1>4 DEF Like
<1>6. Turn(Target, {}, {}) /\ known \union slips \subseteq known'
  BY <1>1, <1>2, <1>4, <1>5, CommitIs
<1>7. edits' \in 0..MaxEdits /\ inlineRef' \in Nat
  BY <1>1, EditIs DEF mode, Inv, TypeOK
<1> QED BY <1>1, <1>6, <1>7, LikeKeeps DEF mode

\* wrapNodes
LEMMA WrapKeeps ==
  ASSUME Inv, NEW ids \in Selection, Wrap(ids)
  PROVE  Inv'
<1> DEFINE new == WrapNodes(Tree, ids, next)
           above == ClosestCommonAncestor(Tree, TopLevel(Tree, ids))
           slips == SlotSlips(ids) \union
                      {<<"slots", Tree.nodes[a].componentId>> :
                          a \in {a \in Ids : a = above /\ Tree.nodes[a].moduleId = "ref"}}
           m == next + 1
<1>1. Edit /\ CanWrap(Tree, ids) /\ Commit(new, m, slips) /\ UNCHANGED <<mode, clipboard>>
  BY DEF Wrap
<1>2. TypeOK /\ next \in Nat /\ IsDocument(Tree, next)
  BY TypesAre, TargetIs DEF Inv
<1>3. ids \in Seq(Nat) /\ ids # <<>> /\ Tree.rootNodeId \notin ToSet(ids)
  BY <1>1, <1>2, SelectionIs DEF CanWrap
<1>4. m \in Nat /\ next < m /\ next <= m
  BY <1>2
<1> HIDE DEF m, slips
<1>5. Like(new, Tree, m)
  BY <1>1, <1>2, <1>3, <1>4, WrapNodesIs
<1> HIDE DEF new
<1>6. Grows(new, Tree, m, {}, {})
  BY <1>5 DEF Like
<1>7. Turn(Target, {}, {}) /\ known \union slips \subseteq known'
  BY <1>1, <1>2, <1>4, <1>6, CommitIs
<1>8. edits' \in 0..MaxEdits /\ inlineRef' \in Nat
  BY <1>1, EditIs DEF mode, Inv, TypeOK
<1> QED BY <1>1, <1>7, <1>8, LikeKeeps DEF mode

\* A drag.
LEMMA DropKeeps ==
  ASSUME Inv, NEW ids \in Selection, NEW dragged, NEW over \in Ids, NEW zone \in Zone,
         Drop(ids, dragged, over, zone)
  PROVE  Inv'
<1> DEFINE to == ResolveDropTarget(Tree, dragged, ids, over, zone)
           new == MoveNodes(Tree, ids, to.parentId, to.index)
<1>1. Edit /\ to # Nowhere /\ Commit(new, next, {}) /\ UNCHANGED <<mode, clipboard>>
  BY DEF Drop
<1>2. TypeOK /\ next \in Nat /\ next <= next /\ IsDocument(Tree, next)
  BY TypesAre, TargetIs DEF Inv
<1>3. ids \in Seq(Nat)
  BY <1>2, SelectionIs
<1>4. zone \in {"before", "after", "inside"} /\ over \in DOMAIN Tree.nodes
  BY NameAssumption DEF Ids
<1>5. /\ to.parentId \in DOMAIN Tree.nodes
      /\ to.index \in Int
      /\ Tree.rootNodeId \notin ToSet(ids)
  BY <1>1, <1>2, <1>3, <1>4, DropTargetIs
<1> HIDE DEF to
<1>6. Like(new, Tree, next)
  BY <1>2, <1>3, <1>5, MoveNodesIs
<1> HIDE DEF new
<1>7. Grows(new, Tree, next, {}, {})
  BY <1>6 DEF Like
<1> DEFINE slips == {}
<1>8. Turn(Target, {}, {}) /\ known \union slips \subseteq known'
  BY <1>1, <1>2, <1>7, CommitIs
<1>9. edits' \in 0..MaxEdits /\ inlineRef' \in Nat
  BY <1>1, EditIs DEF mode, Inv, TypeOK
<1> QED BY <1>1, <1>8, <1>9, LikeKeeps DEF mode

\* updateNodeProps of an outlet's name.
LEMMA RenameOutletKeeps ==
  ASSUME Inv, NEW id \in Ids, NEW name \in SlotName, RenameOutlet(id, name)
  PROVE  Inv'
<1> DEFINE new == [Tree EXCEPT !.nodes[id].slotName = name]
           slips == {}
<1>1. Edit /\ Commit(new, next, slips) /\ UNCHANGED <<mode, clipboard>>
  BY DEF RenameOutlet
<1>2. TypeOK /\ next \in Nat /\ next <= next /\ IsDocument(Tree, next) /\ id \in DOMAIN Tree.nodes
  BY TypesAre, TargetIs DEF Inv, Ids
<1>3. Like(new, Tree, next)
  BY <1>2, RenamedIs
<1> HIDE DEF new
<1>4. Grows(new, Tree, next, {}, {})
  BY <1>3 DEF Like
<1>5. Turn(Target, {}, {}) /\ known \union slips \subseteq known'
  BY <1>1, <1>2, <1>4, CommitIs
<1>6. edits' \in 0..MaxEdits /\ inlineRef' \in Nat
  BY <1>1, EditIs DEF mode, Inv, TypeOK
<1> QED BY <1>1, <1>5, <1>6, LikeKeeps DEF mode

-----------------------------------------------------------------------------
\* Copy, cut, paste and new refs.

\* What is copied is never the root.
LEMMA CopiedIs ==
  ASSUME TypeOK, NEW ids \in Selection
  PROVE  /\ Copied(ids) \in Seq(Nat) /\ Copied(ids) \in Seq(Ids)
         /\ Tree.rootNodeId \notin ToSet(Copied(ids))
<1> DEFINE list == Keep(ids, Ids \ {Tree.rootNodeId})
<1>1. list \in Seq(Nat) /\ list \in Seq(Ids) /\ Tree.rootNodeId \notin ToSet(list)
  BY SelectedIs
<1>2. Copied(ids) = TopLevel(Tree, list)
  BY DEF Copied
<1> HIDE DEF list
<1>3. TopLevel(Tree, list) \in Seq(Nat)
  BY <1>1, TopLevelIs
<1>4. TopLevel(Tree, list) \in Seq(Ids)
  BY <1>1, TopLevelIs
<1>5. ToSet(TopLevel(Tree, list)) \subseteq ToSet(list)
  BY <1>1, TopLevelIs
<1> QED BY <1>1, <1>2, <1>3, <1>4, <1>5

\* The clipboard stays well-formed as ids are handed out.
LEMMA SnapshotLater ==
  ASSUME NEW n \in Nat, NEW m \in Nat, n <= m, NEW snapshot, IsSnapshot(snapshot, n)
  PROVE  IsSnapshot(snapshot, m)
<1>1. IsNodes(snapshot.nodes, m)
  BY NodesLater DEF IsSnapshot
<1> QED BY <1>1 DEF IsSnapshot

\* copyNodes
LEMMA CopyNodesKeeps ==
  ASSUME Inv, NEW ids \in Selection, CopyNodes(ids)
  PROVE  Inv'
<1> DEFINE snapshot == Snapshot(Tree, Copied(ids))
           target == Target
<1>1. Edit /\ clipboard' = snapshot /\ known \subseteq known' /\ UNCHANGED <<docs, mode, next>>
  BY DEF CopyNodes
<1>2. TypeOK /\ next \in Nat /\ IsDocument(Tree, next) /\ target \in DOMAIN docs /\ Tree = docs[target]
  BY TypesAre, TargetIs DEF Inv
<1>3. IsSnapshot(snapshot, next) /\ Content(snapshot.nodes) \subseteq Content(Tree.nodes)
  <2> DEFINE roots == Copied(ids)
  <2>1. roots \in Seq(DOMAIN Tree.nodes)
    BY <1>2, CopiedIs DEF Ids
  <2> HIDE DEF roots
  <2>2. IsSnapshot(Snapshot(Tree, roots), next)
        /\ Content(Snapshot(Tree, roots).nodes) \subseteq Content(Tree.nodes)
    BY <1>2, <2>1, SnapshotIs
  <2> QED BY <2>2 DEF roots
<1> HIDE DEF snapshot, target
<1>4. Turn(target, {}, {})
  BY <1>1, <1>2, TypesAre DEF Turn
<1>5. edits' \in 0..MaxEdits /\ inlineRef' \in Nat
  BY <1>1, EditIs DEF mode, Inv, TypeOK
<1>6. IsSnapshot(clipboard', next') /\ Content(clipboard'.nodes) \subseteq Content(docs[target].nodes)
  BY <1>1, <1>2, <1>3
<1> QED BY <1>1, <1>2, <1>4, <1>5, <1>6, LikeKeeps DEF mode

\* cutNodes
LEMMA CutNodesKeeps ==
  ASSUME Inv, NEW ids \in Selection, CutNodes(ids)
  PROVE  Inv'
<1> DEFINE list == Copied(ids)
           gone == DeleteSubtrees(Tree, list)
           snapshot == Snapshot(Tree, list)
           slips == SlotSlips(ids) \union Spread(activePageId, Null)
           target == Target
<1>1. Edit /\ Commit(gone, next, slips) /\ clipboard' = snapshot /\ UNCHANGED mode
  BY DEF CutNodes
<1>2. /\ TypeOK /\ next \in Nat /\ next <= next /\ IsDocument(Tree, next)
      /\ target \in DOMAIN docs /\ Tree = docs[target]
  BY TypesAre, TargetIs DEF Inv
<1>3. list \in Seq(Nat) /\ list \in Seq(DOMAIN Tree.nodes) /\ Tree.rootNodeId \notin ToSet(list)
  BY <1>2, CopiedIs DEF Ids
<1> HIDE DEF list
<1>4. Grows(gone, Tree, next, {}, {})
  <2>1. Removed(gone, Tree, next, ToSet(list))
    BY <1>2, <1>3, DeleteSubtreesIs
  <2> QED BY <2>1 DEF Removed, Like
<1>5. IsSnapshot(snapshot, next) /\ Content(snapshot.nodes) \subseteq Content(Tree.nodes)
  BY <1>2, <1>3, SnapshotIs
<1> HIDE DEF gone, slips, snapshot
<1>6. Turn(Target, {}, {}) /\ known \union slips \subseteq known'
  BY <1>1, <1>2, <1>4, CommitIs
<1> HIDE DEF target
<1>7. Turn(target, {}, {})
  BY <1>6 DEF target
<1>8. edits' \in 0..MaxEdits /\ inlineRef' \in Nat
  BY <1>1, EditIs DEF mode, Inv, TypeOK
<1>9. IsSnapshot(clipboard', next') /\ Content(clipboard'.nodes) \subseteq Content(docs[target].nodes)
  BY <1>1, <1>2, <1>5, <1>7, SnapshotLater DEF Turn
<1> QED BY <1>1, <1>2, <1>6, <1>7, <1>8, <1>9, LikeKeeps DEF mode

\* pasteNodes: the only edit of a page that may bring a use of a component that
\* is gone; it is in known then.
LEMMA PasteKeeps ==
  ASSUME Inv, NEW target \in Ids, Paste(target)
  PROVE  Inv'
<1> DEFINE to == InsertLocation(Tree, target)
           roots == clipboard.rootNodeIds
           ids == DOMAIN clipboard.nodes
           stale == {i \in 1..(Len(roots) - 1) :
                        clipboard.nodes[roots[i]].parentId # to.parentId}
           new == PasteSnapshot(Tree, clipboard, to.parentId, to.index, next)
           m == next + Cardinality(ids)
           map == FreshIds(ids, next)
           lost == {<<"slots", clipboard.nodes[r].componentId>> : r \in Outdated}
           slips == {<<"parent", map[roots[i]]>> : i \in stale} \union lost
                    \union Spread(Null, activePageId)
           comps == Used(clipboard.nodes)
           content == Content(clipboard.nodes)
           outs == {map[id] : id \in content}
<1>1. /\ Edit /\ OnPage /\ roots # <<>> /\ to.parentId # Null
      /\ ~(TreeHasOutlet(Tree) /\ TreeHasOutlet(clipboard))
      /\ Commit(new, m, slips)
      /\ UNCHANGED <<mode, clipboard>>
  BY DEF Paste
<1>2. /\ TypeOK /\ next \in Nat /\ IsDocument(Tree, next) /\ IsSnapshot(clipboard, next)
      /\ Target \in DOMAIN docs /\ Tree = docs[Target] /\ Target \in Page
  BY <1>1, TypesAre, TargetIs DEF Inv, OnPage, TypeOK
<1>3. to.parentId \in DOMAIN Tree.nodes /\ to.index \in Int
  <2>1. to \in Place(Tree)
    BY <1>2, InsertLocationIs DEF Ids
  <2> QED BY <1>1, <2>1 DEF Place
<1> HIDE DEF to, stale
<1>4. m \in Nat /\ next <= m /\ Grows(new, Tree, m, comps, outs)
  BY <1>1, <1>2, <1>3, PasteSnapshotIs
<1>5. ASSUME NEW c \in comps PROVE c \in Component \/ <<"slots", c>> \in slips
  BY DEF Used, Outdated
<1>6. Hit("outlet") = {} => /\ AtMostOne(Content(docs[Target].nodes)) /\ AtMostOne(content)
                            /\ Content(docs[Target].nodes) = {} \/ content = {}
  BY <1>1, <1>2 DEF Inv, OutletsAreFew, Few, TreeHasOutlet, Content
<1> HIDE DEF new, m, slips, comps, lost
<1>7. Turn(Target, comps, outs) /\ known \union slips \subseteq known'
  BY <1>1, <1>2, <1>4, CommitIs
<1>8. comps \subseteq Component \union Hit("slots")'
  <2>1. ASSUME NEW c \in comps, <<"slots", c>> \in slips
        PROVE  c \in Hit("slots")'
    <3> DEFINE k == <<"slots", c>>
    <3>1. k \in known' /\ k[1] = "slots" /\ k[2] = c
      BY <1>7, <2>1
    <3> HIDE DEF k
    <3> QED BY <3>1 DEF Hit
  <2> QED BY <1>5, <2>1
<1> HIDE DEF map
<1>9. Hit("outlet")' = {} =>
         /\ AtMostOne(Content(docs[Target].nodes) \union outs)
         /\ AtMostOne(Content(clipboard'.nodes))
  BY <1>1, <1>6, <1>7, HitsStay DEF AtMostOne
<1>10. edits' \in 0..MaxEdits /\ inlineRef' \in Nat
  BY <1>1, EditIs DEF mode, Inv, TypeOK
<1>11. IsSnapshot(clipboard', next')
  BY <1>1, <1>2, <1>7, SnapshotLater DEF Turn
<1> HIDE DEF outs, content
<1>12. /\ activePageId' = activePageId /\ activeDocument' = activeDocument
       /\ known \subseteq known'
  BY <1>1, <1>7 DEF mode
<1> QED BY <1>2, <1>7, <1>8, <1>9, <1>10, <1>11, <1>12, TurnKeeps

\* A ref to a component put into the tree, with its slots.
LEMMA InsertComponentRefKeeps ==
  ASSUME Inv, NEW target \in Ids, NEW comp \in Component, InsertComponentRef(target, comp)
  PROVE  Inv'
<1> DEFINE to == InsertLocation(Tree, target)
           node == [NewNode("ref") EXCEPT !.componentId = comp, !.parentId = to.parentId]
           names == OutletNames(docs[comp])
           placed == InsertNode(Tree, next, node, to.parentId, to.index)
           synced == SyncSlotInstances(placed.nodes, next, node, names, next)
           new == [placed EXCEPT !.nodes = synced]
           m == next + 1 + Len(names)
           b == next + 1
           slips == {<<"cycle", Target>> : h \in
                        {h \in {Target} : h \in Component /\ WouldCreateCycle(docs, h, comp)}}
           comps == {comp}
           none == {}
<1>1. /\ Edit /\ to.parentId # Null
      /\ Commit(new, m, slips)
      /\ UNCHANGED <<mode, clipboard>>
  BY DEF InsertComponentRef
<1>2. /\ TypeOK /\ next \in Nat /\ IsDocument(Tree, next) /\ IsDocument(docs[comp], next)
      /\ Target \in DOMAIN docs /\ Tree = docs[Target] /\ IsSnapshot(clipboard, next)
      /\ comp \in 0..(next - 1) /\ comp \notin Page
  BY TypesAre, TargetIs, DocumentsAre DEF Inv, Component
<1>3. to.parentId \in DOMAIN Tree.nodes /\ to.index \in Int /\ to.parentId \in Nat
  <2>1. to \in Place(Tree)
    BY <1>2, InsertLocationIs DEF Ids
  <2>2. to.parentId \in DOMAIN Tree.nodes /\ to.index \in Int
    BY <1>1, <2>1 DEF Place
  <2> HIDE DEF to
  <2> QED BY <1>2, <2>2, DocumentLists
<1>4. names \in Seq(Name)
  BY <1>2, OutletNamesTyped
<1> HIDE DEF to, names
<1>5. Len(names) \in Nat
  BY <1>4
<1>6. /\ b \in Nat /\ next < b /\ b <= next + 1 /\ m = next + 1 + Len(names)
      /\ m \in Nat /\ next <= m /\ b <= m
  BY <1>2, <1>5
<1>7. /\ node \in Node(b) /\ node.children = <<>> /\ node.moduleId = "ref"
      /\ node.componentId = comp
  <2> DEFINE root == Tree.rootNodeId
  <2>1. b # 0 /\ "ref" \in Module \union {"body", "ref", "slot-instance"}
    BY <1>2
  <2>2. NodeOK(NewNode("ref"), root, b)
    BY <1>6, <2>1, NewNodeOK
  <2>3. comp \in (0..(b - 1)) \ Page
    BY <1>2
  <2> QED BY <1>3, <2>2, <2>3 DEF NodeOK, Node, NewNode
<1> HIDE DEF node, b, m
<1>8. Grows(placed, Tree, b, comps, none)
  <2>1. Grows(placed, Tree, b, UsedBy(node), {id \in {next} : node.moduleId = "outlet"})
    BY <1>2, <1>3, <1>6, <1>7, InsertNodeIs
  <2>2. UsedBy(node) = comps /\ {id \in {next} : node.moduleId = "outlet"} = none
    BY <1>7 DEF UsedBy
  <2> QED BY <2>1, <2>2
<1> HIDE DEF placed
<1>9. IsDocument(placed, b)
  BY <1>8 DEF Grows
<1>10. Sound(placed.nodes, placed.rootNodeId, b)
  BY <1>6, <1>9, DocumentLists
<1>11. NodeOK(node, placed.rootNodeId, b)
  BY <1>7 DEF NodeOK, ToSet
<1>12. Synced(synced, placed.nodes, placed.rootNodeId, m)
  <2> DEFINE root == placed.rootNodeId
  <2> HIDE DEF root
  <2>1. Sound(placed.nodes, root, b) /\ NodeOK(node, root, b)
    BY <1>10, <1>11 DEF root
  <2>2. Synced(synced, placed.nodes, root, m)
    BY <1>2, <1>4, <1>6, <2>1, SyncSlotInstancesIs
  <2> QED BY <2>2 DEF root
<1> HIDE DEF synced
<1>13. Like(new, placed, m)
  BY <1>6, <1>9, <1>12, LikeNodes DEF Synced
<1> HIDE DEF new, comps, none
<1>14. Grows(new, Tree, m, comps, none)
  BY <1>8, <1>13, GrowsOn
<1> HIDE DEF slips
<1>15. Turn(Target, comps, none) /\ known \union slips \subseteq known'
  BY <1>1, <1>2, <1>6, <1>14, CommitIs
<1>16. comps \subseteq Component \union Hit("slots")'
  BY DEF comps
<1>17. \/ comps = {} \/ Target \in Page \/ Hit("cycle")' # {}
       \/ \E c \in Component : comps = {c} /\ ~WouldCreateCycle(docs, Target, c)
  <2>1. CASE Target \in Component /\ WouldCreateCycle(docs, Target, comp)
    <3>1. <<"cycle", Target>> \in known'
      BY <1>15, <2>1 DEF slips
    <3> QED BY <3>1 DEF Hit
  <2>2. CASE Target \in Component /\ ~WouldCreateCycle(docs, Target, comp)
    BY <2>2 DEF comps
  <2>3. CASE Target \notin Component
    BY <1>2, <2>3 DEF Component
  <2> QED BY <2>1, <2>2, <2>3
<1>18. Hit("outlet")' = {} =>
          /\ AtMostOne(Content(docs[Target].nodes) \union none)
          /\ AtMostOne(Content(clipboard'.nodes))
  BY <1>1, <1>2, <1>15, HitsStay DEF Inv, OutletsAreFew, Few, AtMostOne, none
<1>19. edits' \in 0..MaxEdits /\ inlineRef' \in Nat
  BY <1>1, EditIs DEF mode, Inv, TypeOK
<1>20. IsSnapshot(clipboard', next')
  BY <1>1, <1>2, <1>15, SnapshotLater DEF Turn
<1>21. /\ activePageId' = activePageId /\ activeDocument' = activeDocument
       /\ known \subseteq known'
  BY <1>1, <1>15 DEF mode
<1> QED BY <1>15, <1>16, <1>17, <1>18, <1>19, <1>20, <1>21, TurnKeeps

-----------------------------------------------------------------------------
\* Creating and deleting components, and their slots.

\* What keeps the invariant when documents come, go or are replaced.
LEMMA DocsKeep ==
  ASSUME Inv, next' \in Nat, next <= next', IsDocuments(docs', next'), known \subseteq known',
         activePageId' = activePageId,
         activeDocument' \in (DOMAIN docs' \ Page) \union {Null},
         inlineRef' \in Nat, clipboard' = clipboard, edits' \in 0..MaxEdits,
         \A d \in DOMAIN docs' : Used(docs'[d].nodes) \subseteq (DOMAIN docs' \ Page) \union Hit("slots")',
         \A d \in DOMAIN docs' \ Page :
            \/ d \in DOMAIN docs /\ Used(docs'[d].nodes) \subseteq Used(docs[d].nodes)
            \/ /\ d \notin 0..(next - 1)
               /\ \E x \in DOMAIN docs : Used(docs'[d].nodes) \subseteq Used(docs[x].nodes),
         Hit("outlet")' = {} => Few(docs')
  PROVE  Inv'
<1>1. IsSnapshot(clipboard', next') /\ next \in Nat /\ IsDocuments(docs, next)
  BY TypesAre, SnapshotLater DEF Inv
<1>2. TypeOK'
  BY <1>1 DEF TypeOK, Inv, Component
<1>3. RefsResolve'
  <2>1. \A d \in DOMAIN docs' : ReferencedComponentIds(docs'[d]) = Used(docs'[d].nodes)
    BY DEF ReferencedComponentIds, Used
  <2> QED BY <2>1 DEF RefsResolve, Component
<1>4. NoComponentInItself'
  <2>1. SUFFICES ASSUME Hit("cycle")' = {} PROVE Acyclic(docs')
    BY DEF NoComponentInItself, Acyclic, Component
  <2>2. Hit("cycle") = {}
    BY <2>1, HitsStay
  <2>3. Acyclic(docs)
    BY <2>2 DEF Inv, NoComponentInItself, Acyclic, Component
  <2> DEFINE new == docs'
  <2>4. \A d \in DOMAIN new \ Page :
           \/ d \in DOMAIN docs /\ Uses(new, d) \subseteq Uses(docs, d)
           \/ d \notin 0..(next - 1) /\ Uses(new, d) \subseteq UNION {Uses(docs, x) : x \in DOMAIN docs}
    BY UsesAre
  <2> HIDE DEF new
  <2>5. Acyclic(new)
    BY <1>1, <2>3, <2>4, StaysAcyclic
  <2> QED BY <2>5 DEF new
<1>5. OutletsAreFew'
  BY HitsStay DEF Inv, OutletsAreFew
<1> QED BY <1>2, <1>3, <1>4, <1>5 DEF Inv

\* A new component: a body and nothing in it.
LEMMA EmptyBody ==
  ASSUME NEW n \in Nat, NEW m \in Nat, NEW id \in Nat, n <= id, 0 < id, id < m,
         NEW tree, tree = [rootNodeId |-> id, nodes |-> [k \in {id} |-> NewNode("body")]]
  PROVE  IsDocument(tree, m) /\ Used(tree.nodes) = {} /\ Content(tree.nodes) = {}
<1> DEFINE nodes == [k \in {id} |-> NewNode("body")]
<1>1. NodeOK(NewNode("body"), id, m) /\ NewNode("body").moduleId = "body"
  BY NewNodeOK
<1>2. Sound(nodes, id, m)
  BY <1>1 DEF Sound
<1>3. tree.nodes = nodes /\ tree.rootNodeId = id
  OBVIOUS
<1>4. Used(nodes) = {} /\ Content(nodes) = {}
  BY <1>1 DEF Used, Content
<1> HIDE DEF nodes
<1> QED BY <1>2, <1>3, <1>4, DocumentIs

\* createVisualComponent
LEMMA CreateComponentKeeps ==
  ASSUME Inv, CreateComponent
  PROVE  Inv'
<1> DEFINE id == next + 1
           m == next + 2
           comp == next
           tree == [rootNodeId |-> id, nodes |-> [k \in {id} |-> NewNode("body")]]
<1>1. Edit /\ docs' = With(docs, comp, tree) /\ next' = m /\ UNCHANGED <<mode, clipboard, known>>
  BY DEF CreateComponent
<1>2. next \in Nat /\ IsDocuments(docs, next) /\ DOMAIN docs \subseteq 1..(next - 1)
      /\ Page \subseteq DOMAIN docs
  BY TypesAre, DocumentsAre DEF Inv
<1>3. id \in Nat /\ m \in Nat /\ next <= m /\ next <= id /\ 0 < id /\ id < m
      /\ comp \in 1..(m - 1) /\ comp \notin DOMAIN docs /\ comp \notin 0..(next - 1)
  <2>1. 1 <= next
    BY <1>2, PageAssumption
  <2> QED BY <1>2, <2>1
<1>4. IsDocument(tree, m) /\ Used(tree.nodes) = {} /\ Content(tree.nodes) = {}
  <2> HIDE DEF id, m
  <2> QED BY <1>2, <1>3, EmptyBody
<1> HIDE DEF tree, id, m, comp
<1>5. /\ DOMAIN docs' = DOMAIN docs \union {comp}
      /\ docs' = [d \in DOMAIN docs' |-> docs'[d]]
      /\ docs'[comp] = tree
      /\ \A d \in DOMAIN docs : docs'[d] = docs[d]
  BY <1>1, <1>3 DEF With
<1>6. IsDocuments(docs', next')
  <2>1. \A d \in DOMAIN docs : IsDocument(docs[d], m)
    BY <1>2, <1>3, DocumentsAre, DocumentsLater
  <2>2. \A d \in DOMAIN docs' : IsDocument(docs'[d], m)
    BY <1>4, <1>5, <2>1
  <2>3. DOMAIN docs' \subseteq 1..(m - 1)
    BY <1>2, <1>3, <1>5
  <2> QED BY <1>1, <1>2, <1>5, <2>2, <2>3 DEF IsDocuments
<1>7. \A d \in DOMAIN docs' : Used(docs'[d].nodes) \subseteq (DOMAIN docs' \ Page) \union Hit("slots")'
  BY <1>1, <1>4, <1>5, ResolveIs DEF Inv, Component, Hit
<1>8. \A d \in DOMAIN docs' \ Page :
         \/ d \in DOMAIN docs /\ Used(docs'[d].nodes) \subseteq Used(docs[d].nodes)
         \/ d \notin 0..(next - 1) /\ \E x \in DOMAIN docs : Used(docs'[d].nodes) \subseteq Used(docs[x].nodes)
  BY <1>2, <1>3, <1>4, <1>5, PageAssumption
<1>9. Hit("outlet")' = {} => Few(docs')
  BY <1>1, <1>4, <1>5 DEF Inv, OutletsAreFew, Few, AtMostOne, Hit
<1>10. /\ activePageId' = activePageId
       /\ activeDocument' \in (DOMAIN docs' \ Page) \union {Null}
       /\ inlineRef' \in Nat /\ clipboard' = clipboard
  BY <1>1, <1>5 DEF mode, Inv, TypeOK, Component
<1>11. edits' \in 0..MaxEdits
  BY <1>1, EditIs
<1> QED BY <1>1, <1>3, <1>6, <1>7, <1>8, <1>9, <1>10, <1>11, DocsKeep

\* deleteVisualComponent: no use of it is left anywhere.
LEMMA DeleteComponentKeeps ==
  ASSUME Inv, NEW comp \in Component, DeleteComponent(comp)
  PROVE  Inv'
<1> DEFINE left == [d \in DOMAIN docs \ {comp} |-> CascadeRemoveRefs(docs[d], comp)]
<1>1. /\ Edit /\ docs' = left /\ next' = next /\ known \subseteq known'
      /\ activeDocument' = IF activeDocument = comp THEN Null ELSE activeDocument
      /\ UNCHANGED <<activePageId, inlineRef, clipboard>>
  BY DEF DeleteComponent
<1>2. next \in Nat /\ next <= next /\ IsDocuments(docs, next) /\ DOMAIN docs \subseteq 1..(next - 1)
      /\ Page \subseteq DOMAIN docs /\ comp \notin Page
  BY TypesAre, DocumentsAre DEF Inv, Component
<1>3. ASSUME NEW d \in DOMAIN docs
      PROVE  /\ IsDocument(CascadeRemoveRefs(docs[d], comp), next)
             /\ Used(CascadeRemoveRefs(docs[d], comp).nodes) \subseteq Used(docs[d].nodes) \ {comp}
             /\ Content(CascadeRemoveRefs(docs[d], comp).nodes) \subseteq Content(docs[d].nodes)
  <2>1. IsDocument(docs[d], next)
    BY <1>2, DocumentsAre
  <2> DEFINE new == CascadeRemoveRefs(docs[d], comp)
  <2>2. Like(new, docs[d], next) /\ comp \notin Used(new.nodes)
    BY <1>2, <2>1, CascadeIs
  <2> HIDE DEF new
  <2>3. IsDocument(new, next) /\ Used(new.nodes) \subseteq Used(docs[d].nodes) \ {comp}
        /\ Content(new.nodes) \subseteq Content(docs[d].nodes)
    BY <2>2 DEF Like, Grows
  <2> QED BY <2>3 DEF new
<1>4. DOMAIN docs' = DOMAIN docs \ {comp} /\ docs' = [d \in DOMAIN docs' |-> docs'[d]]
  BY <1>1
<1>5. \A d \in DOMAIN docs' : /\ IsDocument(docs'[d], next)
                              /\ Used(docs'[d].nodes) \subseteq Used(docs[d].nodes) \ {comp}
                              /\ Content(docs'[d].nodes) \subseteq Content(docs[d].nodes)
  BY <1>1, <1>3
<1> HIDE DEF left
<1>6. IsDocuments(docs', next')
  BY <1>1, <1>2, <1>4, <1>5 DEF IsDocuments
<1>7. \A d \in DOMAIN docs' : Used(docs'[d].nodes) \subseteq (DOMAIN docs' \ Page) \union Hit("slots")'
  BY <1>1, <1>4, <1>5, ResolveIs, HitsStay DEF Inv, Component
<1>8. \A d \in DOMAIN docs' \ Page : d \in DOMAIN docs /\ Used(docs'[d].nodes) \subseteq Used(docs[d].nodes)
  BY <1>4, <1>5
<1>9. Hit("outlet")' = {} => Few(docs')
  <2>1. Hit("outlet")' = {} => Few(docs)
    BY <1>1, HitsStay DEF Inv, OutletsAreFew
  <2> QED BY <1>4, <1>5, <2>1 DEF Few, AtMostOne
<1>10. /\ activePageId' = activePageId
       /\ activeDocument' \in (DOMAIN docs' \ Page) \union {Null}
       /\ inlineRef' \in Nat /\ clipboard' = clipboard
  BY <1>1, <1>4 DEF Inv, TypeOK, Component
<1>11. edits' \in 0..MaxEdits
  BY <1>1, EditIs
<1> QED BY <1>1, <1>2, <1>6, <1>7, <1>8, <1>9, <1>10, <1>11, DocsKeep

\* addParam, renameParam, removeParamWithCleanup
LEMMA ChangeSlotParamKeeps ==
  ASSUME Inv, NEW comp \in Component, ChangeSlotParam(comp)
  PROVE  Inv'
<1> DEFINE swept == SyncAllRefs(docs, comp, next)
<1>1. /\ Edit /\ docs' = swept.docs /\ next' = swept.next /\ known \subseteq known'
      /\ UNCHANGED <<mode, clipboard>>
  BY DEF ChangeSlotParam
<1>2. next \in Nat /\ IsDocuments(docs, next) /\ comp \in DOMAIN docs
  BY TypesAre DEF Inv, Component
<1>3. SweptTo(swept, docs, next)
  BY <1>2, SyncAllRefsIs
<1> HIDE DEF swept
<1>4. next' \in Nat /\ next <= next' /\ Alike(docs', docs, next')
  BY <1>1, <1>3 DEF SweptTo
<1>5. ASSUME NEW d \in DOMAIN docs
      PROVE  /\ Used(docs'[d].nodes) \subseteq Used(docs[d].nodes)
             /\ Content(docs'[d].nodes) \subseteq Content(docs[d].nodes)
  <2>1. Narrows(docs'[d].nodes, docs[d].nodes)
    BY <1>4 DEF Alike
  <2> QED BY <2>1, NarrowsKeeps
<1>6. Turn(comp, {}, {})
  BY <1>2, <1>4, <1>5 DEF Turn, Alike
<1>7. edits' \in 0..MaxEdits /\ inlineRef' \in Nat
  BY <1>1, EditIs DEF mode, Inv, TypeOK
<1> QED BY <1>1, <1>6, <1>7, LikeKeeps DEF mode

-----------------------------------------------------------------------------
\* Convert and detach.

\* convertNodeToComponent: the page uses the new component, which uses what the
\* subtree used; nothing used the new component's id before.
LEMMA ConvertKeeps ==
  ASSUME Inv, NEW id \in DOMAIN docs[activePageId].nodes, Convert(id)
  PROVE  Inv'
<1> DEFINE page == docs[activePageId]
           comp == next
           ref == next + 1
           from == next + 2
           m == next + 3 + Cardinality(Subtree(page, id))
           map == FreshIds(Subtree(page, id), from + 1)
           made == ExtractedComponent(page, id, from)
           left == ReplacedByRef(page, id, comp, ref)
           edited == [docs EXCEPT ![activePageId] = left]
<1>1. /\ Edit /\ page.nodes[id].moduleId # "body"
      /\ SiblingAfter(page, id) # Nowhere
      /\ docs' = With(edited, comp, made)
      /\ next' = m /\ activeDocument' = comp /\ known \subseteq known'
      /\ UNCHANGED <<activePageId, inlineRef, clipboard>>
  BY DEF Convert
<1>2. /\ next \in Nat /\ IsDocuments(docs, next) /\ activePageId \in DOMAIN docs /\ activePageId \in Page
      /\ IsDocument(page, next) /\ Page \subseteq DOMAIN docs /\ DOMAIN docs \subseteq 1..(next - 1)
      /\ docs = [d \in DOMAIN docs |-> docs[d]]
  BY TypesAre, DocumentsAre DEF Inv, TypeOK
<1> HIDE DEF page
<1>3. id \in DOMAIN page.nodes /\ id # page.rootNodeId
  <2>1. id \in DOMAIN page.nodes
    BY DEF page
  <2>2. page.nodes[page.rootNodeId].moduleId = "body"
    BY <1>2, DocumentLists DEF Sound
  <2> QED BY <1>1, <2>1, <2>2
<1>4. SiblingAfter(page, id).parentId # Null
  <2> DEFINE listing == {p \in DOMAIN page.nodes : Contains(page.nodes[p].children, id)}
             p == CHOOSE p \in listing : \A q \in listing : p <= q
  <2>1. listing # {} /\ SiblingAfter(page, id).parentId = p
    BY <1>1 DEF SiblingAfter, Nowhere
  <2>2. listing \subseteq DOMAIN page.nodes /\ DOMAIN page.nodes \subseteq 1..(next - 1)
    BY <1>2, DocumentLists DEF Sound
  <2>3. listing \subseteq Nat
    BY <2>2
  <2> HIDE DEF listing
  <2>4. \E x \in listing : \A y \in listing : x <= y
    BY <2>1, <2>3, Least
  <2>5. p \in listing
    BY <2>4
  <2> HIDE DEF p
  <2> QED BY <2>1, <2>2, <2>5 DEF Null
<1>5. /\ from \in Nat /\ next <= from /\ m = from + 1 + Cardinality(Subtree(page, id))
      /\ ref \in Nat /\ next <= ref /\ comp \notin DOMAIN docs /\ comp \notin Page /\ 1 <= next
  <2>1. IsFiniteSet(Subtree(page, id))
    <3>1. Subtree(page, id) \subseteq DOMAIN page.nodes /\ IsFiniteSet(DOMAIN page.nodes)
      BY <1>2, <1>3, DocumentLists, SubtreeIs DEF Lists
    <3> QED BY <3>1, FS_Subset
  <2>2. Cardinality(Subtree(page, id)) \in Nat
    BY <2>1, FS_CardinalityType
  <2>3. 1 <= next
    BY <1>2
  <2> DEFINE card == Cardinality(Subtree(page, id))
  <2>4. card \in Nat
    BY <2>2
  <2> HIDE DEF card
  <2>5. next + 3 + card = next + 2 + 1 + card
    BY <1>2, <2>4
  <2> QED BY <1>2, <2>3, <2>5 DEF card
<1> DEFINE outs == {map[i] : i \in Content(page.nodes)}
<1>6. /\ m \in Nat /\ from < m /\ IsDocument(made, m)
      /\ Used(made.nodes) \subseteq Used(page.nodes)
      /\ Content(made.nodes) \subseteq outs
  <2> HIDE DEF from, m
  <2>1. Extracted(made, page, id, from, m)
    BY <1>2, <1>3, <1>5, ExtractedIs
  <2> HIDE DEF made
  <2> QED BY <2>1 DEF Extracted
<1>7. ref < m /\ next <= m /\ comp \in (0..(m - 1)) \ Page
  BY <1>2, <1>5, <1>6
<1> HIDE DEF made, from, m, map
<1>8. Grows(left, page, m, {comp}, {})
  <2> HIDE DEF ref, comp
  <2> QED BY <1>2, <1>3, <1>4, <1>5, <1>6, <1>7, ReplacedIs
<1> HIDE DEF left, ref
<1>9. /\ DOMAIN docs' = DOMAIN docs \union {comp}
      /\ docs' = [d \in DOMAIN docs' |-> docs'[d]]
      /\ docs'[comp] = made
      /\ docs'[activePageId] = left
      /\ \A d \in DOMAIN docs \ {activePageId} : docs'[d] = docs[d]
  <2>1. docs' = [d \in DOMAIN docs \union {comp} |->
                    IF d = comp THEN made ELSE IF d = activePageId THEN left ELSE docs[d]]
    BY <1>1, <1>2, <1>5 DEF With
  <2> HIDE DEF edited, comp
  <2> QED BY <1>2, <1>5, <2>1
<1> HIDE DEF edited
<1>10. /\ IsDocument(left, m)
       /\ Used(left.nodes) \subseteq Used(page.nodes) \union {comp}
       /\ Content(left.nodes) \subseteq Content(page.nodes)
  BY <1>8 DEF Grows
<1>11. IsDocuments(docs', next')
  <2>1. \A d \in DOMAIN docs : IsDocument(docs[d], m)
    BY <1>2, <1>6, <1>7, DocumentsAre, DocumentsLater
  <2>2. \A d \in DOMAIN docs' : IsDocument(docs'[d], m)
    BY <1>6, <1>9, <1>10, <2>1
  <2>3. DOMAIN docs' \subseteq 1..(m - 1)
    BY <1>2, <1>5, <1>6, <1>7, <1>9
  <2> QED BY <1>1, <1>2, <1>9, <2>2, <2>3 DEF IsDocuments
<1>12. \A d \in DOMAIN docs' : Used(docs'[d].nodes) \subseteq (DOMAIN docs' \ Page) \union Hit("slots")'
  <2>1. Hit("slots") \subseteq Hit("slots")'
    BY <1>1, HitsStay
  <2>2. \A d \in DOMAIN docs : Used(docs[d].nodes) \subseteq (DOMAIN docs \ Page) \union Hit("slots")
    BY ResolveIs DEF Inv, Component
  <2>3. Used(page.nodes) \subseteq (DOMAIN docs \ Page) \union Hit("slots")
    BY <1>2, <2>2 DEF page
  <2>4. comp \in DOMAIN docs' \ Page
    BY <1>5, <1>9
  <2>5. \A d \in DOMAIN docs' : d \in {comp, activePageId} \/ (d \in DOMAIN docs /\ docs'[d] = docs[d])
    BY <1>9
  <2> HIDE DEF comp
  <2> QED BY <1>6, <1>9, <1>10, <2>1, <2>2, <2>3, <2>4, <2>5
<1>13. \A d \in DOMAIN docs' \ Page :
          \/ d \in DOMAIN docs /\ Used(docs'[d].nodes) \subseteq Used(docs[d].nodes)
          \/ /\ d \notin 0..(next - 1)
             /\ \E x \in DOMAIN docs : Used(docs'[d].nodes) \subseteq Used(docs[x].nodes)
  <2>1. comp \notin 0..(next - 1)
    BY <1>2
  <2>2. \E x \in DOMAIN docs : Used(made.nodes) \subseteq Used(docs[x].nodes)
    BY <1>2, <1>6 DEF page
  <2>3. \A d \in DOMAIN docs' \ Page : d = comp \/ (d \in DOMAIN docs /\ docs'[d] = docs[d])
    BY <1>2, <1>9
  <2> HIDE DEF comp
  <2> QED BY <1>9, <2>1, <2>2, <2>3
<1>14. Hit("outlet")' = {} => Few(docs')
  <2>1. SUFFICES ASSUME Hit("outlet")' = {} PROVE Few(docs')
    OBVIOUS
  <2>2. Few(docs)
    BY <1>1, <2>1, HitsStay DEF Inv, OutletsAreFew
  <2>3. AtMostOne(Content(page.nodes))
    BY <1>2, <2>2 DEF Few, page
  <2>4. AtMostOne(Content(left.nodes)) /\ AtMostOne(Content(made.nodes))
    BY <1>6, <1>10, <2>3 DEF AtMostOne
  <2> QED BY <1>9, <2>2, <2>4 DEF Few
<1>15. /\ activePageId' = activePageId
       /\ activeDocument' \in (DOMAIN docs' \ Page) \union {Null}
       /\ inlineRef' \in Nat /\ clipboard' = clipboard
  BY <1>1, <1>5, <1>9 DEF Inv, TypeOK
<1>16. edits' \in 0..MaxEdits
  BY <1>1, EditIs
<1>17. next' \in Nat /\ next <= next'
  BY <1>1, <1>6, <1>7
<1> QED BY <1>1, <1>11, <1>12, <1>13, <1>14, <1>15, <1>16, <1>17, DocsKeep

\* detachComponentRef: of the page's content outlet and the component's at most
\* one is there; the page's is kept or copied, not both.
LEMMA DetachKeeps ==
  ASSUME Inv, NEW ref \in DOMAIN docs[activePageId].nodes, Detach(ref)
  PROVE  Inv'
<1> DEFINE page == docs[activePageId]
           used == page.nodes[ref].componentId
           comp == docs[used]
           inst == Instantiated(page, ref, comp)
           map == FreshIds(DOMAIN inst, next)
           new == DetachRef(page, ref, comp, next)
           m == next + Cardinality(DOMAIN inst)
           clash == {<<"outlet", p>> : p \in
                        {p \in {activePageId} : TreeHasOutlet(page) /\ TreeHasOutlet(comp)}}
<1>1. /\ Edit /\ page.nodes[ref].moduleId = "ref" /\ used \in Component
      /\ CanDetach(page, ref, comp)
      /\ docs' = [docs EXCEPT ![activePageId] = new]
      /\ next' = m /\ inlineRef' = Null /\ known \union clash \subseteq known'
      /\ UNCHANGED <<activePageId, activeDocument, clipboard>>
  BY DEF Detach
<1>2. /\ next \in Nat /\ IsDocuments(docs, next) /\ activePageId \in DOMAIN docs /\ activePageId \in Page
      /\ IsDocument(page, next) /\ IsDocument(comp, next)
      /\ Page \subseteq DOMAIN docs /\ DOMAIN docs \subseteq 1..(next - 1)
      /\ docs = [d \in DOMAIN docs |-> docs[d]]
  BY <1>1, TypesAre, DocumentsAre DEF Inv, TypeOK, Component
<1>3. ref \in DOMAIN page.nodes /\ ref # page.rootNodeId
  <2>1. page.nodes[page.rootNodeId].moduleId = "body"
    BY <1>2, DocumentLists DEF Sound
  <2> QED BY <1>1, <2>1
<1>4. Instance(inst, page, ref, comp, next)
  <2> HIDE DEF page, comp
  <2> QED BY <1>2, <1>3, InstantiatedIs
<1>5. Detached(new, page, ref, comp, next, m)
  <2>1. m = next + Cardinality(DOMAIN Instantiated(page, ref, comp))
    OBVIOUS
  <2> HIDE DEF page, comp, m
  <2> QED BY <1>1, <1>2, <1>3, <2>1, DetachRefIs
<1>6. /\ m \in Nat /\ next <= m /\ IsDocument(new, m)
      /\ Used(new.nodes) \subseteq Used(page.nodes) \union Used(comp.nodes)
      /\ Content(new.nodes) \subseteq (Content(page.nodes) \ Subtree(page, ref))
                                      \union {map[i] : i \in Content(inst)}
  <2> HIDE DEF page, comp, m, new
  <2> QED BY <1>5 DEF Detached
<1>7. Content(inst) \subseteq Content(comp.nodes) \union (Content(page.nodes) \intersect Subtree(page, ref))
  <2>1. Subtree(page, ref) \subseteq DOMAIN page.nodes
    BY <1>2, <1>3, DocumentLists, SubtreeIs
  <2> HIDE DEF page, comp, inst
  <2> QED BY <1>4, <2>1 DEF Instance, Content
<1> HIDE DEF inst, map, new, m
<1>8. /\ DOMAIN docs' = DOMAIN docs
      /\ docs' = [d \in DOMAIN docs' |-> docs'[d]]
      /\ docs'[activePageId] = new
      /\ \A d \in DOMAIN docs \ {activePageId} : docs'[d] = docs[d]
  BY <1>1, <1>2
<1>9. IsDocuments(docs', next')
  <2>1. \A d \in DOMAIN docs : IsDocument(docs[d], m)
    BY <1>2, <1>6, DocumentsAre, DocumentsLater
  <2>2. \A d \in DOMAIN docs' : IsDocument(docs'[d], m)
    BY <1>6, <1>8, <2>1
  <2>3. DOMAIN docs' \subseteq 1..(m - 1)
    BY <1>2, <1>6, <1>8
  <2> QED BY <1>1, <1>2, <1>8, <2>2, <2>3 DEF IsDocuments
<1>10. \A d \in DOMAIN docs' : Used(docs'[d].nodes) \subseteq (DOMAIN docs' \ Page) \union Hit("slots")'
  <2>1. Hit("slots") \subseteq Hit("slots")'
    BY <1>1, HitsStay
  <2>2. \A d \in DOMAIN docs : Used(docs[d].nodes) \subseteq (DOMAIN docs \ Page) \union Hit("slots")
    BY ResolveIs DEF Inv, Component
  <2>3. Used(page.nodes) \union Used(comp.nodes) \subseteq (DOMAIN docs \ Page) \union Hit("slots")
    BY <1>1, <1>2, <2>2 DEF Component
  <2>4. \A d \in DOMAIN docs' : d = activePageId \/ docs'[d] = docs[d]
    BY <1>8
  <2> HIDE DEF page, comp
  <2> QED BY <1>6, <1>8, <2>1, <2>2, <2>3, <2>4
<1>11. \A d \in DOMAIN docs' \ Page : d \in DOMAIN docs /\ Used(docs'[d].nodes) \subseteq Used(docs[d].nodes)
  BY <1>2, <1>8
<1>12. Hit("outlet")' = {} => Few(docs')
  <2>1. SUFFICES ASSUME Hit("outlet")' = {} PROVE Few(docs')
    OBVIOUS
  <2>2. Few(docs)
    BY <1>1, <2>1, HitsStay DEF Inv, OutletsAreFew
  <2>3. AtMostOne(Content(page.nodes)) /\ AtMostOne(Content(comp.nodes))
    BY <1>1, <1>2, <2>2 DEF Few, Component
  <2>4. Content(page.nodes) = {} \/ Content(comp.nodes) = {}
    <3>1. SUFFICES ASSUME TreeHasOutlet(page), TreeHasOutlet(comp) PROVE FALSE
      BY DEF TreeHasOutlet, Content
    <3> DEFINE k == <<"outlet", activePageId>>
    <3>2. k \in clash
      BY <3>1
    <3>3. k \in known' /\ k[1] = "outlet"
      BY <1>1, <3>2
    <3> HIDE DEF k
    <3> QED BY <2>1, <3>3 DEF Hit
  <2>5. AtMostOne(Content(new.nodes))
    <3> DEFINE ours == Content(page.nodes)
               theirs == Content(comp.nodes)
               under == Subtree(page, ref)
               copied == Content(inst)
    <3>1. /\ AtMostOne(ours) /\ AtMostOne(theirs)
          /\ ours = {} \/ theirs = {}
          /\ copied \subseteq theirs \union (ours \intersect under)
      BY <1>7, <2>3, <2>4
    <3>2. Content(new.nodes) \subseteq (ours \ under) \union {map[i] : i \in copied}
      BY <1>6
    <3> HIDE DEF ours, theirs, under, copied
    <3>3. AtMostOne((ours \ under) \union {map[i] : i \in copied})
      <4>1. CASE ours = {}
        BY <3>1, <4>1 DEF AtMostOne
      <4>2. CASE theirs = {}
        <5>1. copied \subseteq ours /\ (copied = {} \/ ours \ under = {})
          BY <3>1, <4>2 DEF AtMostOne
        <5> QED BY <3>1, <5>1 DEF AtMostOne
      <4> QED BY <3>1, <4>1, <4>2
    <3> QED BY <3>2, <3>3 DEF AtMostOne
  <2> QED BY <1>8, <2>2, <2>5 DEF Few
<1>13. /\ activePageId' = activePageId
       /\ activeDocument' \in (DOMAIN docs' \ Page) \union {Null}
       /\ inlineRef' \in Nat /\ clipboard' = clipboard
  BY <1>1, <1>8 DEF Inv, TypeOK, Component, Null
<1>14. edits' \in 0..MaxEdits
  BY <1>1, EditIs
<1>15. next' \in Nat /\ next <= next' /\ known \subseteq known'
  BY <1>1, <1>6
<1> QED BY <1>9, <1>10, <1>11, <1>12, <1>13, <1>14, <1>15, DocsKeep

-----------------------------------------------------------------------------
\* Every step, and the theorems.

\* At most one content outlet, counted or not.
LEMMA FewOutlets ==
  ASSUME NEW n \in Nat, NEW tree, IsNodes(tree.nodes, n)
  PROVE  Cardinality(ContentOutlets(tree)) <= 1 <=> AtMostOne(Content(tree.nodes))
<1>1. ContentOutlets(tree) = Content(tree.nodes)
  BY DEF ContentOutlets, Content
<1>2. IsFiniteSet(Content(tree.nodes))
  <2>1. Content(tree.nodes) \subseteq 1..(n - 1)
    BY DEF IsNodes, Content
  <2>2. IsFiniteSet(1..(n - 1))
    BY FS_Interval
  <2> QED BY <2>1, <2>2, FS_Subset
<1> QED BY <1>1, <1>2, FewAre

\* Inv holds at first.
LEMMA InitKeeps == Init => Inv
<1> SUFFICES ASSUME Init PROVE Inv
  OBVIOUS
<1>1. PICK site \in Site : docs = site[1] /\ clipboard = site[2]
  BY DEF Init
<1>2. /\ IsDocuments(docs, FirstId)
      /\ IsSnapshot(clipboard, FirstId)
      /\ \A d \in DOMAIN docs : ReferencedComponentIds(docs[d]) \subseteq DOMAIN docs \ Page
      /\ \A c \in DOMAIN docs \ Page : c \notin TransitivelyReachable(docs, c)
      /\ \A d \in DOMAIN docs : Cardinality(ContentOutlets(docs[d])) <= 1
      /\ Cardinality(ContentOutlets(clipboard)) <= 1
  BY <1>1, SiteAssumption
<1>3. next = FirstId /\ FirstId \in Nat /\ activeDocument = Null /\ inlineRef = Null /\ edits = 0
  BY FirstIdAssumption DEF Init
<1>4. activePageId \in Page
  <2>1. \E p \in Page : \A q \in Page : p <= q
    BY PageAssumption, Least
  <2> QED BY <2>1 DEF Init
<1>5. TypeOK
  BY <1>2, <1>3, <1>4, BoundAssumption DEF TypeOK, Null
<1>6. RefsResolve
  BY <1>2 DEF RefsResolve, Component
<1>7. NoComponentInItself
  BY <1>2 DEF NoComponentInItself, Component
<1>8. OutletsAreFew
  <2>1. \A d \in DOMAIN docs : AtMostOne(Content(docs[d].nodes))
    <3>1. \A d \in DOMAIN docs : IsNodes(docs[d].nodes, FirstId)
      BY <1>2, <1>3, DocumentsAre DEF IsDocument
    <3> QED BY <1>2, <1>3, <3>1, FewOutlets
  <2>2. AtMostOne(Content(clipboard.nodes))
    BY <1>2, <1>3, FewOutlets DEF IsSnapshot
  <2> QED BY <2>1, <2>2 DEF OutletsAreFew, Few
<1> QED BY <1>5, <1>6, <1>7, <1>8 DEF Inv

\* What is open changes, nothing else.
LEMMA NavigateKeeps ==
  ASSUME Inv, UNCHANGED <<docs, clipboard, next, known>>, activePageId' \in Page,
         activeDocument' \in Component \union {Null}, inlineRef' \in Nat, edits' = edits
  PROVE  Inv'
<1>1. TypeOK'
  BY DEF Inv, TypeOK, Component
<1>2. RefsResolve' /\ NoComponentInItself' /\ OutletsAreFew'
  BY DEF Inv, RefsResolve, NoComponentInItself, OutletsAreFew, Few, Hit, Component
<1> QED BY <1>1, <1>2 DEF Inv

\* Every step keeps Inv.
LEMMA NextKeeps == Inv /\ [Next]_vars => Inv'
<1> SUFFICES ASSUME Inv, [Next]_vars PROVE Inv'
  OBVIOUS
<1>1. CASE EditTree
  <2>1. CASE \E target \in Ids, module \in Module : InsertModule(target, module)
    BY <2>1, InsertModuleKeeps
  <2>2. CASE \E target \in Ids, comp \in Component : InsertComponentRef(target, comp)
    BY <2>2, InsertComponentRefKeeps
  <2>3. CASE \E ids \in Selection : DeleteNodes(ids)
    BY <2>3, DeleteNodesKeeps
  <2>4. CASE \E ids \in Selection : DuplicateNodes(ids)
    BY <2>4, DuplicateNodesKeeps
  <2>5. CASE \E ids \in Selection : Wrap(ids)
    BY <2>5, WrapKeeps
  <2>6. CASE \E ids \in Selection : \E dragged \in ToSet(ids), over \in Ids, zone \in Zone :
                 Drop(ids, dragged, over, zone)
    BY <2>6, DropKeeps
  <2>7. CASE \E id \in Ids, name \in SlotName : RenameOutlet(id, name)
    BY <2>7, RenameOutletKeeps
  <2>8. CASE \E ids \in Selection : CopyNodes(ids)
    BY <2>8, CopyNodesKeeps
  <2>9. CASE \E ids \in Selection : CutNodes(ids)
    BY <2>9, CutNodesKeeps
  <2>10. CASE \E target \in Ids : Paste(target)
    BY <2>10, PasteKeeps
  <2> QED BY <1>1, <2>1, <2>2, <2>3, <2>4, <2>5, <2>6, <2>7, <2>8, <2>9, <2>10 DEF EditTree
<1>2. CASE EditComponents
  <2>1. CASE CreateComponent
    BY <2>1, CreateComponentKeeps
  <2>2. CASE \E comp \in Component : DeleteComponent(comp)
    BY <2>2, DeleteComponentKeeps
  <2>3. CASE \E comp \in Component : ChangeSlotParam(comp)
    BY <2>3, ChangeSlotParamKeeps
  <2>4. CASE \E id \in DOMAIN docs[activePageId].nodes : Convert(id)
    BY <2>4, ConvertKeeps
  <2>5. CASE \E ref \in DOMAIN docs[activePageId].nodes : Detach(ref)
    BY <2>5, DetachKeeps
  <2> QED BY <1>2, <2>1, <2>2, <2>3, <2>4, <2>5 DEF EditComponents
<1>3. CASE Navigate
  <2>0. activePageId \in Page /\ activeDocument \in Component \union {Null} /\ inlineRef \in Nat
        /\ Null \in Nat
    BY DEF Inv, TypeOK, Null
  <2>1. CASE \E comp \in Component : OpenComponent(comp)
    BY <2>0, <2>1, NavigateKeeps DEF OpenComponent, Navigating
  <2>2. CASE ExitComponent
    BY <2>0, <2>2, NavigateKeeps DEF ExitComponent, Navigating
  <2>3. CASE \E ref \in DOMAIN docs[activePageId].nodes : StartInlineEdit(ref)
    <3>1. PICK ref \in DOMAIN docs[activePageId].nodes : StartInlineEdit(ref)
      BY <2>3
    <3>2. ref \in Nat
      BY <2>0, TypesAre, DocumentLists DEF Inv
    <3> QED BY <2>0, <3>1, <3>2, NavigateKeeps DEF StartInlineEdit, Navigating
  <2>4. CASE EndInlineEdit
    BY <2>0, <2>4, NavigateKeeps DEF EndInlineEdit, Navigating
  <2>5. CASE \E page \in Page : OpenPageInCanvas(page)
    BY <2>0, <2>5, NavigateKeeps DEF OpenPageInCanvas, Navigating
  <2> QED BY <1>3, <2>1, <2>2, <2>3, <2>4, <2>5 DEF Navigate
<1>4. CASE UNCHANGED vars
  BY <1>4, NavigateKeeps DEF vars, mode, Inv, TypeOK
<1> QED BY <1>1, <1>2, <1>3, <1>4 DEF Next

\* The inductive invariant: whatever the user does, in whatever order, with pages,
\* components, the clipboard and inline editing, the four below hold together
\* (siteStore, visualComponentsSlice, clipboard).
THEOREM Invariant == Spec => []Inv
<1>1. Init => Inv
  BY InitKeeps
<1>2. Inv /\ [Next]_vars => Inv'
  BY NextKeeps
<1> QED BY <1>1, <1>2, PTL DEF Spec

\* After any edits every page and component is a document: its ids were given
\* out, its root is a body and nobody's child, refs name components and never
\* pages; what is open exists, and the clipboard is well formed (pageTree,
\* visualComponentsSlice).
THEOREM EditorTypes == Spec => []TypeOK
<1>1. Inv => TypeOK
  BY DEF Inv
<1> QED BY <1>1, Invariant, PTL

\* Every ref, in a page or in a component, has a component to show: deleting one
\* takes all its refs along, and no other edit brings a dangling one, but a paste
\* from a clipboard that is out of date (deleteVisualComponent, pasteNode).
THEOREM RefsAlwaysResolve == Spec => []RefsResolve
<1>1. Inv => RefsResolve
  BY DEF Inv
<1> QED BY <1>1, Invariant, PTL

\* No component contains itself, directly or through others, so the publisher's
\* expansion ends: wouldCreateCycle stands before what a component's own mode
\* adds, and nothing else closes a cycle but inline editing, which the guard
\* does not cover (recursionGuard).
THEOREM NeverInItself == Spec => []NoComponentInItself
<1>1. Inv => NoComponentInItself
  BY DEF Inv
<1> QED BY <1>1, Invariant, PTL

\* No document gets a second content outlet by inserting, duplicating, pasting,
\* converting or sweeping, unless a component with one was detached where there
\* was one already (subtreeHasOutlet, treeHasOutlet).
THEOREM OneOutletEach == Spec => []OneContentOutlet
<1>1. Inv => OneContentOutlet
  <2>1. SUFFICES ASSUME Inv, Hit("outlet") = {}, NEW d \in DOMAIN docs
                 PROVE  Cardinality(ContentOutlets(docs[d])) <= 1
    BY DEF OneContentOutlet
  <2>2. next \in Nat /\ IsNodes(docs[d].nodes, next)
    BY <2>1, TypesAre DEF Inv, IsDocument
  <2>3. AtMostOne(Content(docs[d].nodes))
    BY <2>1 DEF Inv, OutletsAreFew, Few
  <2> QED BY <2>2, <2>3, FewOutlets
<1> QED BY <1>1, Invariant, PTL
=============================================================================
