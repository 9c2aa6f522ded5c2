--------------------------- MODULE Drafts_proofs ----------------------------
(***************************************************************************)
(* For any documents, keys, bounds and scenarios: the types, and that the  *)
(* undo route and the undo managers agree, in the whole system, however    *)
(* edits, undo and redo, loads, saves and other writers interleave; and that *)
(* the stacks and the route together are one line of versions of the site  *)
(* (Timeline), as long as bursts are not interleaved.                      *)
(***************************************************************************)
EXTENDS Drafts, FiniteSetTheorems, SequenceTheorems, TLAPS

Group == (SUBSET Doc) \ {{}}

Touching(group, d) == IF d \in group THEN 1 ELSE 0

\* Steps counts finitely many groups.
LEMMA StepsNat ==
    ASSUME NEW route \in Seq(Group), NEW d
    PROVE  /\ IsFiniteSet({j \in 1..Len(route) : d \in route[j]})
           /\ Steps(route, 1, d) \in Nat
<1>1. IsFiniteSet(1..Len(route))
  BY FS_Interval
<1>2. IsFiniteSet({j \in 1..Len(route) : d \in route[j]})
  BY <1>1, FS_Subset
<1> QED
  BY <1>2, FS_CardinalityType DEF Steps

LEMMA StepsEmpty == ASSUME NEW d PROVE Steps(<<>>, 1, d) = 0
<1>1. {j \in 1..Len(<<>>) : d \in <<>>[j]} = {}
  OBVIOUS
<1> QED
  BY <1>1, FS_EmptySet DEF Steps

\* A new group counts for its documents.
LEMMA StepsAppend ==
    ASSUME NEW route \in Seq(Group), NEW group \in Group, NEW d
    PROVE  Steps(Append(route, group), 1, d) = Steps(route, 1, d) + Touching(group, d)
<1> DEFINE old == {j \in 1..Len(route) : d \in route[j]}
           new == {j \in 1..Len(Append(route, group)) : d \in Append(route, group)[j]}
           n == Len(route) + 1
<1>1. /\ Len(Append(route, group)) = n
      /\ Append(route, group)[n] = group
      /\ \A j \in 1..Len(route) : Append(route, group)[j] = route[j]
  OBVIOUS
<1>2. IsFiniteSet(old) /\ n \notin old
  <2>1. n \notin 1..Len(route)
    OBVIOUS
  <2> QED
    BY <2>1, StepsNat
<1>3. CASE d \in group
  <2>1. new = old \union {n}
    BY <1>1, <1>3
  <2>2. Cardinality(new) = Cardinality(old) + 1
    BY <2>1, <1>2, FS_AddElement
  <2> QED
    BY <2>2, <1>3 DEF Steps, Touching
<1>4. CASE d \notin group
  <2>1. new = old
    BY <1>1, <1>4
  <2>2. Cardinality(old) \in Nat
    BY <1>2, FS_CardinalityType
  <2>3. Steps(Append(route, group), 1, d) = Cardinality(old) /\ Steps(route, 1, d) = Cardinality(old)
    BY <2>1 DEF Steps
  <2>4. Touching(group, d) = 0
    BY <1>4 DEF Touching
  <2> QED
    BY <2>2, <2>3, <2>4
<1> QED
  BY <1>3, <1>4

\* Taking the newest group off discounts it, and is the inverse of Append.
LEMMA StepsPop ==
    ASSUME NEW route \in Seq(Group), route # <<>>, NEW d
    PROVE  /\ Top(route) \in Group
           /\ Pop(route) \in Seq(Group)
           /\ Steps(route, 1, d) = Steps(Pop(route), 1, d) + Touching(Top(route), d)
<1>1. Top(route) \in Group /\ Pop(route) \in Seq(Group)
  BY DEF Top, Pop
<1>2. route = Append(Pop(route), Top(route))
  BY DEF Top, Pop
<1> QED
  BY <1>1, <1>2, StepsAppend

\* Every manager of the newest group has a step to take back.
LEMMA WholeGroup ==
    ASSUME NEW route \in Seq(Group), route # <<>>, NEW stack \in [Doc -> Seq(Value)],
           \A d \in Doc : Steps(route, 1, d) <= Len(stack[d])
    PROVE  {d \in Top(route) : stack[d] # <<>>} = Top(route)
<1>1. ASSUME NEW d \in Top(route)
      PROVE  stack[d] # <<>>
  <2>1. d \in Doc
    BY StepsPop DEF Group
  <2>2. Steps(route, 1, d) = Steps(Pop(route), 1, d) + 1 /\ Steps(Pop(route), 1, d) \in Nat
    BY StepsPop, StepsNat DEF Touching
  <2>3. Len(stack[d]) \in Nat /\ Steps(route, 1, d) <= Len(stack[d])
    BY <2>1
  <2>4. Len(stack[d]) > 0
    BY <2>2, <2>3
  <2> QED
    BY <2>4
<1> QED
  BY <1>1

-----------------------------------------------------------------------------
\* The strengthening: while there is something to redo, no edit can fold.
HistoryInv ==
    /\ HistoryTypeOK
    /\ RouteMatchesStacks
    /\ redoRoute # <<>> => \A d \in Doc : lastKey[d] = NoKey

LEMMA ApplyTypeOK ==
    ASSUME HistoryTypeOK, NEW key \in Key \union {NoKey}, NEW touched \in Group,
           Apply(key, touched)
    PROVE  HistoryTypeOK'
<1> USE EditsAssumption
<1> DEFINE grew == {d \in touched : ~Folds(d, key)}
<1>1. edits' \in 0..MaxEdits /\ edits + 1 \in Value
  BY DEF HistoryTypeOK, Apply, Value, Elsewhere
<1>2. content' \in [Doc -> Value]
  BY <1>1 DEF HistoryTypeOK, Apply
<1>5. redoStack' \in [Doc -> Seq(Value)]
  BY DEF HistoryTypeOK, Apply
<1>6. open' \in [Doc -> BOOLEAN]
  BY DEF HistoryTypeOK, Apply
<1>7. lastKey' \in [Doc -> Key \union {NoKey}]
  BY DEF HistoryTypeOK, Apply
<1>8. undoStack' \in [Doc -> Seq(Value)]
  <2>1. undoStack' = [d \in Doc |-> IF d \in grew THEN Append(undoStack[d], content[d])
                                    ELSE undoStack[d]]
    BY DEF Apply
  <2>2. ASSUME NEW d \in Doc
        PROVE  undoStack[d] \in Seq(Value) /\ Append(undoStack[d], content[d]) \in Seq(Value)
    BY DEF HistoryTypeOK
  <2> HIDE DEF grew
  <2> QED
    BY <2>1, <2>2
<1>3. grew # {} => grew \in Group
  BY DEF Group
<1>9. undoRoute \in Seq(Group) /\ redoRoute \in Seq(Group)
  BY DEF HistoryTypeOK, Group
<1>4. undoRoute' \in Seq(Group) /\ redoRoute' \in Seq(Group)
  <2>1. CASE grew = {}
    BY <2>1, <1>9 DEF Apply, Routed
  <2>2. CASE grew # {}
    <3>1. undoRoute' = Append(undoRoute, grew) /\ redoRoute' = <<>>
      BY <2>2 DEF Apply, Routed
    <3> HIDE DEF grew
    <3> QED
      BY <2>2, <3>1, <1>3, <1>9
  <2> QED
    BY <2>1, <2>2
<1> QED
  BY <1>1, <1>2, <1>4, <1>5, <1>6, <1>7, <1>8 DEF HistoryTypeOK, Group

LEMMA ApplyInv ==
    ASSUME HistoryInv, NEW key \in Key \union {NoKey}, NEW touched \in Group,
           Apply(key, touched)
    PROVE  HistoryInv'
<1> DEFINE grew == {d \in touched : ~Folds(d, key)}
<1>1. HistoryTypeOK'
  BY ApplyTypeOK DEF HistoryInv
<1>2. redoRoute' = <<>>
  <2>1. CASE grew = {}
    <3>1. PICK d \in touched : Folds(d, key)
      BY <2>1 DEF Group
    <3> QED
      BY <2>1, <3>1 DEF Folds, HistoryInv, Apply, Routed, Group
  <2>2. CASE grew # {}
    BY <2>2 DEF Apply, Routed
  <2> QED
    BY <2>1, <2>2
<1>3. ASSUME NEW d \in Doc
      PROVE  /\ Len(undoStack'[d]) = Steps(undoRoute', 1, d)
             /\ Len(redoStack'[d]) >= Steps(redoRoute', 1, d)
  <2>1. redoStack'[d] \in Seq(Value)
    BY <1>1 DEF HistoryTypeOK
  <2>2. Len(redoStack'[d]) >= Steps(redoRoute', 1, d)
    BY <2>1, <1>2, StepsEmpty
  <2>3. undoStack[d] \in Seq(Value) /\ undoRoute \in Seq(Group)
    BY DEF HistoryInv, HistoryTypeOK, Group
  <2>4. Len(undoStack[d]) = Steps(undoRoute, 1, d)
    BY DEF HistoryInv, RouteMatchesStacks
  <2>5. Steps(undoRoute, 1, d) \in Nat
    BY <2>3, StepsNat
  <2>6. Len(undoStack'[d]) = Len(undoStack[d]) + Touching(grew, d)
    <3>1. undoStack'[d] = IF d \in grew THEN Append(undoStack[d], content[d]) ELSE undoStack[d]
      BY DEF Apply
    <3>2. content[d] \in Value
      BY DEF HistoryInv, HistoryTypeOK
    <3> HIDE DEF grew
    <3>3. CASE d \in grew
      BY <2>3, <3>1, <3>2, <3>3 DEF Touching
    <3>4. CASE d \notin grew
      <4>1. Len(undoStack[d]) \in Nat
        BY <2>3
      <4> QED
        BY <4>1, <3>1, <3>4 DEF Touching
    <3> QED
      BY <3>3, <3>4
  <2>7. Steps(undoRoute', 1, d) = Steps(undoRoute, 1, d) + Touching(grew, d)
    <3>1. CASE grew = {}
      <4>1. undoRoute' = undoRoute /\ Touching(grew, d) = 0
        BY <3>1 DEF Apply, Routed, Touching
      <4> QED
        BY <4>1, <2>5
    <3>2. CASE grew # {}
      <4>1. grew \in Group
        BY <3>2 DEF Group
      <4>2. undoRoute' = Append(undoRoute, grew)
        BY <3>2 DEF Apply, Routed
      <4> QED
        BY <4>1, <4>2, <2>3, StepsAppend
    <3> QED
      BY <3>1, <3>2
  <2> QED
    BY <2>2, <2>4, <2>6, <2>7
<1> QED
  BY <1>1, <1>2, <1>3 DEF HistoryInv, RouteMatchesStacks

-----------------------------------------------------------------------------
LEMMA UndoInv == ASSUME HistoryInv, Undo PROVE HistoryInv'
<1> DEFINE group == Top(undoRoute)
           undone == {d \in group : undoStack[d] # <<>>}
<1>1. /\ undoRoute \in Seq(Group) /\ redoRoute \in Seq(Group)
      /\ undoRoute # <<>>
      /\ content \in [Doc -> Value]
      /\ undoStack \in [Doc -> Seq(Value)] /\ redoStack \in [Doc -> Seq(Value)]
      /\ open \in [Doc -> BOOLEAN]
  BY DEF HistoryInv, HistoryTypeOK, Undo, Group
<1>2. group \in Group /\ Pop(undoRoute) \in Seq(Group)
  BY <1>1, StepsPop
<1>3. ASSUME NEW d \in Doc
      PROVE  /\ Steps(undoRoute, 1, d) = Steps(Pop(undoRoute), 1, d) + Touching(group, d)
             /\ Steps(Append(redoRoute, group), 1, d) = Steps(redoRoute, 1, d) + Touching(group, d)
             /\ Steps(Pop(undoRoute), 1, d) \in Nat
             /\ Steps(redoRoute, 1, d) \in Nat
             /\ Len(undoStack[d]) = Steps(undoRoute, 1, d)
             /\ Len(redoStack[d]) >= Steps(redoRoute, 1, d)
  BY <1>1, <1>2, StepsPop, StepsAppend, StepsNat DEF HistoryInv, RouteMatchesStacks
<1>4. undone = group
  <2>1. \A d \in Doc : Steps(undoRoute, 1, d) <= Len(undoStack[d])
    BY <1>1, <1>3, StepsNat
  <2> QED
    BY <1>1, <2>1, WholeGroup
<1>5. /\ content' = [d \in Doc |-> IF d \in group THEN Top(undoStack[d]) ELSE content[d]]
      /\ undoStack' = [d \in Doc |-> IF d \in group THEN Pop(undoStack[d]) ELSE undoStack[d]]
      /\ redoStack' = [d \in Doc |-> IF d \in group THEN Append(redoStack[d], content[d])
                                     ELSE redoStack[d]]
      /\ open' = [d \in Doc |-> d \notin group /\ open[d]]
      /\ lastKey' = [d \in Doc |-> NoKey]
      /\ undoRoute' = Pop(undoRoute)
      /\ redoRoute' = Append(redoRoute, group)
      /\ edits' = edits
  BY <1>4 DEF Undo, StopsCapturing
<1> HIDE DEF group
<1>6. ASSUME NEW d \in Doc
      PROVE  /\ content'[d] \in Value
             /\ undoStack'[d] \in Seq(Value)
             /\ redoStack'[d] \in Seq(Value)
             /\ Len(undoStack'[d]) = Len(undoStack[d]) - Touching(group, d)
             /\ Len(redoStack'[d]) = Len(redoStack[d]) + Touching(group, d)
  <2>1. content[d] \in Value /\ undoStack[d] \in Seq(Value) /\ redoStack[d] \in Seq(Value)
    BY <1>1
  <2>2. CASE d \in group
    <3>1. undoStack[d] # <<>>
      BY <1>4, <2>2
    <3>2. /\ content'[d] = Top(undoStack[d])
          /\ undoStack'[d] = Pop(undoStack[d])
          /\ redoStack'[d] = Append(redoStack[d], content[d])
      BY <1>5, <2>2
    <3> QED
      BY <2>1, <2>2, <3>1, <3>2 DEF Top, Pop, Touching
  <2>3. CASE d \notin group
    <3>1. content'[d] = content[d] /\ undoStack'[d] = undoStack[d] /\ redoStack'[d] = redoStack[d]
      BY <1>5, <2>3
    <3>2. Len(undoStack[d]) \in Nat /\ Len(redoStack[d]) \in Nat
      BY <2>1
    <3> QED
      BY <2>1, <2>3, <3>1, <3>2 DEF Touching
  <2> QED
    BY <2>2, <2>3
<1>7. HistoryTypeOK'
  <2>1. content' \in [Doc -> Value] /\ undoStack' \in [Doc -> Seq(Value)]
    BY <1>5, <1>6
  <2>2. redoStack' \in [Doc -> Seq(Value)]
    BY <1>5, <1>6
  <2>3. open' \in [Doc -> BOOLEAN] /\ lastKey' \in [Doc -> Key \union {NoKey}]
    BY <1>1, <1>5
  <2>4. undoRoute' \in Seq(Group) /\ redoRoute' \in Seq(Group)
    BY <1>1, <1>2, <1>5
  <2> QED
    BY <2>1, <2>2, <2>3, <2>4, <1>5 DEF HistoryInv, HistoryTypeOK, Group
<1>8. RouteMatchesStacks'
  <2>1. ASSUME NEW d \in Doc
        PROVE  /\ Len(undoStack'[d]) = Steps(undoRoute', 1, d)
               /\ Len(redoStack'[d]) >= Steps(redoRoute', 1, d)
    <3>1. Touching(group, d) \in {0, 1}
      BY DEF Touching
    <3>2. Len(redoStack[d]) \in Nat
      BY <1>1
    <3> QED
      BY <3>1, <3>2, <1>3, <1>5, <1>6
  <2> QED
    BY <2>1 DEF RouteMatchesStacks
<1> QED
  BY <1>5, <1>7, <1>8 DEF HistoryInv

LEMMA RedoInv == ASSUME HistoryInv, Redo PROVE HistoryInv'
<1> DEFINE group == Top(redoRoute)
           redone == {d \in group : redoStack[d] # <<>>}
<1>1. /\ redoRoute \in Seq(Group) /\ undoRoute \in Seq(Group)
      /\ redoRoute # <<>>
      /\ content \in [Doc -> Value]
      /\ redoStack \in [Doc -> Seq(Value)] /\ undoStack \in [Doc -> Seq(Value)]
      /\ open \in [Doc -> BOOLEAN]
  BY DEF HistoryInv, HistoryTypeOK, Redo, Group
<1>2. group \in Group /\ Pop(redoRoute) \in Seq(Group)
  BY <1>1, StepsPop
<1>3. ASSUME NEW d \in Doc
      PROVE  /\ Steps(redoRoute, 1, d) = Steps(Pop(redoRoute), 1, d) + Touching(group, d)
             /\ Steps(Append(undoRoute, group), 1, d) = Steps(undoRoute, 1, d) + Touching(group, d)
             /\ Steps(Pop(redoRoute), 1, d) \in Nat
             /\ Steps(undoRoute, 1, d) \in Nat
             /\ Len(redoStack[d]) >= Steps(redoRoute, 1, d)
             /\ Len(undoStack[d]) = Steps(undoRoute, 1, d)
  BY <1>1, <1>2, StepsPop, StepsAppend, StepsNat DEF HistoryInv, RouteMatchesStacks
<1>4. redone = group
  <2>1. ASSUME NEW d \in Doc
        PROVE  Len(redoStack[d]) \in Nat /\ Steps(redoRoute, 1, d) \in Nat
    <3>1. redoStack[d] \in Seq(Value)
      BY <1>1
    <3>2. Steps(redoRoute, 1, d) \in Nat
      BY <1>1, StepsNat
    <3> QED
      BY <3>1, <3>2
  <2>2. \A d \in Doc : Steps(redoRoute, 1, d) <= Len(redoStack[d])
    BY <1>3, <2>1
  <2> QED
    BY <1>1, <2>2, WholeGroup
<1>5. /\ content' = [d \in Doc |-> IF d \in group THEN Top(redoStack[d]) ELSE content[d]]
      /\ redoStack' = [d \in Doc |-> IF d \in group THEN Pop(redoStack[d]) ELSE redoStack[d]]
      /\ undoStack' = [d \in Doc |-> IF d \in group THEN Append(undoStack[d], content[d])
                                     ELSE undoStack[d]]
      /\ open' = open
      /\ lastKey' = [d \in Doc |-> NoKey]
      /\ redoRoute' = Pop(redoRoute)
      /\ undoRoute' = Append(undoRoute, group)
      /\ edits' = edits
  BY <1>4 DEF Redo
<1> HIDE DEF group
<1>6. ASSUME NEW d \in Doc
      PROVE  /\ content'[d] \in Value
             /\ redoStack'[d] \in Seq(Value)
             /\ undoStack'[d] \in Seq(Value)
             /\ Len(redoStack'[d]) = Len(redoStack[d]) - Touching(group, d)
             /\ Len(undoStack'[d]) = Len(undoStack[d]) + Touching(group, d)
  <2>1. content[d] \in Value /\ redoStack[d] \in Seq(Value) /\ undoStack[d] \in Seq(Value)
    BY <1>1
  <2>2. CASE d \in group
    <3>1. redoStack[d] # <<>>
      BY <1>4, <2>2
    <3>2. /\ content'[d] = Top(redoStack[d])
          /\ redoStack'[d] = Pop(redoStack[d])
          /\ undoStack'[d] = Append(undoStack[d], content[d])
      BY <1>5, <2>2
    <3> QED
      BY <2>1, <2>2, <3>1, <3>2 DEF Top, Pop, Touching
  <2>3. CASE d \notin group
    <3>1. content'[d] = content[d] /\ redoStack'[d] = redoStack[d] /\ undoStack'[d] = undoStack[d]
      BY <1>5, <2>3
    <3>2. Len(redoStack[d]) \in Nat /\ Len(undoStack[d]) \in Nat
      BY <2>1
    <3> QED
      BY <2>1, <2>3, <3>1, <3>2 DEF Touching
  <2> QED
    BY <2>2, <2>3
<1>7. HistoryTypeOK'
  <2>1. content' \in [Doc -> Value] /\ redoStack' \in [Doc -> Seq(Value)]
    BY <1>5, <1>6
  <2>2. undoStack' \in [Doc -> Seq(Value)]
    BY <1>5, <1>6
  <2>3. open' \in [Doc -> BOOLEAN] /\ lastKey' \in [Doc -> Key \union {NoKey}]
    BY <1>1, <1>5
  <2>4. redoRoute' \in Seq(Group) /\ undoRoute' \in Seq(Group)
    BY <1>1, <1>2, <1>5
  <2> QED
    BY <2>1, <2>2, <2>3, <2>4, <1>5 DEF HistoryInv, HistoryTypeOK, Group
<1>8. RouteMatchesStacks'
  <2>1. ASSUME NEW d \in Doc
        PROVE  /\ Len(undoStack'[d]) = Steps(undoRoute', 1, d)
               /\ Len(redoStack'[d]) >= Steps(redoRoute', 1, d)
    <3>1. Touching(group, d) \in {0, 1}
      BY DEF Touching
    <3>2. Len(undoStack[d]) \in Nat /\ Len(redoStack[d]) \in Nat
      BY <1>1
    <3> QED
      BY <3>1, <3>2, <1>3, <1>5, <1>6
  <2> QED
    BY <2>1 DEF RouteMatchesStacks
<1> QED
  BY <1>5, <1>7, <1>8 DEF HistoryInv

LEMMA LoadInv ==
    ASSUME HistoryInv, NEW version \in [Doc -> Value], Load(version)
    PROVE  HistoryInv'
<1>1. HistoryTypeOK'
  BY DEF HistoryInv, HistoryTypeOK, Load
<1>2. RouteMatchesStacks'
  BY StepsEmpty DEF RouteMatchesStacks, Load
<1> QED
  BY <1>1, <1>2 DEF HistoryInv, Load

LEMMA HistoryNextInv ==
    ASSUME HistoryInv, [HistoryNext]_history PROVE HistoryInv'
<1>1. CASE EditDocs
  <2>1. CASE \E touched \in Group : Apply(NoKey, touched)
    BY <2>1, ApplyInv
  <2>2. CASE \E key \in Key : Apply(key, TouchedBy[key])
    <3>1. \A key \in Key : TouchedBy[key] \in Group
      BY TouchedAssumption DEF Group
    <3> QED
      BY <2>2, <3>1, ApplyInv
  <2>3. CASE \E touched \in (SUBSET Doc) \ {{}} : Apply(NoKey, touched)
    BY <2>1, <2>3 DEF Group
  <2> QED
    BY <1>1, <2>2, <2>3 DEF EditDocs
<1>2. CASE Undo
  BY <1>2, UndoInv
<1>3. CASE Redo
  BY <1>3, RedoInv
<1>4. CASE BreakCoalescing
  BY <1>4 DEF HistoryInv, HistoryTypeOK, RouteMatchesStacks, BreakCoalescing, stacks, routes, Steps
<1>5. CASE \E version \in [Doc -> Value] : Load(version)
  BY <1>5, LoadInv
<1>6. CASE UNCHANGED history
  BY <1>6 DEF HistoryInv, HistoryTypeOK, RouteMatchesStacks, history, stacks, routes, Steps
<1> QED
  BY <1>1, <1>2, <1>3, <1>4, <1>5, <1>6 DEF HistoryNext, Change

LEMMA HistoryInitInv == ASSUME HistoryInit PROVE HistoryInv
<1>1. HistoryTypeOK
  <2>1. 0 \in Value /\ 0 \in 0..MaxEdits
    BY EditsAssumption DEF Value, Elsewhere
  <2> QED
    BY <2>1 DEF HistoryTypeOK, HistoryInit
<1>2. RouteMatchesStacks
  BY StepsEmpty DEF RouteMatchesStacks, HistoryInit
<1> QED
  BY <1>1, <1>2 DEF HistoryInv, HistoryInit

-----------------------------------------------------------------------------
\* What the rest of the system does to the history is a step of the history.
LEMMA LoadedTypes ==
    ASSUME TypeOK, Loaded
    PROVE  loading.got \in [Doc -> Value]
<1>1. loading.got \in [Doc -> Value \union {Unread}]
  BY DEF TypeOK, DraftTypeOK, Loaded, NotLoading
<1> QED
  BY <1>1 DEF Loaded

LEMMA HistoryStep ==
    ASSUME TypeOK, [Next]_vars
    PROVE  [HistoryNext]_history
<1>1. CASE ChangeSite
  BY <1>1 DEF ChangeSite, HistoryNext
<1>2. CASE InlineEditing
  BY <1>2 DEF InlineEditing, HistoryNext
<1>3. CASE Loaded
  BY <1>3, LoadedTypes DEF Loaded, HistoryNext
<1>4. CASE TimerFires \/ Poll \/ Leave \/ Return \/ Reload \/ Refresh
  BY <1>4 DEF TimerFires, Poll, Leave, Return, Reload, Refresh
<1>5. CASE \E m \in Mount : Answer(m) \/ Fail(m)
  BY <1>5 DEF Answer, Fail
<1>6. CASE \/ \E d \in Doc : Fetched(d)
           \/ \E r \in requests : ServerReads(r) \/ ServerSave(r) \/ LoseUnawaited(r)
           \/ \E who \in {"agent", "publish"} : WriterReads(who)
           \/ \E page \in Doc \ {Site} : AgentPersists(page)
           \/ PublishSaves
  BY <1>6 DEF Fetched, ServerReads, ServerSave, LoseUnawaited, WriterReads, AgentPersists,
              PublishSaves
<1>7. CASE UNCHANGED vars
  BY <1>7 DEF vars
<1> QED
  BY <1>1, <1>2, <1>3, <1>4, <1>5, <1>6, <1>7 DEF Next

LEMMA BudgetTypes ==
    ASSUME TypeOK
    PROVE  budget.mounts \in Nat \ {0}
BY ScenariosAssumption DEF TypeOK, DraftTypeOK

LEMMA ChangeSiteTypeOK ==
    ASSUME TypeOK, HistoryTypeOK', ChangeSite PROVE DraftTypeOK'
<1>1. content' \in Version /\ rev \in Nat
  BY DEF HistoryTypeOK, Version, TypeOK, DraftTypeOK
<1>2. CASE subscribed /\ ~skip
  <2>1. pending' = [rev |-> rev + 1, of |-> content'] /\ timer' = TRUE
        /\ rev' = rev + 1 /\ skip' = FALSE
    BY <1>2 DEF ChangeSite
  <2>2. rev + 1 \in Nat \ {0}
    BY <1>1
  <2>3. pending' \in Snapshot
    BY ONLY <1>1, <2>1, <2>2 DEF Snapshot
  <2>4. timer' \in BOOLEAN /\ skip' \in BOOLEAN /\ rev' \in Nat
    BY <2>1, <2>2
  <2>5. UNCHANGED <<mount, mounts, subscribed, flight, status, seen, changed, loading, requests,
                   stored, seq, writer, counts, landed, foreign, known>>
    BY DEF ChangeSite, server
  <2> QED
    BY <2>3, <2>4, <2>5 DEF TypeOK, DraftTypeOK, counts, Mount
<1>3. CASE ~(subscribed /\ ~skip)
  <2>2. CASE ~subscribed
    <3>1. UNCHANGED <<pending, timer, skip, rev>>
      BY <2>2 DEF ChangeSite
    <3> QED
      BY <3>1, <1>1 DEF TypeOK, DraftTypeOK, ChangeSite, server, counts, Mount
  <2>3. CASE subscribed /\ skip
    <3>1. UNCHANGED <<pending, timer>> /\ skip' = FALSE /\ rev' = rev + 1
      BY <2>3 DEF ChangeSite
    <3>2. rev' \in Nat
      BY <1>1, <3>1
    <3> QED
      BY <3>1, <3>2 DEF TypeOK, DraftTypeOK, ChangeSite, server, counts, Mount
  <2> QED
    BY <1>3, <2>2, <2>3
<1> QED
  BY <1>2, <1>3

\* The save that is sent: what flushSaves does to its variables is well typed.
LEMMA SendTypes ==
    ASSUME TypeOK, mount \in Mount, pending # Nothing, Send
    PROVE  /\ pending' = Nothing
           /\ status' \in {"loading", "synced", "connecting", "error"}
           /\ flight' \in [Mount -> [rev : Nat, answer : Nat]]
           /\ Request \in [mount : Mount, rev : Nat \ {0}, of : Version, read : Nat \union {Unread}]
<1>1. pending \in Snapshot
  BY DEF TypeOK, DraftTypeOK
<1>2. [rev |-> pending.rev, answer |-> 0] \in [rev : Nat, answer : Nat]
  BY <1>1 DEF Snapshot
<1>3. flight' \in [Mount -> [rev : Nat, answer : Nat]]
  BY <1>2 DEF TypeOK, DraftTypeOK, Send
<1> QED
  BY <1>1, <1>3 DEF Send, Request, Snapshot

LEMMA TimerFiresTypeOK == ASSUME TypeOK, TimerFires PROVE DraftTypeOK'
<1>1. mount \in Mount
  BY DEF TypeOK, DraftTypeOK, TimerFires
<1>2. CASE flight[mount] = Idle /\ pending # Nothing
  BY <1>1, <1>2, SendTypes DEF TypeOK, DraftTypeOK, TimerFires, server, counts, ghosts, Mount
<1>3. CASE ~(flight[mount] = Idle /\ pending # Nothing)
  BY <1>3 DEF TypeOK, DraftTypeOK, TimerFires, server, counts, ghosts, Mount
<1> QED
  BY <1>2, <1>3

LEMMA AnswerTypeOK ==
    ASSUME TypeOK, NEW m \in Mount, Answer(m) PROVE DraftTypeOK'
<1>1. seen' \in Nat
  BY DEF TypeOK, DraftTypeOK, Answer, Later
<1>2. CASE m = mount /\ pending # Nothing
  BY <1>1, <1>2, SendTypes DEF TypeOK, DraftTypeOK, Answer, server, counts, ghosts, Mount
<1>3. CASE ~(m = mount /\ pending # Nothing)
  <2>1. flight' \in [Mount -> [rev : Nat, answer : Nat]]
    BY <1>3 DEF TypeOK, DraftTypeOK, Answer, Idle
  <2> QED
    BY <1>1, <1>3, <2>1 DEF TypeOK, DraftTypeOK, Answer, server, counts, ghosts, Mount
<1> QED
  BY <1>2, <1>3

LEMMA FailTypeOK ==
    ASSUME TypeOK, NEW m \in Mount, Fail(m) PROVE DraftTypeOK'
<1>1. faults' \in Nat /\ known' \subseteq Known
  BY DEF TypeOK, DraftTypeOK, Fail, Admit, Known
<1>2. PICK others \in SUBSET requests :
        IF m = mount /\ pending # Nothing
        THEN Send /\ requests' = others \union {Request}
        ELSE /\ flight' = [flight EXCEPT ![m] = Idle]
             /\ status' = IF m = mount THEN "error" ELSE status
             /\ requests' = others
             /\ UNCHANGED pending
  BY DEF Fail
<1>3. CASE m = mount /\ pending # Nothing
  BY <1>1, <1>2, <1>3, SendTypes DEF TypeOK, DraftTypeOK, Fail, server, ghosts, Mount
<1>4. CASE ~(m = mount /\ pending # Nothing)
  <2>1. flight' \in [Mount -> [rev : Nat, answer : Nat]]
    BY <1>2, <1>4 DEF TypeOK, DraftTypeOK, Idle
  <2> QED
    BY <1>1, <1>2, <1>4, <2>1 DEF TypeOK, DraftTypeOK, Fail, server, ghosts, Mount
<1> QED
  BY <1>3, <1>4

LEMMA ServerReadsTypeOK ==
    ASSUME TypeOK, NEW r \in requests, ServerReads(r) PROVE DraftTypeOK'
<1>1. requests' \subseteq [mount : Mount, rev : Nat \ {0}, of : Version,
                          read : Nat \union {Unread}]
  <2>1. r \in [mount : Mount, rev : Nat \ {0}, of : Version, read : Nat \union {Unread}]
        /\ seq \in Nat
    BY DEF TypeOK, DraftTypeOK
  <2>2. [r EXCEPT !.read = seq] \in [mount : Mount, rev : Nat \ {0}, of : Version,
                                    read : Nat \union {Unread}]
    BY <2>1
  <2> QED
    BY <2>2 DEF TypeOK, DraftTypeOK, ServerReads
<1> QED
  BY <1>1 DEF TypeOK, DraftTypeOK, ServerReads, client, server, counts, ghosts, Mount

LEMMA ServerSaveTypeOK ==
    ASSUME TypeOK, NEW r \in requests, ServerSave(r) PROVE DraftTypeOK'
<1>1. /\ r \in [mount : Mount, rev : Nat \ {0}, of : Version, read : Nat \union {Unread}]
      /\ r.read \in Nat
  BY DEF TypeOK, DraftTypeOK, ServerSave
<1>2. flight' \in [Mount -> [rev : Nat, answer : Nat]]
  <2>1. flight \in [Mount -> [rev : Nat, answer : Nat]]
    BY DEF TypeOK, DraftTypeOK
  <2>2. flight' = flight \/ flight' = [flight EXCEPT ![r.mount].answer = r.read + 1]
    BY DEF ServerSave
  <2>3. r.read + 1 \in Nat
    BY <1>1
  <2>4. \A m \in Mount : [flight[m] EXCEPT !.answer = r.read + 1] \in [rev : Nat, answer : Nat]
    BY <2>1, <2>3
  <2> QED
    BY <2>1, <2>2, <2>4
<1>3. known' \subseteq Known
  BY DEF TypeOK, DraftTypeOK, ServerSave, Known
<1>4. /\ requests' \subseteq [mount : Mount, rev : Nat \ {0}, of : Version,
                              read : Nat \union {Unread}]
      /\ stored' \in Version /\ seq' \in Nat /\ landed' \in Nat
  BY <1>1 DEF TypeOK, DraftTypeOK, ServerSave
<1> QED
  BY <1>2, <1>3, <1>4 DEF TypeOK, DraftTypeOK, ServerSave, server, counts, Mount

LEMMA FetchedTypeOK ==
    ASSUME TypeOK, NEW d \in Doc, Fetched(d) PROVE DraftTypeOK'
<1>1. loading \in [why : {"boot", "refresh"}, got : [Doc -> Value \union {Unread}],
                   seq : Nat, rev : Nat]
  BY DEF TypeOK, DraftTypeOK, Fetched
<1>2. stored[d] \in Value /\ seq \in Nat
  BY DEF TypeOK, DraftTypeOK, Version
<1>3. loading' \in [why : {"boot", "refresh"}, got : [Doc -> Value \union {Unread}],
                    seq : Nat, rev : Nat]
  BY <1>1, <1>2 DEF Fetched
<1> QED
  BY <1>3 DEF TypeOK, DraftTypeOK, Fetched, client, server, counts, ghosts, Mount

LEMMA LoadedTypeOK == ASSUME TypeOK, Loaded PROVE DraftTypeOK'
<1>1. seen' \in Nat
  BY DEF TypeOK, DraftTypeOK, Loaded, Later
<1>2. known' \subseteq Known
  BY DEF TypeOK, DraftTypeOK, Loaded, Admit, Known
<1> QED
  BY <1>1, <1>2 DEF TypeOK, DraftTypeOK, Loaded, server, counts, Mount

LEMMA LeaveTypeOK == ASSUME TypeOK, Leave PROVE DraftTypeOK'
<1>1. known' \subseteq Known
  BY DEF TypeOK, DraftTypeOK, Leave, Admit, Known
<1>2. mount \in Mount
  BY DEF TypeOK, DraftTypeOK, Leave
<1>3. pending # Nothing => Request \in [mount : Mount, rev : Nat \ {0}, of : Version, read : Nat \union {Unread}]
  BY <1>2 DEF TypeOK, DraftTypeOK, Request, Snapshot
<1>4. requests' \subseteq [mount : Mount, rev : Nat \ {0}, of : Version, read : Nat \union {Unread}]
  BY <1>3 DEF TypeOK, DraftTypeOK, Leave
<1> QED
  BY <1>1, <1>4 DEF TypeOK, DraftTypeOK, Leave, server, counts, Mount

LEMMA ReturnTypeOK == ASSUME TypeOK, Return PROVE DraftTypeOK'
<1>1. mounts + 1 \in Mount
  BY BudgetTypes DEF TypeOK, DraftTypeOK, Return, Mount
<1> QED
  BY <1>1 DEF TypeOK, DraftTypeOK, Return, server, counts, ghosts, Mount

LEMMA ReloadTypeOK == ASSUME TypeOK, Reload PROVE DraftTypeOK'
<1>1. mounts + 1 \in Mount
  BY BudgetTypes DEF TypeOK, DraftTypeOK, Reload, Mount
<1>2. known' \subseteq Known
  BY DEF TypeOK, DraftTypeOK, Reload, Admit, Known
<1>3. flight' \in [Mount -> [rev : Nat, answer : Nat]]
  BY DEF Reload, Idle
<1>4. loading' \in [why : {"boot", "refresh"}, got : [Doc -> Value \union {Unread}],
                    seq : Nat, rev : Nat]
  BY DEF TypeOK, DraftTypeOK, Reload
<1> QED
  BY <1>1, <1>2, <1>3, <1>4 DEF TypeOK, DraftTypeOK, Reload, server, counts, Mount

LEMMA RefreshTypeOK == ASSUME TypeOK, Refresh PROVE DraftTypeOK'
<1>1. loading' \in [why : {"boot", "refresh"}, got : [Doc -> Value \union {Unread}],
                    seq : Nat, rev : Nat]
  BY DEF TypeOK, DraftTypeOK, Refresh
<1> QED
  BY <1>1 DEF TypeOK, DraftTypeOK, Refresh, client, server, ghosts, Mount

LEMMA PollTypeOK == ASSUME TypeOK, Poll PROVE DraftTypeOK'
<1>1. known' \subseteq Known
  BY DEF TypeOK, DraftTypeOK, Poll, Admit, Known
<1> QED
  BY <1>1 DEF TypeOK, DraftTypeOK, Poll, server, counts, Mount

LEMMA LoseUnawaitedTypeOK ==
    ASSUME TypeOK, NEW r \in requests, LoseUnawaited(r) PROVE DraftTypeOK'
<1>1. known' \subseteq Known
  BY DEF TypeOK, DraftTypeOK, LoseUnawaited, Admit, Known
<1> QED
  BY <1>1 DEF TypeOK, DraftTypeOK, LoseUnawaited, client, server, Mount

LEMMA WriterReadsTypeOK ==
    ASSUME TypeOK, NEW who \in {"agent", "publish"}, WriterReads(who) PROVE DraftTypeOK'
<1>1. writer' \in [who : {"agent", "publish"}, seq : Nat, site : Value]
  BY SiteAssumption DEF TypeOK, DraftTypeOK, WriterReads, Version
<1> QED
  BY <1>1 DEF TypeOK, DraftTypeOK, WriterReads, client, server, ghosts, Mount

LEMMA AgentPersistsTypeOK ==
    ASSUME TypeOK, NEW page \in Doc \ {Site}, AgentPersists(page) PROVE DraftTypeOK'
<1>1. writer \in [who : {"agent", "publish"}, seq : Nat, site : Value]
  BY DEF TypeOK, DraftTypeOK, AgentPersists, Nothing
<1>2. Elsewhere \in Value
  BY EditsAssumption DEF Elsewhere, Value
<1>3. stored' \in Version /\ seq' \in Nat
  BY <1>1, <1>2 DEF TypeOK, DraftTypeOK, AgentPersists, Version
<1>4. known' \subseteq Known
  BY DEF TypeOK, DraftTypeOK, AgentPersists, Known
<1> QED
  BY <1>3, <1>4 DEF TypeOK, DraftTypeOK, AgentPersists, client, counts, Mount

LEMMA PublishSavesTypeOK == ASSUME TypeOK, PublishSaves PROVE DraftTypeOK'
<1>1. writer \in [who : {"agent", "publish"}, seq : Nat, site : Value]
  BY DEF TypeOK, DraftTypeOK, PublishSaves, Nothing
<1>2. stored' \in Version /\ seq' \in Nat
  BY <1>1 DEF TypeOK, DraftTypeOK, PublishSaves, Version
<1>3. known' \subseteq Known
  BY DEF TypeOK, DraftTypeOK, PublishSaves, Known
<1> QED
  BY <1>2, <1>3 DEF TypeOK, DraftTypeOK, PublishSaves, client, counts, Mount

LEMMA InitTypeOK == ASSUME Init PROVE DraftTypeOK
<1>1. 1 \in Mount
  BY ScenariosAssumption DEF Init, Mount
<1>2. stored \in Version
  <2>1. 0 \in Value
    BY EditsAssumption DEF Value, Elsewhere
  <2> QED
    BY <2>1 DEF Init, HistoryInit, Version
<1>3. flight \in [Mount -> [rev : Nat, answer : Nat]]
  BY DEF Init, Idle
<1>4. subscribed \in BOOLEAN /\ budget \in Scenarios
  BY ScenariosAssumption DEF Init
<1> QED
  BY <1>1, <1>2, <1>3, <1>4 DEF Init, DraftTypeOK

-----------------------------------------------------------------------------
\* The inductive invariant of the whole system.
SessionInv == HistoryInv /\ DraftTypeOK

LEMMA SessionStep == ASSUME SessionInv, [Next]_vars PROVE SessionInv'
<1>1. TypeOK
  BY DEF SessionInv, HistoryInv, TypeOK
<1>2. HistoryInv'
  BY <1>1, HistoryStep, HistoryNextInv DEF SessionInv
<1>3. HistoryTypeOK'
  BY <1>2 DEF HistoryInv
<1>4. DraftTypeOK'
  <2>1. CASE ChangeSite
    BY <2>1, <1>1, <1>3, ChangeSiteTypeOK
  <2>2. CASE InlineEditing
    BY <2>2, <1>1 DEF TypeOK, DraftTypeOK, InlineEditing, client, server, counts, ghosts, Mount
  <2>3. CASE TimerFires
    BY <2>3, <1>1, TimerFiresTypeOK
  <2>4. CASE Poll
    BY <2>4, <1>1, PollTypeOK
  <2>5. CASE Leave
    BY <2>5, <1>1, LeaveTypeOK
  <2>6. CASE Return
    BY <2>6, <1>1, ReturnTypeOK
  <2>7. CASE Reload
    BY <2>7, <1>1, ReloadTypeOK
  <2>8. CASE Refresh
    BY <2>8, <1>1, RefreshTypeOK
  <2>9. CASE Loaded
    BY <2>9, <1>1, LoadedTypeOK
  <2>10. CASE \E m \in Mount : Answer(m) \/ Fail(m)
    BY <2>10, <1>1, AnswerTypeOK, FailTypeOK
  <2>11. CASE \E d \in Doc : Fetched(d)
    BY <2>11, <1>1, FetchedTypeOK
  <2>12. CASE \E r \in requests : ServerReads(r) \/ ServerSave(r) \/ LoseUnawaited(r)
    BY <2>12, <1>1, ServerReadsTypeOK, ServerSaveTypeOK, LoseUnawaitedTypeOK
  <2>13. CASE \E who \in {"agent", "publish"} : WriterReads(who)
    BY <2>13, <1>1, WriterReadsTypeOK
  <2>14. CASE \E page \in Doc \ {Site} : AgentPersists(page)
    BY <2>14, <1>1, AgentPersistsTypeOK
  <2>15. CASE PublishSaves
    BY <2>15, <1>1, PublishSavesTypeOK
  <2>16. CASE UNCHANGED vars
    BY <2>16, <1>1 DEF TypeOK, DraftTypeOK, vars, client, server, counts, ghosts, Mount
  <2> QED
    BY <2>1, <2>2, <2>3, <2>4, <2>5, <2>6, <2>7, <2>8, <2>9, <2>10, <2>11, <2>12, <2>13,
       <2>14, <2>15, <2>16 DEF Next
<1> QED
  BY <1>2, <1>4 DEF SessionInv

LEMMA SessionInvariant == Spec => []SessionInv
<1>1. Init => SessionInv
  BY HistoryInitInv, InitTypeOK DEF Init, SessionInv
<1>2. SessionInv /\ [Next]_vars => SessionInv'
  BY SessionStep
<1> QED
  BY <1>1, <1>2, PTL DEF Spec

\* Whatever the editor, the network, the server and the other writers do, every
\* variable keeps its type: no empty group on the route, no stack of wrong values.
THEOREM SessionTypeCorrect == Spec => []TypeOK
<1>1. SessionInv => TypeOK
  BY DEF SessionInv, HistoryInv, TypeOK
<1> QED
  BY <1>1, SessionInvariant, PTL

\* collabBinding.ts:42-48: one Cmd+Z reverts an edit in all its documents and in no
\* other, for the route's groups and the managers' stacks never drift apart; this
\* for interleaved bursts too, which the model checking leaves out.
THEOREM UndoRouteSound == Spec => []RouteMatchesStacks
<1>1. SessionInv => RouteMatchesStacks
  BY DEF SessionInv, HistoryInv
<1> QED
  BY <1>1, SessionInvariant, PTL

-----------------------------------------------------------------------------
\* Undo implements Timeline.  A step pushes a version onto the line; taking
\* one off is the inverse.

\* Versions, for a site of which now is shown.
VersionAt(route, stack, now, i, d) ==
    LET n == Steps(route, i, d)
    IN  IF n = 0 \/ n > Len(stack[d]) THEN now[d] ELSE stack[d][Len(stack[d]) - n + 1]

Line(route, stack, now) ==
    [i \in 1..Len(route) |-> [d \in Doc |-> VersionAt(route, stack, now, i, d)]]

LEMMA VersionsAreLine ==
    ASSUME NEW route, NEW stack
    PROVE  Versions(route, stack) = Line(route, stack, content)
BY DEF Versions, Line, VersionAt

LEMMA VersionShown ==
    ASSUME NEW route, NEW stack, NEW now, NEW i, NEW d, Steps(route, i, d) = 0
    PROVE  VersionAt(route, stack, now, i, d) = now[d]
BY DEF VersionAt

LEMMA VersionAside ==
    ASSUME NEW route, NEW stack, NEW now, NEW i, NEW d,
           NEW n \in Nat \ {0}, Steps(route, i, d) = n,
           Len(stack[d]) \in Nat, n <= Len(stack[d])
    PROVE  VersionAt(route, stack, now, i, d) = stack[d][Len(stack[d]) - n + 1]
<1>1. ~(n = 0 \/ n > Len(stack[d]))
  OBVIOUS
<1> QED
  BY <1>1 DEF VersionAt

\* The groups from i on are finitely many, and no more than all.
LEMMA StepsFrom ==
    ASSUME NEW route \in Seq(Group), NEW i \in 1..(Len(route) + 1), NEW d
    PROVE  /\ Steps(route, i, d) \in Nat
           /\ Steps(route, i, d) <= Steps(route, 1, d)
           /\ IsFiniteSet({j \in i..Len(route) : d \in route[j]})
<1> DEFINE all == {j \in 1..Len(route) : d \in route[j]}
           some == {j \in i..Len(route) : d \in route[j]}
<1>1. IsFiniteSet(all)
  BY StepsNat
<1>2. some \subseteq all
  OBVIOUS
<1>3. IsFiniteSet(some) /\ Cardinality(some) <= Cardinality(all)
  BY <1>1, <1>2, FS_Subset
<1>4. Cardinality(some) \in Nat
  BY <1>3, FS_CardinalityType
<1>5. Steps(route, i, d) = Cardinality(some) /\ Steps(route, 1, d) = Cardinality(all)
  BY DEF Steps
<1> HIDE DEF all, some
<1>6. IsFiniteSet(some)
  BY <1>3
<1> QED
  BY <1>3, <1>4, <1>5, <1>6 DEF some

\* Beyond the newest group there is none.
LEMMA StepsBeyond ==
    ASSUME NEW route \in Seq(Group), NEW d
    PROVE  Steps(route, Len(route) + 1, d) = 0
<1>1. {j \in (Len(route) + 1)..Len(route) : d \in route[j]} = {}
  <2>1. Len(route) \in Nat
    OBVIOUS
  <2> QED
    BY <2>1
<1> QED
  BY <1>1, FS_EmptySet DEF Steps

\* StepsAppend, counted from any group on.
LEMMA StepsFromAppend ==
    ASSUME NEW route \in Seq(Group), NEW group \in Group, NEW d,
           NEW i \in 1..(Len(route) + 1)
    PROVE  Steps(Append(route, group), i, d) = Steps(route, i, d) + Touching(group, d)
<1> DEFINE old == {j \in i..Len(route) : d \in route[j]}
           new == {j \in i..Len(Append(route, group)) : d \in Append(route, group)[j]}
           n == Len(route) + 1
<1>1. /\ Len(Append(route, group)) = n
      /\ Append(route, group)[n] = group
      /\ \A j \in 1..Len(route) : Append(route, group)[j] = route[j]
      /\ Len(route) \in Nat
  OBVIOUS
<1>2. IsFiniteSet(old) /\ n \notin old
  <2>1. n \notin i..Len(route)
    BY <1>1
  <2> QED
    BY <2>1, StepsFrom
<1>3. CASE d \in group
  <2>1. new = old \union {n}
    BY <1>1, <1>3
  <2>2. Cardinality(new) = Cardinality(old) + 1
    BY <2>1, <1>2, FS_AddElement
  <2> QED
    BY <2>2, <1>3 DEF Steps, Touching
<1>4. CASE d \notin group
  <2>1. new = old
    BY <1>1, <1>4
  <2>2. Cardinality(old) \in Nat
    BY <1>2, FS_CardinalityType
  <2>3. Steps(Append(route, group), i, d) = Cardinality(old) /\ Steps(route, i, d) = Cardinality(old)
    BY <2>1 DEF Steps
  <2>4. Touching(group, d) = 0
    BY <1>4 DEF Touching
  <2> QED
    BY <2>2, <2>3, <2>4
<1> QED
  BY <1>3, <1>4

-----------------------------------------------------------------------------
LEMMA LineType ==
    ASSUME NEW route \in Seq(Group), NEW stack \in [Doc -> Seq(Value)],
           NEW now \in [Doc -> Value]
    PROVE  Line(route, stack, now) \in Seq(Version) /\ Len(Line(route, stack, now)) = Len(route)
<1>1. ASSUME NEW i \in 1..Len(route), NEW d \in Doc
      PROVE  VersionAt(route, stack, now, i, d) \in Value
  <2>1. Steps(route, i, d) \in Nat
    <3>1. Len(route) \in Nat /\ i \in 1..(Len(route) + 1)
      OBVIOUS
    <3> QED
      BY <3>1, StepsFrom
  <2>2. stack[d] \in Seq(Value) /\ now[d] \in Value /\ Len(stack[d]) \in Nat
    OBVIOUS
  <2>3. CASE Steps(route, i, d) = 0 \/ Steps(route, i, d) > Len(stack[d])
    BY <2>2, <2>3 DEF VersionAt
  <2>4. CASE Steps(route, i, d) \in 1..Len(stack[d])
    <3>1. Len(stack[d]) - Steps(route, i, d) + 1 \in 1..Len(stack[d])
      BY <2>2, <2>4
    <3>2. stack[d][Len(stack[d]) - Steps(route, i, d) + 1] \in Value
      BY <2>2, <3>1
    <3>3. ~(Steps(route, i, d) = 0 \/ Steps(route, i, d) > Len(stack[d]))
      BY <2>2, <2>4
    <3> QED
      BY <3>2, <3>3 DEF VersionAt
  <2> QED
    BY <2>1, <2>2, <2>3, <2>4
<1>2. Line(route, stack, now) \in [1..Len(route) -> Version]
  BY <1>1 DEF Line, Version
<1>3. Len(route) \in Nat
  OBVIOUS
<1> QED
  BY <1>2, <1>3

\* The stacks have what the route asks of them.
Covers(route, stack) == \A d \in Doc : Steps(route, 1, d) <= Len(stack[d])

\* The documents of a group, and no others, change, and put aside what they showed.
PutsAside(group, stack, pushed, now, after) ==
    /\ \A d \in Doc : pushed[d] = IF d \in group THEN Append(stack[d], now[d]) ELSE stack[d]
    /\ \A d \in Doc : d \notin group => after[d] = now[d]

\* The longer line has one version more.
Grows(longer, line, version) == longer = Append(line, version)

\* A group that puts aside what its documents show adds what the site shows.
LEMMA LinePush ==
    ASSUME NEW route \in Seq(Group), NEW group \in Group,
           NEW stack \in [Doc -> Seq(Value)], NEW pushed \in [Doc -> Seq(Value)],
           NEW now \in [Doc -> Value], NEW after \in [Doc -> Value],
           Covers(route, stack), PutsAside(group, stack, pushed, now, after)
    PROVE  Grows(Line(Append(route, group), pushed, after), Line(route, stack, now), now)
<1> USE DEF Covers, PutsAside
<1> DEFINE old == Line(route, stack, now)
           new == Line(Append(route, group), pushed, after)
           n == Len(route) + 1
<1>1. Append(route, group) \in Seq(Group) /\ Len(Append(route, group)) = n /\ Len(route) \in Nat
  OBVIOUS
<1>2. old \in Seq(Version) /\ Len(old) = Len(route)
  BY LineType
<1>3. new \in Seq(Version) /\ Len(new) = n
  BY <1>1, LineType
<1>4. ASSUME NEW i \in 1..Len(route), NEW d \in Doc
      PROVE  VersionAt(Append(route, group), pushed, after, i, d)
                = VersionAt(route, stack, now, i, d)
  <2>0. i \in 1..(Len(route) + 1)
    BY <1>1
  <2>1. Steps(Append(route, group), i, d) = Steps(route, i, d) + Touching(group, d)
    BY <2>0, StepsFromAppend
  <2>2. Steps(route, i, d) \in Nat /\ Steps(route, i, d) <= Steps(route, 1, d)
    BY <2>0, StepsFrom
  <2>3. /\ stack[d] \in Seq(Value) /\ now[d] \in Value
        /\ Len(stack[d]) \in Nat /\ Steps(route, 1, d) <= Len(stack[d])
        /\ Steps(route, 1, d) \in Nat
    <3>1. Steps(route, 1, d) \in Nat
      BY StepsNat
    <3>2. stack[d] \in Seq(Value) /\ now[d] \in Value
      OBVIOUS
    <3>3. Len(stack[d]) \in Nat
      BY <3>2
    <3> QED
      BY <3>1, <3>2, <3>3
  <2>4. CASE d \notin group
    <3>1. pushed[d] = stack[d] /\ after[d] = now[d]
      BY <2>4
    <3>2. Steps(Append(route, group), i, d) = Steps(route, i, d)
      BY <2>1, <2>2, <2>4 DEF Touching
    <3> QED
      BY <3>1, <3>2 DEF VersionAt
  <2>5. CASE d \in group
    <3>1. pushed[d] = Append(stack[d], now[d])
      BY <2>5
    <3>2. Steps(Append(route, group), i, d) = Steps(route, i, d) + 1
      BY <2>1, <2>5 DEF Touching
    <3>3. Len(pushed[d]) = Len(stack[d]) + 1
      BY <2>3, <3>1
    <3>4. VersionAt(Append(route, group), pushed, after, i, d)
             = Append(stack[d], now[d])[Len(stack[d]) + 1 - Steps(route, i, d)]
      <4>1. Len(pushed[d]) - (Steps(route, i, d) + 1) + 1 = Len(stack[d]) + 1 - Steps(route, i, d)
        BY <2>2, <2>3, <3>3
      <4>2. /\ Steps(route, i, d) + 1 \in Nat \ {0} /\ Len(pushed[d]) \in Nat
            /\ Steps(route, i, d) + 1 <= Len(pushed[d])
        BY <2>2, <2>3, <3>3
      <4>3. VersionAt(Append(route, group), pushed, after, i, d)
               = pushed[d][Len(pushed[d]) - (Steps(route, i, d) + 1) + 1]
        BY <3>2, <4>2, VersionAside
      <4> QED
        BY ONLY <3>1, <4>1, <4>3
    <3>5. CASE Steps(route, i, d) = 0
      <4>1. Append(stack[d], now[d])[Len(stack[d]) + 1] = now[d]
        BY <2>3
      <4>2. Len(stack[d]) + 1 - 0 = Len(stack[d]) + 1
        BY <2>3
      <4> QED
        BY <3>4, <3>5, <4>1, <4>2, VersionShown
    <3>6. CASE Steps(route, i, d) # 0
      <4>1. Len(stack[d]) + 1 - Steps(route, i, d) \in 1..Len(stack[d])
        BY <2>2, <2>3, <3>6
      <4>2. Append(stack[d], now[d])[Len(stack[d]) + 1 - Steps(route, i, d)]
               = stack[d][Len(stack[d]) + 1 - Steps(route, i, d)]
        BY <2>3, <4>1, AppendProperties
      <4>3. Len(stack[d]) + 1 - Steps(route, i, d) = Len(stack[d]) - Steps(route, i, d) + 1
        BY <2>2, <2>3
      <4>4. VersionAt(route, stack, now, i, d) = stack[d][Len(stack[d]) - Steps(route, i, d) + 1]
        <5>1. Steps(route, i, d) \in Nat \ {0} /\ Steps(route, i, d) <= Len(stack[d])
          BY <2>2, <2>3, <3>6
        <5> QED
          BY <5>1, <2>3, VersionAside
      <4> QED
        BY <3>4, <4>2, <4>3, <4>4
    <3> QED
      BY <3>5, <3>6
  <2> QED
    BY <2>4, <2>5
<1>5. ASSUME NEW d \in Doc
      PROVE  VersionAt(Append(route, group), pushed, after, n, d) = now[d]
  <2>1. Steps(Append(route, group), n, d) = Touching(group, d)
    <3>1. n \in 1..(Len(route) + 1) /\ Steps(route, n, d) = 0
      BY <1>1, StepsBeyond
    <3>2. Touching(group, d) \in {0, 1}
      BY DEF Touching
    <3>3. Steps(Append(route, group), n, d) = Steps(route, n, d) + Touching(group, d)
      <4> HIDE DEF n
      <4> QED
        BY <3>1, StepsFromAppend
    <3> QED
      BY <3>1, <3>2, <3>3
  <2>2. CASE d \notin group
    BY <2>1, <2>2, VersionShown DEF Touching
  <2>3. CASE d \in group
    <3>1. /\ pushed[d] = Append(stack[d], now[d])
          /\ stack[d] \in Seq(Value) /\ now[d] \in Value
      BY <2>3
    <3>2. Len(pushed[d]) = Len(stack[d]) + 1 /\ Len(stack[d]) \in Nat
      BY <3>1
    <3>3. pushed[d][Len(stack[d]) + 1] = now[d]
      BY <3>1, <3>2
    <3>4. 1 <= Len(pushed[d]) /\ Len(pushed[d]) \in Nat /\ Len(pushed[d]) - 1 + 1 = Len(stack[d]) + 1
      BY <3>2
    <3>5. Steps(Append(route, group), n, d) = 1
      BY <2>1, <2>3 DEF Touching
    <3> QED
      BY <3>3, <3>4, <3>5, VersionAside
  <2> QED
    BY <2>2, <2>3
<1>6. ASSUME NEW i \in 1..n
      PROVE  new[i] = Append(old, now)[i]
  <2>1. new[i] = [d \in Doc |-> VersionAt(Append(route, group), pushed, after, i, d)]
    BY <1>1 DEF Line
  <2>2. CASE i = n
    <3>1. new[i] = [d \in Doc |-> now[d]]
      BY <1>5, <2>1, <2>2
    <3>2. [d \in Doc |-> now[d]] = now
      OBVIOUS
    <3>3. Append(old, now)[Len(old) + 1] = now
      BY <1>2 DEF Version
    <3> QED
      BY <1>2, <2>2, <3>1, <3>2, <3>3
  <2>3. CASE i \in 1..Len(route)
    <3>1. new[i] = old[i]
      <4>1. old[i] = [d \in Doc |-> VersionAt(route, stack, now, i, d)]
        BY <2>3 DEF Line
      <4> QED
        BY <1>4, <2>1, <2>3, <4>1
    <3> QED
      BY <1>2, <2>3, <3>1 DEF Version
  <2>4. i = n \/ i \in 1..Len(route)
    BY <1>1
  <2> QED
    BY <2>2, <2>3, <2>4
<1>7. Append(old, now) \in Seq(Version) /\ Len(Append(old, now)) = n
  BY <1>2 DEF Version
<1> HIDE DEF old, new
<1>8. new = Append(old, now)
  BY <1>3, <1>6, <1>7, SeqEqual
<1> QED
  BY <1>8 DEF old, new, Grows

LEMMA AppendTop ==
    ASSUME NEW S, NEW s \in Seq(S), NEW x \in S
    PROVE  /\ Append(s, x) # <<>>
           /\ Append(s, x)[Len(Append(s, x))] = x
           /\ SubSeq(Append(s, x), 1, Len(Append(s, x)) - 1) = s
<1> DEFINE t == Append(s, x)
<1>1. /\ t \in Seq(S) /\ t # <<>> /\ Len(t) = Len(s) + 1 /\ Len(s) \in Nat
      /\ \A i \in 1..Len(s) : t[i] = s[i]
      /\ t[Len(s) + 1] = x
  BY AppendProperties
<1>2. Len(t) > 0 /\ Len(t) - 1 = Len(s)
  BY <1>1
<1> HIDE DEF t
<1>3. SubSeq(t, 1, Len(s)) \in Seq(S) /\ Len(SubSeq(t, 1, Len(s))) = Len(s)
      /\ \A i \in 1..Len(s) : SubSeq(t, 1, Len(s))[i] = t[i]
  BY <1>1
<1>4. SubSeq(t, 1, Len(s)) = s
  BY <1>1, <1>3, SeqEqual
<1> QED
  BY <1>1, <1>2, <1>4 DEF t

\* Pop and Top are the inverse of Append.
LEMMA PopThenAppend ==
    ASSUME NEW S, NEW s \in Seq(S), Len(s) > 0
    PROVE  /\ s = Append(Pop(s), Top(s))
           /\ Pop(s) \in Seq(S) /\ Top(s) \in S
           /\ Len(s) = Len(Pop(s)) + 1 /\ Len(s) \in Nat
<1>1. s # <<>>
  OBVIOUS
<1>2. PICK t \in Seq(S), x \in S : s = Append(t, x)
  BY <1>1, SequenceEmptyOrAppend
<1>3. Pop(s) = t /\ Top(s) = x
  BY <1>2, AppendTop, Zenon DEF Pop, Top
<1>4. Len(s) = Len(t) + 1
  BY <1>2, AppendProperties
<1>5. Len(s) \in Nat
  OBVIOUS
<1> QED
  BY <1>2, <1>3, <1>4, <1>5

\* Taking the newest group off, and putting back what it had put aside, takes the
\* newest version off the line: Push, read backwards.
LEMMA LinePop ==
    ASSUME NEW route \in Seq(Group), route # <<>>,
           NEW stack \in [Doc -> Seq(Value)], NEW popped \in [Doc -> Seq(Value)],
           NEW now \in [Doc -> Value], NEW next \in [Doc -> Value],
           Covers(route, stack),
           \A d \in Top(route) : popped[d] = Pop(stack[d]) /\ next[d] = Top(stack[d]),
           \A d \in Doc \ Top(route) : popped[d] = stack[d] /\ next[d] = now[d]
    PROVE  Grows(Line(route, stack, now), Line(Pop(route), popped, next), next)
<1>1. /\ Pop(route) \in Seq(Group) /\ Top(route) \in Group
      /\ route = Append(Pop(route), Top(route))
  BY DEF Top, Pop
<1>2. ASSUME NEW d \in Doc
      PROVE  /\ Steps(route, 1, d) = Steps(Pop(route), 1, d) + Touching(Top(route), d)
             /\ Steps(Pop(route), 1, d) \in Nat
  BY <1>1, StepsPop, StepsNat
<1>3. ASSUME NEW d \in Doc
      PROVE  /\ Steps(Pop(route), 1, d) <= Len(popped[d])
             /\ stack[d] = IF d \in Top(route) THEN Append(popped[d], next[d]) ELSE popped[d]
  <2>1. stack[d] \in Seq(Value) /\ Steps(route, 1, d) <= Len(stack[d])
    BY DEF Covers
  <2>2. Len(stack[d]) \in Nat
    BY <2>1
  <2>3. CASE d \in Top(route)
    <3>1. Len(stack[d]) >= Steps(Pop(route), 1, d) + 1
      BY <1>2, <2>1, <2>3 DEF Touching
    <3>2. Len(stack[d]) > 0
      BY <1>2, <2>2, <3>1
    <3>3. popped[d] = Pop(stack[d]) /\ next[d] = Top(stack[d])
      BY <2>3
    <3>4. Len(popped[d]) = Len(stack[d]) - 1
      <4>1. Len(stack[d]) = Len(Pop(stack[d])) + 1 /\ Pop(stack[d]) \in Seq(Value)
        BY <2>1, <3>2, PopThenAppend
      <4>2. Len(Pop(stack[d])) \in Nat
        BY <4>1
      <4> QED
        BY <3>3, <4>1, <4>2
    <3>5. stack[d] = Append(popped[d], next[d])
      BY <2>1, <3>2, <3>3, PopThenAppend
    <3> QED
      BY <1>2, <2>2, <2>3, <3>1, <3>4, <3>5
  <2>4. CASE d \notin Top(route)
    BY <1>2, <2>1, <2>4 DEF Touching
  <2> QED
    BY <2>3, <2>4
<1>4. Covers(Pop(route), popped)
  BY <1>3 DEF Covers
<1>5. PutsAside(Top(route), popped, stack, next, now)
  BY <1>3 DEF PutsAside
<1>6. Grows(Line(Append(Pop(route), Top(route)), stack, now), Line(Pop(route), popped, next), next)
  BY <1>1, <1>4, <1>5, LinePush
<1> QED
  BY ONLY <1>1, <1>6, Zenon

\* What the newest group's documents show is on no version of the line.
LEMMA LineFold ==
    ASSUME NEW route \in Seq(Group), route # <<>>,
           NEW stack \in [Doc -> Seq(Value)],
           NEW now \in [Doc -> Value], NEW next \in [Doc -> Value],
           Covers(route, stack),
           \A d \in Doc \ Top(route) : next[d] = now[d]
    PROVE  Line(route, stack, next) = Line(route, stack, now)
<1>1. /\ Pop(route) \in Seq(Group) /\ Top(route) \in Group
      /\ route = Append(Pop(route), Top(route))
      /\ Len(route) = Len(Pop(route)) + 1 /\ Len(route) \in Nat
  <2>1. Len(route) > 0
    OBVIOUS
  <2> QED
    BY <2>1, PopThenAppend
<1>2. ASSUME NEW i \in 1..Len(route), NEW d \in Doc
      PROVE  VersionAt(route, stack, next, i, d) = VersionAt(route, stack, now, i, d)
  <2>1. CASE d \notin Top(route)
    BY <2>1 DEF VersionAt
  <2>2. CASE d \in Top(route)
    <3>1. i \in 1..(Len(Pop(route)) + 1) /\ i \in 1..(Len(route) + 1)
      BY <1>1
    <3>2. Steps(route, i, d) = Steps(Pop(route), i, d) + Touching(Top(route), d)
      BY <1>1, <3>1, StepsFromAppend
    <3>3. Steps(Pop(route), i, d) \in Nat /\ Touching(Top(route), d) = 1
      BY <1>1, <2>2, <3>1, StepsFrom DEF Touching
    <3>4. /\ Steps(route, i, d) <= Steps(route, 1, d) /\ Steps(route, 1, d) <= Len(stack[d])
          /\ Steps(route, 1, d) \in Nat
      BY <3>1, StepsFrom, StepsNat DEF Covers
    <3>5. stack[d] \in Seq(Value) /\ Len(stack[d]) \in Nat
      OBVIOUS
    <3>6. Steps(route, i, d) \in Nat \ {0} /\ Steps(route, i, d) <= Len(stack[d])
      BY <3>2, <3>3, <3>4, <3>5
    <3> QED
      BY <3>5, <3>6, VersionAside
  <2> QED
    BY <2>1, <2>2
<1> QED
  BY <1>2 DEF Line

LEMMA GrowsTop ==
    ASSUME NEW longer, NEW line \in Seq(Version), NEW version \in Version,
           Grows(longer, line, version)
    PROVE  /\ longer # <<>>
           /\ longer[Len(longer)] = version
           /\ SubSeq(longer, 1, Len(longer) - 1) = line
           /\ longer = Append(line, version)
BY AppendTop DEF Grows

-----------------------------------------------------------------------------
\* The two lines, now and after a step.
LEMMA LinesShown ==
    /\ Versions(undoRoute, undoStack) = Line(undoRoute, undoStack, content)
    /\ Versions(redoRoute, redoStack) = Line(redoRoute, redoStack, content)
    /\ Versions(undoRoute, undoStack)' = Line(undoRoute', undoStack', content')
    /\ Versions(redoRoute, redoStack)' = Line(redoRoute', redoStack', content')
<1>1. /\ Versions(undoRoute, undoStack) = Line(undoRoute, undoStack, content)
      /\ Versions(redoRoute, redoStack) = Line(redoRoute, redoStack, content)
  BY VersionsAreLine
<1>2. Versions(undoRoute, undoStack)' = Line(undoRoute', undoStack', content')
  BY DEF Versions, Line, VersionAt, Steps
<1>3. Versions(redoRoute, redoStack)' = Line(redoRoute', redoStack', content')
  BY DEF Versions, Line, VersionAt, Steps
<1> QED
  BY <1>1, <1>2, <1>3

LEMMA LinesTyped ==
    ASSUME HistoryInv
    PROVE  /\ undoRoute \in Seq(Group) /\ redoRoute \in Seq(Group)
           /\ undoStack \in [Doc -> Seq(Value)] /\ redoStack \in [Doc -> Seq(Value)]
           /\ content \in [Doc -> Value] /\ content \in Version
           /\ Covers(undoRoute, undoStack) /\ Covers(redoRoute, redoStack)
<1>1. /\ undoRoute \in Seq(Group) /\ redoRoute \in Seq(Group)
      /\ undoStack \in [Doc -> Seq(Value)] /\ redoStack \in [Doc -> Seq(Value)]
      /\ content \in [Doc -> Value] /\ content \in Version
  BY DEF HistoryInv, HistoryTypeOK, Group, Version
<1>2. ASSUME NEW d \in Doc
      PROVE  /\ Steps(undoRoute, 1, d) <= Len(undoStack[d])
             /\ Steps(redoRoute, 1, d) <= Len(redoStack[d])
  <2>1. /\ Len(undoStack[d]) = Steps(undoRoute, 1, d)
        /\ Len(redoStack[d]) >= Steps(redoRoute, 1, d)
    BY DEF HistoryInv, RouteMatchesStacks
  <2>2. Len(undoStack[d]) \in Nat /\ Len(redoStack[d]) \in Nat
    BY <1>1
  <2>3. Steps(undoRoute, 1, d) \in Nat /\ Steps(redoRoute, 1, d) \in Nat
    BY <1>1, StepsNat
  <2> QED
    BY <2>1, <2>2, <2>3
<1> QED
  BY <1>1, <1>2 DEF Covers

\* collabUndo takes the newest version off one line and adds to the other.
LEMMA UndoRefines == ASSUME HistoryInv, HistoryInv', Undo PROVE OneTimeline!Undo
<1> DEFINE group == Top(undoRoute)
           undone == {d \in group : undoStack[d] # <<>>}
<1>1. /\ undoRoute \in Seq(Group) /\ redoRoute \in Seq(Group)
      /\ undoStack \in [Doc -> Seq(Value)] /\ redoStack \in [Doc -> Seq(Value)]
      /\ content \in [Doc -> Value] /\ content \in Version
      /\ Covers(undoRoute, undoStack) /\ Covers(redoRoute, redoStack)
  BY LinesTyped
<1>2. /\ undoRoute' \in Seq(Group)
      /\ undoStack' \in [Doc -> Seq(Value)] /\ redoStack' \in [Doc -> Seq(Value)]
      /\ content' \in [Doc -> Value] /\ content' \in Version
  BY DEF HistoryInv, HistoryTypeOK, Group, Version
<1>3. undoRoute # <<>> /\ group \in Group
  <2>1. undoRoute # <<>>
    BY DEF Undo
  <2> QED
    BY <1>1, <2>1, StepsPop
<1>4. undone = group
  <2>1. \A d \in Doc : Steps(undoRoute, 1, d) <= Len(undoStack[d])
    BY <1>1 DEF Covers
  <2> QED
    BY <1>1, <1>3, <2>1, WholeGroup
<1>5. /\ content' = [d \in Doc |-> IF d \in group THEN Top(undoStack[d]) ELSE content[d]]
      /\ undoStack' = [d \in Doc |-> IF d \in group THEN Pop(undoStack[d]) ELSE undoStack[d]]
      /\ redoStack' = [d \in Doc |-> IF d \in group THEN Append(redoStack[d], content[d])
                                     ELSE redoStack[d]]
      /\ undoRoute' = Pop(undoRoute)
      /\ redoRoute' = Append(redoRoute, group)
  BY <1>4 DEF Undo
<1>6. /\ \A d \in group : undoStack'[d] = Pop(undoStack[d]) /\ content'[d] = Top(undoStack[d])
      /\ \A d \in Doc \ group : undoStack'[d] = undoStack[d] /\ content'[d] = content[d]
      /\ PutsAside(group, redoStack, redoStack', content, content')
  <2>1. group \subseteq Doc
    BY <1>3 DEF Group
  <2> HIDE DEF group
  <2> QED
    BY <1>5, <2>1 DEF PutsAside
<1>7. Grows(Line(undoRoute, undoStack, content), Line(Pop(undoRoute), undoStack', content'), content')
  BY <1>1, <1>2, <1>3, <1>6, LinePop
<1>8. Grows(Line(Append(redoRoute, group), redoStack', content'),
            Line(redoRoute, redoStack, content), content)
  <2> HIDE DEF group
  <2> QED
    BY <1>1, <1>2, <1>3, <1>6, LinePush
<1>9. /\ Line(undoRoute', undoStack', content') \in Seq(Version)
      /\ Line(redoRoute, redoStack, content) \in Seq(Version)
  BY <1>1, <1>2, LineType
<1> DEFINE past == Versions(undoRoute, undoStack)
           future == Versions(redoRoute, redoStack)
<1>10. Grows(past, past', content') /\ Grows(future', future, content)
  BY <1>5, <1>7, <1>8, LinesShown
<1>11. past' \in Seq(Version) /\ future \in Seq(Version)
  BY <1>9, LinesShown
<1>12. /\ past # <<>> /\ past[Len(past)] = content'
       /\ SubSeq(past, 1, Len(past) - 1) = past'
       /\ future' = Append(future, content)
  <2> HIDE DEF past, future
  <2> QED
    BY <1>1, <1>2, <1>10, <1>11, GrowsTop
<1> QED
  BY <1>12 DEF OneTimeline!Undo

\* collabRedo, with the lines exchanged.
LEMMA RedoRefines == ASSUME HistoryInv, HistoryInv', Redo PROVE OneTimeline!Redo
<1> DEFINE group == Top(redoRoute)
           redone == {d \in group : redoStack[d] # <<>>}
<1>1. /\ redoRoute \in Seq(Group) /\ undoRoute \in Seq(Group)
      /\ redoStack \in [Doc -> Seq(Value)] /\ undoStack \in [Doc -> Seq(Value)]
      /\ content \in [Doc -> Value] /\ content \in Version
      /\ Covers(redoRoute, redoStack) /\ Covers(undoRoute, undoStack)
  BY LinesTyped
<1>2. /\ redoRoute' \in Seq(Group)
      /\ redoStack' \in [Doc -> Seq(Value)] /\ undoStack' \in [Doc -> Seq(Value)]
      /\ content' \in [Doc -> Value] /\ content' \in Version
  BY DEF HistoryInv, HistoryTypeOK, Group, Version
<1>3. redoRoute # <<>> /\ group \in Group
  <2>1. redoRoute # <<>>
    BY DEF Redo
  <2> QED
    BY <1>1, <2>1, StepsPop
<1>4. redone = group
  <2>1. \A d \in Doc : Steps(redoRoute, 1, d) <= Len(redoStack[d])
    BY <1>1 DEF Covers
  <2> QED
    BY <1>1, <1>3, <2>1, WholeGroup
<1>5. /\ content' = [d \in Doc |-> IF d \in group THEN Top(redoStack[d]) ELSE content[d]]
      /\ redoStack' = [d \in Doc |-> IF d \in group THEN Pop(redoStack[d]) ELSE redoStack[d]]
      /\ undoStack' = [d \in Doc |-> IF d \in group THEN Append(undoStack[d], content[d])
                                     ELSE undoStack[d]]
      /\ redoRoute' = Pop(redoRoute)
      /\ undoRoute' = Append(undoRoute, group)
  BY <1>4 DEF Redo
<1>6. /\ \A d \in group : redoStack'[d] = Pop(redoStack[d]) /\ content'[d] = Top(redoStack[d])
      /\ \A d \in Doc \ group : redoStack'[d] = redoStack[d] /\ content'[d] = content[d]
      /\ PutsAside(group, undoStack, undoStack', content, content')
  <2>1. group \subseteq Doc
    BY <1>3 DEF Group
  <2> HIDE DEF group
  <2> QED
    BY <1>5, <2>1 DEF PutsAside
<1>7. Grows(Line(redoRoute, redoStack, content), Line(Pop(redoRoute), redoStack', content'), content')
  BY <1>1, <1>2, <1>3, <1>6, LinePop
<1>8. Grows(Line(Append(undoRoute, group), undoStack', content'),
            Line(undoRoute, undoStack, content), content)
  <2> HIDE DEF group
  <2> QED
    BY <1>1, <1>2, <1>3, <1>6, LinePush
<1>9. /\ Line(redoRoute', redoStack', content') \in Seq(Version)
      /\ Line(undoRoute, undoStack, content) \in Seq(Version)
  BY <1>1, <1>2, LineType
<1> DEFINE future == Versions(redoRoute, redoStack)
           past == Versions(undoRoute, undoStack)
<1>10. Grows(future, future', content') /\ Grows(past', past, content)
  BY <1>5, <1>7, <1>8, LinesShown
<1>11. future' \in Seq(Version) /\ past \in Seq(Version)
  BY <1>9, LinesShown
<1>12. /\ future # <<>> /\ future[Len(future)] = content'
       /\ SubSeq(future, 1, Len(future) - 1) = future'
       /\ past' = Append(past, content)
  <2> HIDE DEF future, past
  <2> QED
    BY <1>1, <1>2, <1>10, <1>11, GrowsTop
<1> QED
  BY <1>12 DEF OneTimeline!Redo

-----------------------------------------------------------------------------
\* No edit of a burst that is taken up again is interleaved with others: then
\* applyLocalSitePatches adds a version, or changes the newest one alone.
LEMMA ApplyRefines ==
    ASSUME HistoryInv, HistoryInv', Interleaved = FALSE,
           NEW key \in Key \union {NoKey}, NEW touched \in Group, Apply(key, touched)
    PROVE  OneTimeline!Step \/ OneTimeline!Fold
<1> DEFINE folding == {d \in touched : Folds(d, key)}
           grew == {d \in touched : ~Folds(d, key)}
           past == Versions(undoRoute, undoStack)
           future == Versions(redoRoute, redoStack)
<1>1. /\ undoRoute \in Seq(Group) /\ redoRoute \in Seq(Group)
      /\ undoStack \in [Doc -> Seq(Value)] /\ redoStack \in [Doc -> Seq(Value)]
      /\ content \in [Doc -> Value] /\ content \in Version
      /\ Covers(undoRoute, undoStack)
  BY LinesTyped
<1>2. /\ undoStack' \in [Doc -> Seq(Value)]
      /\ content' \in [Doc -> Value] /\ content' \in Version
  BY DEF HistoryInv, HistoryTypeOK, Version
<1>3. /\ touched \subseteq Doc /\ touched # {}
      /\ content' = [d \in Doc |-> IF d \in touched THEN edits + 1 ELSE content[d]]
      /\ undoStack' = [d \in Doc |-> IF d \in grew THEN Append(undoStack[d], content[d])
                                     ELSE undoStack[d]]
  BY DEF Apply, Group
<1>4. redoRoute' = <<>> => future' = <<>>
  BY LinesShown DEF Line
<1>5. CASE folding = {}
  <2>1. grew = touched
    BY <1>5
  <2>2. undoRoute' = Append(undoRoute, touched) /\ redoRoute' = <<>>
    BY <1>3, <2>1 DEF Apply, Routed
  <2>3. PutsAside(touched, undoStack, undoStack', content, content')
    BY <1>3, <2>1 DEF PutsAside
  <2>4. Grows(Line(Append(undoRoute, touched), undoStack', content'),
              Line(undoRoute, undoStack, content), content)
    BY <1>1, <1>2, <2>3, LinePush
  <2>5. past' = Append(past, content)
    BY <2>2, <2>4, LinesShown DEF Grows
  <2> QED
    BY <1>2, <1>4, <2>2, <2>5 DEF OneTimeline!Step, OneTimeline!Version, Version
<1>6. CASE folding # {}
  <2>1. folding = touched /\ undoRoute # <<>> /\ Top(undoRoute) = touched
    BY <1>6 DEF Apply, Undivided
  <2>2. grew = {}
    BY <2>1
  <2>3. undoRoute' = undoRoute /\ redoRoute' = redoRoute
    BY <2>2 DEF Apply, Routed
  <2>4. redoRoute = <<>>
    <3>1. PICK d \in Doc : d \in touched /\ Folds(d, key)
      BY <1>3, <2>1
    <3>2. lastKey[d] # NoKey
      BY <3>1 DEF Folds
    <3> QED
      BY <3>2 DEF HistoryInv
  <2>5. undoStack' = undoStack
    BY <1>1, <1>3, <2>2
  <2>6. \A d \in Doc \ Top(undoRoute) : content'[d] = content[d]
    BY <1>3, <2>1
  <2>7. Line(undoRoute, undoStack, content') = Line(undoRoute, undoStack, content)
    BY <1>1, <1>2, <2>1, <2>6, LineFold
  <2>8. past' = past
    BY <2>3, <2>5, <2>7, LinesShown
  <2>9. past # <<>>
    <3>1. past \in Seq(Version) /\ Len(past) = Len(undoRoute)
      BY <1>1, LinesShown, LineType
    <3>2. Len(undoRoute) # 0
      BY <1>1, <2>1
    <3> QED
      BY <3>1, <3>2
  <2>10. future = <<>>
    BY <2>4, LinesShown DEF Line
  <2> QED
    BY <1>2, <1>4, <2>3, <2>4, <2>8, <2>9, <2>10
    DEF OneTimeline!Fold, OneTimeline!Version, Version
<1> QED
  BY <1>5, <1>6

LEMMA LoadRefines ==
    ASSUME NEW version \in [Doc -> Value], Load(version) PROVE OneTimeline!Load
<1>1. content' \in Version /\ undoRoute' = <<>> /\ redoRoute' = <<>>
  BY DEF Load, Version
<1>2. Versions(undoRoute, undoStack)' = <<>> /\ Versions(redoRoute, redoStack)' = <<>>
  BY <1>1, LinesShown DEF Line
<1> QED
  BY <1>1, <1>2 DEF OneTimeline!Load, OneTimeline!Version, Version

LEMMA HistoryRefines ==
    ASSUME HistoryInv, HistoryInv', Interleaved = FALSE, [HistoryNext]_history
    PROVE  [OneTimeline!Next]_(OneTimeline!vars)
<1>1. CASE EditDocs
  <2>1. NoKey \in Key \union {NoKey}
    OBVIOUS
  <2>2. CASE \E touched \in (SUBSET Doc) \ {{}} : Apply(NoKey, touched)
    BY <2>1, <2>2, ApplyRefines DEF Group, OneTimeline!Next
  <2>3. CASE \E key \in Key : Apply(key, TouchedBy[key])
    <3>1. \A key \in Key : TouchedBy[key] \in Group
      BY TouchedAssumption DEF Group
    <3> QED
      BY <2>3, <3>1, ApplyRefines DEF OneTimeline!Next
  <2> QED
    BY <1>1, <2>2, <2>3 DEF EditDocs
<1>2. CASE Undo
  BY <1>2, UndoRefines DEF OneTimeline!Next
<1>3. CASE Redo
  BY <1>3, RedoRefines DEF OneTimeline!Next
<1>4. CASE \E version \in [Doc -> Value] : Load(version)
  BY <1>4, LoadRefines DEF OneTimeline!Next
<1>5. CASE BreakCoalescing \/ UNCHANGED history
  <2>1. UNCHANGED <<content, undoStack, redoStack, undoRoute, redoRoute>>
    BY <1>5 DEF BreakCoalescing, history, stacks, routes
  <2>2. UNCHANGED <<Versions(undoRoute, undoStack), Versions(redoRoute, redoStack)>>
    BY <2>1, LinesShown
  <2> QED
    BY <2>1, <2>2 DEF OneTimeline!vars
<1> QED
  BY <1>1, <1>2, <1>3, <1>4, <1>5 DEF HistoryNext, Change

LEMMA InitRefines == ASSUME HistoryInit PROVE OneTimeline!Init
<1>1. content \in Version
  <2>1. 0 \in Value
    BY EditsAssumption DEF Value, Elsewhere
  <2> QED
    BY <2>1 DEF HistoryInit, Version
<1>2. undoRoute = <<>> /\ redoRoute = <<>>
  BY DEF HistoryInit
<1>3. Versions(undoRoute, undoStack) = <<>> /\ Versions(redoRoute, redoStack) = <<>>
  BY <1>2, LinesShown DEF Line
<1> QED
  BY <1>1, <1>3 DEF OneTimeline!Init, OneTimeline!Version, Version

\* collabBinding.ts:23-28: however edits, bursts, undo and redo mix, and whatever is
\* saved, refreshed and reloaded meanwhile, the managers and the route are to the
\* user one line of versions of the whole site, unless bursts are interleaved.
THEOREM UndoIsOneTimeline == ASSUME Interleaved = FALSE PROVE Spec => UndoIsLinear
<1>1. Init => OneTimeline!Init
  BY InitRefines DEF Init
<1>2. SessionInv /\ SessionInv' /\ [Next]_vars => [OneTimeline!Next]_(OneTimeline!vars)
  <2> SUFFICES ASSUME SessionInv, SessionInv', [Next]_vars
               PROVE  [OneTimeline!Next]_(OneTimeline!vars)
    OBVIOUS
  <2>1. HistoryInv /\ HistoryInv' /\ TypeOK
    BY DEF SessionInv, HistoryInv, TypeOK
  <2>2. [HistoryNext]_history
    BY <2>1, HistoryStep
  <2> QED
    BY <2>1, <2>2, HistoryRefines
<1> QED
  BY <1>1, <1>2, SessionInvariant, PTL DEF Spec, UndoIsLinear, OneTimeline!Spec

-----------------------------------------------------------------------------
(***************************************************************************)
(* The autosave never puts an older snapshot over a newer one, and what the *)
(* editor tells its user is true, for any bounds and scenarios, with failing *)
(* and late saves, other writers, leaving, returning, reloading and        *)
(* refreshing in any order, as long as none of the known ways to be wrong is *)
(* taken:                                                                  *)
(*  - saves land in order: one save at a time is enough, as long as the    *)
(*    editor is not left with work in flight and no given-up save is late; *)
(*  - "This store changed somewhere else": every seq on the server is      *)
(*    accounted for, by what the editor has seen or by an answer that is on *)
(*    its way to it;                                                       *)
(*  - "synced": all is saved, or the seq tells that somebody else wrote.   *)
(***************************************************************************)

Orderly == known \intersect {"left", "late"} = {}

\* One request at most, and it is the one the open editor awaits.
OneAwaited ==
    /\ \A r \in requests : /\ r.mount = mount
                           /\ r.rev = flight[r.mount].rev
                           /\ flight[r.mount].answer = 0
    /\ \A r1, r2 \in requests : r1 = r2

\* Snapshots are ordered as they were taken: stored, on its way, queued, shown.
RevsOrdered ==
    /\ landed <= rev
    /\ \A r \in requests : landed <= r.rev /\ r.rev <= rev
    /\ pending # Nothing =>
            /\ landed <= pending.rev /\ pending.rev <= rev
            /\ \A r \in requests : r.rev <= pending.rev

OrderInv == Orderly => OneAwaited /\ RevsOrdered

LEMMA Types ==
    ASSUME TypeOK
    PROVE  /\ rev \in Nat /\ landed \in Nat /\ seq \in Nat
           /\ pending # Nothing => pending.rev \in Nat \ {0}
           /\ \A r \in requests : r.mount \in Mount /\ r.rev \in Nat \ {0}
           /\ flight \in [Mount -> [rev : Nat, answer : Nat]]
BY DEF TypeOK, DraftTypeOK, Snapshot

\* The ways to be wrong that are known of are never forgotten.
LEMMA KnownGrows ==
    ASSUME [Next]_vars PROVE known \subseteq known'
<1>1. CASE ChangeSite \/ InlineEditing \/ TimerFires \/ Poll \/ Leave \/ Return \/ Reload
           \/ Refresh \/ Loaded
  BY <1>1 DEF ChangeSite, InlineEditing, TimerFires, Poll, Leave, Return, Reload, Refresh,
              Loaded, ghosts, Admit
<1>2. CASE \E m \in Mount : Answer(m) \/ Fail(m)
  BY <1>2 DEF Answer, Fail, ghosts, Admit
<1>3. CASE \/ \E d \in Doc : Fetched(d)
           \/ \E r \in requests : ServerReads(r) \/ ServerSave(r) \/ LoseUnawaited(r)
           \/ \E who \in {"agent", "publish"} : WriterReads(who)
  BY <1>3 DEF Fetched, ServerReads, ServerSave, LoseUnawaited, WriterReads, ghosts, Admit
<1>4. CASE (\E page \in Doc \ {Site} : AgentPersists(page)) \/ PublishSaves
  BY <1>4 DEF AgentPersists, PublishSaves
<1>5. CASE UNCHANGED vars
  BY <1>5 DEF vars, ghosts
<1> QED
  BY <1>1, <1>2, <1>3, <1>4, <1>5 DEF Next

LEMMA OrderlyBefore ==
    ASSUME [Next]_vars, Orderly' PROVE Orderly
BY KnownGrows DEF Orderly

\* Steps that leave the requests, the queue and the flights alone.
LEMMA QuietStep ==
    ASSUME OneAwaited, RevsOrdered, UNCHANGED <<requests, pending, flight, mount, rev, landed>>
    PROVE  OneAwaited' /\ RevsOrdered'
BY DEF OneAwaited, RevsOrdered

LEMMA ChangeSiteOrder ==
    ASSUME TypeOK, OneAwaited, RevsOrdered, ChangeSite
    PROVE  OneAwaited' /\ RevsOrdered'
<1>1. UNCHANGED <<requests, flight, mount, landed>>
  BY DEF ChangeSite
<1>2. OneAwaited'
  BY <1>1 DEF OneAwaited
<1>3. rev' \in {rev, rev + 1}
  BY DEF ChangeSite
<1>4. pending' = pending \/ (rev' = rev + 1 /\ pending' = [rev |-> rev + 1, of |-> content'])
  BY DEF ChangeSite
<1>5. /\ landed' <= rev'
      /\ \A r \in requests' : landed' <= r.rev /\ r.rev <= rev'
  BY <1>1, <1>3, Types DEF RevsOrdered
<1>6. CASE pending' = pending
  <2>1. ASSUME pending # Nothing
        PROVE  /\ landed' <= pending.rev /\ pending.rev <= rev'
               /\ \A r \in requests' : r.rev <= pending.rev
    BY <1>1, <1>3, <2>1, Types DEF RevsOrdered
  <2>2. pending' # Nothing
          => /\ landed' <= pending'.rev /\ pending'.rev <= rev'
             /\ \A r \in requests' : r.rev <= pending'.rev
    BY <1>6, <2>1
  <2> QED
    BY <1>2, <1>5, <2>2, Zenon DEF RevsOrdered
<1>7. CASE rev' = rev + 1 /\ pending' = [rev |-> rev + 1, of |-> content']
  <2>1. pending'.rev = rev'
    BY <1>7
  <2>2. landed' <= pending'.rev /\ pending'.rev <= rev'
    BY <1>5, <1>7, <2>1, Types
  <2>3. \A r \in requests' : r.rev <= pending'.rev
    BY <1>5, <2>1
  <2> QED
    BY <1>2, <1>5, <2>2, <2>3, Zenon DEF RevsOrdered
<1> QED
  BY <1>2, <1>4, <1>6, <1>7

\* Sending the queued snapshot, when nothing else is on its way.
LEMMA SendOrder ==
    ASSUME TypeOK, RevsOrdered, mount \in Mount, pending # Nothing, Send,
           requests' = {Request}, UNCHANGED <<mount, rev, landed>>
    PROVE  OneAwaited' /\ RevsOrdered'
<1>1. Request.mount = mount /\ Request.rev = pending.rev
  BY DEF Request
<1>2. flight'[mount] = [rev |-> pending.rev, answer |-> 0] /\ pending' = Nothing
  BY Types DEF Send
<1>3. OneAwaited'
  BY <1>1, <1>2 DEF OneAwaited
<1>4. RevsOrdered'
  BY <1>1, <1>2 DEF RevsOrdered
<1> QED
  BY <1>3, <1>4

\* No request is on its way while the editor awaits none, or has its answer.
LEMMA NoneOnItsWay ==
    ASSUME TypeOK, OneAwaited, flight[mount] = Idle \/ flight[mount].answer # 0
    PROVE  requests = {}
<1>1. ASSUME NEW r \in requests PROVE FALSE
  BY <1>1, Types DEF OneAwaited, Idle
<1> QED
  BY <1>1

LEMMA TimerFiresOrder ==
    ASSUME TypeOK, OneAwaited, RevsOrdered, TimerFires
    PROVE  OneAwaited' /\ RevsOrdered'
<1>1. mount \in Mount /\ UNCHANGED <<mount, rev, landed>>
  BY DEF TypeOK, DraftTypeOK, TimerFires, ghosts
<1>2. CASE flight[mount] = Idle /\ pending # Nothing
  <2>1. Send /\ requests' = requests \union {Request}
    BY <1>2 DEF TimerFires
  <2>2. requests = {}
    BY <1>2, NoneOnItsWay
  <2>3. requests' = {Request}
    BY <2>1, <2>2
  <2> QED
    BY <1>1, <1>2, <2>1, <2>3, SendOrder
<1>3. CASE ~(flight[mount] = Idle /\ pending # Nothing)
  BY <1>1, <1>3, QuietStep DEF TimerFires
<1> QED
  BY <1>2, <1>3

LEMMA AnswerOrder ==
    ASSUME TypeOK, OneAwaited, RevsOrdered, NEW m \in Mount, Answer(m)
    PROVE  OneAwaited' /\ RevsOrdered'
<1>1. UNCHANGED <<mount, rev, landed>>
  BY DEF Answer, ghosts
<1>2. CASE m = mount /\ pending # Nothing
  <2>1. Send /\ requests' = requests \union {Request}
    BY <1>2 DEF Answer
  <2>2. requests = {}
    BY <1>2, NoneOnItsWay DEF Answer
  <2>3. requests' = {Request}
    BY <2>1, <2>2
  <2> QED
    BY <1>1, <1>2, <2>1, <2>3, SendOrder
<1>3. CASE ~(m = mount /\ pending # Nothing)
  <2>1. UNCHANGED <<requests, pending>> /\ flight' = [flight EXCEPT ![m] = Idle]
    BY <1>3 DEF Answer
  <2>2. \A r \in requests : r.mount # m
    BY Types DEF OneAwaited, Answer
  <2>3. \A r \in requests : flight'[r.mount] = flight[r.mount]
    BY <2>1, <2>2, Types
  <2>4. OneAwaited'
    BY <1>1, <2>1, <2>3 DEF OneAwaited
  <2> QED
    BY <1>1, <2>1, <2>4 DEF RevsOrdered
<1> QED
  BY <1>2, <1>3

\* A failure that leaves nothing late has lost the request.
LEMMA FailOrder ==
    ASSUME TypeOK, OneAwaited, RevsOrdered, NEW m \in Mount, Fail(m), Orderly'
    PROVE  OneAwaited' /\ RevsOrdered'
<1> DEFINE own == {r \in requests : r.mount = m /\ r.rev = flight[m].rev}
<1>1. UNCHANGED <<mount, rev, landed>>
  BY DEF Fail
<1>2. own # {}
  BY DEF Fail, Admit, Orderly
<1>3. m = mount /\ requests = own
  <2>1. PICK r \in requests : r.mount = m
    BY <1>2
  <2>2. \A s \in requests : s = r /\ s.mount = mount /\ s.rev = flight[s.mount].rev
    BY <2>1 DEF OneAwaited
  <2> QED
    BY <2>1, <2>2
<1>4. CASE pending # Nothing
  <2>1. Send /\ requests' = {Request}
    BY <1>2, <1>3, <1>4 DEF Fail, Admit, Orderly
  <2> QED
    BY <1>1, <1>3, <1>4, <2>1, SendOrder
<1>5. CASE pending = Nothing
  <2>1. requests' = {} /\ pending' = Nothing
    BY <1>2, <1>3, <1>5 DEF Fail, Admit, Orderly
  <2> QED
    BY <1>1, <2>1 DEF OneAwaited, RevsOrdered
<1> QED
  BY <1>4, <1>5

LEMMA ServerReadsOrder ==
    ASSUME TypeOK, OneAwaited, RevsOrdered, NEW r \in requests, ServerReads(r)
    PROVE  OneAwaited' /\ RevsOrdered' /\ landed' = landed
<1> DEFINE served == [r EXCEPT !.read = seq]
<1>1. requests' = {served} /\ UNCHANGED <<mount, rev, pending, flight, landed>>
  BY DEF ServerReads, OneAwaited, client, ghosts
<1>2. served.mount = r.mount /\ served.rev = r.rev
  BY DEF TypeOK, DraftTypeOK
<1> QED
  BY <1>1, <1>2 DEF OneAwaited, RevsOrdered

LEMMA ServerSaveOrder ==
    ASSUME TypeOK, OneAwaited, RevsOrdered, NEW r \in requests, ServerSave(r)
    PROVE  OneAwaited' /\ RevsOrdered' /\ landed' >= landed
<1>1. requests' = {} /\ landed' = r.rev /\ UNCHANGED <<mount, rev, pending>>
  BY DEF ServerSave, OneAwaited
<1> QED
  BY <1>1, Types DEF OneAwaited, RevsOrdered

LEMMA LeaveOrder ==
    ASSUME TypeOK, OneAwaited, RevsOrdered, Leave, Orderly'
    PROVE  OneAwaited' /\ RevsOrdered'
<1>1. pending = Nothing /\ flight[mount] = Idle
  BY DEF Leave, Admit, Orderly
<1>2. requests = {}
  BY <1>1, NoneOnItsWay
<1>3. requests' = {} /\ pending' = Nothing /\ UNCHANGED <<rev, landed>>
  BY <1>1, <1>2 DEF Leave
<1> QED
  BY <1>3 DEF OneAwaited, RevsOrdered

LEMMA ReturnOrder ==
    ASSUME TypeOK, OneAwaited, RevsOrdered, Return
    PROVE  OneAwaited' /\ RevsOrdered'
<1>1. requests = {}
  <2>1. 0 \notin Mount
    BY DEF Mount
  <2> QED
    BY <2>1, Types DEF OneAwaited, Return
<1>2. requests' = {} /\ UNCHANGED <<pending, rev, landed>>
  BY <1>1 DEF Return, ghosts
<1> QED
  BY <1>1, <1>2 DEF OneAwaited, RevsOrdered

LEMMA ReloadOrder ==
    ASSUME TypeOK, OneAwaited, RevsOrdered, Reload, Orderly'
    PROVE  OneAwaited' /\ RevsOrdered'
<1>1. requests' = {} /\ pending' = Nothing /\ UNCHANGED <<rev, landed>>
  BY DEF Reload, Admit, Orderly
<1> QED
  BY <1>1 DEF OneAwaited, RevsOrdered

LEMMA LoseUnawaitedOrder ==
    ASSUME NEW r \in requests, LoseUnawaited(r), Orderly' PROVE FALSE
BY DEF LoseUnawaited, Admit, Orderly

-----------------------------------------------------------------------------
LEMMA OrderStep ==
    ASSUME TypeOK, OrderInv, [Next]_vars
    PROVE  OrderInv' /\ (Orderly' => landed' >= landed)
<1> SUFFICES ASSUME Orderly' PROVE OneAwaited' /\ RevsOrdered' /\ landed' >= landed
  BY DEF OrderInv
<1>1. OneAwaited /\ RevsOrdered
  BY OrderlyBefore DEF OrderInv
<1>2. landed >= landed
  BY Types
<1>3. CASE ChangeSite
  BY <1>1, <1>2, <1>3, ChangeSiteOrder DEF ChangeSite
<1>4. CASE TimerFires
  BY <1>1, <1>2, <1>4, TimerFiresOrder DEF TimerFires, ghosts
<1>5. CASE Leave
  BY <1>1, <1>2, <1>5, LeaveOrder DEF Leave
<1>6. CASE Return
  BY <1>1, <1>2, <1>6, ReturnOrder DEF Return, ghosts
<1>7. CASE Reload
  BY <1>1, <1>2, <1>7, ReloadOrder DEF Reload
<1>8. CASE \E m \in Mount : Answer(m)
  BY <1>1, <1>2, <1>8, AnswerOrder DEF Answer, ghosts
<1>9. CASE \E m \in Mount : Fail(m)
  BY <1>1, <1>2, <1>9, FailOrder DEF Fail
<1>10. CASE \E r \in requests : ServerSave(r)
  BY <1>1, <1>10, ServerSaveOrder
<1>11. CASE \E r \in requests : LoseUnawaited(r)
  BY <1>11, LoseUnawaitedOrder
<1>15. CASE \E r \in requests : ServerReads(r)
  BY <1>1, <1>2, <1>15, ServerReadsOrder
<1>12. CASE InlineEditing \/ Poll \/ Refresh \/ Loaded \/ PublishSaves
  <2>1. UNCHANGED <<requests, pending, flight, mount, rev, landed>>
    BY <1>12 DEF InlineEditing, Poll, Refresh, Loaded, PublishSaves, client, ghosts
  <2> QED
    BY <1>1, <1>2, <2>1, QuietStep
<1>13. CASE \/ \E d \in Doc : Fetched(d)
            \/ \E who \in {"agent", "publish"} : WriterReads(who)
            \/ \E page \in Doc \ {Site} : AgentPersists(page)
  <2>1. UNCHANGED <<requests, pending, flight, mount, rev, landed>>
    BY <1>13 DEF Fetched, WriterReads, AgentPersists, client, ghosts
  <2> QED
    BY <1>1, <1>2, <2>1, QuietStep
<1>14. CASE UNCHANGED vars
  <2>1. UNCHANGED <<requests, pending, flight, mount, rev, landed>>
    BY <1>14 DEF vars, client, ghosts
  <2> QED
    BY <1>1, <1>2, <2>1, QuietStep
<1> QED
  BY <1>3, <1>4, <1>5, <1>6, <1>7, <1>8, <1>9, <1>10, <1>11, <1>12, <1>13, <1>14, <1>15 DEF Next

LEMMA OrderInvariant == Spec => []OrderInv
<1>1. Init => OrderInv
  BY DEF Init, OrderInv, OneAwaited, RevsOrdered
<1>2. TypeOK /\ OrderInv /\ [Next]_vars => OrderInv'
  BY OrderStep
<1> QED
  BY <1>1, <1>2, SessionTypeCorrect, PTL DEF Spec

\* usePersistence.ts:79-102 (flushSaves, one save at a time): an older snapshot never
\* lands on a newer one, but for the one sent on leaving and one that was given up.
THEOREM SavesLandInOrder == Spec => SavesInOrder
<1>1. TypeOK /\ OrderInv /\ [Next]_vars
        => [known \intersect {"left", "late"} = {} => landed' >= landed]_vars
  <2> SUFFICES ASSUME TypeOK, OrderInv, [Next]_vars,
                      known \intersect {"left", "late"} = {}
               PROVE  landed' >= landed \/ UNCHANGED vars
    OBVIOUS
  <2>1. OneAwaited /\ RevsOrdered
    BY DEF OrderInv, Orderly
  <2>2. landed >= landed
    BY Types
  <2>3. CASE \E r \in requests : ServerSave(r)
    BY <2>1, <2>3, ServerSaveOrder
  <2>4. CASE ~\E r \in requests : ServerSave(r)
    <3>1. landed' = landed
      <4>1. CASE ChangeSite \/ InlineEditing \/ TimerFires \/ Poll \/ Leave \/ Return \/ Reload
                 \/ Refresh \/ Loaded
        BY <4>1 DEF ChangeSite, InlineEditing, TimerFires, Poll, Leave, Return, Reload, Refresh,
                    Loaded, ghosts
      <4>2. CASE \E m \in Mount : Answer(m) \/ Fail(m)
        BY <4>2 DEF Answer, Fail, ghosts
      <4>3. CASE \/ \E d \in Doc : Fetched(d)
                 \/ \E r \in requests : ServerReads(r) \/ LoseUnawaited(r)
                 \/ \E who \in {"agent", "publish"} : WriterReads(who)
        BY <4>3 DEF Fetched, ServerReads, LoseUnawaited, WriterReads, ghosts
      <4>4. CASE (\E page \in Doc \ {Site} : AgentPersists(page)) \/ PublishSaves
        BY <4>4 DEF AgentPersists, PublishSaves
      <4>5. CASE UNCHANGED vars
        BY <4>5 DEF vars, ghosts
      <4> QED
        BY <2>4, <4>1, <4>2, <4>3, <4>4, <4>5 DEF Next
    <3> QED
      BY <2>2, <3>1
  <2> QED
    BY <2>3, <2>4
<1> QED
  BY <1>1, OrderInvariant, SessionTypeCorrect, PTL DEF Spec, SavesInOrder

-----------------------------------------------------------------------------
\* The notice

\* Somebody else wrote, or the poll overtook an answer, or an answer is missing.
Excused == foreign \/ known \intersect {"raced", "left", "late"} # {}

AnswerKnows == \E m \in Mount : flight[m].answer # 0 /\ seq <= flight[m].answer

Accounted == seq <= seen \/ AnswerKnows

\* A publish under way has read no seq from the future, and what the route read for
\* a save is at most undone by a publish.
WriterBehind == writer # Nothing => writer.seq <= seq
ReadsAhead   == \A r \in requests : r.read # Unread => seq <= r.read

NoticeInv ==
    ~Excused => /\ ~changed /\ loading = NotLoading /\ Accounted
                /\ WriterBehind /\ ReadsAhead

\* An excuse holds for good.
LEMMA ExcusedStays == ASSUME [Next]_vars, ~Excused' PROVE ~Excused
<1>1. known \subseteq known' /\ (foreign => foreign')
  <2>1. CASE ChangeSite \/ InlineEditing \/ TimerFires \/ Poll \/ Leave \/ Return \/ Reload
             \/ Refresh \/ Loaded
    BY <2>1 DEF ChangeSite, InlineEditing, TimerFires, Poll, Leave, Return, Reload, Refresh,
                Loaded, ghosts, Admit
  <2>2. CASE \E m \in Mount : Answer(m) \/ Fail(m)
    BY <2>2 DEF Answer, Fail, ghosts, Admit
  <2>3. CASE \/ \E d \in Doc : Fetched(d)
             \/ \E who \in {"agent", "publish"} : WriterReads(who)
    <3>1. UNCHANGED ghosts
      BY <2>3 DEF Fetched, WriterReads
    <3> QED
      BY <3>1 DEF ghosts
  <2>6. CASE \E r \in requests : ServerReads(r) \/ ServerSave(r) \/ LoseUnawaited(r)
    <3>1. PICK r \in requests : ServerReads(r) \/ ServerSave(r) \/ LoseUnawaited(r)
      BY <2>6
    <3>2. foreign' = foreign /\ known \subseteq known'
      BY <3>1 DEF ServerReads, ServerSave, LoseUnawaited, Admit, ghosts
    <3> QED
      BY <3>2
  <2>4. CASE (\E page \in Doc \ {Site} : AgentPersists(page)) \/ PublishSaves
    BY <2>4 DEF AgentPersists, PublishSaves
  <2>5. CASE UNCHANGED vars
    BY <2>5 DEF vars, ghosts
  <2> QED
    BY <2>1, <2>2, <2>3, <2>4, <2>5, <2>6 DEF Next
<1> QED
  BY <1>1 DEF Excused

LEMMA StaysBehind ==
    ASSUME TypeOK, OneAwaited, WriterBehind, ReadsAhead, [Next]_vars, ~foreign'
    PROVE  WriterBehind' /\ ReadsAhead'
<1>1. /\ seq \in Nat /\ Unread \notin Nat
      /\ \A r \in requests : r \in [mount : Mount, rev : Nat \ {0}, of : Version,
                                   read : Nat \union {Unread}]
      /\ writer # Nothing => writer.seq \in Nat
  BY Types DEF TypeOK, DraftTypeOK, Unread
<1>9. Request.read = Unread
  BY DEF Request
<1>2. CASE \E r \in requests : ServerSave(r)
  <2>1. PICK r \in requests : ServerSave(r)
    BY <1>2
  <2>2. UNCHANGED writer /\ seq' = r.read + 1 /\ r.read \in Nat /\ seq <= r.read
    BY <1>1, <2>1 DEF ServerSave, ReadsAhead
  <2>3. requests' = {}
    BY <2>1 DEF ServerSave, OneAwaited
  <2> QED
    BY <1>1, <2>2, <2>3 DEF WriterBehind, ReadsAhead
<1>3. CASE \E r \in requests : ServerReads(r)
  <2>1. PICK r \in requests : ServerReads(r)
    BY <1>3
  <2>2. /\ UNCHANGED <<writer, seq>>
        /\ requests' = (requests \ {r}) \union {[r EXCEPT !.read = seq]}
    BY <2>1 DEF ServerReads, server
  <2>3. [r EXCEPT !.read = seq].read = seq
    BY <1>1
  <2> QED
    BY <1>1, <2>2, <2>3 DEF WriterBehind, ReadsAhead
<1>4. CASE \E who \in {"agent", "publish"} : WriterReads(who)
  <2>1. writer'.seq = seq /\ seq' = seq /\ requests' = requests
    BY <1>4 DEF WriterReads, server
  <2> QED
    BY <1>1, <2>1 DEF WriterBehind, ReadsAhead
<1>5. CASE \E page \in Doc \ {Site} : AgentPersists(page)
  BY <1>5 DEF AgentPersists
<1>6. CASE PublishSaves
  <2>1. writer # Nothing /\ seq' = writer.seq /\ writer' = Nothing /\ requests' = requests
    BY <1>6 DEF PublishSaves, Nothing
  <2>2. seq' \in Nat /\ seq' <= seq
    BY <1>1, <2>1 DEF WriterBehind
  <2> QED
    BY <1>1, <2>1, <2>2 DEF WriterBehind, ReadsAhead
<1>7. CASE ChangeSite \/ InlineEditing \/ TimerFires \/ Poll \/ Leave \/ Return \/ Reload
           \/ Refresh \/ Loaded
  <2>1. UNCHANGED <<writer, seq>>
    BY <1>7 DEF ChangeSite, InlineEditing, TimerFires, Poll, Leave, Return, Reload, Refresh,
                Loaded, server
  <2>2. requests' \subseteq requests \union {Request}
    <3>1. CASE TimerFires \/ Leave
      BY <3>1 DEF TimerFires, Leave
    <3>2. CASE ChangeSite \/ InlineEditing \/ Poll \/ Return \/ Reload \/ Refresh \/ Loaded
      BY <3>2 DEF ChangeSite, InlineEditing, Poll, Return, Reload, Refresh, Loaded
    <3> QED
      BY <1>7, <3>1, <3>2
  <2> QED
    BY <1>9, <2>1, <2>2 DEF WriterBehind, ReadsAhead
<1>8. CASE \/ \E m \in Mount : Answer(m) \/ Fail(m)
           \/ \E d \in Doc : Fetched(d)
           \/ \E r \in requests : LoseUnawaited(r)
           \/ UNCHANGED vars
  <2>1. UNCHANGED <<writer, seq>>
    BY <1>8 DEF Answer, Fail, Fetched, LoseUnawaited, vars, server
  <2>2. requests' \subseteq requests \union {Request}
    <3>1. CASE \E m \in Mount : Answer(m) \/ Fail(m)
      BY <3>1 DEF Answer, Fail
    <3>2. CASE (\E d \in Doc : Fetched(d)) \/ (\E r \in requests : LoseUnawaited(r)) \/ UNCHANGED vars
      BY <3>2 DEF Fetched, LoseUnawaited, vars
    <3> QED
      BY <1>8, <3>1, <3>2
  <2> QED
    BY <1>9, <2>1, <2>2 DEF WriterBehind, ReadsAhead
<1> QED
  BY <1>2, <1>3, <1>4, <1>5, <1>6, <1>7, <1>8 DEF Next

-----------------------------------------------------------------------------
\* A save that is sent in place of another takes no answer from the rest.
LEMMA OthersKnow ==
    ASSUME TypeOK, NEW m \in Mount, UNCHANGED <<seq, budget>>,
           \A other \in Mount \ {m} : flight'[other] = flight[other],
           AnswerKnows, ~(flight[m].answer # 0 /\ seq <= flight[m].answer)
    PROVE  AnswerKnows'
<1>1. PICK k \in Mount : flight[k].answer # 0 /\ seq <= flight[k].answer
  BY DEF AnswerKnows
<1>2. k # m /\ flight'[k] = flight[k] /\ k \in Mount'
  BY <1>1 DEF Mount
<1> QED
  BY <1>1, <1>2 DEF AnswerKnows

LEMMA SendOthers ==
    ASSUME TypeOK, mount \in Mount, Send
    PROVE  \A other \in Mount \ {mount} : flight'[other] = flight[other]
BY DEF Send, TypeOK, DraftTypeOK

LEMMA TimerFiresAccounted ==
    ASSUME TypeOK, Accounted, TimerFires PROVE Accounted'
<1>1. mount \in Mount /\ UNCHANGED <<seq, seen, budget>>
  BY DEF TypeOK, DraftTypeOK, TimerFires, server, counts
<1>2. CASE seq <= seen
  BY <1>1, <1>2 DEF Accounted
<1>3. CASE AnswerKnows
  <2>1. CASE flight' = flight
    BY <1>1, <1>3, <2>1 DEF Accounted, AnswerKnows, Mount
  <2>2. CASE flight[mount] = Idle /\ Send
    <3>1. flight[mount].answer = 0
      BY <2>2 DEF Idle
    <3> QED
      BY <1>1, <1>3, <2>2, <3>1, SendOthers, OthersKnow DEF Accounted
  <2> QED
    BY <2>1, <2>2 DEF TimerFires
<1> QED
  BY <1>2, <1>3 DEF Accounted

LEMMA AnswerAccounted ==
    ASSUME TypeOK, Accounted, NEW m \in Mount, Answer(m) PROVE Accounted'
<1>1. /\ UNCHANGED <<seq, budget>>
      /\ seen' = Later(seen, flight[m].answer)
  BY DEF Answer, server, counts
<1>2. seq \in Nat /\ seen \in Nat /\ flight[m].answer \in Nat
  BY DEF TypeOK, DraftTypeOK
<1>3. seen' >= seen /\ seen' >= flight[m].answer /\ seen' \in Nat
  BY <1>1, <1>2 DEF Later
<1>4. CASE seq <= seen
  BY <1>1, <1>2, <1>3, <1>4 DEF Accounted
<1>5. CASE seq <= flight[m].answer
  BY <1>1, <1>2, <1>3, <1>5 DEF Accounted
<1>6. CASE AnswerKnows /\ ~(seq <= flight[m].answer)
  <2>1. \A other \in Mount \ {m} : flight'[other] = flight[other]
    BY SendOthers DEF Answer, TypeOK, DraftTypeOK
  <2> QED
    BY <1>1, <1>6, <2>1, OthersKnow DEF Accounted
<1> QED
  BY <1>4, <1>5, <1>6 DEF Accounted

\* A failure without a late request: the request was lost, so no answer was coming.
LEMMA FailAccounted ==
    ASSUME TypeOK, OneAwaited, Accounted, NEW m \in Mount, Fail(m), Orderly'
    PROVE  Accounted'
<1> DEFINE own == {r \in requests : r.mount = m /\ r.rev = flight[m].rev}
<1>1. UNCHANGED <<seq, seen, budget>>
  BY DEF Fail, server
<1>2. own # {}
  BY DEF Fail, Admit, Orderly
<1>3. flight[m].answer = 0
  <2>1. PICK r \in requests : r.mount = m
    BY <1>2
  <2> QED
    BY <2>1 DEF OneAwaited
<1>4. \A other \in Mount \ {m} : flight'[other] = flight[other]
  <2>1. Send \/ flight' = [flight EXCEPT ![m] = Idle]
    BY DEF Fail
  <2>2. CASE m = mount /\ Send
    BY <2>2, SendOthers
  <2>3. CASE flight' = [flight EXCEPT ![m] = Idle]
    BY <2>3 DEF TypeOK, DraftTypeOK
  <2> QED
    BY <2>2, <2>3 DEF Fail
<1>5. CASE seq <= seen
  BY <1>1, <1>5 DEF Accounted
<1>6. CASE AnswerKnows
  BY <1>1, <1>3, <1>4, <1>6, OthersKnow DEF Accounted
<1> QED
  BY <1>5, <1>6 DEF Accounted

LEMMA ServerSaveAccounted ==
    ASSUME TypeOK, OneAwaited, NEW r \in requests, ServerSave(r) PROVE Accounted'
<1>1. r.mount \in Mount /\ flight[r.mount].rev = r.rev
  BY Types DEF OneAwaited
<1>2. r.read \in Nat
  BY DEF ServerSave, TypeOK, DraftTypeOK
<1>3. /\ seq' = r.read + 1 /\ budget' = budget
      /\ flight' = [flight EXCEPT ![r.mount].answer = r.read + 1]
  BY <1>1 DEF ServerSave, counts
<1>4. flight'[r.mount].answer = r.read + 1
  BY <1>1, <1>3 DEF TypeOK, DraftTypeOK
<1>5. seq' # 0 /\ seq' <= r.read + 1 /\ r.mount \in Mount'
  BY <1>1, <1>2, <1>3 DEF Mount
<1> QED
  BY <1>3, <1>4, <1>5 DEF Accounted, AnswerKnows

LEMMA PublishSavesAccounted ==
    ASSUME TypeOK, WriterBehind, Accounted, PublishSaves PROVE Accounted'
<1>1. seq' = writer.seq /\ writer.seq <= seq /\ UNCHANGED <<seen, flight, budget>>
  BY DEF PublishSaves, WriterBehind, Nothing, client, counts
<1>2. writer.seq \in Nat /\ seq \in Nat /\ seen \in Nat
  BY DEF TypeOK, DraftTypeOK, PublishSaves, Nothing
<1>3. CASE seq <= seen
  BY <1>1, <1>2, <1>3 DEF Accounted
<1>4. CASE AnswerKnows
  <2>1. PICK m \in Mount : flight[m].answer # 0 /\ seq <= flight[m].answer
    BY <1>4 DEF AnswerKnows
  <2>2. flight[m].answer \in Nat
    BY <2>1 DEF TypeOK, DraftTypeOK
  <2>3. seq' <= flight[m].answer
    BY <1>1, <1>2, <2>1, <2>2
  <2> QED
    BY <1>1, <2>1, <2>3 DEF Accounted, AnswerKnows, Mount
<1> QED
  BY <1>3, <1>4 DEF Accounted

-----------------------------------------------------------------------------
LEMMA NoticeStep ==
    ASSUME TypeOK, OrderInv, NoticeInv, [Next]_vars PROVE NoticeInv'
<1>2. ASSUME ~Excused' PROVE ~Excused /\ ~foreign /\ ~foreign'
  BY <1>2, ExcusedStays DEF Excused
<1>4. ASSUME ~Excused' PROVE Orderly /\ Orderly' /\ OneAwaited
  <2>1. Orderly /\ Orderly'
    BY <1>2, <1>4 DEF Excused, Orderly
  <2> QED
    BY <2>1 DEF OrderInv
<1>1. ASSUME ~Excused' PROVE WriterBehind' /\ ReadsAhead'
  BY <1>1, <1>2, <1>4, StaysBehind DEF NoticeInv
<1> SUFFICES ASSUME ~Excused' PROVE ~changed' /\ loading' = NotLoading /\ Accounted'
  BY <1>1 DEF NoticeInv
<1>3. WriterBehind /\ ~changed /\ loading = NotLoading /\ Accounted
  BY <1>2 DEF NoticeInv
<1>5. CASE Reload \/ Refresh \/ Loaded \/ \E d \in Doc : Fetched(d)
  BY <1>2, <1>3, <1>5 DEF Reload, Refresh, Loaded, Fetched
<1>6. CASE (\E page \in Doc \ {Site} : AgentPersists(page))
           \/ \E r \in requests : LoseUnawaited(r)
  BY <1>6 DEF AgentPersists, LoseUnawaited, Admit, Excused
<1>7. CASE Poll
  <2>1. AnswerKnows
    <3>1. ~(seq <= seen)
      BY <1>7, Types DEF Poll, TypeOK, DraftTypeOK
    <3> QED
      BY <1>3, <3>1 DEF Accounted
  <2> QED
    BY <1>7, <2>1 DEF Poll, Admit, Excused, AnswerKnows
<1>8. CASE TimerFires
  BY <1>3, <1>8, TimerFiresAccounted DEF TimerFires
<1>9. CASE \E m \in Mount : Answer(m)
  BY <1>3, <1>9, AnswerAccounted DEF Answer
<1>10. CASE \E m \in Mount : Fail(m)
  <2>1. PICK m \in Mount : Fail(m)
    BY <1>10
  <2>2. UNCHANGED <<changed, loading>>
    BY <2>1 DEF Fail
  <2>3. Accounted'
    BY <1>3, <1>4, <2>1, FailAccounted
  <2> QED
    BY <1>3, <2>2, <2>3
<1>11. CASE \E r \in requests : ServerSave(r)
  BY <1>3, <1>4, <1>11, ServerSaveAccounted DEF ServerSave
<1>12. CASE PublishSaves
  BY <1>3, <1>12, PublishSavesAccounted DEF PublishSaves, client
<1>13. CASE ChangeSite \/ InlineEditing \/ Leave \/ Return \/ UNCHANGED vars
            \/ \E who \in {"agent", "publish"} : WriterReads(who)
            \/ \E r \in requests : ServerReads(r)
  <2>1. UNCHANGED <<flight, seq, seen, loading, budget>> /\ ~changed'
    <3>1. CASE ChangeSite \/ Leave \/ Return
      BY <1>3, <3>1 DEF ChangeSite, Leave, Return, server, counts
    <3>2. CASE InlineEditing \/ UNCHANGED vars
              \/ \E who \in {"agent", "publish"} : WriterReads(who)
              \/ \E r \in requests : ServerReads(r)
      BY <1>3, <3>2 DEF InlineEditing, WriterReads, ServerReads, vars, client, server, counts
    <3> QED
      BY <1>13, <3>1, <3>2
  <2> QED
    BY <1>3, <2>1 DEF Accounted, AnswerKnows, Mount
<1> QED
  BY <1>5, <1>6, <1>7, <1>8, <1>9, <1>10, <1>11, <1>12, <1>13 DEF Next

\* useExternalSiteChanges.ts:68-70: the editor never announces a change of its own
\* as somebody else's, unless the poll overtakes the answer of a save, or that answer
\* never comes; however saves, failures, publishes and polls interleave.
THEOREM NoticeTrue == Spec => []NoticeIsTrue
<1>1. Init => NoticeInv
  BY DEF Init, NoticeInv, WriterBehind, ReadsAhead, Accounted, Nothing
<1>2. TypeOK /\ OrderInv /\ NoticeInv /\ [Next]_vars => NoticeInv'
  BY NoticeStep
<1>3. NoticeInv => NoticeIsTrue
  BY DEF NoticeInv, NoticeIsTrue, Excused
<1> QED
  BY <1>1, <1>2, <1>3, OrderInvariant, SessionTypeCorrect, PTL DEF Spec

-----------------------------------------------------------------------------
\* All is saved

Calm == known \intersect {"left", "refresh", "overlap", "torn"} = {}

AllIdle == \A m \in Mount : flight[m] = Idle

\* Every snapshot that is sent is newer than those sent before.
RevsFresh ==
    /\ pending # Nothing => pending.rev <= rev
    /\ \A r \in requests : r.rev <= rev /\ (pending # Nothing => r.rev < pending.rev)

\* While the seq is the one it read, what a writer read is what is stored.
WriterKnows ==
    writer # Nothing => /\ writer.seq <= seq
                        /\ writer.seq = seq => writer.site = stored[Site]

\* What has been fetched so far of a document is what is stored.
FetchedIsStored ==
    loading # NotLoading =>
        /\ \A d \in Doc : loading.got[d] # Unread => loading.got[d] = stored[d]
        /\ loading.got[Site] # Unread => loading.seq = seq
        /\ loading.seq <= seq

\* Who is listening, and when.
Attentive ==
    /\ ~skip
    /\ mount = 0 => status # "error" /\ ~Booting
    /\ Booting => status = "loading"
    /\ mount # 0 /\ ~Booting /\ ~subscribed => status = "error"

\* A queued snapshot is what the editor shows.
QueueShown ==
    pending # Nothing => pending.of = content /\ subscribed /\ mount # 0 /\ ~Booting

\* What an awaited save wrote, or will write, is shown, or what is shown is queued.
AnswerShown(m) ==
    flight[m].answer # 0 => /\ seen < flight[m].answer /\ flight[m].answer <= seq
                            /\ pending # Nothing \/ stored = content \/ seq > flight[m].answer

RequestShown(m) ==
    \A r \in requests : r.mount = m /\ r.rev = flight[m].rev
                            => pending # Nothing \/ r.of = content

\* The open editor alone awaits an answer.
AwaitedShown ==
    \A m \in Mount : flight[m] # Idle =>
        /\ m = mount /\ subscribed /\ ~Booting /\ status = "connecting"
        /\ RequestShown(m)
        /\ AnswerShown(m)

\* With nothing queued and nothing awaited, all is saved, or the seq tells.
RestSaved ==
    (pending = Nothing /\ AllIdle /\ ~Booting /\ status # "error")
        => stored = content \/ seq > seen

CalmInv ==
    /\ seen <= seq
    /\ WriterKnows /\ FetchedIsStored
    /\ Attentive /\ QueueShown /\ AwaitedShown /\ RestSaved

SavedInv == RevsFresh /\ (Calm => CalmInv)

-----------------------------------------------------------------------------
LEMMA SessionTypes ==
    ASSUME TypeOK
    PROVE  /\ seq \in Nat /\ seen \in Nat /\ rev \in Nat
           /\ 0 \notin Mount
           /\ flight \in [Mount -> [rev : Nat, answer : Nat]]
           /\ pending # Nothing => pending.rev \in Nat \ {0} /\ pending.of \in Version
           /\ \A r \in requests : r.mount \in Mount /\ r.rev \in Nat \ {0} /\ r.of \in Version
           /\ writer # Nothing => writer.seq \in Nat
           /\ stored \in Version /\ content \in Version
BY DEF TypeOK, DraftTypeOK, HistoryTypeOK, Snapshot, Mount, Version

LEMMA CalmBefore == ASSUME [Next]_vars, Calm' PROVE Calm
BY KnownGrows DEF Calm

\* What the invariant is about, but for what a step of the editor's changes.
Frame == <<budget, rev, requests, pending, writer, loading, stored, seq, seen, content,
           skip, mount, status, subscribed, flight>>

LEMMA QuietSaved ==
    ASSUME UNCHANGED Frame PROVE RevsFresh = RevsFresh' /\ CalmInv = CalmInv'
BY DEF Frame, RevsFresh, CalmInv, WriterKnows, FetchedIsStored, Attentive, QueueShown,
       AwaitedShown, AnswerShown, RequestShown, RestSaved, AllIdle, Mount, Booting

\* The server's side is as it was.
LEMMA ServerQuiet ==
    ASSUME WriterKnows, FetchedIsStored, UNCHANGED <<writer, loading, stored, seq>>
    PROVE  WriterKnows' /\ FetchedIsStored'
BY DEF WriterKnows, FetchedIsStored

\* Sending the queued snapshot: it is the newest request, so the awaited one.
LEMMA SendSaved ==
    ASSUME TypeOK, RevsFresh, QueueShown, Attentive, mount \in Mount, pending # Nothing,
           \A m \in Mount : flight[m] # Idle => m = mount,
           Send, requests' \subseteq requests \union {Request},
           UNCHANGED <<budget, rev, content, skip, mount, subscribed, loading>>
    PROVE  RevsFresh' /\ Attentive' /\ QueueShown' /\ AwaitedShown' /\ RestSaved'
<1>1. /\ pending' = Nothing /\ status' = "connecting"
      /\ flight'[mount] = [rev |-> pending.rev, answer |-> 0]
      /\ \A m \in Mount \ {mount} : flight'[m] = Idle
  BY SessionTypes DEF Send
<1>2. /\ pending.rev \in Nat \ {0} /\ rev \in Nat
      /\ pending.rev <= rev /\ pending.of = content
      /\ subscribed /\ mount # 0 /\ ~Booting
      /\ \A r \in requests : r.rev \in Nat /\ r.rev < pending.rev
  BY SessionTypes DEF RevsFresh, QueueShown
<1>3. Request.rev = pending.rev /\ Request.of = content
  BY <1>2 DEF Request
<1>4. \A r \in requests' : r = Request \/ r \in requests
  OBVIOUS
<1>5. RevsFresh'
  <2>1. \A r \in requests' : r.rev <= rev'
    BY <1>2, <1>3, <1>4
  <2> QED
    BY <1>1, <2>1 DEF RevsFresh
<1>6. Mount' = Mount /\ ~Booting'
  BY <1>2 DEF Mount, Booting
<1>7. Attentive' /\ QueueShown'
  BY <1>1, <1>2, <1>6 DEF Attentive, QueueShown
<1>8. flight'[mount] # Idle
  BY <1>1, <1>2 DEF Idle
<1>9. AwaitedShown'
  <2> SUFFICES ASSUME NEW m \in Mount, flight'[m] # Idle
               PROVE  /\ m = mount' /\ subscribed' /\ ~Booting' /\ status' = "connecting"
                      /\ RequestShown(m)' /\ AnswerShown(m)'
    BY <1>6 DEF AwaitedShown
  <2>1. m = mount
    BY <1>1
  <2>2. AnswerShown(m)'
    BY <1>1, <2>1 DEF AnswerShown
  <2>3. RequestShown(m)'
    <3> SUFFICES ASSUME NEW r \in requests', r.rev = flight'[m].rev PROVE r.of = content'
      BY DEF RequestShown
    <3>1. r.rev = pending.rev
      BY <1>1, <2>1
    <3>2. r = Request
      BY <1>2, <1>4, <3>1
    <3> QED
      BY <1>3, <3>2
  <2> QED
    BY <1>1, <1>2, <1>6, <2>1, <2>2, <2>3
<1>10. RestSaved'
  BY <1>6, <1>8 DEF RestSaved, AllIdle
<1> QED
  BY <1>5, <1>7, <1>9, <1>10

-----------------------------------------------------------------------------
LEMMA ChangeSiteSaved ==
    ASSUME TypeOK, RevsFresh, CalmInv, ChangeSite
    PROVE  CalmInv'
<1>1. /\ mount # 0 /\ ~Booting
      /\ UNCHANGED <<budget, mount, subscribed, flight, status, seen, loading, requests, writer>>
      /\ stored' = stored /\ seq' = seq
  BY DEF ChangeSite, server, counts
<1>2. WriterKnows' /\ FetchedIsStored' /\ seen' <= seq'
  BY <1>1, ServerQuiet DEF CalmInv
<1>3. Mount' = Mount /\ ~Booting'
  BY <1>1 DEF Mount, Booting
<1>4. ~skip' /\ Attentive'
  <2>1. ~skip /\ (~subscribed => status = "error")
    BY <1>1 DEF CalmInv, Attentive
  <2>2. ~skip'
    BY <2>1 DEF ChangeSite
  <2> QED
    BY <1>1, <1>3, <2>1, <2>2 DEF Attentive
<1>5. CASE subscribed
  <2>1. pending' = [rev |-> rev + 1, of |-> content']
    BY <1>5 DEF ChangeSite, CalmInv, Attentive
  <2>2. pending' # Nothing /\ pending'.of = content'
    BY <2>1, SessionTypes DEF Nothing
  <2>3. QueueShown' /\ RestSaved'
    BY <1>1, <1>3, <1>5, <2>2 DEF QueueShown, RestSaved
  <2>4. AwaitedShown'
    <3> SUFFICES ASSUME NEW m \in Mount, flight[m] # Idle
                 PROVE  /\ m = mount' /\ subscribed' /\ ~Booting' /\ status' = "connecting"
                        /\ RequestShown(m)' /\ AnswerShown(m)'
      BY <1>1, <1>3 DEF AwaitedShown
    <3>1. /\ m = mount /\ status = "connecting" /\ AnswerShown(m)
      BY DEF CalmInv, AwaitedShown
    <3>2. RequestShown(m)' /\ AnswerShown(m)'
      BY <1>1, <2>2, <3>1 DEF RequestShown, AnswerShown
    <3> QED
      BY <1>1, <1>3, <1>5, <3>1, <3>2
  <2> QED
    BY <1>2, <1>4, <2>3, <2>4, Zenon DEF CalmInv
<1>6. CASE ~subscribed
  <2>1. status = "error" /\ pending = Nothing /\ AllIdle
    BY <1>1, <1>6 DEF CalmInv, Attentive, QueueShown, AwaitedShown, AllIdle
  <2>2. pending' = pending
    BY <1>6 DEF ChangeSite
  <2>3. AwaitedShown'
    BY <1>1, <1>3, <2>1 DEF AwaitedShown, AllIdle
  <2>4. QueueShown' /\ RestSaved'
    BY <1>1, <2>1, <2>2 DEF QueueShown, RestSaved
  <2> QED
    BY <1>2, <1>4, <2>3, <2>4, Zenon DEF CalmInv
<1> QED
  BY <1>5, <1>6

LEMMA TimerFiresSaved ==
    ASSUME TypeOK, RevsFresh, CalmInv, TimerFires
    PROVE  RevsFresh' /\ CalmInv'
<1>1. /\ mount \in Mount
      /\ UNCHANGED <<budget, rev, content, skip, mount, subscribed, loading>>
      /\ UNCHANGED <<writer, stored, seq, seen>>
  BY DEF TypeOK, DraftTypeOK, TimerFires, history, server, counts, ghosts
<1>2. CASE flight[mount] = Idle /\ pending # Nothing
  <2>1. Send /\ requests' = requests \union {Request}
    BY <1>2 DEF TimerFires
  <2>2. WriterKnows' /\ FetchedIsStored' /\ seen' <= seq'
    BY <1>1, ServerQuiet DEF CalmInv
  <2>3. \A m \in Mount : flight[m] # Idle => m = mount
    BY DEF CalmInv, AwaitedShown
  <2>4. RevsFresh' /\ Attentive' /\ QueueShown' /\ AwaitedShown' /\ RestSaved'
    BY <1>1, <1>2, <2>1, <2>3, SendSaved DEF CalmInv
  <2> QED
    BY <2>2, <2>4, Zenon DEF CalmInv
<1>3. CASE ~(flight[mount] = Idle /\ pending # Nothing)
  <2>1. UNCHANGED <<pending, status, flight, requests>>
    BY <1>3 DEF TimerFires
  <2>2. UNCHANGED Frame
    BY <1>1, <2>1 DEF Frame
  <2> QED
    BY <2>2, QuietSaved
<1> QED
  BY <1>2, <1>3

\* An answer shows that the awaited snapshot is stored, or that another follows it.
LEMMA AnswerSaved ==
    ASSUME TypeOK, RevsFresh, CalmInv, NEW m \in Mount, Answer(m)
    PROVE  RevsFresh' /\ CalmInv'
<1>1. /\ UNCHANGED <<budget, rev, content, skip, mount, subscribed, loading>>
      /\ UNCHANGED <<writer, stored, seq>>
      /\ seen' = Later(seen, flight[m].answer)
      /\ flight[m].answer # 0
  BY DEF Answer, history, server, counts, ghosts
<1>2. m = mount /\ subscribed /\ ~Booting /\ AnswerShown(m)
  BY <1>1 DEF CalmInv, AwaitedShown, Idle
<1>3. /\ seen \in Nat /\ seq \in Nat /\ flight[m].answer \in Nat
      /\ seen < flight[m].answer /\ flight[m].answer <= seq
  BY <1>1, <1>2, SessionTypes DEF AnswerShown
<1>4. seen' = flight[m].answer /\ seen' <= seq'
  BY <1>1, <1>3 DEF Later
<1>5. WriterKnows' /\ FetchedIsStored'
  BY <1>1, ServerQuiet DEF CalmInv
<1>6. \A k \in Mount : flight[k] # Idle => k = mount
  BY DEF CalmInv, AwaitedShown
<1>7. CASE pending # Nothing
  <2>1. Send /\ requests' = requests \union {Request}
    BY <1>2, <1>7 DEF Answer
  <2>2. RevsFresh' /\ Attentive' /\ QueueShown' /\ AwaitedShown' /\ RestSaved'
    BY <1>1, <1>2, <1>6, <1>7, <2>1, SendSaved DEF CalmInv
  <2> QED
    BY <1>4, <1>5, <2>2, Zenon DEF CalmInv
<1>8. CASE pending = Nothing
  <2>1. /\ flight' = [flight EXCEPT ![m] = Idle] /\ status' = "synced"
        /\ UNCHANGED <<pending, requests>>
    BY <1>2, <1>8 DEF Answer
  <2>2. Mount' = Mount /\ ~Booting' /\ mount \in Mount /\ mount # 0
    BY <1>1, <1>2, SessionTypes DEF Mount, Booting
  <2>3. \A k \in Mount : flight'[k] = Idle
    BY <1>2, <1>6, <2>1, SessionTypes
  <2>4. RevsFresh'
    BY <1>1, <2>1 DEF RevsFresh
  <2>5. Attentive'
    BY <1>1, <1>2, <2>1, <2>2 DEF CalmInv, Attentive
  <2>6. QueueShown' /\ AwaitedShown'
    BY <1>8, <2>1, <2>2, <2>3 DEF QueueShown, AwaitedShown
  <2>7. RestSaved'
    BY <1>1, <1>2, <1>4, <1>8 DEF RestSaved, AnswerShown
  <2> QED
    BY <1>4, <1>5, <2>4, <2>5, <2>6, <2>7, Zenon DEF CalmInv
<1> QED
  BY <1>7, <1>8

LEMMA FailSaved ==
    ASSUME TypeOK, RevsFresh, CalmInv, NEW m \in Mount, Fail(m)
    PROVE  RevsFresh' /\ CalmInv'
<1>1. /\ UNCHANGED <<budget, rev, content, skip, mount, subscribed, loading>>
      /\ UNCHANGED <<writer, stored, seq, seen>>
      /\ flight[m] # Idle
  BY DEF Fail, history, server
<1>2. m = mount /\ subscribed /\ ~Booting
  BY <1>1 DEF CalmInv, AwaitedShown
<1>3. WriterKnows' /\ FetchedIsStored' /\ seen' <= seq'
  BY <1>1, ServerQuiet DEF CalmInv
<1>4. \A k \in Mount : flight[k] # Idle => k = mount
  BY DEF CalmInv, AwaitedShown
<1>5. CASE pending # Nothing
  <2>1. Send /\ requests' \subseteq requests \union {Request}
    BY <1>2, <1>5 DEF Fail
  <2>2. RevsFresh' /\ Attentive' /\ QueueShown' /\ AwaitedShown' /\ RestSaved'
    BY <1>1, <1>2, <1>4, <1>5, <2>1, SendSaved DEF CalmInv
  <2> QED
    BY <1>3, <2>2, Zenon DEF CalmInv
<1>6. CASE pending = Nothing
  <2>1. /\ flight' = [flight EXCEPT ![m] = Idle] /\ status' = "error"
        /\ pending' = Nothing /\ requests' \subseteq requests
    BY <1>2, <1>6 DEF Fail
  <2>2. Mount' = Mount /\ ~Booting' /\ mount # 0
    BY <1>1, <1>2, SessionTypes DEF Mount, Booting
  <2>3. \A k \in Mount : flight'[k] = Idle
    BY <1>2, <1>4, <2>1, SessionTypes
  <2>4. RevsFresh'
    BY <1>1, <2>1 DEF RevsFresh
  <2>5. Attentive'
    BY <1>1, <1>2, <2>1, <2>2 DEF CalmInv, Attentive
  <2>6. QueueShown' /\ AwaitedShown' /\ RestSaved'
    BY <2>1, <2>2, <2>3 DEF QueueShown, AwaitedShown, RestSaved
  <2> QED
    BY <1>3, <2>4, <2>5, <2>6, Zenon DEF CalmInv
<1> QED
  BY <1>5, <1>6

LEMMA LeaveSaved ==
    ASSUME TypeOK, RevsFresh, CalmInv, Leave, Calm'
    PROVE  RevsFresh' /\ CalmInv'
<1>1. /\ UNCHANGED <<budget, rev, content, loading, flight, skip, writer, stored, seq, seen>>
      /\ mount' = 0 /\ status' = "loading" /\ pending' = Nothing /\ ~Booting
  BY DEF Leave, history, server, counts
<1>2. pending = Nothing /\ flight[mount] = Idle /\ status # "error"
  BY DEF Leave, Admit, Calm
<1>3. requests' = requests /\ Mount' = Mount /\ ~Booting'
  BY <1>1, <1>2 DEF Leave, Mount, Booting
<1>4. AllIdle
  BY <1>2 DEF CalmInv, AwaitedShown, AllIdle
<1>5. WriterKnows' /\ FetchedIsStored' /\ seen' <= seq'
  BY <1>1, ServerQuiet DEF CalmInv
<1>6. RevsFresh'
  BY <1>1, <1>3 DEF RevsFresh
<1>7. Attentive' /\ QueueShown' /\ AwaitedShown'
  BY <1>1, <1>3, <1>4 DEF CalmInv, Attentive, QueueShown, AwaitedShown, AllIdle
<1>8. RestSaved'
  BY <1>1, <1>2, <1>4 DEF CalmInv, RestSaved
<1> QED
  BY <1>5, <1>6, <1>7, <1>8, Zenon DEF CalmInv

LEMMA ReturnSaved ==
    ASSUME TypeOK, RevsFresh, CalmInv, Return
    PROVE  RevsFresh' /\ CalmInv'
<1>1. /\ UNCHANGED <<budget, rev, content, loading, flight, skip, pending, requests>>
      /\ UNCHANGED <<writer, stored, seq, seen>>
      /\ mount = 0 /\ mount' = mounts + 1 /\ subscribed' /\ status' = "synced"
  BY DEF Return, history, server, counts, ghosts
<1>2. Mount' = Mount /\ ~Booting /\ ~Booting' /\ pending = Nothing /\ status # "error"
  BY <1>1 DEF Mount, Booting, CalmInv, Attentive, QueueShown
<1>3. AllIdle
  BY <1>1, SessionTypes DEF CalmInv, AwaitedShown, AllIdle
<1>4. WriterKnows' /\ FetchedIsStored' /\ seen' <= seq'
  BY <1>1, ServerQuiet DEF CalmInv
<1>5. RevsFresh'
  BY <1>1 DEF RevsFresh
<1>6. mount' # 0
  BY <1>1 DEF TypeOK, DraftTypeOK, Mount
<1>7. Attentive' /\ QueueShown' /\ AwaitedShown'
  BY <1>1, <1>2, <1>3, <1>6 DEF CalmInv, Attentive, QueueShown, AwaitedShown, AllIdle
<1>8. RestSaved'
  BY <1>1, <1>2, <1>3 DEF CalmInv, RestSaved
<1> QED
  BY <1>4, <1>5, <1>7, <1>8, Zenon DEF CalmInv

LEMMA ReloadSaved ==
    ASSUME TypeOK, RevsFresh, CalmInv, Reload, Calm'
    PROVE  RevsFresh' /\ CalmInv'
<1>1. /\ UNCHANGED <<budget, rev, requests, writer, stored, seq>>
      /\ mount' = mounts + 1 /\ status' = "loading" /\ pending' = Nothing
      /\ seen' = 0 /\ ~skip' /\ flight' = [m \in Mount |-> Idle]
      /\ loading' = [why |-> "boot", got |-> [d \in Doc |-> Unread], seq |-> 0, rev |-> rev]
  BY DEF Reload, server, counts
<1>2. Mount' = Mount /\ Booting' /\ mount' # 0
  BY <1>1 DEF Mount, Booting, NotLoading, TypeOK, DraftTypeOK
<1>3. seq \in Nat /\ seen' <= seq'
  BY <1>1, SessionTypes
<1>4. WriterKnows'
  BY <1>1 DEF CalmInv, WriterKnows
<1>5. FetchedIsStored'
  BY <1>1, <1>3, SiteAssumption DEF FetchedIsStored
<1>6. RevsFresh'
  BY <1>1 DEF RevsFresh
<1>7. Attentive' /\ QueueShown' /\ AwaitedShown' /\ RestSaved'
  BY <1>1, <1>2 DEF Attentive, QueueShown, AwaitedShown, RestSaved
<1> QED
  BY <1>3, <1>4, <1>5, <1>6, <1>7, Zenon DEF CalmInv

\* A step that leaves the editor's side alone.
LEMMA EditorQuiet ==
    ASSUME RevsFresh, CalmInv, Booting' = Booting,
           UNCHANGED <<budget, rev, requests, pending, seq, seen, content, stored,
                       skip, mount, status, subscribed, flight>>
    PROVE  /\ RevsFresh' /\ seen' <= seq' /\ Attentive' /\ QueueShown' /\ AwaitedShown'
           /\ RestSaved'
<1>1. RevsFresh'
  BY DEF RevsFresh
<1>2. seen' <= seq'
  BY DEF CalmInv
<1>3. Attentive' /\ QueueShown'
  BY DEF CalmInv, Attentive, QueueShown
<1>4. AwaitedShown'
  BY DEF CalmInv, AwaitedShown, RequestShown, AnswerShown, Mount
<1>5. RestSaved'
  BY DEF CalmInv, RestSaved, AllIdle, Mount
<1> QED
  BY <1>1, <1>2, <1>3, <1>4, <1>5

LEMMA RefreshSaved ==
    ASSUME TypeOK, RevsFresh, CalmInv, Refresh
    PROVE  RevsFresh' /\ CalmInv'
<1>1. /\ loading = NotLoading
      /\ loading' = [why |-> "refresh", got |-> [d \in Doc |-> Unread], seq |-> 0, rev |-> rev]
      /\ UNCHANGED <<budget, rev, requests, pending, seq, seen, content, stored,
                     skip, mount, status, subscribed, flight, writer>>
  BY DEF Refresh, history, client, server, ghosts
<1>2. Booting' = Booting
  BY <1>1 DEF Booting
<1>3. WriterKnows' /\ FetchedIsStored'
  BY <1>1, SessionTypes, SiteAssumption DEF CalmInv, WriterKnows, FetchedIsStored
<1> QED
  BY <1>1, <1>2, <1>3, EditorQuiet DEF CalmInv

LEMMA FetchedSaved ==
    ASSUME TypeOK, RevsFresh, CalmInv, NEW d \in Doc, Fetched(d)
    PROVE  RevsFresh' /\ CalmInv'
<1>1. /\ loading # NotLoading
      /\ loading' = [loading EXCEPT !.got[d] = stored[d], !.seq = IF d = Site THEN seq ELSE @]
      /\ UNCHANGED <<budget, rev, requests, pending, seq, seen, content, stored,
                     skip, mount, status, subscribed, flight, writer>>
  BY DEF Fetched, history, client, server, counts, ghosts
<1>2. loading \in [why : {"boot", "refresh"}, got : [Doc -> Value \union {Unread}],
                   seq : Nat, rev : Nat]
  BY <1>1 DEF TypeOK, DraftTypeOK
<1>3. /\ loading'.why = loading.why
      /\ loading'.got = [loading.got EXCEPT ![d] = stored[d]]
      /\ loading'.seq = IF d = Site THEN seq ELSE loading.seq
  BY <1>1, <1>2
<1>4. Booting' = Booting
  BY <1>1, <1>2, <1>3 DEF Booting, NotLoading
<1>5. WriterKnows'
  BY <1>1 DEF CalmInv, WriterKnows
<1>6. FetchedIsStored'
  <2>1. /\ \A e \in Doc : loading.got[e] # Unread => loading.got[e] = stored[e]
        /\ loading.got[Site] # Unread => loading.seq = seq
        /\ loading.seq <= seq
    BY <1>1 DEF CalmInv, FetchedIsStored
  <2>2. \A e \in Doc : loading'.got[e] = IF e = d THEN stored[d] ELSE loading.got[e]
    BY <1>2, <1>3
  <2>3. \A e \in Doc : loading'.got[e] # Unread => loading'.got[e] = stored'[e]
    BY <1>1, <2>1, <2>2
  <2>4. loading'.got[Site] # Unread => loading'.seq = seq'
    BY <1>1, <1>3, <2>1, <2>2, SiteAssumption
  <2>5. loading'.seq <= seq'
    BY <1>1, <1>3, <2>1, SessionTypes
  <2> QED
    BY <2>3, <2>4, <2>5, Zenon DEF FetchedIsStored
<1> QED
  BY <1>1, <1>4, <1>5, <1>6, EditorQuiet DEF CalmInv

\* With every document fetched undisturbed, what is loaded is what is stored.
LEMMA LoadedSaved ==
    ASSUME TypeOK, RevsFresh, CalmInv, Loaded, Calm'
    PROVE  RevsFresh' /\ CalmInv'
<1>1. /\ loading # NotLoading /\ loading' = NotLoading
      /\ \A d \in Doc : loading.got[d] # Unread
      /\ content' = loading.got /\ seen' = Later(seen, loading.seq)
      /\ UNCHANGED <<budget, rev, requests, pending, seq, stored, mount, flight, writer>>
  BY DEF Loaded, Load, server, counts
<1>2. loading.seq = seq /\ content' = stored
  <2>1. \A d \in Doc : loading.got[d] = stored[d]
    BY <1>1 DEF CalmInv, FetchedIsStored
  <2>2. loading.got \in [Doc -> Value \union {Unread}]
    BY <1>1 DEF TypeOK, DraftTypeOK
  <2>3. loading.got = stored
    BY <2>1, <2>2, SessionTypes DEF Version
  <2> QED
    BY <1>1, <2>3, SiteAssumption DEF CalmInv, FetchedIsStored
<1>3. seen' <= seq'
  BY <1>1, <1>2, SessionTypes DEF CalmInv, Later
<1>4. Mount' = Mount /\ ~Booting'
  BY <1>1 DEF Mount, Booting
<1>5. AllIdle /\ pending = Nothing
  <2>1. CASE Booting
    BY <2>1 DEF CalmInv, QueueShown, AwaitedShown, AllIdle
  <2>2. CASE ~Booting
    BY <2>2 DEF Loaded, Admit, Calm, AllIdle
  <2> QED
    BY <2>1, <2>2
<1>6. WriterKnows' /\ FetchedIsStored' /\ RevsFresh'
  BY <1>1 DEF CalmInv, WriterKnows, FetchedIsStored, RevsFresh
<1>7. Attentive'
  <2>1. CASE Booting
    <3>1. mount # 0 /\ ~skip /\ subscribed' /\ status' = "synced" /\ skip' = skip
      BY <2>1 DEF CalmInv, Attentive, Loaded
    <3> QED
      BY <1>1, <1>4, <3>1 DEF Attentive
  <2>2. CASE ~Booting
    <3>1. subscribed /\ status # "error"
      BY <2>2 DEF Loaded, Admit, Calm
    <3>2. subscribed' /\ status' = status /\ ~skip'
      BY <2>2, <3>1 DEF Loaded, TypeOK, DraftTypeOK
    <3> QED
      BY <1>1, <1>4, <3>1, <3>2 DEF Attentive
  <2> QED
    BY <2>1, <2>2
<1>8. QueueShown' /\ AwaitedShown' /\ RestSaved'
  BY <1>1, <1>2, <1>4, <1>5 DEF QueueShown, AwaitedShown, RestSaved, AllIdle
<1> QED
  BY <1>3, <1>6, <1>7, <1>8, Zenon DEF CalmInv

-----------------------------------------------------------------------------
LEMMA ServerSaveSaved ==
    ASSUME TypeOK, RevsFresh, CalmInv, NEW r \in requests, ServerSave(r), Calm'
    PROVE  RevsFresh' /\ CalmInv'
<1>1. /\ UNCHANGED <<budget, rev, content, pending, skip, mount, status, subscribed,
                     seen, loading, writer>>
      /\ requests' = requests \ {r} /\ stored' = r.of /\ seq' = seq + 1
      /\ flight' = IF flight[r.mount].rev = r.rev
                   THEN [flight EXCEPT ![r.mount].answer = seq + 1] ELSE flight
  <2>1. seq = r.read
    BY DEF ServerSave, Calm
  <2> QED
    BY <2>1 DEF ServerSave, history, counts
<1>2. loading = NotLoading
  BY DEF ServerSave, Calm
<1>3. Mount' = Mount /\ ~Booting /\ ~Booting'
  BY <1>1, <1>2 DEF Mount, Booting
<1>4. seq \in Nat /\ seen \in Nat /\ seen <= seq /\ seq' > seq /\ seq' > seen /\ seen' <= seq'
  BY <1>1, SessionTypes DEF CalmInv
<1>5. WriterKnows'
  BY <1>1, <1>4, SessionTypes DEF CalmInv, WriterKnows
<1>6. FetchedIsStored' /\ RevsFresh'
  BY <1>1, <1>2 DEF FetchedIsStored, RevsFresh
<1>7. Attentive' /\ QueueShown' /\ RestSaved'
  BY <1>1, <1>3, <1>4 DEF CalmInv, Attentive, QueueShown, RestSaved
<1>8. AwaitedShown'
  <2> SUFFICES ASSUME NEW m \in Mount, flight'[m] # Idle
               PROVE  /\ m = mount' /\ subscribed' /\ ~Booting' /\ status' = "connecting"
                      /\ RequestShown(m)' /\ AnswerShown(m)'
    BY <1>3 DEF AwaitedShown
  <2>1. /\ r.mount \in Mount /\ r.rev # 0
        /\ flight'[m].rev = flight[m].rev
        /\ \/ flight'[m] = flight[m]
           \/ m = r.mount /\ flight[m].rev = r.rev /\ flight'[m].answer = seq + 1
    BY <1>1, SessionTypes
  <2>2. flight[m] # Idle
    BY <2>1 DEF Idle
  <2>3. /\ m = mount /\ subscribed /\ status = "connecting"
        /\ RequestShown(m) /\ AnswerShown(m)
    BY <2>2 DEF CalmInv, AwaitedShown
  <2>4. RequestShown(m)'
    BY <1>1, <2>1, <2>3 DEF RequestShown
  <2>5. ASSUME flight'[m] = flight[m] PROVE AnswerShown(m)'
    <3>1. flight[m].answer \in Nat
      BY SessionTypes
    <3>2. ASSUME flight[m].answer # 0
          PROVE  seen' < flight[m].answer /\ flight[m].answer <= seq' /\ seq' > flight[m].answer
      BY <1>1, <1>4, <2>3, <3>1, <3>2 DEF AnswerShown
    <3> QED
      BY <2>5, <3>2 DEF AnswerShown
  <2>6. ASSUME m = r.mount, flight[m].rev = r.rev, flight'[m].answer = seq + 1
        PROVE  AnswerShown(m)'
    <3>1. pending # Nothing \/ stored' = content
      BY <1>1, <2>3, <2>6 DEF RequestShown
    <3> QED
      BY <1>1, <1>4, <2>6, <3>1 DEF AnswerShown
  <2> QED
    BY <1>1, <1>3, <2>1, <2>3, <2>4, <2>5, <2>6
<1> QED
  BY <1>4, <1>5, <1>6, <1>7, <1>8, Zenon DEF CalmInv

LEMMA AgentPersistsSaved ==
    ASSUME TypeOK, RevsFresh, CalmInv, NEW page \in Doc \ {Site}, AgentPersists(page), Calm'
    PROVE  RevsFresh' /\ CalmInv'
<1>1. /\ UNCHANGED <<budget, rev, content, pending, requests, skip, mount, status, subscribed,
                     seen, loading, flight>>
      /\ writer # Nothing /\ seq' = writer.seq + 1 /\ writer' = Nothing
  BY DEF AgentPersists, history, client, counts
<1>2. loading = NotLoading /\ seq = writer.seq
  BY DEF AgentPersists, Calm
<1>3. Mount' = Mount /\ Booting' = Booting
  BY <1>1 DEF Mount, Booting
<1>4. seq \in Nat /\ seen \in Nat /\ seen <= seq /\ seq' = seq + 1 /\ seen' <= seq'
  BY <1>1, <1>2, SessionTypes DEF CalmInv
<1>5. WriterKnows' /\ FetchedIsStored' /\ RevsFresh'
  BY <1>1, <1>2 DEF WriterKnows, FetchedIsStored, RevsFresh
<1>6. Attentive' /\ QueueShown'
  BY <1>1, <1>3 DEF CalmInv, Attentive, QueueShown
<1>7. RestSaved'
  BY <1>1, <1>4 DEF RestSaved
<1>8. AwaitedShown'
  <2> SUFFICES ASSUME NEW m \in Mount, flight[m] # Idle
               PROVE  /\ m = mount' /\ subscribed' /\ ~Booting' /\ status' = "connecting"
                      /\ RequestShown(m)' /\ AnswerShown(m)'
    BY <1>1, <1>3 DEF AwaitedShown
  <2>1. /\ m = mount /\ subscribed /\ ~Booting /\ status = "connecting"
        /\ RequestShown(m) /\ AnswerShown(m)
    BY DEF CalmInv, AwaitedShown
  <2>2. RequestShown(m)'
    BY <1>1, <2>1 DEF RequestShown
  <2>3. flight[m].answer \in Nat
    BY SessionTypes
  <2>4. AnswerShown(m)'
    BY <1>1, <1>4, <2>1, <2>3 DEF AnswerShown
  <2> QED
    BY <1>1, <1>3, <2>1, <2>2, <2>4
<1> QED
  BY <1>4, <1>5, <1>6, <1>7, <1>8, Zenon DEF CalmInv

\* A publish that nobody overlapped writes back what it read.
LEMMA PublishSavesSaved ==
    ASSUME TypeOK, RevsFresh, CalmInv, PublishSaves, Calm'
    PROVE  RevsFresh' /\ CalmInv'
<1>1. /\ UNCHANGED <<budget, rev, content, pending, requests, skip, mount, status, subscribed,
                     seen, loading, flight>>
      /\ writer # Nothing /\ seq' = writer.seq /\ writer' = Nothing
      /\ stored' = [stored EXCEPT ![Site] = writer.site]
  BY DEF PublishSaves, history, client, counts, Nothing
<1>2. loading = NotLoading /\ seq = writer.seq
  BY DEF PublishSaves, Calm
<1>3. stored' = stored /\ seq' = seq
  BY <1>1, <1>2, SessionTypes DEF CalmInv, WriterKnows, Version
<1>4. Booting' = Booting
  BY <1>1 DEF Booting
<1>5. WriterKnows' /\ FetchedIsStored'
  BY <1>1, <1>2 DEF WriterKnows, FetchedIsStored
<1> QED
  BY <1>1, <1>3, <1>4, <1>5, EditorQuiet DEF CalmInv

LEMMA WriterReadsSaved ==
    ASSUME TypeOK, RevsFresh, CalmInv, NEW who \in {"agent", "publish"}, WriterReads(who)
    PROVE  RevsFresh' /\ CalmInv'
<1>1. /\ UNCHANGED <<budget, rev, requests, pending, seq, seen, content, stored,
                     skip, mount, status, subscribed, flight, loading>>
      /\ writer' = [who |-> who, seq |-> seq, site |-> stored[Site]]
  BY DEF WriterReads, history, client, server, ghosts
<1>2. Booting' = Booting
  BY <1>1 DEF Booting
<1>3. WriterKnows' /\ FetchedIsStored'
  BY <1>1, SessionTypes DEF CalmInv, WriterKnows, FetchedIsStored
<1> QED
  BY <1>1, <1>2, <1>3, EditorQuiet DEF CalmInv

LEMMA LoseUnawaitedSaved ==
    ASSUME TypeOK, RevsFresh, CalmInv, NEW r \in requests, LoseUnawaited(r)
    PROVE  RevsFresh' /\ CalmInv'
<1>1. /\ UNCHANGED <<budget, rev, pending, seq, seen, content, stored,
                     skip, mount, status, subscribed, flight, loading, writer>>
      /\ requests' = requests \ {r}
  BY DEF LoseUnawaited, history, client, server
<1>2. Booting' = Booting /\ Mount' = Mount
  BY <1>1 DEF Booting, Mount
<1>3. WriterKnows' /\ FetchedIsStored' /\ RevsFresh' /\ seen' <= seq'
  BY <1>1 DEF CalmInv, WriterKnows, FetchedIsStored, RevsFresh
<1>4. Attentive' /\ QueueShown' /\ RestSaved'
  BY <1>1, <1>2 DEF CalmInv, Attentive, QueueShown, RestSaved, AllIdle
<1>5. AwaitedShown'
  BY <1>1, <1>2 DEF CalmInv, AwaitedShown, RequestShown, AnswerShown
<1> QED
  BY <1>3, <1>4, <1>5, Zenon DEF CalmInv

LEMMA ServerReadsSaved ==
    ASSUME TypeOK, RevsFresh, CalmInv, NEW r \in requests, ServerReads(r)
    PROVE  RevsFresh' /\ CalmInv'
<1> DEFINE served == [r EXCEPT !.read = seq]
<1>1. /\ UNCHANGED <<budget, rev, pending, seq, seen, content, stored,
                     skip, mount, status, subscribed, flight, loading, writer>>
      /\ requests' = (requests \ {r}) \union {served}
  BY DEF ServerReads, history, client, server, counts, ghosts
<1>2. served.mount = r.mount /\ served.rev = r.rev /\ served.of = r.of
  BY DEF TypeOK, DraftTypeOK
<1>3. Booting' = Booting /\ Mount' = Mount
  BY <1>1 DEF Booting, Mount
<1>4. WriterKnows' /\ FetchedIsStored' /\ seen' <= seq'
  BY <1>1 DEF CalmInv, WriterKnows, FetchedIsStored
<1>5. RevsFresh'
  BY <1>1, <1>2 DEF RevsFresh
<1>6. Attentive' /\ QueueShown' /\ RestSaved'
  BY <1>1, <1>3 DEF CalmInv, Attentive, QueueShown, RestSaved, AllIdle
<1>7. ASSUME NEW m \in Mount, RequestShown(m) PROVE RequestShown(m)'
  BY <1>1, <1>2, <1>7 DEF RequestShown
<1>8. AwaitedShown'
  BY <1>1, <1>3, <1>7 DEF CalmInv, AwaitedShown, AnswerShown
<1> QED
  BY <1>4, <1>5, <1>6, <1>8, Zenon DEF CalmInv

-----------------------------------------------------------------------------
\* Snapshots stay fresh whether or not anything was forgotten.
LEMMA RevsFreshStep ==
    ASSUME TypeOK, RevsFresh, [Next]_vars PROVE RevsFresh'
<1>1. CASE ChangeSite
  <2>1. requests' = requests /\ rev' \in {rev, rev + 1}
    BY <1>1 DEF ChangeSite
  <2>2. \A r \in requests : r.rev \in Nat /\ r.rev <= rev
    BY SessionTypes DEF RevsFresh
  <2>3. CASE pending' = pending
    BY <2>1, <2>2, <2>3, SessionTypes DEF RevsFresh
  <2>4. CASE rev' = rev + 1 /\ pending' = [rev |-> rev + 1, of |-> content']
    BY <2>1, <2>2, <2>4, SessionTypes DEF RevsFresh
  <2> QED
    BY <1>1, <2>3, <2>4 DEF ChangeSite
<1>2. CASE TimerFires \/ \E m \in Mount : Answer(m) \/ Fail(m)
  <2>1. rev' = rev
    BY <1>2 DEF TimerFires, Answer, Fail, ghosts
  <2>2. CASE pending' = pending /\ requests' \subseteq requests
    BY <2>1, <2>2 DEF RevsFresh
  <2>3. CASE pending # Nothing /\ pending' = Nothing /\ requests' \subseteq requests \union {Request}
    <3>1. \A r \in requests' : r.rev <= rev
      BY <2>3 DEF RevsFresh, Request
    <3> QED
      BY <2>1, <2>3, <3>1 DEF RevsFresh
  <2> QED
    BY <1>2, <2>2, <2>3 DEF TimerFires, Answer, Fail, Send
<1>3. CASE Leave
  <2>1. /\ rev' = rev /\ pending' = Nothing
        /\ requests' = IF pending = Nothing THEN requests ELSE requests \union {Request}
    BY <1>3 DEF Leave
  <2>2. \A r \in requests' : r.rev <= rev
    BY <2>1 DEF RevsFresh, Request
  <2> QED
    BY <2>1, <2>2 DEF RevsFresh
<1>4. CASE Reload
  BY <1>4 DEF Reload, RevsFresh
<1>5. CASE \E r \in requests : ServerReads(r) \/ ServerSave(r) \/ LoseUnawaited(r)
  <2>1. CASE \E r \in requests : ServerReads(r)
    <3>1. PICK r \in requests : ServerReads(r)
      BY <2>1
    <3>2. /\ rev' = rev /\ pending' = pending
          /\ requests' = (requests \ {r}) \union {[r EXCEPT !.read = seq]}
      BY <3>1 DEF ServerReads, client, ghosts
    <3>3. [r EXCEPT !.read = seq].rev = r.rev
      BY DEF TypeOK, DraftTypeOK
    <3> QED
      BY <3>2, <3>3 DEF RevsFresh
  <2>2. CASE \E r \in requests : ServerSave(r) \/ LoseUnawaited(r)
    <3>1. rev' = rev /\ pending' = pending /\ requests' \subseteq requests
      BY <2>2 DEF ServerSave, LoseUnawaited, client
    <3> QED
      BY <3>1 DEF RevsFresh
  <2> QED
    BY <1>5, <2>1, <2>2
<1>6. CASE InlineEditing \/ Poll \/ Return \/ Refresh \/ Loaded \/ PublishSaves \/ UNCHANGED vars
  <2>1. UNCHANGED <<rev, pending, requests>>
    BY <1>6 DEF InlineEditing, Poll, Return, Refresh, Loaded, PublishSaves, vars, client, ghosts
  <2> QED
    BY <2>1 DEF RevsFresh
<1>7. CASE \/ \E d \in Doc : Fetched(d)
           \/ \E who \in {"agent", "publish"} : WriterReads(who)
           \/ \E page \in Doc \ {Site} : AgentPersists(page)
  <2>1. UNCHANGED <<rev, pending, requests>>
    BY <1>7 DEF Fetched, WriterReads, AgentPersists, client, ghosts
  <2> QED
    BY <2>1 DEF RevsFresh
<1> QED
  BY <1>1, <1>2, <1>3, <1>4, <1>5, <1>6, <1>7 DEF Next

LEMMA SavedStep ==
    ASSUME TypeOK, SavedInv, [Next]_vars PROVE SavedInv'
<1>1. RevsFresh /\ RevsFresh'
  BY RevsFreshStep DEF SavedInv
<1> SUFFICES ASSUME Calm' PROVE CalmInv'
  BY <1>1 DEF SavedInv
<1>2. CalmInv
  BY CalmBefore DEF SavedInv
<1>3. CASE ChangeSite
  BY <1>1, <1>2, <1>3, ChangeSiteSaved
<1>4. CASE TimerFires
  BY <1>1, <1>2, <1>4, TimerFiresSaved
<1>5. CASE \E m \in Mount : Answer(m) \/ Fail(m)
  BY <1>1, <1>2, <1>5, AnswerSaved, FailSaved
<1>6. CASE Leave \/ Return \/ Reload
  BY <1>1, <1>2, <1>6, LeaveSaved, ReturnSaved, ReloadSaved
<1>7. CASE Refresh \/ Loaded \/ \E d \in Doc : Fetched(d)
  BY <1>1, <1>2, <1>7, RefreshSaved, LoadedSaved, FetchedSaved
<1>8. CASE \E r \in requests : ServerReads(r) \/ ServerSave(r) \/ LoseUnawaited(r)
  BY <1>1, <1>2, <1>8, ServerReadsSaved, ServerSaveSaved, LoseUnawaitedSaved
<1>9. CASE \E who \in {"agent", "publish"} : WriterReads(who)
  BY <1>1, <1>2, <1>9, WriterReadsSaved
<1>10. CASE PublishSaves \/ \E page \in Doc \ {Site} : AgentPersists(page)
  BY <1>1, <1>2, <1>10, PublishSavesSaved, AgentPersistsSaved
<1>11. CASE InlineEditing \/ Poll \/ UNCHANGED vars
  <2>1. ASSUME InlineEditing PROVE UNCHANGED Frame
    BY <2>1 DEF InlineEditing, BreakCoalescing, Frame, client, server, counts, ghosts
  <2>2. ASSUME Poll PROVE UNCHANGED Frame
    BY <2>2 DEF Poll, Frame, history, server, counts
  <2>3. ASSUME UNCHANGED vars PROVE UNCHANGED Frame
    BY <2>3 DEF vars, Frame, history, client, server, counts, ghosts
  <2>4. UNCHANGED Frame
    BY <1>11, <2>1, <2>2, <2>3
  <2> QED
    BY <1>2, <2>4, QuietSaved
<1> QED
  BY <1>3, <1>4, <1>5, <1>6, <1>7, <1>8, <1>9, <1>10, <1>11 DEF Next

LEMMA SavedInit == Init => SavedInv
<1> SUFFICES ASSUME Init PROVE RevsFresh /\ CalmInv
  BY DEF SavedInv
<1>1. RevsFresh /\ WriterKnows /\ FetchedIsStored
  BY DEF Init, RevsFresh, WriterKnows, FetchedIsStored
<1>2. ~Booting /\ mount # 0 /\ seen <= seq /\ \A m \in Mount : flight[m] = Idle
  BY DEF Init, Booting
<1>3. Attentive /\ QueueShown /\ AwaitedShown /\ RestSaved
  BY <1>2 DEF Init, Attentive, QueueShown, AwaitedShown, RestSaved
<1> QED
  BY <1>1, <1>2, <1>3 DEF CalmInv

\* usePersistence.ts:79-118 with siteSyncSeq.ts:17-22: "synced" is said only when
\* the store holds what the editor shows, or its seq is one the editor has not seen.
THEOREM SyncedTrue == Spec => []SyncedMeansSaved
<1>1. TypeOK /\ SavedInv /\ [Next]_vars => SavedInv'
  BY SavedStep
<1>2. SavedInv => SyncedMeansSaved
  <2> SUFFICES ASSUME CalmInv, status = "synced", pending = Nothing
               PROVE  stored = content \/ seq > seen
    BY DEF SavedInv, Calm, SyncedMeansSaved
  <2>1. ~Booting /\ AllIdle
    BY DEF CalmInv, Attentive, AwaitedShown, AllIdle
  <2> QED
    BY <2>1 DEF CalmInv, RestSaved
<1> QED
  BY <1>1, <1>2, SavedInit, SessionTypeCorrect, PTL DEF Spec
=============================================================================
