--------------------------- MODULE Publish_proofs ---------------------------
(***************************************************************************)
(* What TLAPS proves of Publish for every number of threads, processes,    *)
(* writers, bakes and faults.                                              *)
(***************************************************************************)
EXTENDS Publish, TLAPS

\* Consecutive versions name the two slots in turn.
LEMMA SlotsAlternate ==
  ASSUME NEW v \in Nat
  PROVE  SlotOf(v) \in Slot /\ SlotOf(v + 1) = 1 - SlotOf(v)
  BY DEF SlotOf, Slot

\* Versions that name the same slot are followed by versions that do.
LEMMA SlotsInStep ==
  ASSUME NEW v \in Nat, NEW w \in Nat, SlotOf(v) = SlotOf(w)
  PROVE  SlotOf(v + 1) = SlotOf(w + 1)
  BY SlotsAlternate

LEMMA InitTypeOK == Init => TypeOK
  <1> SUFFICES ASSUME Init PROVE TypeOK
    OBVIOUS
  <1>1. slot \in [Slot -> {"empty", "building", "torn", "whole"}]
    BY DEF Init
  <1>2. /\ target \in [Thread -> Slot]
        /\ prev \in [Thread -> Slot \union {NoSlot}]
        /\ live \in Slot \union {NoSlot}
    BY DEF Init, Slot
  <1> QED
    BY <1>1, <1>2 DEF Init, TypeOK

LEMMA NextTypeOK == TypeOK /\ [Next]_vars => TypeOK'
  <1> SUFFICES ASSUME TypeOK, [Next]_vars PROVE TypeOK'
    OBVIOUS
  <1> USE ProcessAssumption
      DEF TypeOK, Baking, lock, site, local, counts, Goto, Fault
  <1>1. CASE UNCHANGED vars
    BY <1>1 DEF vars
  <1>2. CASE Expire
    BY <1>2 DEF Expire
  <1>3. ASSUME NEW t \in Thread, Claim(t) \/ Refuse(t) PROVE TypeOK'
    <2>1. ProcessOf[t] \in Process
      OBVIOUS
    <2>2. CASE Claim(t)
      BY <2>1, <2>2 DEF Claim
    <2>3. CASE Refuse(t)
      BY <2>3 DEF Refuse
    <2> QED
      BY <1>3, <2>2, <2>3
  <1>4. ASSUME NEW t \in Thread, Prepare(t) PROVE TypeOK'
    <2>1. base[t] + 1 \in Nat
      OBVIOUS
    <2>2. SlotOf(base[t] + 1) \in Slot
      BY <2>1, SlotsAlternate
    <2> QED
      BY <1>4, <2>2 DEF Prepare
  <1>5. ASSUME NEW t \in Thread, Copy(t) PROVE TypeOK'
    BY <1>5 DEF Copy
  <1>6. ASSUME NEW t \in Thread, Build(t) PROVE TypeOK'
    BY <1>6 DEF Build
  <1>7. ASSUME NEW t \in Thread, Flip(t) \/ Commit(t) PROVE TypeOK'
    BY <1>7 DEF Flip, Commit
  <1>8. ASSUME NEW t \in Thread, Unlock(t) PROVE TypeOK'
    BY <1>8 DEF Unlock, Release, Free
  <1>9. ASSUME NEW t \in Thread, ReadState(t) PROVE TypeOK'
    BY <1>9 DEF ReadState
  <1>10. ASSUME NEW t \in Thread, StartSave(t) PROVE TypeOK'
    <2>1. live \in Slot /\ 1 - live \in Slot
      BY <1>10 DEF StartSave, Slot
    <2> QED
      BY <1>10, <2>1 DEF StartSave
  <1>11. ASSUME NEW t \in Thread, Rescue(t) PROVE TypeOK'
    BY <1>11 DEF Rescue, RestoreCurrent
  <1>12. ASSUME NEW t \in Thread, RaiseEarly(t) PROVE TypeOK'
    BY <1>12 DEF RaiseEarly
  <1>13. ASSUME NEW p \in Process, Crash(p) PROVE TypeOK'
    BY <1>13 DEF Crash
  <1>14. ASSUME NEW w \in Writer, LoadDraft(w) \/ DropDraft(w) PROVE TypeOK'
    BY <1>14 DEF LoadDraft, DropDraft
  <1>15. ASSUME NEW w \in Writer, SaveDraft(w) PROVE TypeOK'
    BY <1>15 DEF SaveDraft, Unloaded
  <1> QED
    BY <1>1, <1>2, <1>3, <1>4, <1>5, <1>6, <1>7, <1>8, <1>9, <1>10, <1>11,
       <1>12, <1>13, <1>14, <1>15
    DEF Next, Step, Quiet

\* Every variable of the publisher keeps its type.
THEOREM TypeCorrect == Spec => []TypeOK
  BY InitTypeOK, NextTypeOK, PTL DEF Spec

-----------------------------------------------------------------------------
\* Publishing is single-flight across processes: whoever publishes holds the
\* lock, and the lock has not run out on it.
LockHeld ==
    \A t \in Thread : Publishing(t) => holder = ProcessOf[t] /\ ~expired

OneThreadEach == \A t, u \in Thread : ProcessOf[t] = ProcessOf[u] => t = u

LEMMA LockHeldNext ==
  ASSUME OneThreadEach, ~SlowBakes, TypeOK, LockHeld, [Next]_vars
  PROVE  LockHeld'
  <1> USE DEF LockHeld, Publishing, Baking, lock, site, local, counts, Goto
  <1>1. CASE UNCHANGED vars
    BY <1>1 DEF vars
  <1>2. CASE Expire
    <2>1. \A t \in Thread : ProcessOf[t] = holder /\ kind[t] = "publish" =>
                                pc[t] \in {"idle", "read"}
      BY <1>2 DEF Expire
    <2>2. UNCHANGED <<holder, kind, pc>>
      BY <1>2 DEF Expire
    <2> QED
      BY <2>1, <2>2
  <1>3. ASSUME NEW t \in Thread, Claim(t) PROVE LockHeld'
    <2>1. Claimable(ProcessOf[t]) /\ holder' = ProcessOf[t] /\ expired' = FALSE
      BY <1>3 DEF Claim
    <2>2. \A u \in Thread : u # t => ~Publishing(u)
      BY <2>1, ProcessAssumption, HolderAssumption DEF Claimable, OneThreadEach
    <2>3. \A u \in Thread : u # t => pc'[u] = pc[u] /\ kind'[u] = kind[u]
      BY <1>3 DEF Claim, TypeOK
    <2> QED
      BY <2>1, <2>2, <2>3
  <1>4. ASSUME NEW t \in Thread, Unlock(t) PROVE LockHeld'
    <2>1. \A u \in Thread : kind'[u] = kind[u] /\
                            pc'[u] = IF u = t THEN "idle" ELSE pc[u]
      BY <1>4 DEF Unlock, Release, TypeOK
    <2>2. \A u \in Thread : u # t /\ Publishing(u) => holder # ProcessOf[t]
      BY DEF OneThreadEach
    <2>3. holder # ProcessOf[t] => UNCHANGED lock
      BY <1>4 DEF Unlock, Release
    <2> QED
      BY <2>1, <2>2, <2>3
  <1>5. ASSUME UNCHANGED lock,
               \A u \in Thread : Publishing(u)' => Publishing(u)
        PROVE  LockHeld'
    BY <1>5
  <1>6. ASSUME NEW t \in Thread,
               \/ Refuse(t) \/ Prepare(t) \/ Copy(t) \/ Build(t) \/ Flip(t)
               \/ Commit(t) \/ Rescue(t) \/ RaiseEarly(t)
        PROVE  LockHeld'
    <2>1. UNCHANGED lock /\ UNCHANGED kind
      BY <1>6 DEF Refuse, Prepare, Copy, Build, Flip, Commit, Rescue, RaiseEarly
    <2>2. \A u \in Thread : u # t => pc'[u] = pc[u]
      BY <1>6 DEF Refuse, Prepare, Copy, Build, Flip, Commit, Rescue, RaiseEarly, TypeOK
    <2>3. pc[t] = "read" => pc'[t] = "idle"
      BY <1>6 DEF Refuse, Prepare, Copy, Build, Flip, Commit, Rescue, RaiseEarly, TypeOK
    <2>4. pc[t] # "idle"
      BY <1>6 DEF Refuse, Prepare, Copy, Build, Flip, Commit, Rescue, RaiseEarly
    <2>5. pc[t] \in {"idle", "read", "ready", "done", "building", "built", "flipped"}
      BY DEF TypeOK
    <2> QED
      BY <1>5, <2>1, <2>2, <2>3, <2>4, <2>5
  <1>7. ASSUME NEW t \in Thread, ReadState(t) \/ StartSave(t) PROVE LockHeld'
    <2>1. UNCHANGED lock
      BY <1>7 DEF ReadState, StartSave
    <2>2. \A u \in Thread : u # t => pc'[u] = pc[u] /\ kind'[u] = kind[u]
      BY <1>7 DEF ReadState, StartSave, TypeOK
    <2>3. ~Publishing(t)'
      BY <1>7 DEF ReadState, StartSave, TypeOK
    <2> QED
      BY <1>5, <2>1, <2>2, <2>3
  <1>8. ASSUME NEW p \in Process, Crash(p) PROVE LockHeld'
    <2>1. \A u \in Thread : pc'[u] = IF ProcessOf[u] = p THEN "idle" ELSE pc[u]
      BY <1>8 DEF Crash
    <2>2. UNCHANGED <<kind, expired>> /\ (holder # p => holder' = holder)
      BY <1>8 DEF Crash
    <2> QED
      BY <2>1, <2>2
  <1>9. ASSUME NEW w \in Writer, LoadDraft(w) \/ SaveDraft(w) \/ DropDraft(w)
        PROVE  LockHeld'
    BY <1>9 DEF LoadDraft, SaveDraft, DropDraft
  <1> QED
    BY <1>1, <1>2, <1>3, <1>4, <1>6, <1>7, <1>8, <1>9 DEF Next, Step, Quiet

\* With one request thread per process, and bakes shorter than the lock's time
\* to live, never do two publishes overlap, whatever crashes.
THEOREM PublishIsSingleFlight ==
  ASSUME OneThreadEach, ~SlowBakes
  PROVE  Spec => []SingleFlight
  <1>1. Init => LockHeld
    BY DEF Init, LockHeld, Publishing, Baking
  <1>2. TypeOK /\ LockHeld /\ [Next]_vars => LockHeld'
    BY LockHeldNext
  <1>3. LockHeld => SingleFlight
    BY DEF LockHeld, SingleFlight, OneThreadEach
  <1> QED
    BY <1>1, <1>2, <1>3, InitTypeOK, NextTypeOK, PTL DEF Spec

-----------------------------------------------------------------------------
\* Visitors see a whole site.  While nothing was disturbed one bake runs at a
\* time, and the live slot is the one the version names, whichever version it
\* is: so the next bake, of either kind, works in the other.
Whole(s, v) == s # NoSlot => s = SlotOf(v) /\ slot[s] = "whole"

BakesBesideLive(t) ==
    /\ SlotOf(base[t]) = SlotOf(version)
    /\ target[t] = SlotOf(version + 1)
    /\ Whole(prev[t], version)
    /\ live = IF pc[t] = "flipped" THEN target[t] ELSE prev[t]
    /\ pc[t] # "building" => slot[target[t]] = "whole"

OneBaker == \A t, u \in Thread : pc[t] \in Baking /\ pc[u] \in Baking => t = u
BakersBesideLive == \A t \in Thread : pc[t] \in Baking => BakesBesideLive(t)
WholeBetweenBakes == (\A t \in Thread : pc[t] \notin Baking) => Whole(live, version)

Alternating == ~disturbed => OneBaker /\ BakersBesideLive /\ WholeBetweenBakes

\* A save works in the slot that was not live when it began.
SavesCross ==
    \A t \in Thread : kind[t] = "save" /\ pc[t] # "idle" =>
        prev[t] \in Slot /\ target[t] = 1 - prev[t]

LEMMA SavesCrossNext ==
  ASSUME TypeOK, SavesCross, [Next]_vars
  PROVE  SavesCross'
  <1> USE DEF SavesCross, lock, site, local, counts, Goto
  <1>1. CASE UNCHANGED vars
    BY <1>1 DEF vars
  <1>2. CASE Expire
    BY <1>2 DEF Expire
  <1>3. ASSUME NEW t \in Thread, Claim(t) \/ Refuse(t) \/ Prepare(t) \/ ReadState(t)
        PROVE  SavesCross'
    <2>1. \A u \in Thread : u # t => /\ pc'[u] = pc[u] /\ kind'[u] = kind[u]
                                     /\ prev'[u] = prev[u] /\ target'[u] = target[u]
      BY <1>3 DEF Claim, Refuse, Prepare, ReadState, TypeOK
    <2>2. CASE Claim(t) \/ Refuse(t)
      BY <2>1, <2>2 DEF Claim, Refuse
    <2>3. CASE Prepare(t) \/ ReadState(t)
      <3>1. kind'[t] = "publish"
        BY <2>3 DEF Prepare, ReadState, TypeOK
      <3> QED
        BY <2>1, <3>1
    <2> QED
      BY <1>3, <2>2, <2>3
  <1>4. ASSUME NEW t \in Thread, StartSave(t) PROVE SavesCross'
    <2>1. \A u \in Thread : u # t => /\ pc'[u] = pc[u] /\ kind'[u] = kind[u]
                                     /\ prev'[u] = prev[u] /\ target'[u] = target[u]
      BY <1>4 DEF StartSave, TypeOK
    <2>2. live \in Slot /\ prev'[t] = live /\ target'[t] = 1 - live
      BY <1>4 DEF StartSave, TypeOK
    <2> QED
      BY <2>1, <2>2
  <1>5. ASSUME UNCHANGED local, \A u \in Thread : pc'[u] # "idle" => pc[u] # "idle"
        PROVE  SavesCross'
    BY <1>5
  <1>6. ASSUME NEW t \in Thread,
               \/ Copy(t) \/ Build(t) \/ Flip(t) \/ Commit(t) \/ Unlock(t)
               \/ Rescue(t) \/ RaiseEarly(t)
        PROVE  SavesCross'
    <2>1. UNCHANGED local /\ pc[t] # "idle"
      BY <1>6 DEF Copy, Build, Flip, Commit, Unlock, Rescue, RaiseEarly, Baking
    <2>2. \A u \in Thread : u # t => pc'[u] = pc[u]
      BY <1>6 DEF Copy, Build, Flip, Commit, Unlock, Release, Rescue, RaiseEarly, TypeOK
    <2> QED
      BY <1>5, <2>1, <2>2
  <1>7. ASSUME NEW p \in Process, Crash(p) PROVE SavesCross'
    BY <1>5, <1>7 DEF Crash
  <1>8. ASSUME NEW w \in Writer, LoadDraft(w) \/ SaveDraft(w) \/ DropDraft(w)
        PROVE  SavesCross'
    BY <1>5, <1>8 DEF LoadDraft, SaveDraft, DropDraft
  <1> QED
    BY <1>1, <1>2, <1>3, <1>4, <1>6, <1>7, <1>8 DEF Next, Step, Quiet

\* A bake that begins undisturbed is alone and empties the slot that is not
\* live.
LEMMA BeginAlternating ==
  ASSUME TypeOK, SavesCross, Alternating, ~disturbed',
         NEW t \in Thread, Prepare(t) \/ Copy(t)
  PROVE  Alternating'
  <1> USE DEF site, local, Goto
  <1>1. /\ ~disturbed /\ SlotOf(base[t]) = SlotOf(version) /\ pc[t] = "ready"
        /\ \A u \in Thread : u # t => pc[u] \notin Baking
    BY DEF Prepare, Copy, OthersBake, OffBeat
  <1>2. \A u \in Thread : pc[u] \notin Baking
    BY <1>1 DEF Baking
  <1>3. Whole(live, version)
    BY <1>1, <1>2 DEF Alternating, WholeBetweenBakes
  <1>4. SlotOf(version) \in Slot /\ SlotOf(version + 1) = 1 - SlotOf(version)
    BY SlotsAlternate DEF TypeOK
  <1>5. prev'[t] = live /\ target'[t] = SlotOf(version + 1)
    <2>1. CASE Prepare(t)
      <3>1. SlotOf(base[t] + 1) = SlotOf(version + 1)
        BY <1>1, SlotsInStep DEF TypeOK
      <3> QED
        BY <2>1, <3>1 DEF Prepare, TypeOK
    <2>2. CASE Copy(t)
      <3>1. prev[t] = live /\ UNCHANGED <<prev, target>> /\ kind[t] = "save"
        BY <2>2 DEF Copy
      <3>2. prev[t] \in Slot /\ target[t] = 1 - prev[t]
        BY <1>1, <3>1 DEF SavesCross
      <3> QED
        BY <1>3, <1>4, <3>1, <3>2, SlotAssumption DEF Whole, Slot
    <2> QED
      BY <2>1, <2>2
  <1>6. SlotOf(base'[t]) = SlotOf(version) /\ version' = version /\ live' = live
    BY <1>1 DEF Prepare, Copy
  <1>7. \A u \in Thread : pc'[u] = IF u = t THEN "building" ELSE pc[u]
    BY DEF Prepare, Copy, TypeOK
  <1>8. \A s \in Slot : s # target'[t] => slot'[s] = slot[s]
    BY <1>1, <1>5 DEF Prepare, Copy, TypeOK
  <1>9. Whole(prev[t], version)'
    <2>1. CASE live = NoSlot
      BY <1>3, <1>5, <1>6, <2>1 DEF Whole
    <2>2. CASE live # NoSlot
      <3>1. live = SlotOf(version) /\ slot[live] = "whole" /\ live \in Slot
        BY <1>3, <1>4, <2>2 DEF Whole
      <3>2. live # target'[t]
        BY <1>4, <1>5, <3>1 DEF Slot
      <3> QED
        BY <1>5, <1>6, <1>8, <2>2, <3>1, <3>2 DEF Whole
    <2> QED
      BY <2>1, <2>2
  <1>10. BakesBesideLive(t)'
    BY <1>5, <1>6, <1>7, <1>9 DEF BakesBesideLive
  <1>11. \A u \in Thread : pc'[u] \in Baking <=> u = t
    BY <1>2, <1>7 DEF Baking
  <1> QED
    BY <1>10, <1>11 DEF Alternating, OneBaker, BakersBesideLive, WholeBetweenBakes

\* What the step of the one bake under way starts from.
LEMMA TheBaker ==
  ASSUME TypeOK, Alternating, ~disturbed, NEW t \in Thread, pc[t] \in Baking
  PROVE  /\ BakesBesideLive(t)
         /\ \A u \in Thread : u # t => pc[u] \notin Baking
         /\ target[t] \in Slot /\ prev[t] # target[t]
  <1>1. BakesBesideLive(t) /\ \A u \in Thread : u # t => pc[u] \notin Baking
    BY DEF Alternating, BakersBesideLive, OneBaker
  <1>2. SlotOf(version) \in Slot /\ SlotOf(version + 1) = 1 - SlotOf(version)
    BY SlotsAlternate DEF TypeOK
  <1>3. prev[t] # target[t]
    <2>1. CASE prev[t] = NoSlot
      BY <1>1, <1>2, <2>1, SlotAssumption DEF BakesBesideLive, Slot
    <2>2. CASE prev[t] # NoSlot
      BY <1>1, <1>2, <2>2 DEF BakesBesideLive, Whole, Slot
    <2> QED
      BY <2>1, <2>2
  <1>4. target[t] \in Slot
    BY <1>1, <1>2 DEF BakesBesideLive, Slot
  <1> QED
    BY <1>1, <1>3, <1>4

LEMMA BuildAlternating ==
  ASSUME TypeOK, SavesCross, Alternating, ~disturbed, NEW t \in Thread, Build(t)
  PROVE  Alternating'
  <1>1. pc[t] = "building" /\ pc[t] \in Baking
    BY DEF Build, Baking
  <1>2. /\ BakesBesideLive(t) /\ target[t] \in Slot /\ prev[t] # target[t]
        /\ \A u \in Thread : u # t => pc[u] \notin Baking
    BY <1>1, TheBaker
  <1>3. kind[t] = "publish" \/ slot[prev[t]] = "whole"
    <2>1. CASE kind[t] = "save"
      <3>1. prev[t] \in Slot
        BY <1>1, <2>1 DEF SavesCross
      <3> QED
        BY <1>2, <3>1, SlotAssumption DEF BakesBesideLive, Whole, Slot
    <2> QED
      BY <2>1 DEF TypeOK
  <1>4. slot' = [slot EXCEPT ![target[t]] = "whole"]
    BY <1>2, <1>3 DEF Build
  <1>5. /\ \A s \in Slot : slot'[s] = IF s = target[t] THEN "whole" ELSE slot[s]
        /\ slot'[target[t]] = "whole"
    BY <1>2, <1>4 DEF TypeOK
  <1>6. UNCHANGED <<live, version, base, prev, target>>
    BY DEF Build, local
  <1>7. \A u \in Thread : pc'[u] = IF u = t THEN "built" ELSE pc[u]
    BY DEF Build, Goto, TypeOK
  <1>8. Whole(prev[t], version)'
    <2>1. CASE prev[t] = NoSlot
      BY <1>2, <1>6, <2>1 DEF BakesBesideLive, Whole
    <2>2. CASE prev[t] # NoSlot
      BY <1>2, <1>5, <1>6, <2>2 DEF BakesBesideLive, Whole, TypeOK
    <2> QED
      BY <2>1, <2>2
  <1>9. BakesBesideLive(t)'
    BY <1>1, <1>2, <1>5, <1>6, <1>7, <1>8 DEF BakesBesideLive
  <1>10. \A u \in Thread : pc'[u] \in Baking <=> u = t
    BY <1>2, <1>7 DEF Baking
  <1> QED
    BY <1>9, <1>10 DEF Alternating, OneBaker, BakersBesideLive, WholeBetweenBakes

LEMMA FlipAlternating ==
  ASSUME TypeOK, Alternating, ~disturbed, NEW t \in Thread, Flip(t)
  PROVE  Alternating'
  <1>1. pc[t] = "built" /\ pc[t] \in Baking
    BY DEF Flip, Baking
  <1>2. BakesBesideLive(t) /\ \A u \in Thread : u # t => pc[u] \notin Baking
    BY <1>1, TheBaker
  <1>3. live' = target[t] /\ UNCHANGED <<slot, version, base, prev, target>>
    BY DEF Flip, local
  <1>4. \A u \in Thread : pc'[u] = IF u = t THEN "flipped" ELSE pc[u]
    BY DEF Flip, Goto, TypeOK
  <1>5. BakesBesideLive(t)'
    BY <1>1, <1>2, <1>3, <1>4 DEF BakesBesideLive, Whole
  <1>6. \A u \in Thread : pc'[u] \in Baking <=> u = t
    BY <1>2, <1>4 DEF Baking
  <1> QED
    BY <1>5, <1>6 DEF Alternating, OneBaker, BakersBesideLive, WholeBetweenBakes

\* A bake that ends leaves the slot it flipped to, or the one it found.
LEMMA EndAlternating ==
  ASSUME TypeOK, Alternating, ~disturbed, NEW t \in Thread, Commit(t) \/ Rescue(t)
  PROVE  Alternating'
  <1>1. pc[t] \in Baking
    BY DEF Commit, Rescue, Baking
  <1>2. /\ BakesBesideLive(t) /\ target[t] \in Slot /\ prev[t] # target[t]
        /\ \A u \in Thread : u # t => pc[u] \notin Baking
    BY <1>1, TheBaker
  <1>3. \A u \in Thread : pc'[u] \notin Baking
    BY <1>2 DEF Commit, Rescue, Goto, TypeOK, Baking
  <1>4. Whole(live, version)'
    <2>1. CASE Commit(t)
      <3>1. /\ version' = base[t] + 1 /\ live' = live /\ slot' = slot
            /\ live = target[t] /\ slot[target[t]] = "whole"
        BY <1>2, <2>1 DEF Commit, BakesBesideLive
      <3>2. SlotOf(base[t] + 1) = SlotOf(version + 1)
        BY <1>2, SlotsInStep DEF BakesBesideLive, TypeOK
      <3> QED
        BY <1>2, <3>1, <3>2 DEF BakesBesideLive, Whole
    <2>2. CASE Rescue(t)
      <3>1. live' = prev[t]
        BY <1>2, <2>2 DEF Rescue, RestoreCurrent, BakesBesideLive
      <3>2. \A s \in Slot : s # target[t] => slot'[s] = slot[s]
        BY <2>2 DEF Rescue, TypeOK
      <3>3. version' = version
        BY <2>2 DEF Rescue
      <3>4. CASE prev[t] = NoSlot
        BY <1>2, <3>1, <3>3, <3>4 DEF BakesBesideLive, Whole
      <3>5. CASE prev[t] # NoSlot
        BY <1>2, <3>1, <3>2, <3>3, <3>5 DEF BakesBesideLive, Whole, TypeOK
      <3> QED
        BY <3>4, <3>5
    <2> QED
      BY <2>1, <2>2
  <1> QED
    BY <1>3, <1>4 DEF Alternating, OneBaker, BakersBesideLive, WholeBetweenBakes

\* Steps of threads that do not bake change nothing the invariant speaks of.
LEMMA OtherAlternating ==
  ASSUME Alternating, ~disturbed, UNCHANGED site,
         \A u \in Thread :
            /\ pc'[u] \in Baking <=> pc[u] \in Baking
            /\ pc[u] \in Baking => /\ pc'[u] = pc[u] /\ base'[u] = base[u]
                                   /\ prev'[u] = prev[u] /\ target'[u] = target[u]
  PROVE  Alternating'
  <1>1. OneBaker' /\ WholeBetweenBakes'
    BY DEF Alternating, OneBaker, WholeBetweenBakes, Whole, site
  <1>2. ASSUME NEW t \in Thread, pc'[t] \in Baking PROVE BakesBesideLive(t)'
    <2>1. BakesBesideLive(t)
      BY <1>2 DEF Alternating, BakersBesideLive
    <2> QED
      BY <1>2, <2>1 DEF BakesBesideLive, Whole, site
  <1> QED
    BY <1>1, <1>2 DEF Alternating, BakersBesideLive

\* A draft that puts back a version of the same slot moves no slot.
LEMMA DraftAlternating ==
  ASSUME TypeOK, Alternating, ~disturbed, NEW w \in Writer, SaveDraft(w), ~disturbed'
  PROVE  Alternating'
  <1>1. /\ version' = held[w] /\ held[w] \in Nat /\ SlotOf(version') = SlotOf(version)
        /\ UNCHANGED <<live, slot, pc, base, prev, target>>
    BY DEF SaveDraft, OffBeat, TypeOK, local
  <1>2. SlotOf(version' + 1) = SlotOf(version + 1)
    BY <1>1, SlotsInStep DEF TypeOK
  <1>3. \A s : Whole(s, version)' <=> Whole(s, version)
    BY <1>1 DEF Whole
  <1>4. ASSUME NEW t \in Thread, pc'[t] \in Baking PROVE BakesBesideLive(t)'
    <2>1. BakesBesideLive(t)
      BY <1>1, <1>4 DEF Alternating, BakersBesideLive
    <2>2. Whole(prev[t], version)'
      BY <1>1, <2>1 DEF BakesBesideLive, Whole
    <2> QED
      BY <1>1, <1>2, <2>1, <2>2 DEF BakesBesideLive
  <1> QED
    BY <1>1, <1>4 DEF Alternating, OneBaker, BakersBesideLive, WholeBetweenBakes, Whole

LEMMA AlternatingNext ==
  ASSUME TypeOK, SavesCross, Alternating, [Next]_vars
  PROVE  Alternating'
  <1> SUFFICES ASSUME ~disturbed' PROVE Alternating'
    BY DEF Alternating
  <1>0. ~disturbed
    BY DEF Next, Quiet, vars, Expire, Step, Claim, Refuse, Prepare, Copy, Build, Flip,
           Commit, Unlock, ReadState, StartSave, Rescue, RaiseEarly, Crash,
           LoadDraft, SaveDraft, DropDraft
  <1>1. CASE UNCHANGED vars
    BY <1>0, <1>1, OtherAlternating DEF vars, local
  <1>2. CASE Expire
    BY <1>0, <1>2, OtherAlternating DEF Expire, local
  <1>3. ASSUME NEW t \in Thread,
               \/ Claim(t) \/ Refuse(t) \/ Unlock(t) \/ ReadState(t)
               \/ StartSave(t) \/ RaiseEarly(t)
        PROVE  Alternating'
    <2>1. UNCHANGED site /\ pc[t] \in {"idle", "read", "ready", "done"}
      BY <1>3 DEF Claim, Refuse, Unlock, ReadState, StartSave, RaiseEarly
    <2>2. pc'[t] \in {"idle", "read", "ready", "done"}
      BY <1>3 DEF Claim, Refuse, Unlock, Release, ReadState, StartSave, RaiseEarly,
                  Goto, TypeOK
    <2>3. \A u \in Thread : u # t =>
             /\ pc'[u] = pc[u] /\ base'[u] = base[u]
             /\ prev'[u] = prev[u] /\ target'[u] = target[u]
      BY <1>3 DEF Claim, Refuse, Unlock, Release, ReadState, StartSave, RaiseEarly,
                  Goto, TypeOK, local
    <2> QED
      BY <1>0, <2>1, <2>2, <2>3, OtherAlternating DEF Baking
  <1>4. ASSUME NEW p \in Process, Crash(p) PROVE Alternating'
    <2>1. /\ \A u \in Thread : pc'[u] = IF ProcessOf[u] = p THEN "idle" ELSE pc[u]
          /\ UNCHANGED site /\ UNCHANGED local
          /\ \A u \in Thread : ProcessOf[u] = p => pc[u] # "flipped"
      BY <1>4 DEF Crash
    <2>2. CASE \E t \in Thread : ProcessOf[t] = p /\ pc[t] \in Baking
      <3>1. PICK t \in Thread : ProcessOf[t] = p /\ pc[t] \in Baking
        BY <2>2
      <3>2. BakesBesideLive(t) /\ \A u \in Thread : u # t => pc[u] \notin Baking
        BY <1>0, <3>1, TheBaker
      <3>3. \A u \in Thread : pc'[u] \notin Baking
        BY <2>1, <3>1, <3>2 DEF Baking
      <3>4. Whole(live, version)'
        BY <2>1, <3>1, <3>2 DEF BakesBesideLive, Whole, site
      <3> QED
        BY <3>3, <3>4 DEF Alternating, OneBaker, BakersBesideLive, WholeBetweenBakes
    <2>3. CASE \A t \in Thread : ProcessOf[t] = p => pc[t] \notin Baking
      <3>1. \A u \in Thread : /\ pc'[u] \in Baking <=> pc[u] \in Baking
                              /\ pc[u] \in Baking => pc'[u] = pc[u]
        BY <2>1, <2>3 DEF Baking
      <3> QED
        BY <1>0, <2>1, <3>1, OtherAlternating DEF local
    <2> QED
      BY <2>2, <2>3
  <1>5. ASSUME NEW w \in Writer, LoadDraft(w) \/ DropDraft(w) PROVE Alternating'
    BY <1>0, <1>5, OtherAlternating DEF LoadDraft, DropDraft, local
  <1> QED
    BY <1>0, <1>1, <1>2, <1>3, <1>4, <1>5, BeginAlternating, BuildAlternating,
       FlipAlternating, EndAlternating, DraftAlternating
    DEF Next, Step, Quiet

\* Whatever bakes ran and whichever failed, current points to a whole site,
\* unless bakes overlapped, began from stale state or died after the flip, or
\* a draft put back a version that names the other slot.
THEOREM WholeSiteServed == Spec => []VisitorsSeeWholeSite
  <1>1. Init => SavesCross /\ Alternating
    BY DEF Init, SavesCross, Alternating, OneBaker, BakersBesideLive,
           WholeBetweenBakes, Whole, Baking
  <1>2. TypeOK /\ SavesCross /\ Alternating /\ [Next]_vars => SavesCross' /\ Alternating'
    BY SavesCrossNext, AlternatingNext
  <1>3. TypeOK /\ Alternating => VisitorsSeeWholeSite
    <2> SUFFICES ASSUME TypeOK, Alternating, ~disturbed, live # NoSlot
                 PROVE  slot[live] = "whole"
      BY DEF VisitorsSeeWholeSite, LiveSlotIsWhole
    <2>1. CASE \A t \in Thread : pc[t] \notin Baking
      BY <2>1 DEF Alternating, WholeBetweenBakes, Whole
    <2>2. CASE \E t \in Thread : pc[t] \in Baking
      BY <2>2 DEF Alternating, BakersBesideLive, BakesBesideLive, Whole
    <2> QED
      BY <2>1, <2>2
  <1> QED
    BY <1>1, <1>2, <1>3, InitTypeOK, NextTypeOK, PTL DEF Spec
=============================================================================
