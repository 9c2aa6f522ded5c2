------------------------------ MODULE Publish ------------------------------
(***************************************************************************)
(* dukafi/services/publish_site.rb, bake.rb, partial_bake.rb and           *)
(* scheduler_lock.rb: how the static site reaches its visitors.  Two slot  *)
(* directories and a symlink, current; a bake rebuilds one slot, flips the *)
(* symlink to it and records the version in the database.  A publish bakes *)
(* every page under a lock row with a time to live; saving a product (a    *)
(* partial bake) copies the live slot, rewrites a few pages, and takes no  *)
(* lock.  Neither the directories nor the symlink know of the others.      *)
(* Whoever writes the draft saves the state row it loaded, the version of  *)
(* the site that names the slot with it.                                   *)
(***************************************************************************)
EXTENDS Integers

CONSTANTS
    Thread,    \* request threads that publish or save a product
    Writer,    \* request threads that write the draft: the editor's, an agent's
    Process,   \* server processes sharing the published directory
    ProcessOf, \* Thread -> Process
    Nobody,    \* the lock row's holder is null
    Gone,      \* ... or names a process that died (HOLDER is random per boot)
    NoSlot,
    SlowBakes, \* may a bake outlive the lock's 90 seconds?
    MaxBakes,  \* bound: bakes started
    MaxFaults  \* bound: exceptions and crashes

ASSUME ProcessAssumption == ProcessOf \in [Thread -> Process]
ASSUME HolderAssumption ==
    Nobody \notin Process /\ Gone \notin Process /\ Nobody # Gone
ASSUME SlotAssumption == NoSlot \notin {0, 1}
ASSUME PublishBounds == SlowBakes \in BOOLEAN /\ MaxBakes \in Nat /\ MaxFaults \in Nat

VARIABLES
    holder,    \* scheduler_locks row 2: who publishes
    expired,   \* its heartbeat is older than TTL
    live,      \* the slot current points to
    slot,      \* what each slot directory holds
    version,   \* site_states.publish_version
    held,      \* publish_version in the state row each writer loaded
    pc,        \* where each thread is
    kind,      \* what it is doing: a publish or a save
    base,      \* publish_version in the state row it loaded
    prev,      \* the slot it saw live when it began
    target,    \* the slot it bakes into
    disturbed, \* history: a bake met another, began from stale state or died flipped,
               \* or a writer put back a version that names the other slot
    bakes,     \* bakes started (for MaxBakes)
    faults     \* faults so far (for MaxFaults)

lock   == <<holder, expired>>
site   == <<live, slot, version>>
local  == <<kind, base, prev, target>>
counts == <<bakes, faults>>
vars   == <<lock, site, held, pc, local, disturbed, counts>>

Slot     == {0, 1}
Unloaded == -1
Baking == {"building", "built", "flipped"}

TypeOK ==
    /\ holder \in Process \union {Nobody, Gone}
    /\ expired \in BOOLEAN
    /\ live \in Slot \union {NoSlot}
    /\ slot \in [Slot -> {"empty", "building", "torn", "whole"}]
    /\ version \in Nat
    /\ held \in [Writer -> Nat \union {Unloaded}]
    /\ pc \in [Thread -> {"idle", "read", "ready", "done"} \union Baking]
    /\ kind \in [Thread -> {"publish", "save"}]
    /\ base \in [Thread -> Nat]
    /\ prev \in [Thread -> Slot \union {NoSlot}]
    /\ target \in [Thread -> Slot]
    /\ disturbed \in BOOLEAN
    /\ bakes \in Nat
    /\ faults \in Nat

Init ==
    /\ holder = Nobody
    /\ expired = FALSE
    /\ live = NoSlot
    /\ slot = [s \in Slot |-> "empty"]
    /\ version = 0
    /\ held = [w \in Writer |-> Unloaded]
    /\ pc = [t \in Thread |-> "idle"]
    /\ kind = [t \in Thread |-> "publish"]
    /\ base = [t \in Thread |-> 0]
    /\ prev = [t \in Thread |-> NoSlot]
    /\ target = [t \in Thread |-> 0]
    /\ disturbed = FALSE
    /\ bakes = 0
    /\ faults = 0

-----------------------------------------------------------------------------
Goto(t, where) == pc' = [pc EXCEPT ![t] = where]

Fault == faults < MaxFaults /\ faults' = faults + 1

OthersBake(t) == \E u \in Thread \ {t} : pc[u] \in Baking

-----------------------------------------------------------------------------
\* scheduler_lock.rb

\* (Slip: a lock is held until it is released.)
NeverExpires(p) == holder \in {Nobody, p}
Claimable(p) == holder \in {Nobody, p} \/ expired

Free == holder' = Nobody /\ expired' = FALSE

Release(t) ==
    /\ IF holder = ProcessOf[t] THEN Free ELSE UNCHANGED lock
    /\ Goto(t, "idle")

\* 90 seconds pass.  A publish under way is over before that, unless bakes
\* are slow.
Expire ==
    /\ holder # Nobody
    /\ ~expired
    /\ SlowBakes \/ \A t \in Thread :
          ProcessOf[t] = holder /\ kind[t] = "publish" => pc[t] \in {"idle", "read"}
    /\ expired' = TRUE
    /\ UNCHANGED <<holder, site, held, pc, local, disturbed, counts>>

-----------------------------------------------------------------------------
\* PublishSite.call

\* Its default argument loads the state row ...
ReadState(t) ==
    /\ pc[t] = "idle"
    /\ bakes < MaxBakes
    /\ bakes' = bakes + 1
    /\ kind' = [kind EXCEPT ![t] = "publish"]
    /\ base' = [base EXCEPT ![t] = version]
    /\ Goto(t, "read")
    /\ UNCHANGED <<lock, site, held, prev, target, disturbed, faults>>

\* ... before it claims the lock, for its process ...
\* (Slip: without looking at the holder.)
ClaimAnyway(t) ==
    /\ pc[t] = "read"
    /\ holder' = ProcessOf[t]
    /\ expired' = FALSE
    /\ Goto(t, "ready")
    /\ UNCHANGED <<site, held, local, disturbed, counts>>
Claim(t) ==
    /\ pc[t] = "read"
    /\ Claimable(ProcessOf[t])
    /\ holder' = ProcessOf[t]
    /\ expired' = FALSE
    /\ Goto(t, "ready")
    /\ UNCHANGED <<site, held, local, disturbed, counts>>

\* ... or answers 409 publish_in_progress.
Refuse(t) ==
    /\ pc[t] = "read"
    /\ ~Claimable(ProcessOf[t])
    /\ Goto(t, "idle")
    /\ UNCHANGED <<lock, site, held, local, disturbed, counts>>

SlotOf(v) == v % 2

\* A version that names the slot the present one does not.
OffBeat(v) == SlotOf(v) # SlotOf(version)

\* Bake.call: the slot is named by the version's parity, emptied and rebuilt.
Prepare(t) ==
    /\ pc[t] = "ready"
    /\ kind[t] = "publish"
    /\ prev' = [prev EXCEPT ![t] = live]
    /\ target' = [target EXCEPT ![t] = SlotOf(base[t] + 1)]
    /\ slot' = [slot EXCEPT ![SlotOf(base[t] + 1)] = "building"]
    /\ disturbed' = (disturbed \/ OthersBake(t) \/ OffBeat(base[t]))
    /\ Goto(t, "building")
    /\ UNCHANGED <<held, lock, live, version, kind, base, counts>>

-----------------------------------------------------------------------------
\* PartialBake.call: nothing to do before the first publish.
StartSave(t) ==
    /\ pc[t] = "idle"
    /\ bakes < MaxBakes
    /\ version > 0 /\ live # NoSlot /\ slot[live] # "empty"
    /\ bakes' = bakes + 1
    /\ kind' = [kind EXCEPT ![t] = "save"]
    /\ base' = [base EXCEPT ![t] = version]
    /\ prev' = [prev EXCEPT ![t] = live]
    /\ target' = [target EXCEPT ![t] = 1 - live]
    /\ Goto(t, "ready")
    /\ UNCHANGED <<lock, site, held, disturbed, faults>>

\* The slot that was not live then is emptied and filled from the one that was.
Copy(t) ==
    /\ pc[t] = "ready"
    /\ kind[t] = "save"
    /\ slot' = [slot EXCEPT ![target[t]] = "building"]
    /\ disturbed' = (disturbed \/ OthersBake(t) \/ OffBeat(base[t]) \/ prev[t] # live)
    /\ Goto(t, "building")
    /\ UNCHANGED <<held, lock, live, version, local, counts>>

-----------------------------------------------------------------------------
\* Both bakes

\* The slot holds a whole site unless another bake emptied it meanwhile or a
\* save copied one that was not.
Build(t) ==
    /\ pc[t] = "building"
    /\ LET alone  == \A u \in Thread \ {t} :
                        pc[u] \in Baking => target[u] # target[t]
           source == kind[t] = "publish" \/ slot[prev[t]] = "whole"
       IN  slot' = [slot EXCEPT ![target[t]] =
                        IF alone /\ source THEN "whole" ELSE "torn"]
    /\ Goto(t, "built")
    /\ UNCHANGED <<held, lock, live, version, local, disturbed, counts>>

\* An atomic rename of the symlink.
Flip(t) ==
    /\ pc[t] = "built"
    /\ live' = target[t]
    /\ Goto(t, "flipped")
    /\ UNCHANGED <<held, lock, slot, version, local, disturbed, counts>>

\* The transaction at the end saves the version that was next when the state
\* row was loaded.
Commit(t) ==
    /\ pc[t] = "flipped"
    /\ version' = base[t] + 1
    /\ Goto(t, IF kind[t] = "publish" THEN "done" ELSE "idle")
    /\ UNCHANGED <<held, lock, live, slot, local, disturbed, counts>>

\* An exception: the symlink goes back and the slot is removed.
\* (Slip: the symlink stays.)
LeaveFlipped(t) == UNCHANGED live
RestoreCurrent(t) ==
    live' = IF pc[t] = "flipped" \/ (kind[t] = "save" /\ live # prev[t])
            THEN prev[t] ELSE live

Rescue(t) ==
    /\ pc[t] \in Baking
    /\ Fault
    /\ RestoreCurrent(t)
    /\ slot' = [slot EXCEPT ![target[t]] = "empty"]
    /\ Goto(t, IF kind[t] = "publish" THEN "done" ELSE "idle")
    /\ UNCHANGED <<held, lock, version, local, disturbed, bakes>>

\* PublishSite's ensure.
Unlock(t) ==
    /\ pc[t] = "done"
    /\ Release(t)
    /\ UNCHANGED <<site, held, local, disturbed, counts>>

\* An exception before the bake begins: an empty site, a template that fails.
RaiseEarly(t) ==
    /\ pc[t] = "ready"
    /\ Fault
    /\ Goto(t, IF kind[t] = "publish" THEN "done" ELSE "idle")
    /\ UNCHANGED <<lock, site, held, local, disturbed, bakes>>

\* A process dies with all it was doing, and comes back under another name.
Crash(p) ==
    /\ \E t \in Thread : ProcessOf[t] = p /\ pc[t] # "idle"
    /\ Fault
    /\ holder' = IF holder = p THEN Gone ELSE holder
    /\ pc' = [t \in Thread |-> IF ProcessOf[t] = p THEN "idle" ELSE pc[t]]
    /\ disturbed' = (disturbed \/ \E t \in Thread : ProcessOf[t] = p /\ pc[t] = "flipped")
    /\ UNCHANGED <<held, expired, site, local, bakes>>

-----------------------------------------------------------------------------
\* Writers of the draft (the editor's PUT site-document, an agent's edits).
\* They load the state row, check or compute the write, and save the row as
\* they hold it, in a transaction that begins only then.

LoadDraft(w) ==
    /\ held[w] = Unloaded
    /\ held' = [held EXCEPT ![w] = version]
    /\ UNCHANGED <<lock, site, pc, local, disturbed, counts>>

\* SiteState#bump_seq!
SaveDraft(w) ==
    /\ held[w] # Unloaded
    /\ version' = held[w]
    /\ disturbed' = (disturbed \/ OffBeat(held[w]))
    /\ held' = [held EXCEPT ![w] = Unloaded]
    /\ UNCHANGED <<lock, live, slot, pc, local, counts>>

\* A conflict, or an edit that does not apply: nothing is written.
DropDraft(w) ==
    /\ held[w] # Unloaded
    /\ held' = [held EXCEPT ![w] = Unloaded]
    /\ UNCHANGED <<lock, site, pc, local, disturbed, counts>>

-----------------------------------------------------------------------------
Step(t) ==
    \/ Claim(t)
    \/ Refuse(t)
    \/ Prepare(t)
    \/ Copy(t)
    \/ Build(t)
    \/ Flip(t)
    \/ Commit(t)
    \/ Unlock(t)

Quiet == (\A t \in Thread : pc[t] = "idle") /\ UNCHANGED vars

Next ==
    \/ Quiet
    \/ Expire
    \/ \E t \in Thread :
          Step(t) \/ ReadState(t) \/ StartSave(t) \/ Rescue(t) \/ RaiseEarly(t)
    \/ \E p \in Process : Crash(p)
    \/ \E w \in Writer : LoadDraft(w) \/ SaveDraft(w) \/ DropDraft(w)

Spec == Init /\ [][Next]_vars

\* A request runs to its end, and time passes.
FairSpec == Spec /\ WF_vars(Expire) /\ \A t \in Thread : WF_vars(Step(t))

-----------------------------------------------------------------------------
\* Properties

\* A publish between its claim and its release.
Publishing(t) == kind[t] = "publish" /\ pc[t] \in {"ready", "done"} \union Baking

\* m15-replicas-and-storage/README.md:64: publish is single-flight, across
\* crashes, failures and lost locks.
SingleFlight == \A t, u \in Thread : Publishing(t) /\ Publishing(u) => t = u

\* publishing.md:54-62: a release is prepared in the inactive slot, so that
\* visitors do not observe one that is partially written.
LiveSlotIsWhole == live # NoSlot => slot[live] = "whole"

\* It is so, whichever bakes ran, whichever failed and whoever wrote the draft
\* meanwhile, as long as no bake met another, began from a version or a
\* symlink that had moved on, or died between the flip and its transaction,
\* and no draft put back a version that names the other slot.
VisitorsSeeWholeSite == ~disturbed => LiveSlotIsWhole

\* scheduler_lock.rb: a process that dies while it publishes does not keep
\* the others from publishing for ever.
LockComesBack == \A p \in Process : ~Claimable(p) ~> Claimable(p)
=============================================================================
