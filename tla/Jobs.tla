-------------------------------- MODULE Jobs --------------------------------
(***************************************************************************)
(* services/scheduler.rb, scheduler_lock.rb and plugin_jobs.rb: every      *)
(* process of the store has one scheduler thread, which wakes every        *)
(* minute, claims row 1 of the lock table and, if it leads, runs the       *)
(* plugins' jobs that are due, one after the other.  The lease lasts 90    *)
(* seconds and is renewed only by the next claim, so a pass that takes     *)
(* longer goes on beside a new leader.  Time passes in ticks; instants are *)
(* kept as ages, since only their differences matter.  The processes share *)
(* a clock, as containers on one host do.                                  *)
(***************************************************************************)
EXTENDS Integers, FiniteSets

CONSTANTS
    Process,    \* replicas, each with its scheduler thread
    JobCount,   \* how many jobs the plugins have
    Every,      \* how many ticks apart each job is to run
    Interval,   \* ticks a thread sleeps between passes
    TTL,        \* ticks after which a silent holder may be replaced
    Longest,    \* bound: ticks a pass lasts
    MaxFaults,  \* bound: crashes and failing claims, jobs and stamps
    Nobody,     \* the row's holder as the migration left it
    Departed    \* a holder whose process ended: no later boot has its name

\* The jobs of all plugins, in the order of the registry.
Jobs == 1 .. JobCount

ASSUME TimeAssumption ==
    /\ JobCount \in Nat
    /\ Every \in [Jobs -> Nat \ {0}]
    /\ Interval \in Nat
    /\ TTL \in Nat
    /\ Longest \in Nat
    /\ MaxFaults \in Nat
ASSUME HolderAssumption ==
    Nobody \notin Process /\ Departed \notin Process /\ Nobody # Departed

VARIABLES
    holder,   \* scheduler_locks.holder
    beat,     \* age of scheduler_locks.heartbeat_at, stopped once past TTL
    age,      \* age of each job's ran_at; as old as can be if it never ran
    stage,    \* where each process's scheduler thread is
    wait,     \* ticks the thread has yet to sleep
    since,    \* age of the pass's "now"
    next,     \* the job the pass looks at
    overran,  \* history: a pass has lasted longer than the lease
    faults    \* faults so far (for MaxFaults)

lock     == <<holder, beat>>
thread   == <<stage, wait, since, next>>
jobsVars == <<lock, age, thread, overran, faults>>

\* Past this age a job is due in any pass: older makes no difference.
Oldest(j) == Every[j] + Longest

JobsTypeOK ==
    /\ holder \in {p \in Process : stage[p] # "down"} \union {Nobody, Departed}
    /\ beat \in 0 .. TTL + 1
    /\ age \in [Jobs -> Nat]
    /\ \A j \in Jobs : age[j] <= Oldest(j)
    /\ stage \in [Process -> {"down", "asleep", "looking", "running"}]
    /\ wait \in [Process -> 0 .. Interval]
    /\ since \in [Process -> 0 .. Longest]
    /\ next \in [Process -> Nat]
    /\ \A p \in Process : stage[p] = "running" => next[p] \in Jobs
    /\ overran \in BOOLEAN
    /\ faults \in 0 .. MaxFaults

JobsInit ==
    /\ holder = Nobody
    /\ beat = 0
    /\ age = [j \in Jobs |-> Oldest(j)]
    /\ stage = [p \in Process |-> "asleep"]
    /\ wait = [p \in Process |-> 0]
    /\ since = [p \in Process |-> 0]
    /\ next = [p \in Process |-> 1]
    /\ overran = FALSE
    /\ faults = 0

-----------------------------------------------------------------------------
MoveTo(p, where) == stage' = [stage EXCEPT ![p] = where]

Fault == faults < MaxFaults /\ faults' = faults + 1

\* A thread in a pass; the lease protects it while the pass is young.
InPass(p)  == stage[p] \in {"looking", "running"}
Leading(p) == InPass(p) /\ since[p] <= TTL

-----------------------------------------------------------------------------
\* SchedulerLock.claim and the loop of Scheduler.start!

\* Slips: a stale row cannot be taken; it is taken as soon as a beat is missed.
OwnOnly(p) == holder \in {p, Nobody}
AnyBeat(p) == holder \in {p, Nobody} \/ beat > Interval

\* The WHERE clause of the claim.
Claimable(p) == holder \in {p, Nobody} \/ beat > TTL

\* Slip: a process that claims its own row leaves the heartbeat as it was.
FirstBeatOnly(p) == beat' = IF holder = p THEN beat ELSE 0

Renew(p) == beat' = 0

\* The pass's locals are gone with it.
Forget(p) ==
    /\ since' = [since EXCEPT ![p] = 0]
    /\ next' = [next EXCEPT ![p] = 1]

\* "sleep wait", after a pass, a lost claim or a rescued error.
Sleep(p) ==
    /\ MoveTo(p, "asleep")
    /\ wait' = [wait EXCEPT ![p] = Interval]
    /\ Forget(p)

Awake(p) == stage[p] = "asleep" /\ wait[p] = 0

\* The claim succeeds and a pass begins, with its "now".
Claim(p) ==
    /\ Awake(p)
    /\ Claimable(p)
    /\ holder' = p
    /\ Renew(p)
    /\ MoveTo(p, "looking")
    /\ Forget(p)
    /\ UNCHANGED <<age, wait, overran, faults>>

\* Another process leads: "Replicas that lose the claim do nothing".
LoseClaim(p) ==
    /\ Awake(p)
    /\ ~Claimable(p)
    /\ Sleep(p)
    /\ UNCHANGED <<lock, age, overran, faults>>

\* The claim, or the reading of a stamp, raises: the loop rescues and sleeps.
Rescue(p) ==
    /\ Awake(p) \/ stage[p] = "looking"
    /\ Fault
    /\ Sleep(p)
    /\ UNCHANGED <<lock, age, overran>>

-----------------------------------------------------------------------------
\* PluginJobs.run_due

\* due?: the time from the last stamp to the pass's "now" is long enough.
Due(p, j) == age[j] - since[p] >= Every[j]

\* The handler of a due job is called.
Fire(p) ==
    /\ stage[p] = "looking"
    /\ next[p] \in Jobs
    /\ Due(p, next[p])
    /\ MoveTo(p, "running")
    /\ UNCHANGED <<lock, age, wait, since, next, overran, faults>>

Skip(p) ==
    /\ stage[p] = "looking"
    /\ next[p] \in Jobs
    /\ ~Due(p, next[p])
    /\ next' = [next EXCEPT ![p] = @ + 1]
    /\ UNCHANGED <<lock, age, stage, wait, since, overran, faults>>

EndPass(p) ==
    /\ stage[p] = "looking"
    /\ next[p] \notin Jobs
    /\ Sleep(p)
    /\ UNCHANGED <<lock, age, overran, faults>>

\* The handler returned: the job is stamped with the time it ended.
Stamp(p) ==
    /\ stage[p] = "running"
    /\ age' = [age EXCEPT ![next[p]] = 0]
    /\ next' = [next EXCEPT ![p] = @ + 1]
    /\ MoveTo(p, "looking")
    /\ UNCHANGED <<lock, wait, since, overran, faults>>

\* The handler or the stamp raised: no stamp, and the pass goes on.
JobFails(p) ==
    /\ stage[p] = "running"
    /\ Fault
    /\ next' = [next EXCEPT ![p] = @ + 1]
    /\ MoveTo(p, "looking")
    /\ UNCHANGED <<lock, age, wait, since, overran>>

-----------------------------------------------------------------------------
\* Processes and time

\* HOLDER ends in a random suffix, new at every boot.  Slip: without it the
\* process that boots again is taken for the one that held the row.
SameName(p) == holder
HolderAfter(p) == IF holder = p THEN Departed ELSE holder

\* The process ends, perhaps between a handler and its stamp.
Crash(p) ==
    /\ stage[p] # "down"
    /\ Fault
    /\ MoveTo(p, "down")
    /\ holder' = HolderAfter(p)
    /\ wait' = [wait EXCEPT ![p] = 0]
    /\ Forget(p)
    /\ UNCHANGED <<beat, age, overran>>

\* Scheduler.start! at boot: the first claim comes at once.
Boot(p) ==
    /\ stage[p] = "down"
    /\ MoveTo(p, "asleep")
    /\ UNCHANGED <<lock, age, wait, since, next, overran, faults>>

Older(n, cap) == IF n < cap THEN n + 1 ELSE cap

Tick ==
    /\ \A p \in Process : InPass(p) => since[p] < Longest
    /\ beat' = Older(beat, TTL + 1)
    /\ age' = [j \in Jobs |-> Older(age[j], Oldest(j))]
    /\ wait' = [p \in Process |->
                  IF stage[p] = "asleep" /\ wait[p] > 0
                  THEN wait[p] - 1 ELSE wait[p]]
    /\ since' = [p \in Process |-> IF InPass(p) THEN since[p] + 1 ELSE since[p]]
    /\ overran' = (overran \/ \E p \in Process : InPass(p) /\ since[p] >= TTL)
    /\ UNCHANGED <<holder, stage, next, faults>>

-----------------------------------------------------------------------------
Step(p) ==
    \/ Claim(p) \/ LoseClaim(p)
    \/ Fire(p) \/ Skip(p) \/ EndPass(p) \/ Stamp(p)

JobsNext ==
    \/ \E p \in Process :
          Step(p) \/ Rescue(p) \/ JobFails(p) \/ Crash(p) \/ Boot(p)
    \/ Tick

JobsSpec == JobsInit /\ [][JobsNext]_jobsVars

\* The thread runs and handlers return, a container that ended is restarted
\* ("restart: unless-stopped"), and time passes.
JobsFairSpec ==
    /\ JobsSpec
    /\ \A p \in Process : WF_jobsVars(Step(p)) /\ WF_jobsVars(Boot(p))
    /\ WF_jobsVars(Tick)

-----------------------------------------------------------------------------
\* Two processes are in the same job at once only if one of them has been at
\* its pass for longer than the lease it was given.
NotTwiceAtOnce ==
    \A p, q \in Process :
        /\ p # q
        /\ stage[p] = "running" /\ stage[q] = "running"
        /\ next[p] = next[q]
        => since[p] > TTL \/ since[q] > TTL

\* Until some pass outlives its lease, the stamps of a job are never closer
\* than its period, whoever led, crashed or failed in between.
OncePerPeriod ==
    [][\A p \in Process :
          Stamp(p) /\ ~overran => age[next[p]] >= Every[next[p]]]_jobsVars

\* A job that is due is run, by whichever process leads by then: a crashed
\* leader's lease is taken over, a failed job is tried again.
DueJobRuns ==
    \A j \in Jobs : age[j] >= Every[j] ~> age[j] = 0
=============================================================================
