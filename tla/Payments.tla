------------------------------ MODULE Payments ------------------------------
(***************************************************************************)
(* dukafi/services/payments.rb and routes/payments.rb: attempts to pay for *)
(* an order.  A worker starts an attempt and calls the provider, handles a *)
(* provider's callback, or polls an attempt in flight (the status region,  *)
(* PayHero's reconcile job).  Each loads the attempt row into memory,      *)
(* talks to the provider, and only then writes by what it holds in memory: *)
(* nothing rereads or locks the row in between, so the workers interleave  *)
(* between load and write on either database.                              *)
(***************************************************************************)
EXTENDS Integers, FiniteSets

CONSTANTS
    Worker,         \* Puma threads and the scheduler's thread
    Attempt,        \* rows payment_attempts may come to hold
    OrderId,
    OrderOf,        \* Attempt -> OrderId
    MaxFaults,      \* bound: crashes, provider errors and failed polls
    MaxStatusEdits  \* bound: status changes an administrator makes

ASSUME OrderAssumption == OrderOf \in [Attempt -> OrderId]
ASSUME AttemptAssumption == Attempt # {}
ASSUME FaultAssumption == MaxFaults \in Nat /\ MaxStatusEdits \in Nat

VARIABLES
    order,       \* orders.status
    attempt,     \* payment_attempts.status; "none" is no row yet
    verdict,     \* what the provider knows of an attempt
    exact,       \* the provider charged the amount the attempt records
    stage,       \* where each worker is
    at,          \* the attempt in the worker's memory
    seen,        \* its status as the worker loaded it
    result,      \* the verdict the worker brings to settle
    byHand,      \* history: an administrator set this order's status
    faults,      \* faults so far (for MaxFaults)
    statusEdits  \* administrator's edits so far (for MaxStatusEdits)

rows == <<order, attempt>>
memory == <<at, seen, result>>
bounds == <<faults, statusEdits>>
paymentsVars == <<rows, verdict, exact, stage, memory, byHand, bounds>>

\* "pending" stands for fulfilled and shipped too: payable, and not paid.
OrderStatus == {"pending", "paid", "refunded"}
Terminal    == {"succeeded", "failed", "cancelled"}
InFlight    == {"pending", "processing"}
Verdict     == {"unasked", "open", "succeeded", "failed"}

PaymentsTypeOK ==
    /\ order \in [OrderId -> OrderStatus]
    /\ attempt \in [Attempt -> {"none"} \union InFlight \union Terminal]
    /\ verdict \in [Attempt -> Verdict]
    /\ exact \in [Attempt -> BOOLEAN]
    /\ stage \in [Worker -> {"idle", "initiate", "accepted", "rejected", "poll",
                          "settle", "emit"}]
    /\ at \in [Worker -> Attempt]
    /\ seen \in [Worker -> {"none"} \union InFlight \union Terminal]
    /\ result \in [Worker -> {"none", "succeeded", "failed", "mismatch"}]
    /\ byHand \in [OrderId -> BOOLEAN]
    /\ faults \in 0 .. MaxFaults
    /\ statusEdits \in 0 .. MaxStatusEdits

PaymentsInit ==
    /\ order = [o \in OrderId |-> "pending"]
    /\ attempt = [a \in Attempt |-> "none"]
    /\ verdict = [a \in Attempt |-> "unasked"]
    /\ exact \in [Attempt -> BOOLEAN]
    /\ stage = [w \in Worker |-> "idle"]
    /\ at = [w \in Worker |-> CHOOSE a \in Attempt : TRUE]
    /\ seen = [w \in Worker |-> "none"]
    /\ result = [w \in Worker |-> "none"]
    /\ byHand = [o \in OrderId |-> FALSE]
    /\ faults = 0
    /\ statusEdits = 0

-----------------------------------------------------------------------------
Goto(w, where) == stage' = [stage EXCEPT ![w] = where]

\* Loads the row into the worker's memory.
Load(w, a) ==
    /\ at' = [at EXCEPT ![w] = a]
    /\ seen' = [seen EXCEPT ![w] = attempt[a]]

\* The worker is done and forgets what it held.
Done(w) ==
    /\ Goto(w, "idle")
    /\ seen' = [seen EXCEPT ![w] = "none"]
    /\ result' = [result EXCEPT ![w] = "none"]
    /\ UNCHANGED at

Fault == faults < MaxFaults /\ faults' = faults + 1

SetAttempt(a, s) == attempt' = [attempt EXCEPT ![a] = s]

-----------------------------------------------------------------------------
\* Payments.start

\* payable?: only a paid or refunded order is refused.
Payable(o) == order[o] \notin {"paid", "refunded"}

\* The attempt row is written, pending, before the provider is called.
StartAttempt(w, a) ==
    /\ stage[w] = "idle"
    /\ attempt[a] = "none"
    /\ Payable(OrderOf[a])
    /\ SetAttempt(a, "pending")
    /\ at' = [at EXCEPT ![w] = a]
    /\ seen' = [seen EXCEPT ![w] = "pending"]
    /\ Goto(w, "initiate")
    /\ UNCHANGED <<order, verdict, exact, result, byHand, bounds>>

\* provider.initiate accepts the charge.
Initiate(w) ==
    /\ stage[w] = "initiate"
    /\ verdict' = [verdict EXCEPT ![at[w]] = "open"]
    /\ Goto(w, "accepted")
    /\ UNCHANGED <<rows, exact, memory, byHand, bounds>>

\* It answers with an error or raises; a timeout may leave the charge open.
InitiateFails(w) ==
    /\ stage[w] = "initiate"
    /\ Fault
    /\ \E v \in {"unasked", "open"} : verdict' = [verdict EXCEPT ![at[w]] = v]
    /\ Goto(w, "rejected")
    /\ UNCHANGED <<rows, exact, memory, byHand, statusEdits>>

\* The outcome is written over whatever the row says by now.
FinishStart(w) ==
    /\ stage[w] \in {"accepted", "rejected"}
    /\ SetAttempt(at[w], IF stage[w] = "accepted" THEN "processing" ELSE "failed")
    /\ Done(w)
    /\ UNCHANGED <<order, verdict, exact, byHand, bounds>>

-----------------------------------------------------------------------------
\* The provider (external): it decides an open charge once.
Decide(a) ==
    /\ verdict[a] = "open"
    /\ \E v \in {"succeeded", "failed"} : verdict' = [verdict EXCEPT ![a] = v]
    /\ UNCHANGED <<rows, exact, stage, memory, byHand, bounds>>

Decided(a) == verdict[a] \in {"succeeded", "failed"}

-----------------------------------------------------------------------------
\* Two ways to learn the verdict

\* The callback route, as often as the provider retries it: it reports the
\* amount, and settle turns a wrong one into a failure.
Callback(w, a) ==
    /\ stage[w] = "idle"
    /\ attempt[a] # "none"
    /\ Decided(a)
    /\ Load(w, a)
    /\ result' = [result EXCEPT ![w] =
                    IF verdict[a] = "succeeded" /\ ~exact[a] THEN "mismatch"
                                                            ELSE verdict[a]]
    /\ Goto(w, "settle")
    /\ UNCHANGED <<rows, verdict, exact, byHand, bounds>>

\* Payments.refresh loads an attempt that is not terminal ...
\* (Slip: only those the provider accepted.)
LoadProcessing(w, a) ==
    /\ stage[w] = "idle"
    /\ attempt[a] = "processing"
    /\ Load(w, a)
    /\ Goto(w, "poll")
    /\ UNCHANGED <<rows, verdict, exact, result, byHand, bounds>>
LoadForPoll(w, a) ==
    /\ stage[w] = "idle"
    /\ attempt[a] \in InFlight
    /\ Load(w, a)
    /\ Goto(w, "poll")
    /\ UNCHANGED <<rows, verdict, exact, result, byHand, bounds>>

\* What provider.poll makes of the charge.  (Slip: not failed is paid.)
OptimisticAnswer(a) == IF verdict[a] = "failed" THEN "failed" ELSE "succeeded"
PollAnswer(a) == verdict[a]

\* ... and asks the provider.  An undecided charge changes nothing; a decided
\* one goes to settle, with no amount to compare.
Poll(w) ==
    /\ stage[w] = "poll"
    /\ LET answer == PollAnswer(at[w]) IN
       IF answer \in {"succeeded", "failed"}
       THEN /\ result' = [result EXCEPT ![w] = answer]
            /\ Goto(w, "settle")
            /\ UNCHANGED <<at, seen>>
       ELSE Done(w)
    /\ UNCHANGED <<rows, verdict, exact, byHand, bounds>>

PollRaises(w) ==
    /\ stage[w] = "poll"
    /\ Fault
    /\ Done(w)
    /\ UNCHANGED <<rows, verdict, exact, byHand, statusEdits>>

-----------------------------------------------------------------------------
\* Payments.settle

\* attempt.terminal?, asked of the row in memory.
AlreadySettled(w) == seen[w] \in Terminal

\* The order follows the attempt.  (Slip: left to an order.paid handler.)
OrderLeftAlone(o) == UNCHANGED order
MarkPaid(o) == order' = [order EXCEPT ![o] = "paid"]

SettleIgnored(w) ==
    /\ stage[w] = "settle"
    /\ AlreadySettled(w)
    /\ Done(w)
    /\ UNCHANGED <<rows, verdict, exact, byHand, bounds>>

\* A failure, or an amount that does not match.
SettleFailure(w) ==
    /\ stage[w] = "settle"
    /\ ~AlreadySettled(w)
    /\ result[w] \in {"failed", "mismatch"}
    /\ SetAttempt(at[w], "failed")
    /\ Done(w)
    /\ UNCHANGED <<order, verdict, exact, byHand, bounds>>

\* Attempt and order in one transaction ...
SettleSuccess(w) ==
    /\ stage[w] = "settle"
    /\ ~AlreadySettled(w)
    /\ result[w] = "succeeded"
    /\ SetAttempt(at[w], "succeeded")
    /\ MarkPaid(OrderOf[at[w]])
    /\ Goto(w, "emit")
    /\ UNCHANGED <<verdict, exact, memory, byHand, bounds>>

\* ... and then the events: order.paid sends the confirmation, once more for
\* every worker that loaded the row before another settled it.
EmitPaid(w) ==
    /\ stage[w] = "emit"
    /\ Done(w)
    /\ UNCHANGED <<rows, verdict, exact, byHand, bounds>>

-----------------------------------------------------------------------------
\* An exception or the process ends a worker anywhere.
Crash(w) ==
    /\ stage[w] # "idle"
    /\ Fault
    /\ Done(w)
    /\ UNCHANGED <<rows, verdict, exact, byHand, statusEdits>>

\* admin_api.rb: an administrator sets any status.
AdminSetStatus(o, s) ==
    /\ statusEdits < MaxStatusEdits
    /\ statusEdits' = statusEdits + 1
    /\ order' = [order EXCEPT ![o] = s]
    /\ byHand' = [byHand EXCEPT ![o] = TRUE]
    /\ UNCHANGED <<attempt, verdict, exact, stage, memory, faults>>

\* A worker's next step towards its answer.
Work(w) ==
    \/ Initiate(w)
    \/ FinishStart(w)
    \/ Poll(w)
    \/ SettleIgnored(w)
    \/ SettleFailure(w)
    \/ SettleSuccess(w)
    \/ EmitPaid(w)

\* Nobody is paying: the store waits for the next customer.
PaymentsQuiet == (\A w \in Worker : stage[w] = "idle") /\ UNCHANGED paymentsVars

PaymentsNext ==
    \/ PaymentsQuiet
    \/ \E w \in Worker : Work(w) \/ InitiateFails(w) \/ PollRaises(w) \/ Crash(w)
    \/ \E w \in Worker, a \in Attempt :
          StartAttempt(w, a) \/ Callback(w, a) \/ LoadForPoll(w, a)
    \/ \E a \in Attempt : Decide(a)
    \/ \E o \in OrderId, s \in OrderStatus : AdminSetStatus(o, s)

PaymentsSpec == PaymentsInit /\ [][PaymentsNext]_paymentsVars

\* A worker finishes what it began, and an attempt in flight is polled again
\* and again: by the status region, and every 15 minutes by the reconcile job
\* of a provider that has one.  Callbacks are owed by nobody.
PaymentsFairSpec ==
    /\ PaymentsSpec
    /\ \A w \in Worker : WF_paymentsVars(Work(w))
    /\ \A a \in Attempt : SF_paymentsVars(\E w \in Worker : LoadForPoll(w, a))

-----------------------------------------------------------------------------
\* Properties

\* payments.rb:82: settle is the only path that marks an order paid, so an
\* order nobody paid by hand has an attempt the provider says succeeded.
PaidOnlyByProvider ==
    \A o \in OrderId : order[o] = "paid" /\ ~byHand[o] =>
        \E a \in Attempt : OrderOf[a] = o /\ verdict[a] = "succeeded"

\* The settling transaction: whatever crashes, races or overwrites an attempt
\* later, an attempt recorded as succeeded has its order paid.
SettledTogether ==
    \A a \in Attempt : attempt[a] = "succeeded" =>
        order[OrderOf[a]] = "paid" \/ byHand[OrderOf[a]]

\* payments.rb:120-121: an attempt in flight whose charge went through is
\* settled, callback or none, crashes and failed polls notwithstanding.
EveryChargeResolves ==
    \A a \in Attempt :
        verdict[a] = "succeeded" /\ attempt[a] \in InFlight
            ~> attempt[a] \in Terminal
=============================================================================
