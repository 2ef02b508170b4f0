------------------------------- MODULE Sandbox -------------------------------
(***************************************************************************)
(* sandbox._run_operation_impl and _execute_admitted_operation             *)
(* (src/src/math_anchor/sandbox.py): one call takes a permit of the        *)
(* circuit breaker, a lease of the admission controller and a worker of    *)
(* the pool, in that order, and gives back worker, lease and permit on     *)
(* every path out, exceptions included.                                    *)
(*                                                                         *)
(* CircuitBreaker and Admission are composed unchanged; at[c] is the line  *)
(* call c has reached.  The pool is reduced to its slots: the calls that   *)
(* hold a worker or start one, the number of idle workers, the reservation *)
(* of the background prewarm, and a worker lost to a thread that could not *)
(* be started; an execution is reduced to its outcome.  WorkerPool and     *)
(* WorkerExchange are about those.  Cancellation and deadline after the    *)
(* admission show as the outcome "error", which may come at any time.      *)
(***************************************************************************)
EXTENDS Integers, Sequences, FiniteSets

CONSTANTS
    Calls,               \* threads that run operations
    Nobody,
    FailureThreshold, MemorySizes, MaximumActive, MaximumBatchActive,
    MaximumQueued, MemoryBudget,
    MaximumWorkers,      \* maximum of the worker pool
    MaxCalls             \* bound on the number of calls

\* The pool is at least as large as the admission controller: both maxima default
\* to four (MAX_ACTIVE_REQUESTS, MAX_REUSABLE_WORKERS).
ASSUME SandboxAssumption ==
    /\ IsFiniteSet(Calls)
    /\ Nobody \notin Calls
    /\ FailureThreshold \in Nat \ {0}
    /\ MaximumActive \in Nat
    /\ MaximumWorkers \in Nat
    /\ MaxCalls \in Nat
    /\ MaximumActive <= MaximumWorkers

VARIABLES
    consecutive_failures, circuit, generation, next_probe_id, active_probe_id,
    sampled, inflight, permit,
    queue, active, active_batch, memory_mb, stage, ticket, cancelled, expired,
    at,                  \* where each call is
    outcome,             \* what its execution amounted to
    workers,             \* calls that hold a worker of the pool or start one
    pooled,              \* number of idle workers: len(available)
    prewarming,          \* a slot is reserved: prewarm_generation == generation
    prewarm_thread,      \* "none", "running", or "unstarted" (start() raised)
    lost,                \* slots of workers nobody holds any more
    calls                \* calls made so far

Breaker == INSTANCE CircuitBreaker
    WITH Callers <- Calls, MaxDisturbances <- 0, disturbances <- 0

Control == INSTANCE Admission WITH Requests <- Calls, Impatient <- Calls

breakerVars == <<consecutive_failures, circuit, generation, next_probe_id,
                 active_probe_id, sampled, inflight, permit>>
admissionVars == <<queue, active, active_batch, memory_mb, stage, ticket,
                   cancelled, expired>>
poolVars == <<workers, pooled, prewarming, prewarm_thread, lost>>
callVars == <<at, outcome, poolVars, calls>>
vars == <<breakerVars, admissionVars, callVars>>

Places == {"idle", "allow", "acquire", "abandon", "pool", "starting", "ready",
           "execute", "release", "record", "raised"}

PoolTyped ==
    /\ workers \subseteq Calls
    /\ pooled \in Nat
    /\ prewarming \in BOOLEAN
    /\ prewarm_thread \in {"none", "running", "unstarted"}
    /\ lost \in 0..1

\* One type invariant.
TypeOK ==
    /\ Breaker!TypeOK
    /\ Control!TypeOK
    /\ at \in [Calls -> Places]
    /\ outcome \in [Calls -> Breaker!Outcomes]
    /\ PoolTyped
    /\ calls \in 0..MaxCalls

Init ==
    /\ Breaker!CBInit
    /\ Control!Init
    /\ at = [c \in Calls |-> "idle"]
    /\ outcome = [c \in Calls |-> "success"]
    /\ workers = {}
    /\ pooled = 0
    /\ prewarming = FALSE
    /\ prewarm_thread = "none"
    /\ lost = 0
    /\ calls = 0

Goto(c, place) == at' = [at EXCEPT ![c] = place]

\* The execution of c ends with outcome o.
Amounts(c, o) == outcome' = [outcome EXCEPT ![c] = o]

----------------------------------------------------------------------------
(* _run_operation_impl up to the lease                                     *)

\* The arguments are valid and encoded; allow() reads the clock.
Begin(c) ==
    /\ at[c] = "idle"
    /\ calls < MaxCalls
    /\ calls' = calls + 1
    /\ Goto(c, "allow")
    /\ Breaker!SampleClock(c)
    /\ UNCHANGED <<admissionVars, outcome, poolVars>>

\* Without a permit the call returns E_UNAVAILABLE.
Allow(c) ==
    /\ at[c] = "allow"
    /\ Breaker!Allow(c)
    /\ Goto(c, IF c \in inflight' THEN "acquire" ELSE "idle")
    /\ UNCHANGED <<admissionVars, outcome, poolVars, calls>>

\* _ADMISSION.acquire(): any turn of its loop.
Acquire(c) ==
    /\ at[c] = "acquire"
    /\ (\E t \in Control!Tickets : Control!Acquire(c, t)) \/ Control!Wake(c)
    /\ Goto(c, CASE stage'[c] = "leased" -> "pool"
                 [] stage'[c] \in Control!Refusals -> "abandon"
                 [] OTHER -> "acquire")
    /\ UNCHANGED <<breakerVars, outcome, poolVars, calls>>

\* Mutant: the refused call forgets the probe it may hold.
AbandonForgotten(c) ==
    /\ at[c] = "abandon"
    /\ Control!GiveUp(c)
    /\ inflight' = inflight \ {c}
    /\ Goto(c, "idle")
    /\ UNCHANGED <<consecutive_failures, circuit, generation, next_probe_id,
                   active_probe_id, sampled, permit, outcome, poolVars, calls>>

\* lease is None: abandon_probe, then E_OVERLOADED, E_CANCELLED or E_TIMEOUT.
Abandon(c) ==
    /\ at[c] = "abandon"
    /\ Breaker!AbandonProbe(c)
    /\ Control!GiveUp(c)
    /\ Goto(c, "idle")
    /\ UNCHANGED <<outcome, poolVars, calls>>

----------------------------------------------------------------------------
(* The pool: its slots                                                     *)

Reserved == IF prewarming THEN 1 ELSE 0

\* self.total
Total == Cardinality(workers) + pooled + Reserved + lost

\* acquire() takes an idle worker; those it looks at first may be unfit, and
\* their slots are freed.
AcquireIdle(c) ==
    /\ at[c] = "pool"
    /\ pooled > 0
    /\ pooled' \in 0..(pooled - 1)
    /\ workers' = workers \cup {c}
    /\ Goto(c, "ready")
    /\ UNCHANGED <<breakerVars, admissionVars, outcome, prewarming, prewarm_thread,
                   lost, calls>>

\* With the idle workers evicted, and no prewarm to wait for, there is room for
\* one more worker.
PoolHasRoom == ~prewarming /\ Cardinality(workers) + lost < MaximumWorkers

\* No idle worker is fit: a free slot is taken and a worker started.
AcquireSlot(c) ==
    /\ at[c] = "pool"
    /\ PoolHasRoom
    /\ workers' = workers \cup {c}
    /\ pooled' = 0
    /\ Goto(c, "starting")
    /\ UNCHANGED <<breakerVars, admissionVars, outcome, prewarming, prewarm_thread,
                   lost, calls>>

\* No idle worker is fit, and the slot is reserved or none is free: the call
\* polls again.  The evicted workers are gone.
AcquireWaits(c) ==
    /\ at[c] = "pool"
    /\ ~PoolHasRoom
    /\ pooled > 0
    /\ pooled' = 0
    /\ UNCHANGED <<breakerVars, admissionVars, at, outcome, workers, prewarming,
                   prewarm_thread, lost, calls>>

\* Mutant: the branch that waits for a prewarm does not look at the deadline.
GivesUpUnlessPrewarming(c) ==
    /\ at[c] = "pool"
    /\ ~prewarming
    /\ Amounts(c, "error")
    /\ Goto(c, "release")
    /\ UNCHANGED <<breakerVars, admissionVars, poolVars, calls>>

\* acquire() gives up: cancelled, or at its deadline while it waits.
AcquireGivesUp(c) ==
    /\ at[c] = "pool"
    /\ Amounts(c, "error")
    /\ Goto(c, "release")
    /\ UNCHANGED <<breakerVars, admissionVars, poolVars, calls>>

StartSucceeds(c) ==
    /\ at[c] = "starting"
    /\ Goto(c, "ready")
    /\ UNCHANGED <<breakerVars, admissionVars, outcome, poolVars, calls>>

\* startup_error: the start failed, timed out or was cancelled.
StartFails(c) ==
    /\ at[c] = "starting"
    /\ \E o \in Breaker!Outcomes \ {"success"} : Amounts(c, o)
    /\ workers' = workers \ {c}
    /\ Goto(c, "release")
    /\ UNCHANGED <<breakerVars, admissionVars, pooled, prewarming, prewarm_thread,
                   lost, calls>>

\* release(): the worker of c becomes idle, or is terminated and its slot freed.
ReleaseWorker(c) ==
    /\ workers' = workers \ {c}
    /\ pooled' \in {pooled, pooled + 1}
    /\ UNCHANGED <<prewarming, prewarm_thread, lost>>

\* reserve_prewarm() and start_prewarm_thread(), at startup and whenever a slot
\* has been freed: at most one reservation and one thread at a time.
MayPrewarm == ~prewarming /\ prewarm_thread = "none" /\ Total < MaximumWorkers

Prewarm ==
    /\ MayPrewarm
    /\ prewarming' = TRUE
    /\ prewarm_thread' = "running"
    /\ UNCHANGED <<breakerVars, admissionVars, at, outcome, workers, pooled, lost,
                   calls>>

\* finish_prewarm(): the worker joins the pool if it started and no shutdown came
\* first.
PrewarmEnds ==
    /\ prewarm_thread = "running"
    /\ prewarm_thread' = "none"
    /\ prewarming' = FALSE
    /\ pooled' \in IF prewarming THEN {pooled, pooled + 1} ELSE {pooled}
    /\ UNCHANGED <<breakerVars, admissionVars, at, outcome, workers, lost, calls>>

\* shutdown() drops the idle workers and the reservation.
Shutdown ==
    /\ pooled > 0 \/ prewarming
    /\ pooled' = 0
    /\ prewarming' = FALSE
    /\ UNCHANGED <<breakerVars, admissionVars, at, outcome, workers,
                   prewarm_thread, lost, calls>>

----------------------------------------------------------------------------
(* _execute_admitted_operation                                             *)

\* Cancelled, or past the deadline, before execution: the worker is unused.
NotExecuted(c) ==
    /\ at[c] = "ready"
    /\ ReleaseWorker(c)
    /\ Amounts(c, "error")
    /\ Goto(c, "release")
    /\ UNCHANGED <<breakerVars, admissionVars, calls>>

StartExecution(c) ==
    /\ at[c] = "ready"
    /\ Goto(c, "execute")
    /\ UNCHANGED <<breakerVars, admissionVars, outcome, poolVars, calls>>

\* Mutant: a failed supervision leaves the worker leased.
ExecuteLeaks(c) ==
    /\ at[c] = "execute"
    /\ \/ ReleaseWorker(c) /\ Amounts(c, "success")
       \/ UNCHANGED poolVars /\ Amounts(c, "infrastructure_failure")
    /\ Goto(c, "release")
    /\ UNCHANGED <<breakerVars, admissionVars, calls>>

\* _execute_worker answers or raises; the finally clause releases the worker.
Execute(c) ==
    /\ at[c] = "execute"
    /\ \E o \in Breaker!Outcomes : Amounts(c, o)
    /\ ReleaseWorker(c)
    /\ Goto(c, "release")
    /\ UNCHANGED <<breakerVars, admissionVars, calls>>

----------------------------------------------------------------------------
(* The ways out                                                            *)

\* finally: _ADMISSION.release(lease)
ReleaseLease(c) ==
    /\ at[c] = "release"
    /\ Control!Release(c)
    /\ Goto(c, "record")
    /\ UNCHANGED <<breakerVars, outcome, poolVars, calls>>

RecordOutcome(c) ==
    /\ at[c] = "record"
    /\ Breaker!Record(c, outcome[c])
    /\ Goto(c, "idle")
    /\ UNCHANGED <<admissionVars, outcome, poolVars, calls>>

\* The thread of a prewarm cannot be started: the reservation stays until the
\* shutdown, and the thread that never ran bars every later one.
ThreadUnstarted ==
    /\ prewarming' = TRUE
    /\ prewarm_thread' = "unstarted"

\* acquire() has selected an idle worker when the thread cannot be started: the
\* worker is neither returned nor pooled, and its slot stays taken.
AcquireRaises(c) ==
    /\ at[c] = "pool"
    /\ pooled > 0
    /\ \E n \in 0..(pooled - 1) :
          /\ pooled' = n
          /\ ~prewarming /\ prewarm_thread = "none"
          /\ Cardinality(workers) + n + 1 + lost < MaximumWorkers
    /\ lost' = lost + 1
    /\ ThreadUnstarted
    /\ UNCHANGED workers

\* release() has terminated the worker when the thread cannot be started, or the
\* output policy fails once the worker has been released.
ReleaseRaises(c) ==
    /\ at[c] \in {"ready", "execute"}
    /\ \/ /\ workers' = workers \ {c}
          /\ ~prewarming /\ prewarm_thread = "none"
          /\ ThreadUnstarted
          /\ UNCHANGED <<pooled, lost>>
       \/ at[c] = "execute" /\ ReleaseWorker(c)

\* Such an exception is recorded as a provider failure while the lease is held.
Raise(c) ==
    /\ AcquireRaises(c) \/ ReleaseRaises(c)
    /\ Breaker!Record(c, "infrastructure_failure")
    /\ Goto(c, "raised")
    /\ UNCHANGED <<admissionVars, outcome, calls>>

\* Mutant: the exception escapes with the lease.
RaisedKeepsLease(c) ==
    /\ at[c] = "raised"
    /\ Goto(c, "idle")
    /\ UNCHANGED <<breakerVars, admissionVars, outcome, poolVars, calls>>

Raised(c) ==
    /\ at[c] = "raised"
    /\ Control!Release(c)
    /\ Goto(c, "idle")
    /\ UNCHANGED <<breakerVars, outcome, poolVars, calls>>

----------------------------------------------------------------------------
\* The cancel event is set, the deadline passes: first looked at in acquire().
CancelCall(c) ==
    /\ at[c] = "acquire"
    /\ Control!Cancel(c)
    /\ UNCHANGED <<breakerVars, callVars>>

DeadlinePasses(c) ==
    /\ at[c] = "acquire"
    /\ Control!Expire(c)
    /\ UNCHANGED <<breakerVars, callVars>>

ClockAdvances == Breaker!CoolDown /\ UNCHANGED <<admissionVars, callVars>>

\* What a call's thread does once the call has begun.
Step(c) ==
    \/ Allow(c)
    \/ Acquire(c)
    \/ Abandon(c)
    \/ AcquireIdle(c)
    \/ AcquireSlot(c)
    \/ AcquireWaits(c)
    \/ AcquireGivesUp(c)
    \/ StartSucceeds(c)
    \/ StartFails(c)
    \/ NotExecuted(c)
    \/ StartExecution(c)
    \/ Execute(c)
    \/ ReleaseLease(c)
    \/ RecordOutcome(c)
    \/ Raise(c)
    \/ Raised(c)

Next ==
    \/ \E c \in Calls : Begin(c) \/ Step(c) \/ CancelCall(c) \/ DeadlinePasses(c)
    \/ Prewarm \/ PrewarmEnds \/ Shutdown
    \/ ClockAdvances

Spec == Init /\ [][Next]_vars

\* Threads run, the pool's acquire and the execution end by their deadlines (as
\* WorkerExchange shows, for children that read the request they are sent), and
\* the deadline of a call that waits, in the queue or in the pool, passes.
\* Nothing is assumed of the prewarm.
Fairness ==
    \A c \in Calls :
        WF_vars(Step(c)) /\ WF_vars(DeadlinePasses(c)) /\ WF_vars(AcquireGivesUp(c))

FairSpec == Spec /\ Fairness

----------------------------------------------------------------------------
(* Properties                                                              *)

\* Nothing is lost on any path out, refusals and exceptions included: a call that
\* has returned has given back its permit, lease and worker, and the half-open
\* probe is held by a call that will return it, also while that call waits for
\* admission, fails to get a worker or raises.
NothingKept ==
    /\ \A c \in Calls :
          at[c] = "idle" =>
              c \notin inflight /\ stage[c] = "out" /\ c \notin workers
    /\ Breaker!ProbeIsCarried

\* Only a thread that could not be started costs a slot, and the slots in use
\* stay within the maximum.
SlotsInPlace ==
    /\ lost > 0 => prewarm_thread = "unstarted"
    /\ Total <= MaximumWorkers

\* An admitted call waits in the pool for nothing but the background prewarm, as
\* long as threads can be started: workers are given back before leases, so the
\* calls that hold the other leases never fill the pool.  Leaked workers
\* saturated it once (comment in sandbox.py).  And nobody's slot is given away:
\* calls, idle workers and reservation together stay within the maximum.
AdmittedFindsRoom ==
    /\ \A c \in Calls : at[c] = "pool" => PoolHasRoom \/ prewarming \/ lost > 0
    /\ SlotsInPlace

\* What a call holds at each place: a permit, a stage of the admission, a worker.
HoldsPermit ==
    {"acquire", "abandon", "pool", "starting", "ready", "execute", "release", "record"}
HoldsLease == {"pool", "starting", "ready", "execute", "release", "raised"}
HoldsWorker == {"starting", "ready", "execute"}

CallInPlace(c) ==
    /\ c \in inflight <=> at[c] \in HoldsPermit
    /\ stage[c] = "leased" <=> at[c] \in HoldsLease
    /\ stage[c] \in Control!Refusals <=> at[c] = "abandon"
    /\ stage[c] = "queued" => at[c] = "acquire"
    /\ c \in workers <=> at[c] \in HoldsWorker

\* Inductive: every call holds what its place in the code says, the probe is
\* carried, and the admission counts the leases the calls hold.
SandboxInvariant ==
    /\ inflight \subseteq Calls
    /\ permit \in [Calls -> Breaker!Permits]
    /\ stage \in [Calls -> Control!Stages]
    /\ at \in [Calls -> Places]
    /\ PoolTyped
    /\ SlotsInPlace
    /\ \A c \in Calls : CallInPlace(c)
    /\ generation \in Nat
    /\ next_probe_id \in Nat
    /\ active_probe_id \in Nat
    /\ Breaker!ProbeIsCarried
    /\ active = Cardinality(Control!Leased)
    /\ active <= MaximumActive

\* The calls behave as Admission assumes of its callers, fairness included:
\* waiting calls poll on and every lease is released.
CallersAsAssumed == Control!FairSpec

\* Every call returns, however admission, pool and provider behave.
EveryCallReturns == \A c \in Calls : (at[c] # "idle") ~> (at[c] = "idle")
=============================================================================
