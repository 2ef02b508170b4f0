----------------------------- MODULE WorkerPool -----------------------------
(***************************************************************************)
(* class _WorkerPool and warm_worker_pool of                               *)
(* src/src/math_anchor/worker_pool.py: the bounded set of reusable child   *)
(* processes, their lease to one operation at a time, background           *)
(* prewarming and shutdown.                                                *)
(*                                                                         *)
(* A block under self.condition is one action.  What the code does outside *)
(* the lock is an action of its own: starting a worker, terminating the    *)
(* evicted ones (victims[c], which c terminates before it goes on), each   *)
(* call of warm_worker_pool, and the prewarm thread.  Waits poll every     *)
(* 25 ms, so a waiting acquire simply passes through its loop again.       *)
(*                                                                         *)
(* Workers are process identities, reused after a process is gone.  Memory *)
(* measurements, request counts and the outcome of an execution are the    *)
(* environment's choice.  The worker popped from `available' is any of     *)
(* them: the code takes the latest, or the latest with unit registries.    *)
(* prewarm_cancel only hastens the end of a start that may fail anyway.    *)
(***************************************************************************)
EXTENDS FiniteSets, WorkerExchange

CONSTANTS
    Threads,             \* threads that run operations (and warm the pool)
    Workers,             \* identities of child processes
    NoWorker,
    Maximum,             \* maximum
    MaxShutdowns         \* bound on the number of shutdown() calls

ASSUME PoolAssumption ==
    /\ NoWorker \notin Workers
    /\ IsFiniteSet(Threads)
    /\ IsFiniteSet(Workers)
    /\ Maximum \in Nat \ {0}
    /\ MaxShutdowns \in Nat

VARIABLES
    available, total, generation, desired_warm,
    prewarm_generation,  \* NoGeneration stands for None
    prewarm_thread,      \* "none", "started", or "unstarted" (start() raised)
    process,             \* state of each child process
    pool_generation,     \* worker.pool_generation
    pc, held,            \* where each thread is, and the worker it holds
    slot,                \* generation it captured for a start or a prewarm
    victims,             \* evicted workers it still has to terminate
    warm_pc, warm_gen, warm_worker,   \* the prewarm thread
    doomed               \* workers shutdown() still has to terminate

counters == <<total, generation, desired_warm>>
prewarm == <<prewarm_generation, prewarm_thread>>
children == <<process, pool_generation>>
threads == <<pc, held, slot, victims>>
warmer == <<warm_pc, warm_gen, warm_worker>>
poolVars == <<available, counters, prewarm, children, threads, warmer, doomed>>

NoGeneration == -1
Generations == Nat \cup {NoGeneration}
ThreadStates == {"idle", "acquiring", "starting", "leased",
                 "reserve", "event", "spawn"}
WarmStates == {"none", "check", "starting", "finish", "terminate", "clear"}

\* One type invariant; the pool never owns more workers than its maximum.
TypeOK ==
    /\ available \in SUBSET Workers
    /\ total \in 0..Maximum
    /\ generation \in Nat
    /\ desired_warm \in 1..Maximum
    /\ prewarm_generation \in Generations
    /\ prewarm_thread \in {"none", "started", "unstarted"}
    /\ process \in [Workers -> {"none", "running", "dead"}]
    /\ pool_generation \in [Workers -> Generations]
    /\ pc \in [Threads -> ThreadStates]
    /\ held \in [Threads -> Workers \cup {NoWorker}]
    /\ slot \in [Threads -> Generations]
    /\ victims \in [Threads -> SUBSET Workers]
    /\ warm_pc \in WarmStates
    /\ warm_gen \in Generations
    /\ warm_worker \in Workers \cup {NoWorker}
    /\ doomed \in SUBSET Workers

PoolInit ==
    /\ available = {}
    /\ total = 0
    /\ generation = 0
    /\ desired_warm = 1
    /\ prewarm_generation = NoGeneration
    /\ prewarm_thread = "none"
    /\ process = [w \in Workers |-> "none"]
    /\ pool_generation = [w \in Workers |-> NoGeneration]
    /\ pc = [c \in Threads |-> "idle"]
    /\ held = [c \in Threads |-> NoWorker]
    /\ slot = [c \in Threads |-> NoGeneration]
    /\ victims = [c \in Threads |-> {}]
    /\ warm_pc = "none"
    /\ warm_gen = NoGeneration
    /\ warm_worker = NoWorker
    /\ doomed = {}

----------------------------------------------------------------------------
(* acquire()                                                               *)

\* c can take its next step: it has terminated the workers it evicted.
At(c, place) == pc[c] = place /\ victims[c] = {}

Goto(c, place) == pc' = [pc EXCEPT ![c] = place]

\* _should_replenish(g), evaluated once total has become n.
ShouldReplenish(g, n) ==
    g = generation /\ n < desired_warm /\ prewarm_generation = NoGeneration

BeginAcquire(c) ==
    /\ At(c, "idle")
    /\ Goto(c, "acquiring")
    /\ UNCHANGED <<available, counters, prewarm, children, held, slot, victims,
                   warmer, doomed>>

\* cancel_event is set.
AcquireCancelled(c) ==
    /\ At(c, "acquiring")
    /\ Goto(c, "idle")
    /\ UNCHANGED <<available, counters, prewarm, children, held, slot, victims,
                   warmer, doomed>>

\* The loop pops unusable workers (unfit) until it finds a running one that fits.
AcquirePooled(c, w, unfit) ==
    /\ At(c, "acquiring")
    /\ w \in available
    /\ unfit \subseteq available \ {w}
    /\ process[w] = "running"
    /\ available' = available \ (unfit \cup {w})
    /\ total' = total - Cardinality(unfit)
    /\ held' = [held EXCEPT ![c] = w]
    /\ victims' = [victims EXCEPT ![c] = unfit]
    /\ Goto(c, IF ShouldReplenish(generation, total - Cardinality(unfit))
               THEN "reserve" ELSE "leased")
    /\ UNCHANGED <<generation, desired_warm, prewarm, children, slot, warmer, doomed>>

\* Every pooled worker was popped and none is usable.
AllUnfit(c) ==
    /\ available' = {}
    /\ victims' = [victims EXCEPT ![c] = available]

RemainingTotal == total - Cardinality(available)

RoomToStart == RemainingTotal < Maximum

\* A prewarm of this generation, or a full pool, is waited for; the pass ends
\* the call if its deadline has passed and is repeated otherwise.
AcquireWaits(c) ==
    /\ At(c, "acquiring")
    /\ prewarm_generation = generation \/ ~RoomToStart
    /\ AllUnfit(c)
    /\ total' = RemainingTotal
    /\ Goto(c, "idle") \/ Goto(c, "acquiring")
    /\ UNCHANGED <<generation, desired_warm, prewarm, children, held, slot,
                   warmer, doomed>>

AcquireSlot(c) ==
    /\ At(c, "acquiring")
    /\ prewarm_generation # generation
    /\ RoomToStart
    /\ AllUnfit(c)
    /\ total' = RemainingTotal + 1
    /\ desired_warm' = IF desired_warm < RemainingTotal + 1
                       THEN RemainingTotal + 1 ELSE desired_warm
    /\ slot' = [slot EXCEPT ![c] = generation]
    /\ Goto(c, "starting")
    /\ UNCHANGED <<generation, prewarm, children, held, warmer, doomed>>

\* _start_worker, outside the lock; a failed start returns its slot.
StartSucceeds(c, w) ==
    /\ At(c, "starting")
    /\ process[w] = "none"
    /\ process' = [process EXCEPT ![w] = "running"]
    /\ pool_generation' = [pool_generation EXCEPT ![w] = slot[c]]
    /\ held' = [held EXCEPT ![c] = w]
    /\ slot' = [slot EXCEPT ![c] = NoGeneration]
    /\ Goto(c, "leased")
    /\ UNCHANGED <<available, counters, prewarm, victims, warmer, doomed>>

StartFails(c) ==
    /\ At(c, "starting")
    /\ total' = total - 1
    /\ slot' = [slot EXCEPT ![c] = NoGeneration]
    /\ Goto(c, "idle")
    /\ UNCHANGED <<available, generation, desired_warm, prewarm, children, held,
                   victims, warmer, doomed>>

----------------------------------------------------------------------------
(* release(worker, reusable)                                               *)

Current(w) == pool_generation[w] = generation

\* The worker goes back to the pool.
ReleaseReusable(c) ==
    LET w == held[c]
    IN  /\ At(c, "leased")
        /\ process[w] = "running"
        /\ Current(w)
        /\ available' = available \cup {w}
        /\ held' = [held EXCEPT ![c] = NoWorker]
        /\ Goto(c, "idle")
        /\ UNCHANGED <<counters, prewarm, children, slot, victims, warmer, doomed>>

\* It is not reusable: failed, recycled, dead, or from before a shutdown.
ReleaseDiscard(c) ==
    LET w == held[c]
    IN  /\ At(c, "leased")
        /\ total' = total - 1
        /\ held' = [held EXCEPT ![c] = NoWorker]
        /\ victims' = [victims EXCEPT ![c] = {w}]
        /\ Goto(c, IF ShouldReplenish(pool_generation[w], total - 1)
                   THEN "reserve" ELSE "idle")
        /\ UNCHANGED <<available, generation, desired_warm, prewarm, children,
                       slot, warmer, doomed>>

\* terminate() of an evicted worker.
Gone(w) ==
    /\ process' = [process EXCEPT ![w] = "none"]
    /\ pool_generation' = [pool_generation EXCEPT ![w] = NoGeneration]

TerminateVictim(c, w) ==
    /\ w \in victims[c]
    /\ victims' = [victims EXCEPT ![c] = @ \ {w}]
    /\ Gone(w)
    /\ UNCHANGED <<available, counters, prewarm, pc, held, slot, warmer, doomed>>

----------------------------------------------------------------------------
(* warm_worker_pool(), called when an acquire or a release finds the pool  *)
(* under its target, and once by the MCP server at startup.                *)

AfterWarm(c) == IF held[c] = NoWorker THEN "idle" ELSE "leased"

WarmAtStartup(c) ==
    /\ At(c, "idle")
    /\ Goto(c, "reserve")
    /\ UNCHANGED <<available, counters, prewarm, children, held, slot, victims,
                   warmer, doomed>>

\* Mutant: a prewarm thread that is still winding down is not waited for.
MayReserveBesideThread == total < desired_warm /\ prewarm_generation = NoGeneration

MayReserve ==
    /\ total < desired_warm
    /\ prewarm_generation = NoGeneration
    /\ prewarm_thread = "none"

\* reserve_prewarm()
ReservePrewarm(c) ==
    /\ At(c, "reserve")
    /\ MayReserve
    /\ total' = total + 1
    /\ prewarm_generation' = generation
    /\ slot' = [slot EXCEPT ![c] = generation]
    /\ Goto(c, "event")
    /\ UNCHANGED <<available, generation, desired_warm, prewarm_thread, children,
                   held, victims, warmer, doomed>>

ReserveRefused(c) ==
    /\ At(c, "reserve")
    /\ ~MayReserve
    /\ Goto(c, AfterWarm(c))
    /\ UNCHANGED <<available, counters, prewarm, children, held, slot, victims,
                   warmer, doomed>>

\* warm_worker_pool returns without a prewarm thread.
WarmAbandoned(c) ==
    /\ slot' = [slot EXCEPT ![c] = NoGeneration]
    /\ Goto(c, AfterWarm(c))
    /\ UNCHANGED <<available, counters, prewarm, children, held, victims, warmer,
                   doomed>>

\* prewarm_cancel_event(generation)
FetchCancelEvent(c) ==
    /\ At(c, "event")
    /\ \/ prewarm_generation # slot[c] /\ WarmAbandoned(c)
       \/ /\ prewarm_generation = slot[c]
          /\ Goto(c, "spawn")
          /\ UNCHANGED <<available, counters, prewarm, children, held, slot,
                         victims, warmer, doomed>>

SpawnAllowed(c) == prewarm_generation = slot[c] /\ prewarm_thread = "none"

\* start_prewarm_thread(thread, generation)
StartPrewarmThread(c) ==
    /\ At(c, "spawn")
    /\ \/ ~SpawnAllowed(c) /\ WarmAbandoned(c)
       \/ /\ SpawnAllowed(c)
          /\ prewarm_thread' = "started"
          /\ warm_pc' = "check"
          /\ warm_gen' = slot[c]
          /\ slot' = [slot EXCEPT ![c] = NoGeneration]
          /\ Goto(c, AfterWarm(c))
          /\ UNCHANGED <<available, counters, prewarm_generation, children, held,
                         victims, warm_worker, doomed>>

\* thread.start() raises after prewarm_thread was assigned.  The exception
\* leaves warm_worker_pool and the acquire or release that called it, so a
\* worker that was just selected is lost.  prewarm_thread is never cleared
\* again: only the thread itself would do it.
PrewarmThreadFails(c) ==
    /\ At(c, "spawn")
    /\ SpawnAllowed(c)
    /\ prewarm_thread' = "unstarted"
    /\ slot' = [slot EXCEPT ![c] = NoGeneration]
    /\ held' = [held EXCEPT ![c] = NoWorker]
    /\ Goto(c, "idle")
    /\ UNCHANGED <<available, counters, prewarm_generation, children, victims,
                   warmer, doomed>>

----------------------------------------------------------------------------
(* The prewarm thread: warm() and finish_prewarm().                        *)

\* owns_prewarm(generation)
WarmCheck ==
    /\ warm_pc = "check"
    /\ warm_pc' = IF prewarm_generation = warm_gen THEN "starting" ELSE "finish"
    /\ UNCHANGED <<available, counters, prewarm, children, threads, warm_gen,
                   warm_worker, doomed>>

WarmStartSucceeds(w) ==
    /\ warm_pc = "starting"
    /\ process[w] = "none"
    /\ process' = [process EXCEPT ![w] = "running"]
    /\ warm_worker' = w
    /\ warm_pc' = "finish"
    /\ UNCHANGED <<available, counters, prewarm, pool_generation, threads,
                   warm_gen, doomed>>

WarmStartFails ==
    /\ warm_pc = "starting"
    /\ warm_pc' = "finish"
    /\ UNCHANGED <<available, counters, prewarm, children, threads, warm_gen,
                   warm_worker, doomed>>

\* Mutant: the reservation is taken for granted.
OwnsReservationAssumed == TRUE

OwnsReservation == prewarm_generation = warm_gen

WarmedWorkerUsable ==
    /\ OwnsReservation
    /\ warm_gen = generation
    /\ warm_worker # NoWorker
    /\ warm_worker \in {w \in Workers : process[w] = "running"}

\* finish_prewarm(worker, generation), first block.
FinishPrewarm ==
    /\ warm_pc = "finish"
    /\ prewarm_generation' =
         IF OwnsReservation THEN NoGeneration ELSE prewarm_generation
    /\ \/ /\ WarmedWorkerUsable
          /\ available' = available \cup {warm_worker}
          /\ pool_generation' = [pool_generation EXCEPT ![warm_worker] = warm_gen]
          /\ warm_worker' = NoWorker
          /\ warm_pc' = "clear"
          /\ UNCHANGED total
       \/ /\ ~WarmedWorkerUsable
          /\ total' = IF OwnsReservation THEN total - 1 ELSE total
          /\ warm_pc' = IF warm_worker = NoWorker THEN "clear" ELSE "terminate"
          /\ UNCHANGED <<available, pool_generation, warm_worker>>
    /\ UNCHANGED <<generation, desired_warm, prewarm_thread, process, threads,
                   warm_gen, doomed>>

WarmTerminate ==
    /\ warm_pc = "terminate"
    /\ Gone(warm_worker)
    /\ warm_worker' = NoWorker
    /\ warm_pc' = "clear"
    /\ UNCHANGED <<available, counters, prewarm, threads, warm_gen, doomed>>

\* finish_prewarm, last block: prewarm_thread is this thread.
WarmClear ==
    /\ warm_pc = "clear"
    /\ prewarm_thread' = "none"
    /\ warm_pc' = "none"
    /\ warm_gen' = NoGeneration
    /\ UNCHANGED <<available, counters, prewarm_generation, children, threads,
                   warm_worker, doomed>>

----------------------------------------------------------------------------
(* shutdown()                                                              *)

Shutdown ==
    /\ generation < MaxShutdowns
    /\ generation' = generation + 1
    /\ doomed' = doomed \cup available
    /\ available' = {}
    /\ total' = total - Cardinality(available)
                  - (IF prewarm_generation # NoGeneration THEN 1 ELSE 0)
    /\ prewarm_generation' = NoGeneration
    /\ desired_warm' = 1
    /\ UNCHANGED <<prewarm_thread, children, threads, warmer>>

ShutdownTerminates(w) ==
    /\ w \in doomed
    /\ doomed' = doomed \ {w}
    /\ Gone(w)
    /\ UNCHANGED <<available, counters, prewarm, threads, warmer>>

\* A child process dies by itself (crash, kill, memory limit).
Dies(w) ==
    /\ process[w] = "running"
    /\ process' = [process EXCEPT ![w] = "dead"]
    /\ UNCHANGED <<available, counters, prewarm, pool_generation, threads, warmer,
                   doomed>>

----------------------------------------------------------------------------
Acquire(c) ==
    \/ AcquireCancelled(c)
    \/ \E w \in Workers, unfit \in SUBSET available : AcquirePooled(c, w, unfit)
    \/ AcquireWaits(c)
    \/ AcquireSlot(c)

Start(c) == (\E w \in Workers : StartSucceeds(c, w)) \/ StartFails(c)

Release(c) == ReleaseReusable(c) \/ ReleaseDiscard(c)

Terminate(c) == \E w \in Workers : TerminateVictim(c, w)

WarmPool(c) ==
    \/ ReservePrewarm(c)
    \/ ReserveRefused(c)
    \/ FetchCancelEvent(c)
    \/ StartPrewarmThread(c)

WarmThread ==
    \/ WarmCheck
    \/ \E w \in Workers : WarmStartSucceeds(w)
    \/ WarmStartFails
    \/ FinishPrewarm
    \/ WarmTerminate
    \/ WarmClear

Init == PoolInit

Next ==
    \/ \E c \in Threads :
          \/ BeginAcquire(c)
          \/ Acquire(c)
          \/ Start(c)
          \/ Release(c)
          \/ Terminate(c)
          \/ WarmAtStartup(c)
          \/ WarmPool(c)
          \/ PrewarmThreadFails(c)
    \/ WarmThread
    \/ Shutdown
    \/ \E w \in Workers : ShutdownTerminates(w) \/ Dies(w)

Spec == Init /\ [][Next]_poolVars

\* Threads inside the pool's methods run on, starts and terminations are bounded
\* by their own timeouts, and operations end by their deadline.
Fairness ==
    /\ \A c \in Threads :
          /\ WF_poolVars(Start(c))
          /\ WF_poolVars(Release(c))
          /\ WF_poolVars(Terminate(c))
          /\ WF_poolVars(WarmPool(c))
    /\ WF_poolVars(WarmThread)
    /\ WF_poolVars(\E w \in Workers : ShutdownTerminates(w))

FairSpec == Spec /\ Fairness

----------------------------------------------------------------------------
(* Properties                                                              *)

Holders == {c \in Threads : held[c] # NoWorker}
Starters == {c \in Threads : pc[c] = "starting"}
Reserved == IF prewarm_generation # NoGeneration THEN 1 ELSE 0
Occupied ==
    Cardinality(available) + Cardinality(Holders) + Cardinality(Starters) + Reserved

\* Thread.start() has not raised.
ThreadsStart == prewarm_thread # "unstarted"

\* While threads can be started, the slot counter is exact: pooled workers, leased workers, starts under way
\* and the prewarm reservation, through every mix of evictions, failed starts,
\* replenishment and shutdown.  One lost slot would shrink the pool for good.
SlotsAccounted ==
    ThreadsStart => total = Occupied

\* A worker belongs to one place at a time: an operation that leased it, the
\* pool, the prewarm thread, or whoever is about to terminate it; never to two
\* operations at once, and, while threads can be started, never to nobody.
SoleOwner ==
    /\ \A c, d \in Threads :
          /\ c # d => victims[c] \cap victims[d] = {}
          /\ c # d /\ held[c] # NoWorker => held[c] # held[d]
          /\ held[c] \notin victims[d] \cup available \cup doomed
          /\ victims[c] \cap (available \cup doomed) = {}
          /\ warm_worker \notin victims[c]
          /\ held[c] = warm_worker => warm_worker = NoWorker
    /\ available \cap doomed = {}
    /\ warm_worker \notin available \cup doomed
    /\ \A w \in Workers :
          ThreadsStart /\ process[w] # "none" =>
              \/ w \in available \cup doomed
              \/ w = warm_worker
              \/ \E c \in Threads : w = held[c] \/ w \in victims[c]

\* Only workers of the current generation are in the pool: none that was started
\* or leased before a shutdown comes back.
OnlyCurrentPooled == \A w \in available : pool_generation[w] = generation

\* The pool as one: it never owns more processes than its maximum, its slots
\* are accounted for, every worker has one owner, and only the current
\* generation is pooled, whatever acquires, evictions, failed starts, prewarming
\* and a shutdown do meanwhile.
PoolConsistent ==
    /\ total \in 0..Maximum
    /\ SlotsAccounted
    /\ SoleOwner
    /\ OnlyCurrentPooled

\* What a thread holds, by where it is.
ThreadsInPlace ==
    \A c \in Threads :
        /\ pc[c] = "leased" => held[c] # NoWorker
        /\ held[c] # NoWorker => pc[c] \in {"leased", "reserve", "event", "spawn"}
        /\ pc[c] \in {"event", "spawn"} => slot[c] \in Nat

\* The one prewarm thread: while it runs prewarm_thread is set, and it holds a
\* worker only between its start and the end of finish_prewarm.
WarmerInPlace ==
    /\ warm_pc # "none" <=> prewarm_thread = "started"
    /\ warm_pc # "none" => warm_gen \in Nat
    /\ warm_pc \in {"none", "check", "starting", "clear"} => warm_worker = NoWorker
    /\ warm_pc = "terminate" => warm_worker # NoWorker

\* Whoever owns a worker owns a process: identities are free only when the
\* process is gone, so a new start never picks an owned one.
OwnedExist ==
    /\ \A w \in available \cup doomed : process[w] # "none"
    /\ warm_worker # NoWorker => process[warm_worker] # "none"
    /\ \A c \in Threads :
          /\ held[c] # NoWorker => process[held[c]] # "none"
          /\ \A w \in victims[c] : process[w] # "none"

\* A worker lost to a thread that could not be started keeps its slot, so the
\* counter is then only an upper bound of what is occupied.
SlotsBounded == Occupied <= total

OwnersInPlace ==
    /\ SoleOwner
    /\ OnlyCurrentPooled
    /\ ThreadsInPlace
    /\ WarmerInPlace
    /\ OwnedExist
    /\ prewarm_generation \in {NoGeneration, generation}

\* Inductive: the slots can be counted only because no worker has two owners,
\* and owners are told apart only by where the threads are.
PoolInvariant == TypeOK /\ SlotsBounded /\ SlotsAccounted /\ OwnersInPlace

\* The prewarm reservation has someone who will settle it.
SomeoneSettles ==
    \/ \E c \in Threads : pc[c] \in {"event", "spawn"} /\ slot[c] = prewarm_generation
    \/ warm_pc \in {"check", "starting", "finish"} /\ warm_gen = prewarm_generation

\* Prewarming is best effort, as the docstring of warm_worker_pool says: no
\* failure leaves a reservation behind that nobody will settle.  It does not hold
\* when Thread.start raises (README, deviations).
BestEffortPrewarm == prewarm_generation # NoGeneration => SomeoneSettles

\* Every reservation is settled, unless its thread could not be started:
\* acquires do not wait for a prewarm for ever.
ReservationSettles ==
    (prewarm_generation # NoGeneration)
        ~> (prewarm_generation = NoGeneration \/ ~ThreadsStart)

----------------------------------------------------------------------------
(* The pool together with the exchange with one worker.  The pool sees of  *)
(* an exchange only how it ends (ReleaseReusable or ReleaseDiscard) and an *)
(* exchange sees of the pool only that it leases the worker, so a model of *)
(* both looks at one of the two at a time: focus says at which, and the    *)
(* other rests in its initial state, in which none of its fair actions is  *)
(* enabled.                                                                *)

VARIABLE focus

workersVars == <<poolVars, exchangeVars, focus>>

WorkersInit ==
    /\ focus \in {"pool", "exchange"}
    /\ PoolInit
    /\ ExchangeInit

WorkersNext ==
    \/ focus = "pool" /\ Next /\ UNCHANGED <<exchangeVars, focus>>
    \/ focus = "exchange" /\ ExchangeNext /\ UNCHANGED <<poolVars, focus>>

WorkersSpec ==
    /\ WorkersInit /\ [][WorkersNext]_workersVars
    /\ Fairness
    /\ ExchangeFairness
=============================================================================
