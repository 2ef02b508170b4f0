----------------------------- MODULE McpServer ------------------------------
(***************************************************************************)
(* The ingress of the MCP server, mcp_server.py: _run_cancellable, behind  *)
(* math.run and math.batch.                                                *)
(*                                                                         *)
(* The event loop runs the coroutines, one step between two awaits at a    *)
(* time; the calculation itself is a job of the default thread executor    *)
(* that no cancellation of its coroutine stops.  An ingress slot stands    *)
(* for a calculation in flight: it is taken without waiting, and given     *)
(* back by the coroutine or, when the client cancelled the call, by the    *)
(* done callback of the job.  A caller may come again once it is idle.     *)
(*                                                                         *)
(* The last part puts the ingress beside CircuitBreaker, the second gate a *)
(* tool call passes before it may queue for a worker.                      *)
(***************************************************************************)
EXTENDS Naturals, FiniteSets, CircuitBreaker

CONSTANTS
    Calls,          \* concurrent tool calls of the session
    IngressLimit,   \* _MCP_INGRESS_LIMIT
    ExecutorThreads         \* threads of the default executor

ASSUME McpAssumption ==
    /\ IsFiniteSet(Calls)
    /\ IngressLimit \in Nat \ {0}
    /\ ExecutorThreads \in Nat \ {0}

VARIABLES
    coroutine,         \* the coroutine: "idle", "awaiting", "answered" or "cancelled"
    job,        \* its executor job: "none", "queued", "running" or "finished"
    event,      \* cancel_event is set
    released,   \* the flag of release_ingress
    slots       \* free slots of _MCP_INGRESS

mcpVars == <<coroutine, job, event, released, slots>>

IngressInit ==
    /\ coroutine = [c \in Calls |-> "idle"]
    /\ job = [c \in Calls |-> "none"]
    /\ event = [c \in Calls |-> FALSE]
    /\ released = [c \in Calls |-> TRUE]
    /\ slots = IngressLimit

\* release_ingress: at most once for a call, whoever asks.
release_ingress(c) ==
    /\ released' = [released EXCEPT ![c] = TRUE]
    /\ slots' = IF released[c] THEN slots ELSE slots + 1

\* acquire(blocking=False) succeeded: the job is submitted before any await.
EnterIngress(c) ==
    /\ coroutine[c] = "idle" /\ slots > 0
    /\ slots' = slots - 1
    /\ released' = [released EXCEPT ![c] = FALSE]
    /\ event' = [event EXCEPT ![c] = FALSE]
    /\ job' = [job EXCEPT ![c] = "queued"]
    /\ coroutine' = [coroutine EXCEPT ![c] = "awaiting"]

\* Ingress is full: E_OVERLOADED at once, no job and no slot.
Overloaded(c) ==
    /\ coroutine[c] = "idle" /\ slots = 0
    /\ coroutine' = [coroutine EXCEPT ![c] = "answered"]
    /\ UNCHANGED <<job, event, released, slots>>

\* asyncio.to_thread, on a free thread of the executor.
StartJob(c) ==
    /\ job[c] = "queued"
    /\ Cardinality({d \in Calls : job[d] = "running"}) < ExecutorThreads
    /\ job' = [job EXCEPT ![c] = "running"]
    /\ UNCHANGED <<coroutine, event, released, slots>>

\* run_operation or run_batch returned or raised, cancelled or not.
FinishJob(c) ==
    /\ job[c] = "running"
    /\ job' = [job EXCEPT ![c] = "finished"]
    /\ UNCHANGED <<coroutine, event, released, slots>>

\* The await of the shielded task ends with a result or an exception.
Deliver(c) ==
    /\ coroutine[c] = "awaiting" /\ job[c] = "finished"
    /\ release_ingress(c)
    /\ job' = [job EXCEPT ![c] = "none"]
    /\ coroutine' = [coroutine EXCEPT ![c] = "answered"]
    /\ UNCHANGED event

\* A cancelled coroutine that lets its slot go before the job is over.
CancelReleases(c) ==
    /\ coroutine[c] = "awaiting"
    /\ event' = [event EXCEPT ![c] = TRUE]
    /\ coroutine' = [coroutine EXCEPT ![c] = "cancelled"]
    /\ release_ingress(c)
    /\ UNCHANGED job

\* CancelledError, even when the job has finished meanwhile: tell the job and
\* leave the slot to its done callback.
Cancel(c) ==
    /\ coroutine[c] = "awaiting"
    /\ event' = [event EXCEPT ![c] = TRUE]
    /\ coroutine' = [coroutine EXCEPT ![c] = "cancelled"]
    /\ UNCHANGED <<job, released, slots>>

\* A done callback that is only installed on jobs still running.
DoneOfRunning(c) ==
    /\ coroutine[c] = "cancelled" /\ job[c] = "finished" /\ ~event[c]
    /\ release_ingress(c)
    /\ job' = [job EXCEPT ![c] = "none"]
    /\ coroutine' = [coroutine EXCEPT ![c] = "answered"]
    /\ UNCHANGED event

\* The done callback of an abandoned job.
DoneCallback(c) ==
    /\ coroutine[c] = "cancelled" /\ job[c] = "finished"
    /\ release_ingress(c)
    /\ job' = [job EXCEPT ![c] = "none"]
    /\ coroutine' = [coroutine EXCEPT ![c] = "answered"]
    /\ UNCHANGED event

\* The client goes on to its next call.
NextCall(c) ==
    /\ coroutine[c] = "answered"
    /\ coroutine' = [coroutine EXCEPT ![c] = "idle"]
    /\ UNCHANGED <<job, event, released, slots>>

IngressNext == \E c \in Calls :
    \/ EnterIngress(c) \/ Overloaded(c) \/ StartJob(c) \/ FinishJob(c)
    \/ Deliver(c) \/ Cancel(c) \/ DoneCallback(c) \/ NextCall(c)

\* The executor serves its queue in order, a calculation ends by its deadline
\* (Sandbox, EveryCallReturns), and the event loop runs what is due.
IngressFairness == \A c \in Calls :
    /\ SF_mcpVars(StartJob(c))
    /\ WF_mcpVars(FinishJob(c) \/ Deliver(c) \/ DoneCallback(c))

IngressSpec == IngressInit /\ [][IngressNext]_mcpVars /\ IngressFairness

-----------------------------------------------------------------------------
(* Properties.                                                             *)

InFlight == {c \in Calls : job[c] \in {"queued", "running"}}
SlotHolders == {c \in Calls : ~released[c]}

\* The bound of _run_cancellable: calculations in flight never exceed the
\* ingress limit, however many calls were cancelled, and no slot is lost or
\* given back twice.
IngressAccounted ==
    /\ Cardinality(InFlight) + slots <= IngressLimit
    /\ slots + Cardinality(SlotHolders) = IngressLimit

\* One type invariant.
IngressTypeOK ==
    /\ coroutine \in [Calls -> {"idle", "awaiting", "answered", "cancelled"}]
    /\ job \in [Calls -> {"none", "queued", "running", "finished"}]
    /\ event \in [Calls -> BOOLEAN]
    /\ released \in [Calls -> BOOLEAN]
    /\ slots \in Nat

\* Inductive: a job is in the executor exactly while its call has not released
\* its slot, so release_ingress is never a no-op when its coroutine or its done
\* callback runs it, and the count of slots follows the calls.
IngressInvariant ==
    /\ IngressTypeOK
    /\ \A c \in Calls : /\ ~released[c] <=> job[c] # "none"
                        /\ job[c] # "none" <=> coroutine[c] \in {"awaiting", "cancelled"}
    /\ slots + Cardinality(SlotHolders) = IngressLimit

\* Every slot comes back: the thread of a cancelled call ends and its
\* callback runs, so the server does not stay overloaded.
SlotsComeBack == \A c \in Calls : ~released[c] ~> released[c]

-----------------------------------------------------------------------------
(* Both gates.  They share no state (the calls the breaker sees come from  *)
(* batches and the command line as well), so a behaviour looks at one of   *)
(* them at a time; focus says at which, and fairness is asked of the one   *)
(* it looks at.                                                            *)
(*                                                                         *)
(* Checked with three callers and a threshold of two: enough for a stale   *)
(* completion, a probe and a refused call to overlap.  Three tool calls    *)
(* for two ingress slots and one executor thread: one call is refused, and *)
(* one waits for the thread of a cancelled one.  The run checks liveness,  *)
(* so neither is declared symmetric.                                       *)

VARIABLE focus

gatesVars == <<vars, mcpVars, focus>>

GatesInit == focus \in {"breaker", "ingress"} /\ Init /\ IngressInit

BreakerTurn == focus = "breaker" /\ UNCHANGED <<mcpVars, focus>>
IngressTurn == focus = "ingress" /\ UNCHANGED <<vars, focus>>

GatesNext == (BreakerTurn /\ Next) \/ (IngressTurn /\ IngressNext)

\* Fairness of CircuitBreaker, where it is the one that runs.
BreakerFairness ==
    /\ \A c \in Callers : /\ WF_vars(BreakerTurn /\ Enter(c))
                          /\ WF_vars(BreakerTurn /\ Succeed(c))
    /\ WF_vars(BreakerTurn /\ ClockAdvances)

GatesSpec ==
    /\ GatesInit /\ [][GatesNext]_gatesVars
    /\ BreakerFairness
    /\ IngressFairness
=============================================================================
