------------------------------ MODULE Admission ------------------------------
(***************************************************************************)
(* class AdmissionController of src/src/math_anchor/runtime_control.py:    *)
(* the queue that bounds concurrency and requested memory for every call.  *)
(*                                                                         *)
(* acquire() runs under self.condition; it gives the lock up only in       *)
(* wait().  So queueing a ticket and the first turn of its loop are one    *)
(* step (Acquire), and every later turn is one step (Wake).  wait() has a  *)
(* 25 ms timeout, so a waiting call turns again whether or not a notify    *)
(* reaches it.                                                             *)
(*                                                                         *)
(* _Ticket is a dataclass with value equality.  _may_enter looks for the   *)
(* call's own ticket with `is', but deque.remove takes out the first EQUAL *)
(* ticket.  Both are modelled: a queued ticket is a record that carries    *)
(* its owner, i.e. which waiting call finds it with `is'; the owner of a   *)
(* ticket left behind by a call that has returned is Nobody.               *)
(***************************************************************************)
EXTENDS Integers, Sequences, FiniteSets, TLC

CONSTANTS
    Requests,             \* threads that call acquire
    Impatient,            \* those whose call may be cancelled or time out
    Nobody,
    MemorySizes,          \* memory_mb values requests ask for
    MaximumActive,        \* maximum_active
    MaximumBatchActive,   \* maximum_batch_active
    MaximumQueued,        \* maximum_queued
    MemoryBudget          \* memory_budget_mb

ASSUME AdmissionAssumption ==
    /\ Nobody \notin Requests
    /\ Impatient \subseteq Requests
    /\ IsFiniteSet(Requests)
    /\ MemorySizes \subseteq Nat
    /\ MaximumActive \in Nat
    /\ MaximumBatchActive \in Nat
    /\ MaximumQueued \in Nat
    /\ MemoryBudget \in Nat

VARIABLES
    queue,                \* self.queue: tickets with their owners
    active,               \* self.active
    active_batch,         \* self.active_batch
    memory_mb,            \* self.memory_mb
    stage,                \* where each call is
    ticket,               \* memory and class of each call
    cancelled,            \* calls whose cancel_event is set
    expired               \* calls whose deadline has passed

counters == <<active, active_batch, memory_mb>>
admissionVars == <<queue, counters, stage, ticket>>
signals == <<cancelled, expired>>
vars == <<admissionVars, signals>>

Classes == {"single", "batch"}
Tickets == [memory_mb : MemorySizes, request_class : Classes]
NoTicket == [memory_mb |-> 0, request_class |-> "single"]
Entries == [owner : Requests \cup {Nobody}, memory_mb : MemorySizes,
            request_class : Classes]
Refusals == {"overloaded", "cancelled", "timeout"}
Stages == {"out", "queued", "leased"} \cup Refusals

\* self.maximum_batch_active = min(maximum_batch_active, maximum_active)
BatchLimit ==
    IF MaximumBatchActive < MaximumActive THEN MaximumBatchActive ELSE MaximumActive

Leased == {c \in Requests : stage[c] = "leased"}
LeasedBatch == {c \in Leased : ticket[c].request_class = "batch"}
Waiting == {c \in Requests : stage[c] = "queued"}

\* One type invariant; the counters never go below zero.
TypeOK ==
    /\ queue \in Seq(Entries)
    /\ active \in Nat
    /\ active_batch \in Nat
    /\ memory_mb \in Int
    /\ stage \in [Requests -> Stages]
    /\ ticket \in [Requests -> Tickets \cup {NoTicket}]
    /\ cancelled \subseteq Requests
    /\ expired \subseteq Requests

AdmissionInit ==
    /\ queue = <<>>
    /\ active = 0
    /\ active_batch = 0
    /\ memory_mb = 0
    /\ stage = [c \in Requests |-> "out"]
    /\ ticket = [c \in Requests |-> NoTicket]

----------------------------------------------------------------------------
(* Tickets in the queue                                                    *)

Entry(c, t) ==
    [owner |-> c, memory_mb |-> t.memory_mb, request_class |-> t.request_class]

\* _Ticket.__eq__, generated by @dataclass.
SameTicket(entry, t) ==
    /\ entry.memory_mb = t.memory_mb
    /\ entry.request_class = t.request_class

\* self.queue.remove(ticket): the first equal ticket goes.
RemoveFirstEqual(q, t) ==
    LET i == CHOOSE i \in DOMAIN q :
                /\ SameTicket(q[i], t)
                /\ \A j \in 1..(i - 1) : ~SameTicket(q[j], t)
    IN  IF \E k \in DOMAIN q : SameTicket(q[k], t)
        THEN SubSeq(q, 1, i - 1) \o SubSeq(q, i + 1, Len(q))
        ELSE q

\* The queue once call c, which holds ticket t, has left acquire().
Without(q, c, t) ==
    LET rest == RemoveFirstEqual(q, t)
    IN  [i \in DOMAIN rest |->
           IF rest[i].owner = c THEN [rest[i] EXCEPT !.owner = Nobody] ELSE rest[i]]

\* Mutant: strict first come, first served, while batches still yield to singles.
OwnTurnFifo(c, t, q) == q # <<>> /\ q[1].owner = c

\* The loop of _may_enter: a single passes queued batches, a batch nobody.
OwnTurn(c, t, q) ==
    \E i \in DOMAIN q :
        /\ q[i].owner = c
        /\ \A j \in 1..(i - 1) :
              t.request_class = "single" /\ q[j].request_class = "batch"

\* A batch keeps to its share and yields to every queued single.
BatchHasRoom(t, q) ==
    t.request_class = "batch" =>
        /\ active_batch < BatchLimit
        /\ \A i \in DOMAIN q : q[i].request_class # "single"

\* Mutant: the budget is compared before the new request is added.
FitsWithoutSelf(t) == memory_mb <= MemoryBudget

MemoryFits(t) == memory_mb + t.memory_mb <= MemoryBudget

\* _may_enter(ticket)
MayEnter(c, t, q) ==
    /\ active < MaximumActive
    /\ MemoryFits(t)
    /\ BatchHasRoom(t, q)
    /\ OwnTurn(c, t, q)

----------------------------------------------------------------------------
(* acquire()                                                               *)

IsBatch(t) == IF t.request_class = "batch" THEN 1 ELSE 0

Refuse(c, t, q, reason) ==
    /\ queue' = Without(q, c, t)
    /\ stage' = [stage EXCEPT ![c] = reason]
    /\ UNCHANGED counters

TakeLease(c, t, q) ==
    /\ queue' = Without(q, c, t)
    /\ stage' = [stage EXCEPT ![c] = "leased"]
    /\ active' = active + 1
    /\ memory_mb' = memory_mb + t.memory_mb
    /\ active_batch' = active_batch + IsBatch(t)

KeepWaiting(c, q) ==
    /\ queue' = q
    /\ stage' = [stage EXCEPT ![c] = "queued"]
    /\ UNCHANGED counters

\* One turn of the loop of acquire, with queue q.
Turn(c, t, q) ==
    \/ c \in cancelled /\ Refuse(c, t, q, "cancelled")
    \/ c \notin cancelled /\ MayEnter(c, t, q) /\ TakeLease(c, t, q)
    \/ /\ c \notin cancelled
       /\ ~MayEnter(c, t, q)
       /\ \/ c \in expired /\ Refuse(c, t, q, "timeout")
          \/ c \notin expired /\ KeepWaiting(c, q)

QueueFull == Len(queue) >= MaximumQueued

Acquire(c, t) ==
    /\ stage[c] = "out"
    /\ ticket' = [ticket EXCEPT ![c] = t]
    /\ \/ /\ QueueFull
          /\ stage' = [stage EXCEPT ![c] = "overloaded"]
          /\ UNCHANGED <<queue, counters>>
       \/ ~QueueFull /\ Turn(c, t, Append(queue, Entry(c, t)))
    /\ UNCHANGED signals

Wake(c) ==
    /\ stage[c] = "queued"
    /\ Turn(c, ticket[c], queue)
    /\ UNCHANGED <<ticket, signals>>

\* The call is over; the thread's next call has a new ticket, event and deadline.
Finish(c) ==
    /\ stage' = [stage EXCEPT ![c] = "out"]
    /\ ticket' = [ticket EXCEPT ![c] = NoTicket]
    /\ cancelled' = cancelled \ {c}
    /\ expired' = expired \ {c}
    /\ UNCHANGED queue

GiveUp(c) ==
    /\ stage[c] \in Refusals
    /\ Finish(c)
    /\ UNCHANGED counters

\* Mutant: the batch count is not given back.
ReleaseKeepsBatch(c) ==
    /\ stage[c] = "leased"
    /\ active' = active - 1
    /\ memory_mb' = memory_mb - ticket[c].memory_mb
    /\ UNCHANGED active_batch
    /\ Finish(c)

\* release(lease)
Release(c) ==
    /\ stage[c] = "leased"
    /\ active' = active - 1
    /\ memory_mb' = memory_mb - ticket[c].memory_mb
    /\ active_batch' = active_batch - IsBatch(ticket[c])
    /\ Finish(c)

----------------------------------------------------------------------------
(* The callers' cancel events and deadlines.                               *)

Cancel(c) ==
    /\ c \in Impatient \ cancelled
    /\ stage[c] \in {"out", "queued"}
    /\ cancelled' = cancelled \cup {c}
    /\ UNCHANGED <<admissionVars, expired>>

Expire(c) ==
    /\ c \in Impatient \ expired
    /\ stage[c] \in {"out", "queued"}
    /\ expired' = expired \cup {c}
    /\ UNCHANGED <<admissionVars, cancelled>>

Init == AdmissionInit /\ cancelled = {} /\ expired = {}

Next ==
    \E c \in Requests :
        \/ \E t \in Tickets : Acquire(c, t)
        \/ Wake(c)
        \/ GiveUp(c)
        \/ Release(c)
        \/ Cancel(c)
        \/ Expire(c)

Spec == Init /\ [][Next]_vars

\* Waiting calls poll every 25 ms, every admitted call ends (run_operation has a
\* deadline and releases in a finally clause), and deadlines pass.
Fairness ==
    \A c \in Requests : /\ WF_vars(Wake(c))
                        /\ WF_vars(Release(c))
                        /\ WF_vars(stage[c] = "queued" /\ Expire(c))

FairSpec == Spec /\ Fairness
----------------------------------------------------------------------------
(* Properties                                                              *)

\* The counters of the controller are those of the leases that are out, over
\* any interleaving of admissions, refusals and releases; a leaked or a doubly
\* released lease would shift them for the life of the process.
LeasesAccounted ==
    /\ active = Cardinality(Leased)
    /\ active_batch = Cardinality(LeasedBatch)

\* The capacity contract of REVIEW_CONTRACT.md, in terms of the calls that hold
\* leases and not of the counters that are meant to count them: active calls,
\* batch calls, queued tickets and requested memory stay within their limits.
CapacityRespected ==
    /\ Cardinality(Leased) <= MaximumActive
    /\ Cardinality(LeasedBatch) <= BatchLimit
    /\ Len(queue) <= MaximumQueued
    /\ memory_mb <= MemoryBudget

\* Inductive: the limits are enforced on the counters, so they bound the calls
\* only together with the accounting.
InductiveInvariant ==
    /\ TypeOK
    /\ LeasesAccounted
    /\ CapacityRespected
    /\ \A c \in Requests : stage[c] \in {"queued", "leased"} => ticket[c] \in Tickets

\* The leases that are out, lined up, with the running total of what they asked for.
RunningTotal(order, sum, n, asked) ==
    /\ \A i, j \in 1..n : order[i] = order[j] => i = j
    /\ sum[0] = 0
    /\ \A i \in 1..n : sum[i] = sum[i - 1] + asked[order[i]].memory_mb
    /\ \A i, j \in 0..n : i <= j => sum[i] <= sum[j]

\* The memory counter is the sum of what the leases that are out asked for.
MemoryAccounted ==
    LET n == Cardinality(Leased)
    IN  \E order \in [1..n -> Leased] :
            \E sum \in [0..n -> 0..MemoryBudget] :
                RunningTotal(order, sum, n, ticket) /\ sum[n] = memory_mb

\* The places of the queue whose ticket equals t, and the calls that wait with t.
Places(q, t) == {i \in DOMAIN q : SameTicket(q[i], t)}
Asking(t) == {c \in Waiting : ticket[c] = t}

\* For every shape of ticket the queue holds as many tickets as calls of that
\* shape wait, although a call may remove another call's ticket.  So
\* queue.remove never fails, and the queue bound counts waiting calls.
TicketsMatchWaiters ==
    \A t \in Tickets : Cardinality(Places(queue, t)) = Cardinality(Asking(t))

\* queue[i] is the first single ticket of the queue and its call is waiting.
HeadSingle(i) ==
    /\ queue[i].request_class = "single"
    /\ queue[i].owner # Nobody
    /\ \A j \in 1..(i - 1) : queue[j].request_class = "batch"

OnlyBatchLeases == Leased = LeasedBatch

\* Batches never keep the first waiting single out by taking every lease: with
\* only batches running it may enter as soon as its memory fits.
LaneKept ==
    \A i \in DOMAIN queue :
        LET c == queue[i].owner
        IN  HeadSingle(i) /\ OnlyBatchLeases
              /\ memory_mb + ticket[c].memory_mb <= MemoryBudget
            => MayEnter(c, ticket[c], queue)

\* The lane as the documentation states it ("leaving one lane for an interactive
\* math.run"): with only batches running, the first waiting single may enter.
\* It does not hold where memory runs out first (README, deviations).
InteractiveLane ==
    \A i \in DOMAIN queue :
        HeadSingle(i) /\ OnlyBatchLeases
          => MayEnter(queue[i].owner, ticket[queue[i].owner], queue)

\* Nobody waits on nothing: when no lease is out, some waiting call may enter.
NoDeadQueue ==
    active = 0 /\ Waiting # {} => \E c \in Waiting : MayEnter(c, ticket[c], queue)

\* The queue can be dead only through the loss of a ticket to another call's
\* removal: while every queued ticket has its owner, the priority of singles
\* over batches, the batch share and the memory budget never block each other.
OnlyLostTicketsBlock ==
    (\A i \in DOMAIN queue : queue[i].owner # Nobody) => NoDeadQueue

\* What cancelled, refused and late calls may not upset: the memory counter, the
\* number of tickets of each shape, the lane batches leave to a single call,
\* and that nothing but a lost ticket keeps an idle controller from admitting
\* (acquire, release, _may_enter).
QueueConsistent ==
    /\ MemoryAccounted
    /\ TicketsMatchWaiters
    /\ LaneKept
    /\ OnlyLostTicketsBlock

\* A ticket that has an owner is that of a waiting call and says what it asked for.
OwnersWait ==
    \A i \in DOMAIN queue :
        queue[i].owner # Nobody =>
            /\ stage[queue[i].owner] = "queued"
            /\ SameTicket(queue[i], ticket[queue[i].owner])

\* Inductive, for the queue: shapes are counted, owners are those who wait.
QueueInvariant ==
    /\ InductiveInvariant
    /\ MemoryAccounted
    /\ TicketsMatchWaiters
    /\ OwnersWait

\* A configuration like that of the code's defaults: batches may not take every
\* lease, they have a lane of their own, and any one request fits the budget.
LanesConfigured ==
    /\ MaximumBatchActive \in 1..(MaximumActive - 1)
    /\ \A m \in MemorySizes : m <= MemoryBudget

\* For model checking: calls are interchangeable.
RequestSymmetry == Permutations(Requests)
=============================================================================
