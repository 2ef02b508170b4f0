--------------------------- MODULE RuntimeService ---------------------------
(***************************************************************************)
(* The desktop client of the calculation runtime:                          *)
(* Sources/MathAnchorCore/Services/MathRuntimeService.swift, with the      *)
(* child process it drives, src/math_anchor/app_runtime.py.                *)
(*                                                                         *)
(* Launches, stops and request writes are jobs of the serial writeQueue;   *)
(* a reader per generation owns stdout on the serial readerQueue; timers   *)
(* and task cancellation run anywhere.  All share state under `lock`, so a *)
(* step below is one critical section with the resumptions that follow it, *)
(* and a job with several sections takes several steps at the queue head.  *)
(* One operation per caller; request <<c, n>> is its n-th attempt (UUIDs). *)
(***************************************************************************)
EXTENDS Naturals, Sequences, FiniteSets, SequencesExt

CONSTANTS
    Callers,        \* the tasks inside perform
    Kind,           \* [Callers -> {"evaluate", "convert", "currency"}]
    MaxFaults       \* bound: crashes, junk lines, failed launches, cancellations
                    \* and timers firing while the queues are busy

ASSUME ServiceAssumption ==
    /\ Kind \in [Callers -> {"evaluate", "convert", "currency"}]
    /\ MaxFaults \in Nat

VARIABLES
    pc,             \* where each caller's task is
    attempt,        \* 1, or 2 once perform retries
    res,            \* what the caller's continuation was last resumed with
    cancelled,      \* tasks cancelled so far
    queue,          \* writeQueue
    proc,           \* generation of the held process and handles, 0 for nil
    alive,          \* generations whose process is running
    cur,            \* currentGeneration
    ready,          \* readerGeneration
    waiters,        \* startWaiters
    pending,        \* pendingRequests
    timed,          \* pending requests whose timer is running
    heard,          \* of those, the ones with output since the timer started
    startTimer,     \* the current generation's startup timer may still act
    readers,        \* readerQueue: generations, the active one first
    expecting,      \* the active reader still expects "ready"
    line,           \* the line the active reader took and has not handled
    inbox, outbox,  \* stdin and stdout of the held process
    greeted,        \* that process has written its ready line
    faults

client == <<pc, attempt, res, cancelled>>
timers == <<timed, heard, startTimer>>
reading == <<readers, expecting, line>>
child == <<alive, inbox, outbox, greeted, faults>>
vars == <<client, queue, proc, cur, ready, waiters, pending, timers, reading, child>>

Requests == Callers \X {1, 2}
Id(c) == <<c, attempt[c]>>
StopBy(who) == [op |-> "stop", by |-> who]   \* stopProcess, and who asked
Stop == StopBy("service")
None == [k |-> "none"]

abortsWorkerWhenCancelled(c) == Kind[c] = "evaluate"

Init ==
    /\ pc = [c \in Callers |-> "idle"]
    /\ attempt = [c \in Callers |-> 1]
    /\ res = [c \in Callers |-> "none"]
    /\ cancelled = {}
    /\ queue = <<[op |-> "launch"]>>
    /\ proc = 0 /\ cur = 0 /\ ready = 0 /\ alive = {}
    /\ waiters = {} /\ pending = {}
    /\ timed = {} /\ heard = {} /\ startTimer = FALSE
    /\ readers = <<>> /\ expecting = TRUE /\ line = None
    /\ inbox = <<>> /\ outbox = <<>> /\ greeted = FALSE /\ faults = 0

-----------------------------------------------------------------------------
(* Resumptions.  A continuation leaves the collection that held it in the  *)
(* same critical section; its task runs on later.                          *)

\* Callers S are resumed with outcome r.
Resumed(S, r) ==
    /\ pc' = [c \in Callers |-> IF c \in S THEN "resumed" ELSE pc[c]]
    /\ res' = [c \in Callers |-> IF c \in S THEN r ELSE res[c]]
    /\ UNCHANGED <<attempt, cancelled>>

OwnersOf(R) == {r[1] : r \in R}

\* The requests R leave pendingRequests, and their timers become no-ops.
Forget(R) ==
    /\ pending' = pending \ R
    /\ timed' = timed \ R
    /\ heard' = heard \ R

-----------------------------------------------------------------------------
(* The caller's task: perform, ensureStarted, send.                        *)

EnsureStarted(c) ==
    /\ pc[c] \in {"idle", "call"}
    /\ pc' = [pc EXCEPT ![c] = "start"]
    /\ queue' = Append(queue, [op |-> "start", c |-> c])
    /\ UNCHANGED <<attempt, res, cancelled, proc, cur, ready, waiters, pending,
                   timers, reading, child>>

\* Registration and the capture of inputHandle are one critical section.
Send(c) ==
    /\ pc[c] = "resumed" /\ res[c] = "started"
    /\ IF c \in cancelled
       THEN /\ Resumed({c}, "cancelled")
            /\ UNCHANGED <<queue, pending>>
       ELSE /\ pc' = [pc EXCEPT ![c] = "sent"]
            /\ pending' = pending \cup {Id(c)}
            /\ queue' = Append(queue, [op |-> "write", r |-> Id(c), handle |-> proc])
            /\ UNCHANGED <<attempt, res, cancelled>>
    /\ UNCHANGED <<proc, cur, ready, waiters, timers, reading, child>>

\* catch invalidResponse: stop whatever runs and go round once more.
Rebuild(c) ==
    /\ pc[c] = "resumed" /\ res[c] = "invalidResponse" /\ attempt[c] = 1
    /\ pc' = [pc EXCEPT ![c] = "call"]
    /\ attempt' = [attempt EXCEPT ![c] = 2]
    /\ queue' = Append(queue, StopBy("retry"))
    /\ UNCHANGED <<res, cancelled, proc, cur, ready, waiters, pending, timers,
                   reading, child>>

\* Every other outcome, an answer or an error, leaves perform.
Return(c) ==
    /\ pc[c] = "resumed" /\ res[c] # "started"
    /\ res[c] = "invalidResponse" => attempt[c] = 2
    /\ pc' = [pc EXCEPT ![c] = "done"]
    /\ res' = [res EXCEPT ![c] = "none"]
    /\ attempt' = [attempt EXCEPT ![c] = 1]
    /\ cancelled' = cancelled \ {c}
    /\ UNCHANGED <<queue, proc, cur, ready, waiters, pending, timers, reading, child>>

-----------------------------------------------------------------------------
(* Jobs of the writeQueue.                                                 *)

Job(op) == queue # <<>> /\ Head(queue).op = op

\* Mutant: the waiters are failed but stay in startWaiters.
stopProcessOnQueueKeepsWaiters ==
    /\ Resumed(waiters \cup OwnersOf(pending), "invalidResponse")
    /\ UNCHANGED waiters
    /\ Forget(pending)
    /\ alive' = alive \ {proc}
    /\ proc' = 0
    /\ inbox' = <<>> /\ outbox' = <<>> /\ greeted' = FALSE

\* stopProcessOnQueue: clear the handles, fail everyone waiting, terminate.
stopProcessOnQueue ==
    /\ Resumed(waiters \cup OwnersOf(pending), "invalidResponse")
    /\ waiters' = {}
    /\ Forget(pending)
    /\ alive' = alive \ {proc}
    /\ proc' = 0
    /\ inbox' = <<>> /\ outbox' = <<>> /\ greeted' = FALSE

RunStop ==
    /\ Job("stop")
    /\ stopProcessOnQueue
    /\ queue' = Tail(queue)
    /\ UNCHANGED <<cur, ready, startTimer, reading, faults>>

\* First section of ensureStarted's job: share a running process, or begin a
\* launch, which stops what is held.
RunStart ==
    /\ Job("start")
    /\ IF proc # 0 /\ proc \in alive
       THEN /\ queue' = <<[Head(queue) EXCEPT !.op = "park"]>> \o Tail(queue)
            /\ UNCHANGED <<client, proc, waiters, pending, timed, heard, alive,
                           inbox, outbox, greeted>>
       ELSE /\ stopProcessOnQueue
            /\ queue' = <<[op |-> "run", then |-> <<[Head(queue) EXCEPT !.op = "park"]>>]>>
                        \o Tail(queue)
    /\ UNCHANGED <<cur, ready, startTimer, reading, faults>>

\* init's launch has no caller to park.
RunLaunch ==
    /\ Job("launch")
    /\ stopProcessOnQueue
    /\ queue' = <<[op |-> "run", then |-> <<>>]>> \o Tail(queue)
    /\ UNCHANGED <<cur, ready, startTimer, reading, faults>>

\* launchProcessOnQueue after process.run succeeded.
Spawn ==
    /\ Job("run")
    /\ cur' = cur + 1
    /\ proc' = cur + 1
    /\ alive' = alive \cup {cur + 1}
    /\ heard' = timed
    /\ startTimer' = TRUE
    /\ readers' = Append(readers, cur + 1)
    /\ queue' = Head(queue).then \o Tail(queue)
    /\ UNCHANGED <<client, ready, waiters, pending, timed, expecting, line, inbox,
                   outbox, greeted, faults>>

\* runtimeLaunch found nothing, or process.run threw.
SpawnFails ==
    /\ Job("run")
    /\ faults < MaxFaults
    /\ faults' = faults + 1
    /\ Resumed({j.c : j \in Range(Head(queue).then)}, "runtimeNotInstalled")
    /\ queue' = Tail(queue)
    /\ UNCHANGED <<proc, cur, ready, waiters, pending, timers, reading, alive,
                   inbox, outbox, greeted>>

\* Mutant: the handshake that came before the caller parked is not noticed.
ParkRegardless ==
    /\ Job("park")
    /\ waiters' = waiters \cup {Head(queue).c}
    /\ queue' = Tail(queue)
    /\ UNCHANGED <<client, proc, cur, ready, pending, timers, reading, child>>

\* Last section of the start job: never park on a resolved generation.
Park ==
    /\ Job("park")
    /\ LET c == Head(queue).c IN
       IF ready = cur
       THEN Resumed({c}, "started") /\ UNCHANGED waiters
       ELSE waiters' = waiters \cup {c} /\ UNCHANGED client
    /\ queue' = Tail(queue)
    /\ UNCHANGED <<proc, cur, ready, pending, timers, reading, child>>

\* send's write job: a nil, closed or broken handle fails the request.
Write ==
    /\ Job("write")
    /\ LET r == Head(queue).r
           open == Head(queue).handle # 0 /\ Head(queue).handle = proc /\ proc \in alive
       IN IF open
          THEN /\ inbox' = Append(inbox, r)
               /\ timed' = timed \cup (pending \cap {r})
               /\ UNCHANGED <<client, pending, heard, outbox, greeted>>
          ELSE /\ Resumed(OwnersOf(pending \cap {r}), "invalidResponse")
               /\ Forget({r})
               /\ UNCHANGED <<inbox, outbox, greeted>>
    /\ queue' = Tail(queue)
    /\ UNCHANGED <<proc, alive, cur, ready, waiters, startTimer, reading, faults>>

-----------------------------------------------------------------------------
(* Timers and cancellation, on any thread.                                 *)

Quiet ==
    /\ queue = <<>> /\ line = None /\ outbox = <<>>
    /\ \A c \in Callers : pc[c] \notin {"resumed", "call"}

\* A timer of seconds finds the queues quiet, or races what they are doing.
TimerFires ==
    \/ Quiet /\ UNCHANGED faults
    \/ ~Quiet /\ faults < MaxFaults /\ faults' = faults + 1

scheduleStartupTimeout ==
    /\ startTimer /\ ready # cur
    /\ TimerFires
    /\ startTimer' = FALSE
    /\ Resumed(waiters, "timedOut")
    /\ waiters' = {}
    /\ queue' = Append(queue, Stop)
    /\ UNCHANGED <<proc, cur, ready, pending, timed, heard, reading, alive, inbox,
                   outbox, greeted>>

\* A silent worker nobody else waits on is treated as hung and stopped.
scheduleRequestTimeout(r) ==
    /\ r \in timed
    /\ TimerFires
    /\ Resumed({r[1]}, "timedOut")
    /\ Forget({r})
    /\ queue' = IF r \notin heard /\ pending = {r} THEN Append(queue, Stop) ELSE queue
    /\ UNCHANGED <<proc, cur, ready, waiters, startTimer, reading, alive, inbox,
                   outbox, greeted>>

\* The requests R are cancelled; those that abort the worker stop it.
CancelRequests(R) ==
    /\ pc' = [c \in Callers |-> IF c \in OwnersOf(R) THEN "resumed" ELSE pc[c]]
    /\ res' = [c \in Callers |-> IF c \in OwnersOf(R) THEN "cancelled" ELSE res[c]]
    /\ Forget(R)
    /\ queue' = IF \E c \in OwnersOf(R) : abortsWorkerWhenCancelled(c)
                THEN Append(queue, Stop) ELSE queue
    /\ faults < MaxFaults
    /\ faults' = faults + 1
    /\ UNCHANGED <<attempt, proc, cur, ready, waiters, startTimer, reading, alive,
                   inbox, outbox, greeted>>

\* The caller's task is cancelled; onCancel runs cancelRequest.
CancelTask(c) ==
    /\ pc[c] \notin {"idle", "done"} /\ c \notin cancelled
    /\ cancelled' = cancelled \cup {c}
    /\ CancelRequests(pending \cap {Id(c)})

\* The calculator store replaces its calculation.
cancelPendingEvaluation ==
    LET R == {r \in pending : abortsWorkerWhenCancelled(r[1])} IN
    /\ R # {}
    /\ CancelRequests(R)
    /\ UNCHANGED cancelled

-----------------------------------------------------------------------------
(* The reader of the active generation.                                    *)

Gen == Head(readers)

\* The reader loop returns and the next generation's reader starts.
NextReader ==
    /\ readers' = Tail(readers)
    /\ expecting' = TRUE
    /\ line' = None

\* The loop finds its process replaced, cleared or dead.
ReaderTerminated ==
    /\ readers # <<>> /\ line = None
    /\ ~(cur = Gen /\ proc = Gen /\ Gen \in alive)
    /\ NextReader
    /\ IF cur = Gen
       THEN /\ Resumed(waiters \cup OwnersOf(pending), "invalidResponse")
            /\ waiters' = {}
            /\ Forget(pending)
            /\ queue' = Append(queue, Stop)
       ELSE UNCHANGED <<client, waiters, pending, timed, heard, queue>>
    /\ UNCHANGED <<proc, cur, ready, startTimer, child>>

\* A chunk is read; the bytes alone count as activity.
ReadLine ==
    /\ readers # <<>> /\ line = None
    /\ proc = Gen /\ outbox # <<>>
    /\ line' = Head(outbox)
    /\ outbox' = Tail(outbox)
    /\ heard' = timed
    /\ UNCHANGED <<client, queue, proc, cur, ready, waiters, pending, timed,
                   startTimer, readers, expecting, alive, inbox, greeted, faults>>

resolveReady ==
    /\ line.k = "ready" /\ expecting
    /\ expecting' = FALSE /\ line' = None
    /\ IF cur = Gen
       THEN /\ ready' = Gen
            /\ startTimer' = FALSE
            /\ Resumed(waiters, "started")
            /\ waiters' = {}
       ELSE UNCHANGED <<client, ready, startTimer, waiters>>
    /\ UNCHANGED <<queue, proc, cur, pending, timed, heard, readers, child>>

\* An answer is matched by its id; one whose request is gone, and an error
\* without an id, resume nobody.  Ready comes first and once, so it is never
\* dispatched.
dispatch ==
    /\ line.k = "answer" /\ ~expecting
    /\ \E R \in {{}, pending \cap {line.r}} :
         /\ Resumed(OwnersOf(R), "answered")
         /\ Forget(R)
    /\ line' = None
    /\ UNCHANGED <<queue, proc, cur, ready, waiters, startTimer, readers, expecting, child>>

\* A line that is not the handshake: fail the callers waiting for it.
handleStartupProtocolFailure ==
    /\ line.k \notin {"none", "ready"} /\ expecting
    /\ NextReader
    /\ IF cur = Gen
       THEN /\ Resumed(waiters, "invalidResponse")
            /\ waiters' = {}
            /\ queue' = Append(queue, Stop)
       ELSE UNCHANGED <<client, waiters, queue>>
    /\ UNCHANGED <<proc, cur, ready, pending, timers, child>>

\* A malformed line later: fail the pending requests.
handleRuntimeProtocolFailure ==
    /\ line.k = "junk" /\ ~expecting
    /\ NextReader
    /\ IF cur = Gen
       THEN /\ Resumed(OwnersOf(pending), "invalidResponse")
            /\ Forget(pending)
            /\ queue' = Append(queue, Stop)
       ELSE UNCHANGED <<client, pending, timed, heard, queue>>
    /\ UNCHANGED <<proc, cur, ready, waiters, startTimer, child>>

-----------------------------------------------------------------------------
(* The child: app_runtime.py prints ready, then answers each line.         *)

childOnly == <<client, queue, proc, alive, cur, ready, waiters, pending, timers, reading>>

Running == proc # 0 /\ proc \in alive

Greet ==
    /\ Running /\ ~greeted
    /\ greeted' = TRUE
    /\ outbox' = Append(outbox, [k |-> "ready"])
    /\ UNCHANGED <<childOnly, inbox, faults>>

\* _dispatch: currency runs on the executor and may overtake or lag; the
\* others are handled in line, so they are answered in order.
Dispatchable(i) ==
    Kind[inbox[i][1]] # "currency" =>
        \A j \in 1..(i - 1) : Kind[inbox[j][1]] = "currency"

\* _handle: an answer with the request's id, or, for a line over the limit,
\* an error without one (dispatch decides which it was).
Answer(i) ==
    /\ Running /\ greeted /\ i \in DOMAIN inbox /\ Dispatchable(i)
    /\ outbox' = Append(outbox, [k |-> "answer", r |-> inbox[i]])
    /\ inbox' = RemoveAt(inbox, i)
    /\ UNCHANGED <<childOnly, greeted, faults>>

\* Environment: a stray line on stdout, or the death of the process.
Babble ==
    /\ Running /\ faults < MaxFaults
    /\ faults' = faults + 1
    /\ outbox' = Append(outbox, [k |-> "junk"])
    /\ UNCHANGED <<childOnly, inbox, greeted>>

Crash ==
    /\ Running /\ faults < MaxFaults
    /\ faults' = faults + 1
    /\ alive' = alive \ {proc}
    /\ UNCHANGED <<client, queue, proc, cur, ready, waiters, pending, timers, reading,
                   inbox, outbox, greeted>>

-----------------------------------------------------------------------------
Task(c) == EnsureStarted(c) \/ Send(c) \/ Rebuild(c) \/ Return(c)
WriteQueue == RunStop \/ RunStart \/ RunLaunch \/ Spawn \/ SpawnFails \/ Park \/ Write
Reader == \/ ReaderTerminated \/ ReadLine \/ resolveReady \/ dispatch
          \/ handleStartupProtocolFailure \/ handleRuntimeProtocolFailure
Timers == scheduleStartupTimeout \/ \E r \in Requests : scheduleRequestTimeout(r)
Child == Greet \/ Babble \/ Crash \/ \E i \in 1..Cardinality(Requests) : Answer(i)

Next ==
    \/ \E c \in Callers : Task(c) \/ CancelTask(c)
    \/ cancelPendingEvaluation
    \/ WriteQueue \/ Reader \/ Timers \/ Child

\* Dispatch queues drain, started tasks run on and timers fire; nothing is
\* assumed of the child, of the user, or of when a task first runs.
Fairness ==
    /\ WF_vars(WriteQueue) /\ WF_vars(Reader) /\ WF_vars(Timers)
    /\ \A c \in Callers : WF_vars(pc[c] # "idle" /\ Task(c))

Spec == Init /\ [][Next]_vars /\ Fairness

-----------------------------------------------------------------------------
\* Each suspended caller is held in exactly one place: a start job or
\* startWaiters while it waits for the process, pendingRequests while it
\* waits for an answer, and no collection holds a caller that moved on.  A
\* caller held nowhere never resumes; one held twice is resumed twice, which
\* traps (CheckedContinuation in ensureStarted and send).
SuspendedOnce ==
    LET jobs == {i \in DOMAIN queue : queue[i].op \in {"start", "park"}}
        behind == {i \in DOMAIN queue : queue[i].op = "run" /\ queue[i].then # <<>>}
        owners == [i \in jobs \cup behind |->
                     IF i \in jobs THEN queue[i].c ELSE queue[i].then[1].c]
    IN \A c \in Callers :
         /\ (pc[c] = "start") <=>
              (Cardinality({i \in jobs \cup behind : owners[i] = c})
               + Cardinality(waiters \cap {c}) = 1)
         /\ pc[c] # "start" => c \notin waiters
         /\ pending \cap ({c} \X {1, 2}) = IF pc[c] = "sent" THEN {Id(c)} ELSE {}

\* The held process is the only one running, and it is either being read (or
\* next to be read) or about to be stopped: the reader may give up on a
\* protocol failure only because a stop is on its way, and a child whose
\* stdout nobody reads would leave every later request to time out
\* (startReader, launchProcessOnQueue, stopProcessOnQueue).
ProcessIsWatched ==
    /\ alive \subseteq {proc}
    /\ proc # 0 =>
         \/ proc \in Range(readers)
         \/ \E i \in DOMAIN queue : queue[i].op \in {"stop", "run"}

\* No caller is lost or resumed twice, and no child runs unread.
ServiceConsistent == SuspendedOnce /\ ProcessIsWatched

\* What the writeQueue holds.
QueueJobs ==
    {[op |-> "launch"]}
    \cup [op : {"start", "park"}, c : Callers]
    \cup [op : {"stop"}, by : {"service", "retry"}]
    \cup [op : {"write"}, r : Requests, handle : Nat]
    \cup [op : {"run"}, then : {<<>>} \cup {<<[op |-> "park", c |-> c]>> : c \in Callers}]

ServiceTyped ==
    /\ pc \in [Callers -> {"idle", "call", "start", "sent", "resumed", "done"}]
    /\ attempt \in [Callers -> {1, 2}]
    /\ queue \in Seq(QueueJobs)
    /\ waiters \subseteq Callers /\ pending \subseteq Requests /\ timed \subseteq pending
    /\ proc \in Nat /\ cur \in Nat /\ readers \in Seq(Nat)

\* Job j has caller c's continuation.
Holds(j, c) ==
    \/ j.op \in {"start", "park"} /\ j.c = c
    \/ j.op = "run" /\ j.then # <<>> /\ j.then[1].c = c

Free(q, c) == \A i \in DOMAIN q : ~Holds(q[i], c)
Once(q, c) == \E i \in DOMAIN q : /\ Holds(q[i], c)
                                  /\ \A j \in DOMAIN q : Holds(q[j], c) => j = i

\* Who waits for the process is in one job or among the waiters, who waits for an
\* answer has its request pending, and nobody else is held.
HeldInPlace ==
    /\ \A c \in Callers :
         \/ pc[c] = "start" /\ c \in waiters /\ Free(queue, c)
         \/ pc[c] = "start" /\ c \notin waiters /\ Once(queue, c)
         \/ pc[c] # "start" /\ c \notin waiters /\ Free(queue, c)
    /\ \A c \in Callers : pc[c] = "sent" => Id(c) \in pending
    /\ \A r \in pending : pc[r[1]] = "sent" /\ r = Id(r[1])

\* A process is launched only when none is held, by the job at the head.
LaunchInPlace ==
    /\ \A i \in DOMAIN queue : queue[i].op = "run" => i = 1 /\ proc = 0
    /\ 0 \notin alive
    /\ proc # 0 => proc = cur
    /\ readers = <<>> => line = None

\* Inductive: why no caller is lost and no process runs unread.
ServiceInvariant ==
    ServiceTyped /\ HeldInPlace /\ LaunchInPlace /\ ProcessIsWatched

\* Every call of evaluate, convert or convertCurrency that reaches the
\* service returns, whatever the child does and whoever cancels (perform).
EveryPerformReturns ==
    \A c \in Callers : (pc[c] # "idle") ~> (pc[c] = "done")

\* ensureStarted's comment: a launch whose ready handshake is still in flight
\* must not be killed and restarted by a concurrent caller.  So the stop of a
\* caller's retry never meets a live process that still has its reader and its
\* startup timer.
HandshakeNotKilled ==
    [][(RunStop /\ Head(queue).by = "retry")
         => ~(Running /\ ready # cur /\ startTimer /\ proc \in Range(readers))]_vars
=============================================================================
