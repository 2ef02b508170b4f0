--------------------------- MODULE WorkerExchange ---------------------------
(***************************************************************************)
(* One reusable worker and the operations that lease it in turn:           *)
(* _ReusableWorker and _execute_worker of                                  *)
(* src/src/math_anchor/worker_process.py on the supervisor's side, the     *)
(* persistent loop of src/src/math_anchor/worker.py on the child's.        *)
(*                                                                         *)
(* Four parties run concurrently: the supervising thread, the reader       *)
(* thread that turns one line of stdout into one queued response per       *)
(* request, the child, and the clock.  Lines carry no request id in the    *)
(* code; the model tags each with the request it answers so that the       *)
(* properties can speak about it, and no action looks at the tag.          *)
(***************************************************************************)
EXTENDS Integers, Sequences

CONSTANT MaxRequests       \* bound on the operations that lease the worker

ASSUME ExchangeAssumption == MaxRequests \in Nat

VARIABLES
    sup,             \* the supervising thread
    request,         \* number of the operation that leases the worker
    expired,         \* its deadline has passed
    cancelled,       \* its cancel_event is set
    stdin, stdout,   \* pipes
    child,           \* the child process
    stamp,           \* _completedAtMonotonic of the response being written
    read_requests,   \* permissions queued for the reader
    reader,          \* the reader thread
    responses,       \* lines handed to the supervisor
    answer           \* what the last operation was told

supVars == <<sup, request, expired, cancelled, answer>>
childVars == <<child, stamp, stdin>>
readerVars == <<read_requests, reader, responses>>
exchangeVars == <<supVars, childVars, readerVars, stdout>>

\* A worker's own answer: result, caller's error, or E_RUNTIME / E_TIMEOUT.
Replies == {"ok", "error", "fault"}
\* Other lines on stdout: not JSON, JSON that is no object (its pop() raises in
\* the supervisor and the caller's finally discards the worker), an object
\* without timing, undecodable bytes.
Strays == {"garbage", "not_object", "unstamped", "undecodable"}
Line(n, k, s) == [of |-> n, kind |-> k, stamp |-> s]
EndOfFile == Line(0, "eof", "none")
NoAnswer == [told |-> 0, of |-> 0, code |-> "none", stamp |-> "none"]

Signals == expired \in BOOLEAN /\ cancelled \in BOOLEAN

\* One type invariant.
ExchangeTypeOK ==
    /\ Signals
    /\ sup \in {"pooled", "send", "blocked", "look", "check", "discarded"}
    /\ request \in 0..MaxRequests
    /\ Len(stdin) <= 1
    /\ child \in {"idle", "computing", "writing", "dead"}
    /\ stamp \in {"none", "in_time", "late"}
    /\ read_requests \in 0..1
    /\ reader \in {"waiting", "reading", "gone"}
    /\ Len(responses) <= 1

ExchangeInit ==
    /\ sup = "pooled"
    /\ request = 0
    /\ expired = FALSE
    /\ cancelled = FALSE
    /\ stdin = <<>>
    /\ stdout = <<>>
    /\ child = "idle"
    /\ stamp = "none"
    /\ read_requests = 0
    /\ reader = "waiting"
    /\ responses = <<>>
    /\ answer = NoAnswer

----------------------------------------------------------------------------
(* The supervising thread: _execute_worker                                 *)

\* A new operation leases the pooled worker; expect_response().
Lease ==
    /\ sup = "pooled"
    /\ request < MaxRequests
    /\ request' = request + 1
    /\ sup' = "send"
    /\ read_requests' = read_requests + 1
    /\ expired' = FALSE
    /\ cancelled' = FALSE
    /\ UNCHANGED <<answer, childVars, reader, responses, stdout>>

\* The operation ends with code; the line it used, if any, is recorded.
Tell(code, line) ==
    answer' = [told |-> request, of |-> line.of, code |-> code, stamp |-> line.stamp]

\* The pipe of a dead child breaks.
InputUnavailable ==
    /\ child = "dead"
    /\ sup' = "discarded"
    /\ Tell("E_RUNTIME", EndOfFile)
    /\ UNCHANGED stdin

\* stdin.write and flush.  They return at once when the pipe takes the whole
\* request; a longer one keeps the supervisor in flush() until the child reads.
Send ==
    /\ sup = "send"
    /\ \/ /\ child # "dead"
          /\ stdin' = Append(stdin, request)
          /\ sup' = "look"
          /\ UNCHANGED answer
       \/ /\ child # "dead"
          /\ sup' = "blocked"
          /\ UNCHANGED <<stdin, answer>>
       \/ InputUnavailable
    /\ UNCHANGED <<request, expired, cancelled, child, stamp, readerVars, stdout>>

\* Neither the deadline nor the cancellation is looked at in flush(): only the
\* child ends it, by dying here or by reading in Drain.
PipeBreaks ==
    /\ sup = "blocked"
    /\ InputUnavailable
    /\ UNCHANGED <<request, expired, cancelled, child, stamp, readerVars, stdout>>

\* process.kill()
Kill == child' = "dead" /\ stdin' = <<>> /\ UNCHANGED stamp

\* completed_at < deadline
InBudget(line) == line.stamp = "in_time"

\* Which answers leave the worker reusable.
KeepsWorker(line) == line.kind \in {"ok", "error"}

\* What the supervisor makes of the line it took.  Every error but the caller's
\* own makes the worker not reusable; release() then terminates it.
Conclude(line) ==
    /\ responses' = Tail(responses)
    /\ IF line.kind \in Replies /\ ~InBudget(line)
       THEN /\ sup' = "discarded"
            /\ Tell("E_TIMEOUT", EndOfFile)
            /\ Kill
       ELSE /\ sup' = IF KeepsWorker(line) THEN "pooled" ELSE "discarded"
            /\ IF line.kind \in Replies
               THEN Tell(line.kind, line) ELSE Tell("E_RUNTIME", EndOfFile)
            /\ IF line.kind \in {"undecodable", "unstamped"}
               THEN Kill ELSE UNCHANGED childVars
    /\ UNCHANGED <<request, expired, cancelled, read_requests, reader, stdout>>

\* take_response() without waiting, at the top of the loop, or the bounded wait
\* at its end.
Look ==
    /\ sup = "look"
    /\ \/ responses # <<>> /\ Conclude(Head(responses))
       \/ /\ responses = <<>>
          /\ sup' = "check"
          /\ UNCHANGED <<request, expired, cancelled, answer, childVars,
                         readerVars, stdout>>

\* Mutant: the worker of an aborted operation goes back to the pool as it is.
AbortKeepsWorker(code) ==
    /\ sup' = "pooled"
    /\ Tell(code, EndOfFile)
    /\ UNCHANGED <<request, expired, cancelled, childVars, readerVars, stdout>>

\* limit_error: the child is killed and never reused.
Abort(code) ==
    /\ sup' = "discarded"
    /\ Tell(code, EndOfFile)
    /\ Kill
    /\ UNCHANGED <<request, expired, cancelled, readerVars, stdout>>

\* Mutant: the supervisor relies on the child to keep the deadline.
CheckWithoutDeadline ==
    /\ sup = "check"
    /\ \/ cancelled /\ Abort("E_CANCELLED")
       \/ ~cancelled /\ Abort("E_MEMORY")
       \/ /\ ~cancelled
          /\ sup' = "look"
          /\ UNCHANGED <<request, expired, cancelled, answer, childVars,
                         readerVars, stdout>>

\* Nothing had arrived: cancellation, then the deadline with a last look, then
\* the memory limit (which the environment may find exceeded at any time).
Check ==
    /\ sup = "check"
    /\ \/ cancelled /\ Abort("E_CANCELLED")
       \/ ~cancelled /\ expired /\ responses # <<>> /\ Conclude(Head(responses))
       \/ ~cancelled /\ expired /\ responses = <<>> /\ Abort("E_TIMEOUT")
       \/ ~cancelled /\ ~expired /\ Abort("E_MEMORY")
       \/ /\ ~cancelled /\ ~expired
          /\ sup' = "look"
          /\ UNCHANGED <<request, expired, cancelled, answer, childVars,
                         readerVars, stdout>>

----------------------------------------------------------------------------
(* The child: the persistent loop of worker.main                           *)

ReadRequest ==
    /\ child = "idle"
    /\ stdin # <<>>
    /\ child' = "computing"
    /\ UNCHANGED <<stamp, stdin, supVars, readerVars, stdout>>

\* The child reads a request longer than the pipe to its end: flush() returns.
Drain ==
    /\ child = "idle"
    /\ sup = "blocked"
    /\ stdin' = Append(stdin, request)
    /\ sup' = "look"
    /\ UNCHANGED <<request, expired, cancelled, answer, child, stamp, readerVars,
                   stdout>>

\* A library writes to stdout during the operation.
WriteStray(kind) ==
    /\ child = "computing"
    /\ stdout = <<>>
    /\ stdout' = Append(stdout, Line(0, kind, "none"))
    /\ UNCHANGED <<childVars, supVars, readerVars>>

\* _execute_payload has returned; _write_response reads the clock first.
StampResponse ==
    /\ child = "computing"
    /\ child' = "writing"
    /\ stamp' = IF expired THEN "late" ELSE "in_time"
    /\ UNCHANGED <<stdin, supVars, readerVars, stdout>>

WriteResponse(kind) ==
    /\ child = "writing"
    /\ stdout' = Append(stdout, Line(Head(stdin), kind, stamp))
    /\ stdin' = Tail(stdin)
    /\ stamp' = "none"
    /\ child' = "idle"
    /\ UNCHANGED <<supVars, readerVars>>

\* The child crashes, idle or at work.
Crash ==
    /\ child # "dead"
    /\ child' = "dead"
    /\ stdin' = <<>>
    /\ UNCHANGED <<stamp, supVars, readerVars, stdout>>

----------------------------------------------------------------------------
(* The reader thread: _read_output                                         *)

ReaderWakes ==
    /\ reader = "waiting"
    /\ read_requests > 0
    /\ read_requests' = read_requests - 1
    /\ reader' = "reading"
    /\ UNCHANGED <<responses, supVars, childVars, stdout>>

\* One line per request; the reader ends after an error or the end of file.
ReaderAfter(line) ==
    IF line.kind \in {"undecodable", "eof"} THEN "gone" ELSE "waiting"

ReaderReads ==
    /\ reader = "reading"
    /\ \/ /\ stdout # <<>>
          /\ responses' = Append(responses, Head(stdout))
          /\ reader' = ReaderAfter(Head(stdout))
          /\ stdout' = Tail(stdout)
       \/ /\ stdout = <<>>
          /\ child = "dead"
          /\ responses' = Append(responses, EndOfFile)
          /\ reader' = ReaderAfter(EndOfFile)
          /\ UNCHANGED stdout
    /\ UNCHANGED <<read_requests, supVars, childVars>>

----------------------------------------------------------------------------
(* The clock and the caller.                                               *)

Busy == sup \in {"send", "blocked", "look", "check"}

DeadlinePasses ==
    /\ Busy
    /\ ~expired
    /\ expired' = TRUE
    /\ UNCHANGED <<sup, request, cancelled, answer, childVars, readerVars, stdout>>

CallerCancels ==
    /\ Busy
    /\ ~cancelled
    /\ cancelled' = TRUE
    /\ UNCHANGED <<sup, request, expired, answer, childVars, readerVars, stdout>>

Supervise == Send \/ PipeBreaks \/ Look \/ Check

Child ==
    \/ ReadRequest
    \/ Drain
    \/ \E kind \in Strays : WriteStray(kind)
    \/ StampResponse
    \/ \E kind \in Replies : WriteResponse(kind)

Reader == ReaderWakes \/ ReaderReads

ExchangeNext ==
    \/ Lease
    \/ Supervise
    \/ Child
    \/ Crash
    \/ Reader
    \/ DeadlinePasses
    \/ CallerCancels

ExchangeSpec == ExchangeInit /\ [][ExchangeNext]_exchangeVars

\* The supervising thread runs and time passes; nothing is assumed of the child,
\* of the reader thread or of the caller.
ExchangeFairness == WF_exchangeVars(Supervise) /\ WF_exchangeVars(DeadlinePasses)

ExchangeFairSpec == ExchangeSpec /\ ExchangeFairness

----------------------------------------------------------------------------
(* Properties                                                              *)

\* An operation is only ever told what the worker computed for it and completed
\* before its deadline: neither a late response of an aborted operation nor one
\* that came as the deadline passed is accepted, whenever the supervisor looks.
AnswerBelongs ==
    answer.code \in Replies => answer.of = answer.told /\ answer.stamp = "in_time"

\* A worker in the pool is silent: nothing is left in either pipe or in the
\* response queue, no read is outstanding, and a live child awaits a request.
QuietWhenPooled ==
    sup = "pooled" =>
        /\ stdin = <<>> /\ stdout = <<>> /\ responses = <<>>
        /\ read_requests = 0
        /\ reader = "waiting"
        /\ child \in {"idle", "dead"}

\* No answer crosses over from one operation to the next, and none is left behind
\* for the next to find.
ExchangeConsistent == ExchangeTypeOK /\ AnswerBelongs /\ QuietWhenPooled

Lines == [of : Nat, kind : Replies \cup Strays \cup {"eof"},
          stamp : {"none", "in_time", "late"}]

PipesTyped ==
    /\ stdin \in Seq(0..MaxRequests)
    /\ stdout \in Seq(Lines)
    /\ responses \in Seq(Lines)

\* The permission of expect_response is in one place: queued for the reader, with
\* the reader, or turned into a response.  A worker at work has exactly one.
Permissions ==
    read_requests + (IF reader = "reading" THEN 1 ELSE 0) + Len(responses)
OnePermission == Permissions <= 1 /\ (Busy => Permissions = 1)

\* The reader ends only with a line that makes the supervisor discard the worker.
ReaderEnds ==
    reader = "gone" => \/ sup = "discarded"
                       \/ /\ responses # <<>>
                          /\ Head(responses).kind \in {"undecodable", "eof"}

\* The child has answered the request it was sent and has nothing left to do.
Answered == stdin = <<>> /\ child \in {"idle", "dead"}

\* The child works on the current request only.
RequestInPlace ==
    /\ stdin \in {<<>>, <<request>>}
    /\ child \in {"computing", "writing"} => stdin = <<request>>

\* A reply in a pipe or in the queue is to the current request, and the last line.
ReplyIsLast ==
    /\ \A i \in DOMAIN stdout : stdout[i].kind \in Replies =>
          i = Len(stdout) /\ stdout[i].of = request /\ Answered
    /\ \A i \in DOMAIN responses : responses[i].kind \in Replies =>
          responses[i].of = request /\ stdout = <<>> /\ Answered

\* Before the request is written only a dead child can have produced a response.
NothingBeforeSend ==
    sup \in {"send", "blocked"} =>
        /\ Answered
        /\ stdout = <<>>
        /\ \A i \in DOMAIN responses : responses[i].kind \notin Replies

\* Inductive: what makes a worker that is given back silent.
ExchangeInvariant ==
    /\ ExchangeConsistent
    /\ PipesTyped
    /\ OnePermission
    /\ ReaderEnds
    /\ RequestInPlace
    /\ Busy => ReplyIsLast
    /\ NothingBeforeSend

\* The supervisor is in flush() and a live child does not read.
StuckInWrite == sup = "blocked" /\ child # "dead"

\* Every operation is answered even if child and reader thread both hang, unless
\* it hangs before it has read a request longer than the pipe: that write has no
\* deadline, and neither the cancellation nor the deadline ends it.
EveryOperationEnds == Busy ~> ((answer.told = request /\ ~Busy) \/ StuckInWrite)
=============================================================================
