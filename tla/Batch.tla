-------------------------------- MODULE Batch --------------------------------
(***************************************************************************)
(* sandbox.run_batch and _run_batch_item (src/src/math_anchor/sandbox.py)  *)
(* with batch_worker_count of runtime_control.py: equal items are run once *)
(* on a bounded thread pool, results are collected as they complete and    *)
(* charged against the output limit, and the call returns only when its    *)
(* threads are done.                                                       *)
(*                                                                         *)
(* An item is its coalescing key; Keys carry the memory they ask for.  A   *)
(* result is [status, size], size standing for its encoded bytes.  The     *)
(* collecting thread, the pool's threads, the caller and the clock run     *)
(* concurrently.                                                           *)
(***************************************************************************)
EXTENDS Integers, Sequences, FiniteSets, FiniteSetsExt

CONSTANTS
    Keys,                \* distinct items
    MemoryOf,            \* the memoryMb each asks for
    Malformed,           \* items without an operation, arguments or integer limits
    MaxItems,            \* bound on the length of a batch
    Sizes,               \* sizes of encoded results
    Envelope,            \* bytes the batch envelope adds
    MaxOutput,           \* max_output_bytes
    MaximumBatchActive,  \* MAX_ACTIVE_BATCH_REQUESTS
    MemoryBudget,        \* GLOBAL_MEMORY_BUDGET_MB
    DefaultMemory        \* default_memory_mb, also the least a request counts for

ASSUME BatchAssumption ==
    /\ IsFiniteSet(Keys)
    /\ MemoryOf \in [Keys -> Nat]
    /\ Malformed \subseteq Keys
    /\ Sizes \subseteq Nat \ {0}
    /\ {MaxItems, DefaultMemory, MaximumBatchActive} \subseteq Nat \ {0}
    /\ {Envelope, MaxOutput} \subseteq Nat
    /\ MemoryBudget \in Nat /\ MemoryBudget >= DefaultMemory

VARIABLES
    items,               \* the batch: a sequence of keys
    phase,               \* "check", "collect", "join", "returned"
    future,              \* state of the future of each group
    representative,      \* its result
    results_by_index,
    encoded_bytes,
    aborted,             \* the output limit was exceeded while collecting
    cancel_event, batch_cancel,
    late,                \* the cumulative deadline is (nearly) over
    answer

vars == <<items, phase, future, representative, results_by_index, encoded_bytes,
          aborted, cancel_event, batch_cancel, late, answer>>

Indices == DOMAIN items
Groups == {items[i] : i \in Indices}
IndicesOf(k) == {i \in Indices : items[i] = k}
First(k) == Min(IndicesOf(k))

Results == [status : {"ok", "error"}, size : Sizes]
NoResult == [status |-> "none", size |-> 0]

\* One type invariant.
TypeOK ==
    /\ phase \in {"check", "collect", "join", "returned"}
    /\ future \in [Keys -> {"none", "queued", "running", "done", "collected",
                            "cancelled"}]
    /\ representative \in [Keys -> Results \cup {NoResult}]
    /\ \A k \in Keys : (representative[k] # NoResult) <=> (future[k] \in {"done", "collected"})
    /\ results_by_index \in [Indices -> Results \cup {NoResult}]
    /\ encoded_bytes \in Nat
    /\ aborted \in BOOLEAN /\ cancel_event \in BOOLEAN
    /\ batch_cancel \in BOOLEAN /\ late \in BOOLEAN
    /\ answer \in {"none", "ok", "partial", "E_LIMIT", "E_INPUT", "E_CANCELLED",
                   "E_TIMEOUT", "E_OUTPUT_LIMIT"}

Init ==
    /\ items \in UNION {[1..n -> Keys] : n \in 1..MaxItems}
    /\ phase = "check"
    /\ future = [k \in Keys |-> "none"]
    /\ representative = [k \in Keys |-> NoResult]
    /\ results_by_index = [i \in Indices |-> NoResult]
    /\ encoded_bytes = 0
    /\ aborted = FALSE
    /\ cancel_event = FALSE
    /\ batch_cancel = FALSE
    /\ late = FALSE
    /\ answer = "none"

----------------------------------------------------------------------------
(* batch_worker_count                                                      *)

\* max(default_memory_mb, largest_limit)
LargestLimit == Max({MemoryOf[k] : k \in Groups \ Malformed} \cup {DefaultMemory})

\* Mutant: the lower bound of one is missing.
CountMayBeZero ==
    Min({MaximumBatchActive, Len(items), MemoryBudget \div LargestLimit})

BatchWorkerCount ==
    Max({1, Min({MaximumBatchActive, Len(items),
                 Max({1, MemoryBudget \div LargestLimit})})})

----------------------------------------------------------------------------
(* run_batch                                                               *)

Answer(code) == phase' = "returned" /\ answer' = code

\* Early returns: cancelled, out of bounds or not serializable, or past the deadline.
Reject ==
    /\ phase = "check"
    /\ \/ cancel_event /\ Answer("E_CANCELLED")
       \/ \E code \in {"E_LIMIT", "E_INPUT"} : Answer(code)
       \/ late /\ Answer("E_TIMEOUT")
    /\ UNCHANGED <<items, future, representative, results_by_index, encoded_bytes,
                   aborted, cancel_event, batch_cancel, late>>

\* One future per group of equal items.
Submit ==
    /\ phase = "check"
    /\ phase' = "collect"
    /\ future' = [k \in Keys |-> IF k \in Groups THEN "queued" ELSE "none"]
    /\ UNCHANGED <<items, representative, results_by_index, encoded_bytes, aborted,
                   cancel_event, batch_cancel, late, answer>>

\* Mutant: equal items are charged once.
ChargedOnce(k, i) == encoded_bytes + representative[k].size

\* The logical results of k up to index i have been charged.
Charged(k, i) ==
    encoded_bytes + representative[k].size * Cardinality({j \in IndicesOf(k) : j <= i})

Overflows(k) == {i \in IndicesOf(k) : Charged(k, i) > MaxOutput}

\* Mutant: only the first of several equal items gets the result.
StoredForFirst(k) == IF Overflows(k) = {} THEN First(k) ELSE Min(Overflows(k))

\* The last index of k whose result is stored.
LastStored(k) == IF Overflows(k) = {} THEN Max(IndicesOf(k)) ELSE Min(Overflows(k))

\* pending.cancel() reaches only futures that have not started.
CancelPending(k) ==
    [g \in Keys |-> IF g = k THEN "collected"
                    ELSE IF future[g] = "queued" THEN "cancelled" ELSE future[g]]

\* as_completed hands out one finished future.
Collect(k) ==
    /\ phase = "collect"
    /\ future[k] = "done"
    /\ results_by_index' =
         [i \in Indices |-> IF i \in IndicesOf(k) /\ i <= LastStored(k)
                            THEN representative[k] ELSE results_by_index[i]]
    /\ encoded_bytes' = Charged(k, LastStored(k))
    /\ IF Overflows(k) # {}
       THEN /\ aborted' = TRUE
            /\ batch_cancel' = TRUE
            /\ future' = CancelPending(k)
            /\ phase' = "join"
       ELSE /\ future' = [future EXCEPT ![k] = "collected"]
            /\ phase' = IF \A g \in Groups \ {k} : future[g] = "collected"
                        THEN "join" ELSE "collect"
            /\ UNCHANGED <<aborted, batch_cancel>>
    /\ UNCHANGED <<items, representative, cancel_event, late, answer>>

\* The with statement of the executor waits for every thread.
PoolDrained == \A k \in Keys : future[k] \notin {"queued", "running"}

AllOk == \A i \in Indices : results_by_index[i].status = "ok"

FitsWithEnvelope == encoded_bytes + Envelope <= MaxOutput

Return ==
    /\ phase = "join"
    /\ PoolDrained
    /\ Answer(IF aborted THEN "E_OUTPUT_LIMIT"
              ELSE IF cancel_event THEN "E_CANCELLED"
              ELSE IF ~FitsWithEnvelope THEN "E_OUTPUT_LIMIT"
              ELSE IF AllOk THEN "ok" ELSE "partial")
    /\ UNCHANGED <<items, future, representative, results_by_index, encoded_bytes,
                   aborted, cancel_event, batch_cancel, late>>

----------------------------------------------------------------------------
(* The threads of the pool: _run_batch_item                                *)

Running == {k \in Keys : future[k] = "running"}

\* combined_cancel
Cancelled == cancel_event \/ batch_cancel

\* run_operation refuses limits outside its range.
Valid(k) == k \notin Malformed /\ MemoryOf[k] \in 1..MemoryBudget

\* Malformed, cancelled or out of time: answered without running.
Refused(k) == ~Valid(k) \/ Cancelled \/ late

\* The oldest queued future that the pool has a thread for.
NextQueued(k) ==
    /\ future[k] = "queued"
    /\ \A g \in Groups : future[g] = "queued" => First(k) <= First(g)
    /\ Cardinality(Running) < BatchWorkerCount

Complete(k, status) ==
    /\ \E size \in Sizes :
          representative' = [representative EXCEPT ![k] = [status |-> status, size |-> size]]
    /\ future' = [future EXCEPT ![k] = "done"]

RefuseItem(k) ==
    /\ NextQueued(k)
    /\ Refused(k)
    /\ Complete(k, "error")
    /\ UNCHANGED <<items, phase, results_by_index, encoded_bytes, aborted,
                   cancel_event, batch_cancel, late, answer>>

StartItem(k) ==
    /\ NextQueued(k)
    /\ ~Refused(k)
    /\ future' = [future EXCEPT ![k] = "running"]
    /\ UNCHANGED <<items, phase, representative, results_by_index, encoded_bytes,
                   aborted, cancel_event, batch_cancel, late, answer>>

\* run_operation returns, or the item's thread raises (an error envelope).
FinishItem(k) ==
    /\ future[k] = "running"
    /\ \E status \in {"ok", "error"} : Complete(k, status)
    /\ UNCHANGED <<items, phase, results_by_index, encoded_bytes, aborted,
                   cancel_event, batch_cancel, late, answer>>

----------------------------------------------------------------------------
CallerCancels ==
    /\ phase # "returned"
    /\ ~cancel_event
    /\ cancel_event' = TRUE
    /\ UNCHANGED <<items, phase, future, representative, results_by_index,
                   encoded_bytes, aborted, batch_cancel, late, answer>>

DeadlinePasses ==
    /\ phase # "returned"
    /\ ~late
    /\ late' = TRUE
    /\ UNCHANGED <<items, phase, future, representative, results_by_index,
                   encoded_bytes, aborted, cancel_event, batch_cancel, answer>>

Collector == Reject \/ Submit \/ (\E k \in Keys : Collect(k)) \/ Return

PoolThread == \E k \in Keys : RefuseItem(k) \/ StartItem(k) \/ FinishItem(k)

Next == Collector \/ PoolThread \/ CallerCancels \/ DeadlinePasses

Spec == Init /\ [][Next]_vars

\* The collecting thread and the pool's threads run; an operation ends by its
\* own deadline (Sandbox, EveryCallReturns).
BatchFairness == WF_vars(Collector) /\ WF_vars(PoolThread)

FairSpec == Spec /\ BatchFairness

----------------------------------------------------------------------------
(* Properties                                                              *)

\* A sum as the number of its units: <<x, n>> is the n-th unit of x.
Units(S, f) == UNION {{x} \X (1..f[x]) : x \in S}
Sum(S, f) == Cardinality(Units(S, f))

\* A batch that is answered with results has exactly the result of its own item
\* at every index, whatever order the items completed in and however equal items
\* were coalesced, and says "ok" only if all of them are.
EveryIndexAnswered ==
    answer \in {"ok", "partial"} =>
        /\ \A i \in Indices :
              /\ results_by_index[i] = representative[items[i]]
              /\ results_by_index[i] # NoResult
        /\ answer = "ok" <=> \A k \in Groups : representative[k].status = "ok"

StoredSize == [i \in Indices |-> results_by_index[i].size]

\* The output limit counts every logical result of the batch, duplicates too: a
\* batch answered with results fits, envelope included, and one refused while
\* collecting could not have fitted.
OutputLimitExact ==
    LET logical == Sum(Indices, StoredSize)
    IN  /\ answer \in {"ok", "partial"} => logical + Envelope <= MaxOutput
        /\ aborted => logical > MaxOutput

\* The items of one batch that run together fit the memory budget, so they never
\* wait for each other in admission.
RunningFitsBudget ==
    Sum(Running, MemoryOf) <= MemoryBudget

\* Whatever completes when, results stay within the output limit and running items
\* within the memory budget.
BatchWithinLimits == OutputLimitExact /\ RunningFitsBudget

\* A collected group has its result at each of its indices, unless the output limit
\* stopped the collection.
CollectedStored ==
    ~aborted => \A k \in Keys : future[k] = "collected" =>
                    \A i \in IndicesOf(k) : results_by_index[i] = representative[k]

\* Nobody answers before the threads are joined, and then every group is collected.
AnswerInPlace ==
    /\ phase # "returned" => answer = "none"
    /\ phase = "check" => ~aborted /\ \A k \in Keys : future[k] = "none"
    /\ phase = "join" /\ ~aborted => \A k \in Groups : future[k] = "collected"
    /\ answer \in {"ok", "partial"} =>
          /\ ~aborted
          /\ \A k \in Groups : future[k] = "collected"
          /\ answer = "ok" <=> AllOk

\* Inductive: why a result at an index is the result of the item there.
BatchInvariant ==
    /\ TypeOK
    /\ \E n \in 1..MaxItems : items \in [1..n -> Keys]
    /\ CollectedStored
    /\ AnswerInPlace

\* The bytes that were charged are those of the results that are stored, which are of
\* collected groups only, and the limit was tested with them.
BytesAccounted ==
    /\ encoded_bytes = Sum(Indices, StoredSize)
    /\ \A i \in Indices : results_by_index[i] # NoResult => future[items[i]] = "collected"
    /\ phase = "collect" => ~aborted
    /\ aborted => encoded_bytes > MaxOutput
    /\ answer \in {"ok", "partial"} => FitsWithEnvelope

\* The pool runs valid items of this batch, as many as it has threads.
ThreadsAccounted ==
    /\ Cardinality(Running) <= BatchWorkerCount
    /\ \A k \in Keys : future[k] # "none" => k \in Groups
    /\ \A k \in Running : Valid(k)

\* Inductive: why the limits are respected.
LimitsInvariant == BatchInvariant /\ BytesAccounted /\ ThreadsAccounted

\* Every batch returns.
EveryBatchReturns == <>(phase = "returned")
=============================================================================
