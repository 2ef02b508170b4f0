# Math Anchor: TLA+ verification project

Math Anchor runs finite mathematical operations for agents (an MCP server and a
command line) and for a macOS calculator. The mathematics is done by SymPy, NumPy,
mpmath and Pint; the program's own logic is the runtime around them (isolated worker
processes, admission, a circuit breaker, batches, obligation sets with receipts, a
shared rate cache, a desktop client that restarts its runtime) and the guards, limits,
searches and classifications of each operation. This project models that logic from
its source (`src/src/math_anchor`, `src/Sources`, `src/research`), checks the models
with TLC on small instances and proves the central results with TLAPS.

## Inventory

| Component (source) | State | Operations | Interacts with |
|---|---|---|---|
| MCP ingress (`mcp_server.py`) | slots, executor thread, tasks | tool call, cancellation, done callback | isolated operation, batch |
| Circuit breaker (`runtime_control.py`) | failure count, opening time, generation, active probe | `allow`, `abandon_probe`, `record`, `reset` | every isolated call |
| Admission (`runtime_control.py`) | queue of tickets, active and batch counters, memory | `acquire`, `release` | every isolated call, batch items |
| Worker pool (`worker_pool.py`) | idle workers, total, generation, prewarm reservation | `acquire`, `release`, `warm_worker_pool`, `shutdown` | admitted calls, prewarm thread |
| Worker exchange (`worker_process.py`, `worker.py`) | pipes, reader thread, child | send, look, check, read, answer | the leased worker |
| Isolated operation (`sandbox.py`) | where each call is, what it holds | `run_operation` | breaker, admission, pool, exchange |
| Batch (`sandbox.py`) | futures, results by index, bytes | `run_batch` | isolated operation |
| Obligations (`obligations.py`) | layers, entries, receipt | check, replay | batch, certificate checker |
| Command line (`cli.py`) | process, temporary file, published receipt | each command | obligations, file system |
| Currency rates (`currency.py`) | cache file, refresh flag, generation, next attempt | `convert` | cache file, feed, two app-runtime threads |
| Runtime client (`MathRuntimeService.swift`) | process, generation, waiters, pending requests | `perform`, reader, timeouts, cancellation | `app_runtime.py` over two pipes |
| Calculator (`CalculatorStore.swift`, `ExpressionEditing.swift`) | entry, result, tasks, revision, history | keys, evaluate, clear, undo, memory | runtime client |
| Converter (`UnitConversionStore.swift`) | input, units, output, request, revision | keys, unit changes, swap, activate, deactivate | runtime client, mode transition |
| Envelopes (`output_policy.py`, `transport_budget.py`, `runtime.py`) | none, but for the process timer | policy, line readers, encoder, guard | every answer |
| Operations (`operations/*`) | none | 46 typed operations | the worker |
| Catalog and contracts (`catalog*.py`, `contracts.py`) | none | search, describe, validate | clients |
| Method packs, finite sums, coverage record (`src/research`) | saved packs and records | extract, load, apply, record, verify | obligations |

Hard behaviours: locks released in the middle of an operation (pool start, currency
refresh), values read before a lock (breaker clock, rate cache), calls that are
cancelled or time out at any point, processes that die at any point, completions in
any order, continuations that outlive what they were started for, budgets that run out
in the middle of a step. The list is in `PROJECT.json` ("hazards"), each at its line,
with the properties that guard it.

## Modules and how they correspond to the code

`PROJECT.json` ("map") names the source lines of each definition. In the concurrent
modules one action is one critical section, or one step between two points where
another thread or task can interfere.

* **BreakerProtocol** is the abstract protocol closed / open / half-open.
  **CircuitBreaker** is the class; a call reads the clock (`SampleClock`) before it
  enters the lock (`Allow`). It implements BreakerProtocol (`FollowsProtocol`).
* **McpServer** is `_run_cancellable`: event loop, executor thread and caller are
  separate; a cancelled call leaves while its thread runs on and its slot is released by
  the done callback. Its last part, `GatesSpec`, puts it beside CircuitBreaker, the other
  gate of a tool call.
* **Admission** is `AdmissionController`. Tickets are records compared by value, as
  the dataclass compares; `RemoveFirstEqual` is `queue.remove`. A waiting call polls:
  each `Wake` is one turn of its loop.
* **WorkerPool** is `_WorkerPool` with its callers: `acquire` is split where it leaves
  the lock, and so is prewarming. Children die at any time (`Dies`), and `Thread.start`
  may raise (`PrewarmThreadFails`); after that some properties are no longer claimed
  (`ThreadsStart`).
* **WorkerExchange** is `_execute_worker`, the child's main loop and the reader thread,
  joined by pipes; libraries may write stray lines, the child may crash. `Send` returns at
  once when the pipe takes the request, and otherwise leaves the supervisor blocked in
  `flush()` until the child reads (`Drain`) or dies (`PipeBreaks`). The last part of
  WorkerPool, `WorkersSpec`, puts the two beside each other.
* **Sandbox** composes CircuitBreaker and Admission by `INSTANCE` with a pool reduced
  to its slots, and follows one call through `_run_operation_impl` and
  `_execute_admitted_operation`, exceptions included. The slots are the workers that
  calls hold or start, the idle ones, the reservation of the background prewarm (for
  which an admitted call waits, up to its deadline), and one that is lost when a thread
  cannot be started.
* **Batch** is `run_batch` with its thread pool; a single operation is its outcome and
  its size. Keys stand for (operation, arguments, limits), so equal keys are duplicates.
* **Obligations** is `check_obligation_set` and `replay_obligation_set`. Claims are true,
  false or outside their provider's domain; statuses follow the code's mapping.
* **CommandLine** is a process of `cli.py`: parsing, documents, command, temporary file,
  `os.link`, clean-up and exit code; it may be killed between any two steps.
* **CurrencyRates** is `ECBRateService`: reading the cache (`Load`) and deciding under
  the lock (`Decide`) are separate, as are fetching, saving and publishing.
* **RuntimeService** is `MathRuntimeService` with `app_runtime.py` at the other end: the
  write queue, the reader, the timers and each caller's task interleave; a process belongs
  to a generation, and requests and waiters are resumed through their continuations.
* **CalculatorStore** holds the lexical functions over sequences of tokens
  (`ExpressionEditing.swift`) and the main-actor store that uses them, **ConversionStore**
  the converter and the mode transition. Evaluation and conversion tasks are steps of their own,
  guarded by revision and request identity as in the code.

The pure modules have one variable, `call`: a step applies an operation to one choice
of arguments and records the result. **Handlers** has the argument checks of
`validation.py`, the errors of `errors.py`, and the exact arithmetic of numbers and
polynomials that Python and SymPy provide (external).

* **FixedWidth** (`programmer.py`), **ExactNumbers** (`rounding.py`, `number_theory.py`,
  `combinatorics.py`, `floating.py`): scaled widths and formats, compared with definitions
  over the integers.
* **Certificates** (issuer, independent checker and the Lean bridge), **Verification**.
* **Dimensions** (inference, the homogeneity check, and the pi groups, whose powers must
  give every dimensionless product), **Quantities** (`quantity.py`,
  `units.py`, `data.py`, `measurement.py`), **Finance** (`finance.py`, and the rate
  documents of `currency.py`: a document read back never extends what was fetched).
* **Expressions** (`safe_expression.py`, `formatting.py`, `expression.py`,
  `algebra.py`), **Calculus**, **Numerics** (`numerical.py`, `matrix.py`,
  `linear_algebra.py`), **Optimization**, **Geometry**, **Statistics** (`probability.py`, `inference.py`). What SymPy, NumPy and
  mpmath compute is a value of a small domain or a nondeterministic choice; what the code
  does with it is modelled.
* **Envelopes** and **Catalog**: what surrounds an operation: output policy, bounded
  lines, request documents, the outcome that the server declares, the process timer;
  search, selection and contracts.
* **FiniteSums**, **MethodPacks**, **SumCoverage**: the research workflow from an
  untrusted antidifference to a record that claims a sum. MethodPacks includes the
  commands that load and apply a pack and what each of them prints; SumCoverage takes
  task and result as documents any field of which may be missing or rewritten, and the
  corpus of mutations that a record has to detect.
* **Evaluations**: the scoring, gates, decisions and commands of the two experiments that
  decide what may be reported (`trust_failclosed_eval`, `shadow_verifier_eval`). The answers
  of the arms are the input: the registered ones, with some of them disturbed.

The modules `MC*` give TLC its model values where a configuration alone cannot; MCDesk
extends RuntimeService, CalculatorStore and ConversionStore, whose variables are distinct.
`*Proofs` hold the theorems. Where components share no state, one specification holds several and a
variable `focus` (`area` for the pure modules) says which of them a behaviour moves; the
others rest in an initial state in which none of their fair actions is enabled. Each behaviour of each
component is thus explored once, and their product is not.

## Runs

| Run | Instance | Shows |
|---|---|---|
| gates | 3 callers, threshold 2, 7 disturbances; 3 tool calls, 2 slots, 1 thread; fair | a probe and an ingress slot always have someone who gives them back; only the probe restores service; refinement; both gates open again |
| admission | 4 interchangeable calls of 2 sizes, 3 leases, 2 for batches, 2 queued, memory 4 | limits, accounting, tickets and lane; only a lost ticket blocks the queue |
| workers | 2 threads, 3 processes, maximum 2, 1 shutdown, `Thread.start` may raise; 3 operations on one worker; fair | slots, one owner for each process, generations, reservations settle; no answer crosses over, each operation ends |
| sandbox | 3 calls of 2 threads, 2 leases, 1 queued, 2 slots, prewarming, shutdowns, fair | nothing kept on any path; an admitted call waits in the pool for the prewarm only; every call returns; callers satisfy Admission's specification |
| obligations | all graphs over 3 ids, every kind, 2 versions, 1 replay; 2 processes with one receipt path; fair | acyclicity decided, sound verdicts and feedback, every request ends; a published receipt is whole and its process's own |
| services | up to 3 items of 5 kinds; 2 threads, 3 conversions, 1 tick, failing storage; fair | each index answered by its own item within limits, every batch returns; no silent expired rate, refreshes end |
| desk | 2 callers, 1 fault; entries of 4 tokens, of 7 with the exponent of an opened result, 2 evaluation tasks; 4 units, 2 conversions; fair client | no caller lost or resumed twice, every `perform` returns; shown results belong to the entry; entries translate; the converter pairs outputs with units |
| operations | 20 areas, inputs at and beyond each limit | the seven groups of properties of the pure modules |
| admission_cancel | 3 calls, 1 lease | violation: a cancelled call removes another's ticket |
| runtime_restart | 2 callers, 1 fault | violation: a retry kills a handshake in flight |
| minimize_cover | functions on 5 points, 6 budgets | violation: a certified cover misses a minimizer |
| nearest_float | formats of 5 and 8 bits, decimals in 64ths of the smallest narrow step | violation: a decimal is given the narrow value that is farther from it |

**The properties of `operations`.** `MachineNumbersFaithful`: words, shifts, overflow
flags, roundings, factorials, floating neighbours and distances agree with their
definitions, and a decimal gets its nearest floating value, ties to even, unless the
rounding to the wide format on the way to the narrow one has made a tie of it. `ProofsSound`: a certificate that verifies (forged ones included), a Lean
artifact and a verdict state truths, exact residuals exactly and numeric ones within the
tolerance, but for a "not equivalent" that rests on the structure of two domains. `DimensionsAgree`: what is inferred passes the
check, pi groups are primitive and span, quantities called exact are exact. `SurfaceKeepsMeaning`:
trimming keeps status and code, an oversized line never shifts the next, an inner timer
neither postpones nor advances an outer one, a near match is not selected. `AnswersHonest`:
values are defined, solution sets neither lose nor invent members, linear systems are
classified correctly, shape bounds cover expansions. `NumbersHold`: enclosures, brackets
and budgets; cumulative and quantile functions, tests and intervals, payments and
balances agree, and a cached rate document never outlives what was fetched.
`PacksHonest`: an applied or recorded sum is true, evidence counts once, undisturbed
records are established and every catalogued mutation is detected; an evaluation reports
of its arms what they did.

**Why the bounds suffice.** The conflicts in the runtime are between two or three actors:
one that holds (a lease, the probe, a slot, a process), one that waits or is stale, and one
that gives up, restarts or shuts down. Each run has at least that many, and one more
resource or operation than is needed to reuse what was released. In the sandbox run two
threads make three calls, so that each kind of resource is taken while it is held, waited
for, lost or reserved; how three and four calls queue is the subject of the admission run,
whose specification the calls of Sandbox are shown to keep to. Limits are at the
smallest values at which full, almost full and empty differ. Counters that grow for ever
(disturbances, shutdowns, conversions, clock, replays, faults, tasks) are bounded by named
constants; graphs over three ids contain chains, forks, joins, self-loops and cycles of
two and three; four tokens hold a number, an operator, a group and a percent sign, and
every deletion back. For pure operations the inputs are chosen so that each guard is met
on both sides: widths of 4 and 8 bits have the same boundary cases as 32 and 64, and the
limits of terms, degrees and coefficients are lowered until small polynomials cross them.
`CHECK_DEADLOCK FALSE` is used where a bound lets the system stop.

**Fairness.** Weak fairness of steps a thread takes by itself, and strong fairness where
the executor's queue, which is first in first out, hands a call its thread: a waiting
call polls every 25 ms; the supervisor of a worker polls; a thread inside a pool method goes on;
starts, terminations and fetches have their own timeouts; every operation has a
deadline; a queued block of a dispatch queue runs, a timer fires, an executor thread
takes the next call. Nothing is assumed of children, readers of a dead pipe, users or
the operating system. So a request longer than the pipe, sent to a live child that does
not read, may block its supervisor for ever: `flush()` has no deadline and looks at no
cancellation (`worker_process.py:234-235`). `EveryOperationEnds` says that an operation
ends or is in that state (`StuckInWrite`); `EveryCallReturns` assumes that an execution
ends, which is so for children that read what they are sent. Nothing is assumed of the
prewarm either: a call that waits for it is answered at its deadline. `CallersAsAssumed`
shows that Sandbox provides the fairness that Admission assumes.

## Findings

1. *A cancelled call removes another call's ticket* (`runtime_control.py:106`).
   Tickets compare by value, the turn test uses identity. An abandoned ticket can stay
   at the head of the queue; later calls leave only by their deadlines
   (`EveryCallReturns` shows that they do).
2. *A retry kills a launch in flight* (`MathRuntimeService.swift:297`). Two callers
   lose one process; the second to notice stops the process the first has just launched.
   `EveryPerformReturns` shows that both still return.
3. *The minimizer cover loses an interval* (`optimization.py:395`). When the budget ends
   while a popped interval is split, the interval is dropped. The value enclosure remains
   right (`NumbersHold`).
4. *A decimal is not always rounded to the nearest binary32* (`floating.py:139`, `:147`).
   It becomes a binary64 float first, so a decimal just beside the middle of two binary32
   values is made a tie and goes to the even one: the decimal of 1+2^-24+2^-60 becomes 1.0,
   and the answer says it was rounded to the nearest value (`:125`). Everything else about
   neighbours, ties and directions holds (`MachineNumbersFaithful`).

**Deviations** met while modelling; the named ones are stated in the modules and fail,
and no run depends on them.

* `InteractiveLane` (Admission): `docs/agent-runtime.md:56` promises a lane for a single
  call; memory is tested before the lane and may be taken by batches.
* `BestEffortPrewarm` (WorkerPool): a failed `Thread.start` strands the reservation
  (`worker_pool.py:221`; docstring at `:295`); acquires then wait for their deadlines.
* `FailureRetainsRates` (CurrencyRates): a failed refresh saves the snapshot it read
  before the lock over newer rates (`currency.py:224`; `docs/product-model.md:65`).
* `IssuedIsCheckable` (Certificates): the checker bounds intermediate polynomials that
  the issuer does not.
* `OnlyRedundantDropped` (Envelopes): `resultMode=approx` drops an exact value that has
  no approximation (`output_policy.py:29`; `docs/REVIEW_CONTRACT.md:104`).
* Calculator: the sign key applies to the last factor or exponent rather than the
  operand (`docs/product-model.md:74`); `5%^2` becomes `(5)/100^2`; an entry may begin
  with a binary operator. The digits after the sign of an exponent are taken for a number
  of their own, against the comment at `CalculatorStore.swift:329`: Delete opens a shown
  result as text, and `1.5e-7` can then become `1.5e-7.` or `1.5e-0.`, which the core
  rejects. Converter: backspacing in a result with an exponent keeps the
  old output.
* Verification: two domains are compared by structure (`verification.py:257`), so that
  under the strict policy equal domains that SymPy writes differently would be reported as
  a proven "not equivalent". The model allows it, and `VerificationSound` claims a witness
  only for a "not equivalent" that does not rest on the domains.
* Linear systems: the reported forward-error bound is shown to hold with a factor of two
  for any computed vector (`NumbersHold`); for the bound as it is (`numerical.py:500`),
  which the result calls estimated, nothing is claimed.
* `worker_process.py:234`: a blocked write (see Fairness).
* `runtime.py` re-arms an outer one-shot alarm only while time remains: one that expired
  inside the guard is lost.
* Expressions and units: `1/(0**-1)` answers 0; a system whose solution contains a
  `ConditionSet` is classified "infinite"; an exponent `km/m` counts as 1; a `TypeError`
  in a sum of quantities becomes `E_UNIT`.
* Root search: the guard of Brent's step bisects whenever the previous point lies on the
  other side; merged roots keep the first root. `parameterC` of `"1/0"` raises an uncaught
  `ZeroDivisionError` (`shifted_square.py:55`), and the pack counts its own extraction sum
  with a renamed index as new evidence (`shifted_square_apply.py:583`).

## Proofs

Each theorem holds for every value of the constants that satisfies the named ASSUME of
its module (finite sets of actors, natural limits, at least one of what there must be
one of). Invariants other than type invariants are seldom inductive; the inductive one is
a definition of the component's module, was checked by TLC first, and is named below
with the reason for its extra conjuncts.

* **GateProofs**. *CircuitBreaker* (`CircuitAssumption`): type correctness,
  `ProbeIsCarried`, `HalfOpenIsolation`, the action property `OnlyProbeRestores`, and the
  refinement of BreakerProtocol. `InductiveInvariant` adds that no permit is of a later
  generation, that a closed circuit is below its threshold, and that a probe, or a clock
  reading past the open period, exists only once the open period is over.
  *McpServer* (`McpAssumption`): `IngressAccounted`. `IngressInvariant` says that a job
  is in the executor exactly while its call has not released its slot, so that neither
  releaser ever finds the slot released.
* **AdmissionProofs** (`AdmissionAssumption`): type correctness, exact counters,
  capacity, and `QueueConsistent`. The capacity bound needs the exact counters: the guard
  tests counters, the property counts leases. `QueueInvariant` counts, for each shape of
  ticket, the tickets in the queue and the calls that wait with it. `queue.remove` takes
  the first *equal* ticket, so identity is not preserved, and that count is what survives
  of it. `QueueStaysConsistent` assumes `LanesConfigured`: fewer batch leases than leases
  and requests within the memory budget, as the code's defaults (4 and 3) have it.
* **WorkerProofs** (`PoolAssumption`, `ExchangeAssumption`): `PoolConsistent` and
  `ExchangeConsistent`. The pool's counter is exact because no process has two owners,
  and owners are told apart by where each thread stands (`OwnersInPlace`), through every
  point at which `acquire` and prewarming leave the lock. In the exchange the permission
  of `expect_response` is in one place (`OnePermission`), a reply is to the request under
  way and the last line written (`ReplyIsLast`), so a worker that is given back is silent.
* **SandboxProofs** (`SandboxAssumption`): `NothingKept`, `AdmittedFindsRoom`, and
  `SandboxImplementsAdmission`: each step of a call is a step or a stutter of Admission.
  `SandboxInvariant` says for each place in the code what a call holds there.
  `AdmittedWaitForPrewarmOnly`: a call that waits in the pool finds a slot once its idle
  workers are evicted, unless the prewarm holds a reservation or a slot was lost with a
  thread that could not be started; for the workers out are those of other calls that hold
  a lease, and there are as many slots as leases. Slots of calls, idle workers and
  reservation together stay within the maximum (`SlotsInPlace`).
* **ServiceProofs** (`BatchAssumption`, `RatesAssumption`): `EveryIndexAnswered`,
  `BatchWithinLimits` and the action property `SilenceIsFresh`. `BatchInvariant` relates the results collected so far
  to the items that share their key, and the answer to the results. `LimitsInvariant` adds the
  accounts behind the limits: the bytes charged are the sum of what is stored, for each
  *logical* result (`BytesAccounted`), and no more items run than the batch has threads
  (`ThreadsAccounted`); the budget then follows because `batch_worker_count` divides it by
  the largest item. The sum is over units, a finite set with one element for each byte, so
  that it needs the library's theorems on cardinality and no induction. `RatesInvariant` says
  that a refresh has one leader (`OneLeader`) and that a conversion that waited while the
  latest refresh ended well sees a success that was added since (`WaitsCounted`), which is why the flags of an answer can
  be trusted although the cache is read before the lock.
* **ObligationsProofs** (`ObligationsAssumption`, `ProcessAssumption`): type correctness,
  `LayeringDecides`, `Gated`, `VerdictsSound`, `SilenceMeansProved` and `ReplaysAgree` for
  every graph, and `ReceiptIsOwn` for any number of processes. A cycle is represented by a
  *knot*, a nonempty set each of whose members depends on a member. The invariant says
  that no member of a knot is ever peeled off; when nothing is left, there is no knot, and
  when a layer is empty the remaining obligations are one. `Settled` adds that what is
  peeled off depends on final entries only, so that the gate's reading is never outdated.
  `ReplayInvariant` grounds the entries of both checks in the same request. For a receipt,
  `ProcessInPlace` says at each step of a process whether its temporary file exists and
  whether the target may be its own.
* **DeskProofs** (`ServiceAssumption`, `ConversionAssumption`, `StoreAssumption`):
  `ServiceConsistent` for any set of callers and any number of faults,
  `ConverterConsistent`, `ResultBelongsToEntry`, and the action property
  `OnlyAnswersAreRecorded`.
  `HeldInPlace` restates "held exactly once" without counting: a caller that waits for
  the process is among the waiters or in one job of the write queue, one that waits for
  an answer has its own request pending, and nobody else is anywhere. `LaunchInPlace` says
  that the second half of a launch is at the head of the queue and that no process is held
  then; with it, a reader may leave only when its process is gone or a stop is queued.
  `ConversionInvariant` says that only the newest request is unchanged, that it is the
  active one and for the units on screen, and that what is shown is what was completed
  last. `CalculatorInvariant` adds to `ResultBelongsToEntry` that no two evaluation tasks
  have one identity (`EvaluationsApart`): the task whose identity is active is then the one
  that was submitted from the entry on screen, because every edit, restoration, mode change
  and memory recall goes through one operator (`Enter`) that forgets the active identity
  and the result. Nothing is needed of the lexical functions.
* **OperationProofs**: the operations whose modules the prover can reason about, for any
  choice of what TLC takes from small sets. A module of pure operations keeps one request
  and its answer, so each theorem says that whatever a step answers is right.
  `MachineArithmeticIsFaithful` (any widths and literals): sum, difference, product,
  quotient and remainder, wrapped, saturated or refused, are those of the integers, and
  the flags say so; it rests on the residue of a word being unique (`Residue`) and on the
  laws of the division modes. `VerificationIsSound` (any points, values, candidates and
  constraints): what is called equivalent is so at every point; what is called not
  equivalent differs at the point reported, unless the structural comparison of the domains
  was the reason; what is called valid meets every constraint, with no tolerance for exact
  residuals, what is called invalid fails one, and what is called complete covers every
  solution within the tolerance. `CatalogNeverOverstates`
  (any vocabulary): an operation found without the literal phrase has every word of the
  query, the shortcut to one variant of a schema accepts only what the union accepts, and
  an assurance label is the registered one or the weakest. `QuantizeIsNearest` (any
  decimals and increments below ten digits): a rounded decimal is a multiple of its quantum
  next to the value, nearest in the half modes with ties where the mode says, and never on
  the wrong side in the directed ones. `CachedRatesExpire` (any length of a day, any time
  of release): a cache document, whoever wrote it, is fresh for a day at most and not after
  the release that follows its date.

Left to TLC, and why:

* liveness (`ServiceRecovers`, `SlotsComeBack`, `ReservationSettles`,
  `EveryOperationEnds`, `CallersAsAssumed`, `EveryCallReturns`, `EveryRequestEnds`,
  `EveryBatchReturns`, `RefreshEnds`, `EveryPerformReturns`): the prover has neither
  fairness nor ENABLED;
* the composite properties of `operations`, and `EntryIsExecutable`. They compare
  recursive definitions (RECURSIVE operators over trees and token sequences, folds over
  polynomials and distributions) with reference definitions, and each would need
  induction over data. The parts `ArithmeticFaithful` and
  `QuantizeNearest` of `MachineNumbersFaithful`, `VerificationSound` of `ProofsSound`,
  `NoNearMatch` and `SelectionNeverWeakens` of `SurfaceKeepsMeaning`, and `CacheExpires` of
  `NumbersHold` are proved of their own modules; MCOperations itself reaches
  RECURSIVE operators and no theorem can be stated about it.

## Not modelled

What the external libraries compute; the declarative schemas themselves; the views; build,
packaging and check scripts; the three research experiments that measure latency, reuse
and cost, and the live model arms of the other two; three of the fourteen mutations of
the finite-sum corpus. Of modelled
components: the decimal context in which payments are computed (`finance.py:98-99`; they
are exact rationals here), complex results on the calculator's display,
the parsing of the ECB feed and its calendar, the resource limits set inside the
child, telemetry, the search for a Lean installation, the wording of every message.
Duplicate obligation ids, malformed documents, references to ids that do not exist, and
altered receipts are one Boolean or one refusal in Obligations.

## Plan

The modules cover the system's own logic, and every safety invariant of the concurrent
components is proved. What is left:

1. Action properties that the proved invariants make available: which steps may end a
   process of RuntimeService, resume a caller or release a lease.
2. More of the pure operations: what does not fold over sequences in Numerics, Statistics
   and the rest of ExactNumbers is within the prover's reach.
