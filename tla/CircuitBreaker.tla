--------------------------- MODULE CircuitBreaker ---------------------------
(***************************************************************************)
(* class CircuitBreaker of src/src/math_anchor/runtime_control.py, with    *)
(* the calls of sandbox._run_operation_impl that hold its permits.         *)
(*                                                                         *)
(* Every method body runs under self.lock and is one action.  allow()      *)
(* reads the clock BEFORE it takes the lock, so the reading is an action   *)
(* of its own (SampleClock) and may be stale when the lock is granted.     *)
(*                                                                         *)
(* Time is abstracted to the one comparison the code makes.  `circuit' is  *)
(* "closed" when opened_at is None, "open" within open_seconds of it and   *)
(* "cooled" after that; sampled[c] says what the comparison gives with the *)
(* clock value call c has read.  Each opening sets opened_at to a later    *)
(* instant than any value already read, which makes those "early" again.   *)
(*                                                                         *)
(* A permit is a record [generation, probe_id]; NoProbe stands for None    *)
(* (probe ids start at 1).  inflight are the calls that hold a permit.     *)
(***************************************************************************)
EXTENDS Naturals, FiniteSets

CONSTANTS
    Callers,             \* threads that run operations
    FailureThreshold,    \* failure_threshold
    MaxDisturbances      \* bound: outcomes that are not a success, and resets

ASSUME CircuitAssumption ==
    /\ FailureThreshold \in Nat \ {0}
    /\ MaxDisturbances \in Nat

VARIABLES
    consecutive_failures,
    circuit,             \* opened_at, relative to the clock
    generation,
    next_probe_id,
    active_probe_id,
    sampled,             \* clock reading of a call inside allow()
    inflight,            \* calls that hold a permit
    permit,              \* the permit each of them holds
    disturbances

breakerVars == <<consecutive_failures, circuit, generation,
                 next_probe_id, active_probe_id>>
callVars == <<inflight, permit>>
cbVars == <<breakerVars, sampled, callVars>>
vars == <<cbVars, disturbances>>

NoProbe == 0
Permit(g, p) == [generation |-> g, probe_id |-> p]
Permits == [generation : Nat, probe_id : Nat]
NoPermit == Permit(0, NoProbe)
Samples == {"none", "early", "due"}
Outcomes == {"success", "error", "infrastructure_failure"}

\* One type invariant for the breaker and the permits it has issued.
TypeOK ==
    /\ consecutive_failures \in 0..FailureThreshold
    /\ circuit \in {"closed", "open", "cooled"}
    /\ generation \in Nat
    /\ next_probe_id \in Nat
    /\ active_probe_id \in 0..next_probe_id
    /\ sampled \in [Callers -> Samples]
    /\ inflight \in SUBSET Callers
    /\ permit \in [Callers -> Permits]
    /\ disturbances \in 0..MaxDisturbances

CBInit ==
    /\ consecutive_failures = 0
    /\ circuit = "closed"
    /\ generation = 0
    /\ next_probe_id = 0
    /\ active_probe_id = NoProbe
    /\ sampled = [c \in Callers |-> "none"]
    /\ inflight = {}
    /\ permit = [c \in Callers |-> NoPermit]

Opened == circuit # "closed"      \* opened_at is not None

\* A call receives a permit, and gives it back.
Grant(c, p) ==
    /\ inflight' = inflight \cup {c}
    /\ permit' = [permit EXCEPT ![c] = p]

Return(c) ==
    /\ c \in inflight
    /\ inflight' = inflight \ {c}
    /\ permit' = [permit EXCEPT ![c] = NoPermit]

----------------------------------------------------------------------------
(* allow()                                                                 *)

\* now = time.monotonic(), read outside the lock.
SampleClock(c) ==
    /\ c \notin inflight
    /\ sampled[c] = "none"
    /\ sampled' = [sampled EXCEPT ![c] =
                      IF circuit = "cooled" THEN "due" ELSE "early"]
    /\ UNCHANGED <<breakerVars, callVars>>

\* The monotonic clock passes opened_at + open_seconds.
CoolDown ==
    /\ circuit = "open"
    /\ circuit' = "cooled"
    /\ UNCHANGED <<consecutive_failures, generation, next_probe_id,
                   active_probe_id, sampled, callVars>>

AllowClosed(c) ==
    /\ ~Opened
    /\ Grant(c, Permit(generation, NoProbe))
    /\ UNCHANGED breakerVars

ProbeSlotFree == active_probe_id = NoProbe

\* Mutant: the open period is not waited out.
OpenPeriodIgnored(c) == TRUE

\* remaining <= 0, with the clock value the call has read.
OpenPeriodOver(c) == sampled[c] = "due"

\* remaining > 0, or the single probe is already out.
AllowRefused(c) ==
    /\ Opened
    /\ ~OpenPeriodOver(c) \/ ~ProbeSlotFree
    /\ UNCHANGED <<breakerVars, callVars>>

AllowProbe(c) ==
    /\ Opened
    /\ OpenPeriodOver(c)
    /\ ProbeSlotFree
    /\ next_probe_id' = next_probe_id + 1
    /\ active_probe_id' = next_probe_id + 1
    /\ Grant(c, Permit(generation, next_probe_id + 1))
    /\ UNCHANGED <<consecutive_failures, circuit, generation>>

Allow(c) ==
    /\ c \notin inflight
    /\ sampled[c] # "none"
    /\ AllowClosed(c) \/ AllowRefused(c) \/ AllowProbe(c)
    /\ sampled' = [sampled EXCEPT ![c] = "none"]

----------------------------------------------------------------------------
(* abandon_probe(permit)                                                   *)

\* Mutant: a call refused by admission keeps the probe it reserved.
AbandonProbeForgotten(c) ==
    /\ Return(c)
    /\ UNCHANGED <<breakerVars, sampled>>

AbandonProbe(c) ==
    /\ Return(c)
    /\ active_probe_id' =
         IF /\ permit[c].generation = generation
            /\ permit[c].probe_id = active_probe_id
         THEN NoProbe ELSE active_probe_id
    /\ UNCHANGED <<consecutive_failures, circuit, generation, next_probe_id,
                   sampled>>

----------------------------------------------------------------------------
(* record(outcome, permit)                                                 *)

IsCurrentGeneration(c) == permit[c].generation = generation

\* Mutant: any call admitted in this epoch or before it passes for the probe.
IsAnyCall(c) == TRUE

IsCurrentProbe(c) ==
    /\ IsCurrentGeneration(c)
    /\ permit[c].probe_id # NoProbe
    /\ permit[c].probe_id = active_probe_id

\* generation += 1; opened_at = time.monotonic()
OpenCircuit ==
    /\ circuit' = "open"
    /\ generation' = generation + 1
    /\ sampled' = [c \in Callers |->
                     IF sampled[c] = "due" THEN "early" ELSE sampled[c]]

StaysAsItIs == UNCHANGED <<circuit, generation, sampled>>

\* A completion from before the circuit opened, or an outlived probe.
RecordIgnored(c, outcome) ==
    /\ IF Opened
       THEN ~IsCurrentProbe(c)
       ELSE ~IsCurrentGeneration(c) \/ permit[c].probe_id # NoProbe
    /\ UNCHANGED <<breakerVars, sampled>>

\* The current half-open probe completes.
RecordProbe(c, outcome) ==
    /\ Opened
    /\ IsCurrentProbe(c)
    /\ active_probe_id' = NoProbe
    /\ UNCHANGED next_probe_id
    /\ \/ /\ outcome = "success"
          /\ consecutive_failures' = 0
          /\ circuit' = "closed"
          /\ UNCHANGED <<generation, sampled>>
       \/ /\ outcome = "infrastructure_failure"
          /\ consecutive_failures' =
               IF consecutive_failures > FailureThreshold
               THEN consecutive_failures ELSE FailureThreshold
          /\ OpenCircuit
       \/ /\ outcome = "error"
          /\ UNCHANGED consecutive_failures
          /\ StaysAsItIs

Trips(failures) == failures >= FailureThreshold

\* An ordinary call of the current generation completes on a closed circuit.
RecordOrdinary(c, outcome) ==
    /\ ~Opened
    /\ IsCurrentGeneration(c)
    /\ permit[c].probe_id = NoProbe
    /\ UNCHANGED <<next_probe_id, active_probe_id>>
    /\ \/ /\ outcome = "infrastructure_failure"
          /\ consecutive_failures' = consecutive_failures + 1
          /\ IF Trips(consecutive_failures + 1)
             THEN OpenCircuit ELSE StaysAsItIs
       \/ /\ outcome = "success"
          /\ consecutive_failures' = 0
          /\ StaysAsItIs
       \/ /\ outcome = "error"
          /\ UNCHANGED consecutive_failures
          /\ StaysAsItIs

Record(c, outcome) ==
    /\ Return(c)
    /\ \/ RecordIgnored(c, outcome)
       \/ RecordProbe(c, outcome)
       \/ RecordOrdinary(c, outcome)

----------------------------------------------------------------------------
\* Mutant: reset leaves the half-open probe reserved.
ResetKeepsProbe ==
    /\ consecutive_failures' = 0
    /\ circuit' = "closed"
    /\ generation' = generation + 1
    /\ UNCHANGED <<next_probe_id, active_probe_id, sampled, callVars>>

\* reset(): closes the circuit and makes every permit in flight stale.
Reset ==
    /\ consecutive_failures' = 0
    /\ circuit' = "closed"
    /\ active_probe_id' = NoProbe
    /\ generation' = generation + 1
    /\ UNCHANGED <<next_probe_id, sampled, callVars>>

----------------------------------------------------------------------------
(* The breaker with its callers.  Successes are free; everything else that *)
(* can happen to a call, and resets, draw on the disturbance budget, which *)
(* bounds generation and next_probe_id.                                    *)

Disturb ==
    /\ disturbances < MaxDisturbances
    /\ disturbances' = disturbances + 1

Init == CBInit /\ disturbances = 0

Enter(c) == (SampleClock(c) \/ Allow(c)) /\ UNCHANGED disturbances

Succeed(c) == Record(c, "success") /\ UNCHANGED disturbances

Fail(c) ==
    /\ Disturb
    /\ AbandonProbe(c) \/ \E outcome \in Outcomes \ {"success"} : Record(c, outcome)

ClockAdvances == CoolDown /\ UNCHANGED disturbances

OperatorReset == Disturb /\ Reset

Next ==
    \/ \E c \in Callers : Enter(c) \/ Succeed(c) \/ Fail(c)
    \/ ClockAdvances
    \/ OperatorReset

Spec == Init /\ [][Next]_vars

\* Clients keep calling, calls in flight end (every call has a deadline, see
\* Sandbox) and the clock advances.
Fairness ==
    /\ \A c \in Callers : WF_vars(Enter(c)) /\ WF_vars(Succeed(c))
    /\ WF_vars(ClockAdvances)

FairSpec == Spec /\ Fairness

----------------------------------------------------------------------------
(* Properties                                                              *)

\* A reserved half-open probe (active_probe_id) is held by a call that is
\* still in flight.  Otherwise nothing ever clears the reservation and allow()
\* refuses every later call, the stranding abandon_probe's docstring describes.
ProbeIsCarried ==
    active_probe_id # NoProbe =>
        /\ Opened
        /\ \E c \in inflight : permit[c] = Permit(generation, active_probe_id)

\* While the circuit is open, of the calls in flight only the reserved probe
\* was admitted in the current generation, and there is at most one: everything
\* else still running was admitted before the circuit opened.
HalfOpenIsolation ==
    Opened =>
        \A c, d \in inflight :
            /\ permit[c].generation = generation =>
                 permit[c].probe_id = active_probe_id /\ active_probe_id # NoProbe
            /\ permit[c].generation = generation /\ permit[d].generation = generation
                 => c = d

\* An open circuit closes within its generation only in the step in which the
\* call holding the current probe completes, after open_seconds have passed; a
\* call admitted before the opening never closes it (agent-runtime.md).
OnlyProbeRestores ==
    [][ Opened /\ ~Opened' /\ generation' = generation =>
          /\ circuit = "cooled"
          /\ \E c \in inflight :
                /\ permit[c] = Permit(generation, active_probe_id)
                /\ active_probe_id # NoProbe
                /\ c \notin inflight' ]_vars

\* The inductive strengthening of the invariants above: permits come from the
\* past, a closed circuit is below its threshold, and a probe goes out only
\* after the open period.
InductiveInvariant ==
    /\ TypeOK
    /\ ProbeIsCarried
    /\ HalfOpenIsolation
    /\ ~Opened => consecutive_failures < FailureThreshold
    /\ \A c \in inflight : permit[c].generation <= generation
    /\ Opened /\ (\E c \in Callers : sampled[c] = "due") => circuit = "cooled"
    /\ active_probe_id # NoProbe => circuit = "cooled"

\* The breaker refines the promised phase protocol.
CurrentPhase ==
    IF ~Opened THEN "closed"
    ELSE IF active_probe_id = NoProbe THEN "open" ELSE "half_open"

Protocol == INSTANCE BreakerProtocol WITH phase <- CurrentPhase, epoch <- generation

\* Every step of the breaker is a step of the phase protocol or leaves the
\* phase and the epoch alone: closed -> open -> half-open -> closed.
FollowsProtocol == Protocol!ProtocolSpec

\* Once disturbances stop, the circuit closes for good: neither a reserved
\* probe nor a stale completion can keep refusing calls for ever.
ServiceRecovers == <>[](~Opened)
=============================================================================
