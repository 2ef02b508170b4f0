----------------------------- MODULE GateProofs -----------------------------
(***************************************************************************)
(* Proofs about the two gates of a tool call: CircuitBreaker for any set   *)
(* of callers, any threshold and any budget of disturbances, and the       *)
(* ingress of McpServer for any finite set of calls, any ingress limit and *)
(* any number of executor threads.                                         *)
(***************************************************************************)
EXTENDS McpServer, FiniteSetTheorems, TLAPS

USE CircuitAssumption, McpAssumption

\* The initial breaker satisfies the inductive invariant.
LEMMA InitInvariant == Init => InductiveInvariant
  BY DEF Init, CBInit, InductiveInvariant, TypeOK, ProbeIsCarried,
         HalfOpenIsolation, Opened, NoPermit, NoProbe, Permits, Samples,
         Permit

\* allow() and the clock reading before it preserve the invariant.
LEMMA EnterPreserves ==
  ASSUME InductiveInvariant, NEW c \in Callers, Enter(c)
  PROVE  InductiveInvariant'
  <1> USE DEF InductiveInvariant, TypeOK, ProbeIsCarried, HalfOpenIsolation,
              Opened, NoPermit, NoProbe, Permits, Samples, Permit,
              Grant, Return
  <1>1. CASE SampleClock(c)
    BY <1>1 DEF Enter, SampleClock, breakerVars, callVars
  <1>2. CASE Allow(c) /\ AllowClosed(c)
    BY <1>2 DEF Enter, Allow, AllowClosed, breakerVars, callVars
  <1>3. CASE Allow(c) /\ AllowRefused(c)
    BY <1>3 DEF Enter, Allow, AllowRefused, breakerVars, callVars
  <1>4. CASE Allow(c) /\ AllowProbe(c)
    BY <1>4 DEF Enter, Allow, AllowProbe, ProbeSlotFree, OpenPeriodOver
  <1>5. QED
    BY <1>1, <1>2, <1>3, <1>4 DEF Enter, Allow

\* record() and abandon_probe() preserve the invariant.
LEMMA CompletionPreserves ==
  ASSUME InductiveInvariant, NEW c \in Callers, NEW outcome \in Outcomes,
         Record(c, outcome) \/ AbandonProbe(c),
         disturbances' \in 0..MaxDisturbances
  PROVE  InductiveInvariant'
  <1> USE DEF InductiveInvariant, TypeOK, ProbeIsCarried, HalfOpenIsolation,
              Opened, NoPermit, NoProbe, Permits, Samples, Permit,
              Grant, Return
  <1>1. CASE AbandonProbe(c)
    BY <1>1 DEF AbandonProbe
  <1>2. CASE Record(c, outcome) /\ RecordIgnored(c, outcome)
    BY <1>2 DEF Record, RecordIgnored, IsCurrentProbe, IsCurrentGeneration,
                breakerVars, callVars
  <1>3. CASE Record(c, outcome) /\ RecordProbe(c, outcome)
    BY <1>3 DEF Record, RecordProbe, IsCurrentProbe, IsCurrentGeneration,
                OpenCircuit, StaysAsItIs
  <1>4. CASE Record(c, outcome) /\ RecordOrdinary(c, outcome)
    BY <1>4 DEF Record, RecordOrdinary, IsCurrentGeneration, Trips,
                OpenCircuit, StaysAsItIs
  <1>5. QED
    BY <1>1, <1>2, <1>3, <1>4 DEF Record

\* Every step of the breaker preserves the inductive invariant.
LEMMA NextPreserves ==
  ASSUME InductiveInvariant, [Next]_vars
  PROVE  InductiveInvariant'
  <1>1. ASSUME NEW c \in Callers, Enter(c)
        PROVE  InductiveInvariant'
    BY <1>1, EnterPreserves
  <1>2. ASSUME NEW c \in Callers, Succeed(c)
        PROVE  InductiveInvariant'
    BY <1>2, CompletionPreserves DEF Succeed, Outcomes, InductiveInvariant, TypeOK
  <1>3. ASSUME NEW c \in Callers, Fail(c)
        PROVE  InductiveInvariant'
    <2>1. disturbances' \in 0..MaxDisturbances
      BY <1>3 DEF Fail, Disturb, InductiveInvariant, TypeOK
    <2>2. QED
      BY <1>3, <2>1, CompletionPreserves DEF Fail, Outcomes
  <1>4. CASE ClockAdvances
    BY <1>4 DEF ClockAdvances, CoolDown, InductiveInvariant, TypeOK, Opened,
                ProbeIsCarried, HalfOpenIsolation, NoProbe, Permit, callVars, Samples, Permits
  <1>5. CASE OperatorReset
    BY <1>5 DEF OperatorReset, Disturb, Reset, InductiveInvariant, TypeOK, Opened,
                ProbeIsCarried, HalfOpenIsolation, NoProbe, Permit, callVars, Samples, Permits
  <1>6. CASE UNCHANGED vars
    BY <1>6 DEF vars, cbVars, breakerVars, callVars, InductiveInvariant, TypeOK,
                ProbeIsCarried, HalfOpenIsolation, Opened, Permit
  <1>7. QED
    BY <1>1, <1>2, <1>3, <1>4, <1>5, <1>6 DEF Next

\* The inductive invariant holds in every reachable state of the breaker.
THEOREM BreakerInvariant == Spec => []InductiveInvariant
  <1>1. Init => InductiveInvariant
    BY InitInvariant
  <1>2. InductiveInvariant /\ [Next]_vars => InductiveInvariant'
    BY NextPreserves
  <1>3. QED
    BY <1>1, <1>2, PTL DEF Spec

\* Type correctness: the failure streak stays within the threshold and the
\* active probe is one that was issued.
THEOREM TypeCorrect == Spec => []TypeOK
  BY BreakerInvariant, PTL DEF InductiveInvariant

\* A reserved half-open probe is always carried by a call in flight, so a
\* reservation can never be stranded (abandon_probe).
THEOREM ProbeNeverStranded == Spec => []ProbeIsCarried
  BY BreakerInvariant, PTL DEF InductiveInvariant

\* While the circuit is open at most one call of the current generation runs.
THEOREM HalfOpenIsolated == Spec => []HalfOpenIsolation
  BY BreakerInvariant, PTL DEF InductiveInvariant

\* In a state of the invariant, record() by a call closes an open circuit
\* only if that call is the current probe and the open period is over.
LEMMA RestoringStep ==
  ASSUME InductiveInvariant, Next, Opened, ~Opened', generation' = generation
  PROVE  /\ circuit = "cooled"
         /\ \E c \in inflight : /\ permit[c] = Permit(generation, active_probe_id)
                                /\ active_probe_id # NoProbe
                                /\ c \notin inflight'
  <1> USE DEF InductiveInvariant, TypeOK, Opened, NoProbe
  <1>1. ~ClockAdvances /\ ~OperatorReset
    BY DEF ClockAdvances, CoolDown, OperatorReset, Reset
  <1>2. \A c \in Callers : ~Enter(c) /\ ~AbandonProbe(c)
    BY DEF Enter, SampleClock, Allow, AllowClosed, AllowRefused, AllowProbe,
           AbandonProbe, breakerVars
  <1>3. PICK c \in Callers, outcome \in Outcomes : Record(c, outcome)
    BY <1>1, <1>2 DEF Next, Succeed, Fail, Outcomes
  <1>4. Return(c) /\ IsCurrentProbe(c)
    BY <1>3 DEF Record, RecordIgnored, RecordProbe, RecordOrdinary, breakerVars
  <1>5. permit[c] = Permit(generation, active_probe_id)
    BY <1>4 DEF IsCurrentProbe, IsCurrentGeneration, Permit, Permits
  <1>6. QED
    BY <1>4, <1>5 DEF Return, IsCurrentProbe

\* Only the healthy current probe restores service within a generation.
THEOREM RestoredByProbeOnly == Spec => OnlyProbeRestores
  <1> DEFINE Restored == Opened /\ ~Opened' /\ generation' = generation =>
               /\ circuit = "cooled"
               /\ \E c \in inflight :
                     /\ permit[c] = Permit(generation, active_probe_id)
                     /\ active_probe_id # NoProbe
                     /\ c \notin inflight'
  <1>1. InductiveInvariant /\ [Next]_vars => [Restored]_vars
    BY RestoringStep
  <1> HIDE DEF Restored
  <1>2. Spec => [][Restored]_vars
    BY <1>1, BreakerInvariant, PTL DEF Spec
  <1>3. QED
    BY <1>2 DEF OnlyProbeRestores, Restored

\* One step of the breaker is a step of the phase protocol or a stutter.
LEMMA StepRefines ==
  ASSUME InductiveInvariant, [Next]_vars
  PROVE  [Protocol!ProtocolNext]_(Protocol!protocolVars)
  <1> USE DEF Protocol!ProtocolNext, Protocol!Trip, Protocol!Reserve,
              Protocol!Inconclusive, Protocol!Refail, Protocol!Restore,
              Protocol!ForceClosed, Protocol!protocolVars, CurrentPhase, Opened,
              InductiveInvariant, TypeOK, ProbeIsCarried, NoProbe
  <1>1. ASSUME NEW c \in Callers, Enter(c)
        PROVE  [Protocol!ProtocolNext]_(Protocol!protocolVars)
    BY <1>1 DEF Enter, SampleClock, Allow, AllowClosed, AllowRefused, AllowProbe,
                ProbeSlotFree, breakerVars
  <1>2. ASSUME NEW c \in Callers, AbandonProbe(c)
        PROVE  [Protocol!ProtocolNext]_(Protocol!protocolVars)
    BY <1>2 DEF AbandonProbe
  <1>3. ASSUME NEW c \in Callers, NEW outcome \in Outcomes, Record(c, outcome)
        PROVE  [Protocol!ProtocolNext]_(Protocol!protocolVars)
    <2>1. CASE RecordIgnored(c, outcome)
      BY <2>1 DEF RecordIgnored, breakerVars
    <2>2. CASE RecordProbe(c, outcome)
      BY <2>2 DEF RecordProbe, IsCurrentProbe, OpenCircuit, StaysAsItIs
    <2>3. CASE RecordOrdinary(c, outcome)
      BY <2>3 DEF RecordOrdinary, OpenCircuit, StaysAsItIs
    <2>4. QED
      BY <1>3, <2>1, <2>2, <2>3 DEF Record
  <1>4. CASE ClockAdvances
    BY <1>4 DEF ClockAdvances, CoolDown
  <1>5. CASE OperatorReset
    BY <1>5 DEF OperatorReset, Reset
  <1>6. CASE UNCHANGED vars
    BY <1>6 DEF vars, cbVars, breakerVars
  <1>7. QED
    BY <1>1, <1>2, <1>3, <1>4, <1>5, <1>6 DEF Next, Succeed, Fail, Outcomes

\* The breaker implements the phase protocol: service that was cut off comes
\* back only through a half-open probe, or by an explicit reset.
THEOREM RefinesProtocol == Spec => FollowsProtocol
  <1>1. Init => Protocol!ProtocolInit
    BY DEF Init, CBInit, Protocol!ProtocolInit, CurrentPhase, Opened
  <1>2. InductiveInvariant /\ [Next]_vars
          => [Protocol!ProtocolNext]_(Protocol!protocolVars)
    BY StepRefines
  <1>3. QED
    BY <1>1, <1>2, BreakerInvariant, PTL
       DEF Spec, FollowsProtocol, Protocol!ProtocolSpec

----------------------------------------------------------------------------
(* The ingress of the MCP server.                                          *)

\* All slots are free and no job is submitted.
LEMMA IngressInitInvariant == IngressInit => IngressInvariant
  <1> SUFFICES ASSUME IngressInit PROVE IngressInvariant
    OBVIOUS
  <1>1. SlotHolders = {}
    BY DEF IngressInit, SlotHolders
  <1>2. QED
    BY <1>1, FS_EmptySet DEF IngressInit, IngressInvariant, IngressTypeOK

\* Taking the slot of a call that has none, and giving the slot of a call back.
LEMMA SlotStep ==
  ASSUME IngressInvariant, NEW c \in Calls
  PROVE  /\ Cardinality(SlotHolders) \in Nat
         /\ ~released[c] /\ released' = [released EXCEPT ![c] = TRUE] =>
               Cardinality(SlotHolders') = Cardinality(SlotHolders) - 1
         /\ released[c] /\ released' = [released EXCEPT ![c] = FALSE] =>
               Cardinality(SlotHolders') = Cardinality(SlotHolders) + 1
  <1> USE DEF IngressInvariant, IngressTypeOK
  <1>1. IsFiniteSet(SlotHolders)
    BY FS_Subset DEF SlotHolders
  <1>2. ~released[c] /\ released' = [released EXCEPT ![c] = TRUE] =>
          SlotHolders' = SlotHolders \ {c} /\ c \in SlotHolders
    BY DEF SlotHolders
  <1>3. released[c] /\ released' = [released EXCEPT ![c] = FALSE] =>
          SlotHolders' = SlotHolders \cup {c} /\ c \notin SlotHolders
    BY DEF SlotHolders
  <1>4. QED
    BY <1>1, <1>2, <1>3, FS_RemoveElement, FS_AddElement, FS_CardinalityType

\* Every step of the ingress preserves its invariant: the slot moves with the
\* job, whether the coroutine or the done callback gives it back.
LEMMA IngressStep ==
  ASSUME IngressInvariant, [IngressNext]_mcpVars
  PROVE  IngressInvariant'
  <1> USE DEF IngressInvariant, IngressTypeOK
  <1>1. ASSUME NEW c \in Calls, EnterIngress(c)
        PROVE  IngressInvariant'
    <2>1. /\ released[c] /\ released' = [released EXCEPT ![c] = FALSE]
          /\ slots' = slots - 1 /\ slots > 0
      BY <1>1 DEF EnterIngress
    <2>2. /\ Cardinality(SlotHolders') = Cardinality(SlotHolders) + 1
          /\ Cardinality(SlotHolders) \in Nat
      BY <2>1, SlotStep, Zenon
    <2>3. slots' + Cardinality(SlotHolders') = IngressLimit /\ slots' \in Nat
      BY <2>1, <2>2
    <2>4. QED
      BY <1>1, <2>3 DEF EnterIngress
  <1>2. ASSUME NEW c \in Calls, Deliver(c) \/ DoneCallback(c)
        PROVE  IngressInvariant'
    <2>1. /\ ~released[c] /\ released' = [released EXCEPT ![c] = TRUE]
          /\ slots' = slots + 1
      BY <1>2 DEF Deliver, DoneCallback, release_ingress
    <2>2. /\ Cardinality(SlotHolders') = Cardinality(SlotHolders) - 1
          /\ Cardinality(SlotHolders) \in Nat
      BY <2>1, SlotStep, Zenon
    <2>3. slots' + Cardinality(SlotHolders') = IngressLimit /\ slots' \in Nat
      BY <2>1, <2>2
    <2>4. QED
      BY <1>2, <2>3 DEF Deliver, DoneCallback, release_ingress
  <1>3. ASSUME NEW c \in Calls, Overloaded(c) \/ StartJob(c) \/ FinishJob(c)
                                 \/ Cancel(c) \/ NextCall(c)
        PROVE  IngressInvariant'
    BY <1>3 DEF Overloaded, StartJob, FinishJob, Cancel, NextCall, SlotHolders
  <1>4. CASE UNCHANGED mcpVars
    BY <1>4 DEF mcpVars, SlotHolders
  <1>5. QED
    BY <1>1, <1>2, <1>3, <1>4 DEF IngressNext

\* However calls, cancellations and jobs interleave, no ingress slot is lost or
\* given back twice, and calculations in flight stay within the limit.
THEOREM IngressNeverExceeded == IngressSpec => []IngressAccounted
  <1>1. IngressInvariant => IngressAccounted
    <2> SUFFICES ASSUME IngressInvariant PROVE IngressAccounted
      OBVIOUS
    <2>1. IsFiniteSet(SlotHolders) /\ InFlight \subseteq SlotHolders
      BY FS_Subset DEF IngressInvariant, IngressTypeOK, InFlight, SlotHolders
    <2>2. /\ Cardinality(InFlight) <= Cardinality(SlotHolders)
          /\ Cardinality(InFlight) \in Nat /\ Cardinality(SlotHolders) \in Nat
      BY <2>1, FS_Subset, FS_CardinalityType
    <2>3. QED
      BY <2>2 DEF IngressInvariant, IngressTypeOK, IngressAccounted
  <1>2. QED
    BY <1>1, IngressInitInvariant, IngressStep, PTL DEF IngressSpec
=============================================================================
