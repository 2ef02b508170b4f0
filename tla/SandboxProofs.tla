---------------------------- MODULE SandboxProofs ----------------------------
(***************************************************************************)
(* Proofs about one call's way through breaker, admission and pool, for    *)
(* any finite set of calls and any limits: what a call holds is what its   *)
(* place in _run_operation_impl says, so nothing is kept on any way out.   *)
(***************************************************************************)
EXTENDS Sandbox, FiniteSetTheorems, TLAPS

USE SandboxAssumption

\* At first no call holds anything.
LEMMA InitInPlace == Init => SandboxInvariant
  <1> SUFFICES ASSUME Init PROVE SandboxInvariant
    OBVIOUS
  <1>1. Control!Leased = {}
    BY DEF Init, Control!Init, Control!AdmissionInit, Control!Leased
  <1>p. PoolTyped /\ SlotsInPlace
    <2>1. Cardinality(workers) = 0 /\ Reserved = 0
      BY FS_EmptySet DEF Init, Reserved
    <2>2. prewarming \in BOOLEAN
      BY Zenon DEF Init
    <2>3. QED
      BY <2>1, <2>2 DEF Init, PoolTyped, SlotsInPlace, Total
  <1>2. active = Cardinality(Control!Leased) /\ active <= MaximumActive
    BY <1>1, FS_EmptySet DEF Init, Control!Init, Control!AdmissionInit
  <1>3. \A c \in Calls : CallInPlace(c)
    BY DEF Init, Breaker!CBInit, Control!Init, Control!AdmissionInit, CallInPlace,
           HoldsPermit, HoldsLease, HoldsWorker, Control!Refusals
  <1>4. QED
    BY <1>2, <1>3, <1>p DEF Init, Breaker!CBInit, Control!Init, Control!AdmissionInit,
       SandboxInvariant, Breaker!ProbeIsCarried, Breaker!NoPermit, Breaker!NoProbe,
       Breaker!Permit, Breaker!Permits, Control!Stages, Places

-----------------------------------------------------------------------------
(* The breaker's half                                                      *)

BreakerInPlace ==
    /\ inflight \subseteq Calls
    /\ permit \in [Calls -> Breaker!Permits]
    /\ generation \in Nat
    /\ next_probe_id \in Nat
    /\ active_probe_id \in Nat
    /\ Breaker!ProbeIsCarried

\* allow() hands the probe to the call that will carry it.
LEMMA AllowCarries ==
  ASSUME BreakerInPlace, NEW c \in Calls, Breaker!Allow(c)
  PROVE  BreakerInPlace' /\ (inflight' = inflight \/ inflight' = inflight \cup {c})
  <1> USE DEF BreakerInPlace, Breaker!ProbeIsCarried, Breaker!Opened, Breaker!NoProbe,
              Breaker!Permit, Breaker!Permits, Breaker!Grant, Breaker!Allow,
              Breaker!breakerVars, Breaker!callVars
  <1>1. CASE Breaker!AllowClosed(c)
    BY <1>1 DEF Breaker!AllowClosed
  <1>2. CASE Breaker!AllowRefused(c)
    BY <1>2 DEF Breaker!AllowRefused
  <1>3. CASE Breaker!AllowProbe(c)
    BY <1>3 DEF Breaker!AllowProbe
  <1>4. QED
    BY <1>1, <1>2, <1>3

\* record() and abandon_probe() take the permit back, and the probe with it.
LEMMA ReturnClears ==
  ASSUME BreakerInPlace, NEW c \in Calls, NEW o,
         Breaker!Record(c, o) \/ Breaker!AbandonProbe(c)
  PROVE  BreakerInPlace' /\ inflight' = inflight \ {c}
  <1> USE DEF BreakerInPlace, Breaker!ProbeIsCarried, Breaker!Opened, Breaker!NoProbe,
              Breaker!Permit, Breaker!Permits, Breaker!NoPermit, Breaker!Return,
              Breaker!breakerVars, Breaker!IsCurrentProbe, Breaker!IsCurrentGeneration,
              Breaker!OpenCircuit, Breaker!StaysAsItIs
  <1>1. CASE Breaker!AbandonProbe(c)
    BY <1>1 DEF Breaker!AbandonProbe
  <1>2. CASE Breaker!Record(c, o) /\ Breaker!RecordIgnored(c, o)
    BY <1>2 DEF Breaker!Record, Breaker!RecordIgnored
  <1>3. CASE Breaker!Record(c, o) /\ Breaker!RecordProbe(c, o)
    BY <1>3 DEF Breaker!Record, Breaker!RecordProbe
  <1>4. CASE Breaker!Record(c, o) /\ Breaker!RecordOrdinary(c, o)
    BY <1>4 DEF Breaker!Record, Breaker!RecordOrdinary
  <1>5. QED
    BY <1>1, <1>2, <1>3, <1>4 DEF Breaker!Record

-----------------------------------------------------------------------------
(* The admission's half                                                    *)

AdmissionInPlace ==
    /\ stage \in [Calls -> Control!Stages]
    /\ active = Cardinality(Control!Leased)
    /\ active <= MaximumActive

\* A turn of acquire() counts the lease it takes.
LEMMA TurnCounts ==
  ASSUME AdmissionInPlace, NEW c \in Calls, NEW t, NEW q, stage[c] # "leased",
         Control!Turn(c, t, q)
  PROVE  /\ AdmissionInPlace'
         /\ stage' = [stage EXCEPT ![c] = stage'[c]]
         /\ stage'[c] \in {"leased", "queued"} \cup Control!Refusals
  <1> USE DEF AdmissionInPlace
  <1>1. IsFiniteSet(Control!Leased) /\ c \notin Control!Leased
    BY FS_Subset DEF Control!Leased
  <1>2. CASE Control!MayEnter(c, t, q) /\ Control!TakeLease(c, t, q)
    <2>1. Control!Leased' = Control!Leased \cup {c}
      BY <1>2 DEF Control!TakeLease, Control!Leased
    <2>2. Cardinality(Control!Leased') = active + 1
      BY <1>1, <2>1, FS_AddElement
    <2>3. active' = active + 1 /\ active < MaximumActive
      BY <1>2 DEF Control!TakeLease, Control!MayEnter
    <2>4. active \in Nat
      BY <1>1, FS_CardinalityType
    <2>5. active' <= MaximumActive
      BY <2>3, <2>4
    <2>6. stage' = [stage EXCEPT ![c] = "leased"]
      BY <1>2 DEF Control!TakeLease
    <2>7. QED
      BY <2>2, <2>3, <2>5, <2>6 DEF Control!Stages, Control!Refusals
  <1>3. CASE Control!counters' = Control!counters /\ stage'[c] # "leased"
             /\ stage' = [stage EXCEPT ![c] = stage'[c]]
             /\ stage'[c] \in {"queued"} \cup Control!Refusals
    <2>1. Control!Leased' = Control!Leased /\ active' = active
      BY <1>1, <1>3 DEF Control!Leased, Control!counters
    <2>2. QED
      BY <1>3, <2>1 DEF Control!Stages
  <1>4. QED
    BY <1>2, <1>3 DEF Control!Turn, Control!Refuse, Control!KeepWaiting, Control!Refusals

\* acquire() leaves every other call where it is.
LEMMA AcquireCounts ==
  ASSUME AdmissionInPlace, NEW c \in Calls,
         (\E t \in Control!Tickets : Control!Acquire(c, t)) \/ Control!Wake(c)
  PROVE  /\ AdmissionInPlace'
         /\ stage' = [stage EXCEPT ![c] = stage'[c]]
         /\ stage'[c] \in {"leased", "queued"} \cup Control!Refusals
  <1>1. ASSUME NEW t \in Control!Tickets, Control!Acquire(c, t)
        PROVE  /\ AdmissionInPlace'
               /\ stage' = [stage EXCEPT ![c] = stage'[c]]
               /\ stage'[c] \in {"leased", "queued"} \cup Control!Refusals
    <2>1. stage[c] # "leased"
      BY <1>1 DEF Control!Acquire
    <2>2. CASE stage' = [stage EXCEPT ![c] = "overloaded"]
               /\ Control!counters' = Control!counters
      <3>1. Control!Leased' = Control!Leased /\ active' = active
        BY <2>1, <2>2 DEF Control!Leased, Control!counters, AdmissionInPlace
      <3>2. QED
        BY <2>2, <3>1 DEF AdmissionInPlace, Control!Refusals, Control!Stages
    <2>3. CASE Control!Turn(c, t, Append(queue, Control!Entry(c, t)))
      BY <2>1, <2>3, TurnCounts
    <2>4. QED
      BY <1>1, <2>2, <2>3 DEF Control!Acquire
  <1>2. CASE Control!Wake(c)
    BY <1>2, TurnCounts DEF Control!Wake
  <1>3. QED
    BY <1>1, <1>2

\* A call that ends leaves the admission; a lease is given back.
LEMMA FinishCounts ==
  ASSUME AdmissionInPlace, NEW c \in Calls, Control!GiveUp(c) \/ Control!Release(c)
  PROVE  AdmissionInPlace' /\ stage' = [stage EXCEPT ![c] = "out"]
  <1> USE DEF AdmissionInPlace
  <1>1. IsFiniteSet(Control!Leased) /\ stage' = [stage EXCEPT ![c] = "out"]
    BY FS_Subset DEF Control!Leased, Control!GiveUp, Control!Release, Control!Finish
  <1>2. CASE Control!GiveUp(c)
    <2>1. Control!Leased' = Control!Leased /\ active' = active
      BY <1>1, <1>2 DEF Control!GiveUp, Control!Refusals, Control!Leased, Control!counters
    <2>2. QED
      BY <1>1, <2>1 DEF Control!Stages
  <1>3. CASE Control!Release(c)
    <2>1. Control!Leased' = Control!Leased \ {c} /\ c \in Control!Leased
      BY <1>1, <1>3 DEF Control!Release, Control!Leased
    <2>2. Cardinality(Control!Leased') = active - 1 /\ active \in Nat
      BY <1>1, <2>1, FS_RemoveElement, FS_CardinalityType
    <2>3. active' = active - 1
      BY <1>3 DEF Control!Release
    <2>4. QED
      BY <1>1, <2>2, <2>3 DEF Control!Stages
  <1>4. QED
    BY <1>2, <1>3

-----------------------------------------------------------------------------
(* The pool's part                                                         *)

PoolInPlace == PoolTyped /\ SlotsInPlace

\* The slots of the calls, counted.
LEMMA SlotsCounted ==
  ASSUME PoolInPlace
  PROVE  /\ IsFiniteSet(workers) /\ Cardinality(workers) \in Nat
         /\ Reserved \in 0..1 /\ (prewarming => Reserved = 1)
         /\ (~prewarming => Reserved = 0)
         /\ pooled \in Nat /\ lost \in 0..1
         /\ Cardinality(workers) + pooled + Reserved + lost <= MaximumWorkers
  <1>1. IsFiniteSet(workers) /\ Cardinality(workers) \in Nat
    BY FS_Subset, FS_CardinalityType DEF PoolInPlace, PoolTyped
  <1>2. QED
    BY <1>1 DEF PoolInPlace, PoolTyped, SlotsInPlace, Total, Reserved

\* Slots that stay within the maximum, however they are rearranged.
LEMMA SlotsRearranged ==
  ASSUME workers' \subseteq Calls, prewarming' \in BOOLEAN,
         pooled' \in Nat, lost' \in 0..1,
         prewarm_thread' \in {"none", "running", "unstarted"},
         lost' > 0 => prewarm_thread' = "unstarted",
         Cardinality(workers)' + pooled' + Reserved' + lost' <= MaximumWorkers
  PROVE  PoolInPlace'
  BY DEF PoolInPlace, PoolTyped, SlotsInPlace, Total

LEMMA PoolUntouched ==
  ASSUME PoolInPlace, UNCHANGED poolVars
  PROVE  PoolInPlace' /\ workers' = workers
  <1>1. prewarming' \in BOOLEAN /\ Reserved' = Reserved
    BY Zenon DEF PoolInPlace, PoolTyped, poolVars, Reserved
  <1>2. QED
    BY <1>1 DEF PoolInPlace, PoolTyped, SlotsInPlace, Total, poolVars

\* A call that takes a slot counts once, and one that frees it no more.
LEMMA SlotTaken ==
  ASSUME PoolInPlace, NEW c \in Calls, c \notin workers, workers' = workers \cup {c}
  PROVE  Cardinality(workers') = Cardinality(workers) + 1 /\ workers' \subseteq Calls
  BY SlotsCounted, FS_AddElement DEF PoolInPlace, PoolTyped

LEMMA SlotFreed ==
  ASSUME PoolInPlace, NEW c \in workers, workers' = workers \ {c}
  PROVE  Cardinality(workers') = Cardinality(workers) - 1 /\ workers' \subseteq Calls
  BY SlotsCounted, FS_RemoveElement DEF PoolInPlace, PoolTyped

-----------------------------------------------------------------------------
(* One call's steps                                                        *)

\* The step of c leaves what every other call holds alone.
OthersAsBefore(c) ==
    \A d \in Calls \ {c} :
        /\ at'[d] = at[d]
        /\ d \in inflight' <=> d \in inflight
        /\ stage'[d] = stage[d]
        /\ d \in workers' <=> d \in workers

\* So the places of the others stay right, and only c's own is left to look at.
LEMMA OthersStayInPlace ==
  ASSUME SandboxInvariant, NEW c \in Calls, OthersAsBefore(c), CallInPlace(c)'
  PROVE  \A d \in Calls : CallInPlace(d)'
  BY DEF SandboxInvariant, OthersAsBefore, CallInPlace

LEMMA InvariantSplits ==
  SandboxInvariant <=>
      /\ BreakerInPlace
      /\ AdmissionInPlace
      /\ at \in [Calls -> Places]
      /\ PoolInPlace
      /\ \A c \in Calls : CallInPlace(c)
  BY DEF SandboxInvariant, BreakerInPlace, AdmissionInPlace, PoolInPlace

\* What a step leaves alone stays in place.
LEMMA BreakerUntouched ==
  ASSUME BreakerInPlace, UNCHANGED breakerVars
  PROVE  BreakerInPlace' /\ inflight' = inflight
  BY DEF breakerVars, BreakerInPlace, Breaker!ProbeIsCarried, Breaker!Opened,
         Breaker!NoProbe, Breaker!Permit

LEMMA AdmissionUntouched ==
  ASSUME AdmissionInPlace, UNCHANGED <<active, stage>>
  PROVE  AdmissionInPlace'
  BY DEF AdmissionInPlace, Control!Leased

\* The steps of a call up to its lease keep the invariant.
LEMMA EntryPreserves ==
  ASSUME SandboxInvariant, NEW c \in Calls, Begin(c) \/ Allow(c) \/ Acquire(c) \/ Abandon(c)
  PROVE  SandboxInvariant'
  <1> USE DEF SandboxInvariant, Goto
  <1>0. BreakerInPlace /\ AdmissionInPlace /\ PoolInPlace /\ CallInPlace(c)
    BY InvariantSplits
  <1>p. PoolInPlace' /\ workers' = workers
    BY <1>0, PoolUntouched DEF Begin, Allow, Acquire, Abandon, callVars
  <1>1. CASE Begin(c)
    <2>1. BreakerInPlace' /\ inflight' = inflight
      BY <1>0, <1>1 DEF Begin, Breaker!SampleClock, Breaker!breakerVars, Breaker!callVars,
         BreakerInPlace, Breaker!ProbeIsCarried, Breaker!Opened, Breaker!NoProbe, Breaker!Permit
    <2>2. AdmissionInPlace' /\ stage' = stage
      BY <1>0, <1>1, AdmissionUntouched DEF Begin, admissionVars
    <2>3. CallInPlace(c)' /\ OthersAsBefore(c)
      BY <1>0, <1>1, <1>p, <2>1, <2>2 DEF Begin, CallInPlace, OthersAsBefore, HoldsPermit,
         HoldsLease, HoldsWorker
    <2>4. at' \in [Calls -> Places]
      BY <1>1 DEF Begin, Places
    <2>5. QED
      BY <2>1, <2>2, <2>3, <2>4, OthersStayInPlace, <1>p
         DEF BreakerInPlace, AdmissionInPlace, PoolInPlace
  <1>2. CASE Allow(c)
    <2>1. BreakerInPlace' /\ (inflight' = inflight \/ inflight' = inflight \cup {c})
      BY <1>0, <1>2, AllowCarries DEF Allow
    <2>2. AdmissionInPlace' /\ stage' = stage
      BY <1>0, <1>2, AdmissionUntouched DEF Allow, admissionVars
    <2>3. CallInPlace(c)' /\ OthersAsBefore(c)
      BY <1>0, <1>2, <1>p, <2>1, <2>2 DEF Allow, CallInPlace, OthersAsBefore, HoldsPermit,
         HoldsLease, HoldsWorker
    <2>4. at' \in [Calls -> Places]
      BY <1>2 DEF Allow, Places
    <2>5. QED
      BY <2>1, <2>2, <2>3, <2>4, OthersStayInPlace, <1>p
         DEF BreakerInPlace, AdmissionInPlace, PoolInPlace
  <1>3. CASE Acquire(c)
    <2>1. BreakerInPlace' /\ inflight' = inflight
      BY <1>0, <1>3, BreakerUntouched DEF Acquire
    <2>2. /\ AdmissionInPlace'
          /\ stage' = [stage EXCEPT ![c] = stage'[c]]
          /\ stage'[c] \in {"leased", "queued"} \cup Control!Refusals
      BY <1>0, <1>3, AcquireCounts DEF Acquire
    <2>3. /\ at' = [at EXCEPT ![c] = at'[c]]
          /\ at'[c] = CASE stage'[c] = "leased" -> "pool"
                         [] stage'[c] \in Control!Refusals -> "abandon"
                         [] OTHER -> "acquire"
      BY <1>3 DEF Acquire
    <2>4. \/ stage'[c] = "leased" /\ at'[c] = "pool"
          \/ stage'[c] \in Control!Refusals /\ at'[c] = "abandon"
          \/ stage'[c] = "queued" /\ at'[c] = "acquire"
      BY <2>2, <2>3 DEF Control!Refusals
    <2>5. at[c] = "acquire"
      BY <1>3 DEF Acquire
    <2>6. CallInPlace(c)'
      BY <1>0, <1>p, <2>1, <2>3, <2>4, <2>5 DEF CallInPlace, HoldsPermit, HoldsLease, HoldsWorker,
         Control!Refusals
    <2>7. OthersAsBefore(c)
      BY <1>p, <2>1, <2>2, <2>3 DEF OthersAsBefore
    <2>8. at' \in [Calls -> Places]
      BY <2>3, <2>4 DEF Places
    <2>9. QED
      BY <2>1, <2>2, <2>6, <2>7, <2>8, OthersStayInPlace, <1>p
         DEF BreakerInPlace, AdmissionInPlace, PoolInPlace
  <1>4. CASE Abandon(c)
    <2>1. BreakerInPlace' /\ inflight' = inflight \ {c}
      BY <1>0, <1>4, ReturnClears DEF Abandon
    <2>2. AdmissionInPlace' /\ stage' = [stage EXCEPT ![c] = "out"]
      BY <1>0, <1>4, FinishCounts DEF Abandon
    <2>3. CallInPlace(c)' /\ OthersAsBefore(c)
      BY <1>0, <1>4, <1>p, <2>1, <2>2 DEF Abandon, CallInPlace, OthersAsBefore, HoldsPermit,
         HoldsLease, HoldsWorker, Control!Refusals
    <2>4. at' \in [Calls -> Places]
      BY <1>4 DEF Abandon, Places
    <2>5. QED
      BY <2>1, <2>2, <2>3, <2>4, OthersStayInPlace, <1>p
         DEF BreakerInPlace, AdmissionInPlace, PoolInPlace
  <1>5. QED
    BY <1>1, <1>2, <1>3, <1>4

\* What the steps in the pool do to its slots.
LEMMA AcquireSlots ==
  ASSUME SandboxInvariant, NEW c \in Calls,
         AcquireIdle(c) \/ AcquireSlot(c) \/ AcquireWaits(c) \/ AcquireRaises(c)
  PROVE  PoolInPlace'
  <1>0. PoolInPlace /\ c \notin workers
    BY InvariantSplits DEF CallInPlace, HoldsWorker, AcquireIdle, AcquireSlot, AcquireWaits,
       AcquireRaises
  <1>1. MaximumWorkers \in Nat
    OBVIOUS
  <1>2. CASE AcquireIdle(c)
    <2>1. prewarming' \in BOOLEAN /\ Reserved' = Reserved
      BY <1>0, <1>2, Zenon DEF AcquireIdle, PoolInPlace, PoolTyped, Reserved
    <2>2. pooled' \in Nat /\ pooled' <= pooled - 1
      BY <1>0, <1>2 DEF AcquireIdle, PoolInPlace, PoolTyped
    <2>3. QED
      BY <1>0, <1>1, <1>2, <2>1, <2>2, SlotTaken, SlotsCounted, SlotsRearranged
         DEF AcquireIdle, PoolInPlace, PoolTyped, SlotsInPlace
  <1>3. CASE AcquireSlot(c)
    <2>1. prewarming' \in BOOLEAN /\ Reserved' = Reserved
      BY <1>0, <1>3, Zenon DEF AcquireSlot, PoolInPlace, PoolTyped, Reserved
    <2>2. Reserved = 0 /\ Cardinality(workers) + lost < MaximumWorkers
      BY <1>0, <1>3, SlotsCounted DEF AcquireSlot, PoolHasRoom
    <2>3. QED
      BY <1>0, <1>1, <1>3, <2>1, <2>2, SlotTaken, SlotsCounted, SlotsRearranged
         DEF AcquireSlot, PoolInPlace, PoolTyped, SlotsInPlace
  <1>4. CASE AcquireWaits(c)
    <2>1. prewarming' \in BOOLEAN /\ Reserved' = Reserved
      BY <1>0, <1>4, Zenon DEF AcquireWaits, PoolInPlace, PoolTyped, Reserved
    <2>2. QED
      BY <1>0, <1>1, <1>4, <2>1, SlotsCounted, SlotsRearranged
         DEF AcquireWaits, PoolInPlace, PoolTyped, SlotsInPlace
  <1>5. CASE AcquireRaises(c)
    <2>1. prewarming' \in BOOLEAN /\ Reserved' = 1 /\ lost = 0
      BY <1>0, <1>5 DEF AcquireRaises, ThreadUnstarted, PoolInPlace, PoolTyped, SlotsInPlace,
         Reserved
    <2>2. PICK n \in 0..(pooled - 1) :
             pooled' = n /\ Cardinality(workers) + n + 1 + lost < MaximumWorkers
      BY <1>5 DEF AcquireRaises
    <2>3. workers' = workers /\ lost' = 1 /\ prewarm_thread' = "unstarted"
      BY <1>5, <2>1 DEF AcquireRaises, ThreadUnstarted
    <2>4. n \in Nat /\ Cardinality(workers') + pooled' + Reserved' + lost' <= MaximumWorkers
      BY <1>0, <1>1, <2>1, <2>2, <2>3, SlotsCounted
    <2>5. QED
      BY <1>0, <2>1, <2>2, <2>3, <2>4, SlotsRearranged DEF PoolInPlace, PoolTyped
  <1>6. QED
    BY <1>2, <1>3, <1>4, <1>5

\* A worker given back keeps at most the slot it had.
LEMMA ReleaseSlots ==
  ASSUME SandboxInvariant, NEW c \in Calls, c \in workers, ReleaseWorker(c)
  PROVE  PoolInPlace'
  <1>0. PoolInPlace /\ MaximumWorkers \in Nat
    BY InvariantSplits
  <1>1. prewarming' \in BOOLEAN /\ Reserved' = Reserved
    BY <1>0, Zenon DEF ReleaseWorker, PoolInPlace, PoolTyped, Reserved
  <1>2. pooled' \in Nat /\ pooled' <= pooled + 1
    BY <1>0 DEF ReleaseWorker, PoolInPlace, PoolTyped
  <1>3. QED
    BY <1>0, <1>1, <1>2, SlotFreed, SlotsCounted, SlotsRearranged
       DEF ReleaseWorker, PoolInPlace, PoolTyped, SlotsInPlace

LEMMA LossSlots ==
  ASSUME SandboxInvariant, NEW c \in Calls, StartFails(c) \/ ReleaseRaises(c)
  PROVE  PoolInPlace'
  <1>0. PoolInPlace /\ MaximumWorkers \in Nat /\ c \in workers
    BY InvariantSplits DEF CallInPlace, HoldsWorker, StartFails, ReleaseRaises
  <1>1. CASE StartFails(c)
    <2>1. prewarming' \in BOOLEAN /\ Reserved' = Reserved
      BY <1>0, <1>1, Zenon DEF StartFails, PoolInPlace, PoolTyped, Reserved
    <2>2. QED
      BY <1>0, <1>1, <2>1, SlotFreed, SlotsCounted, SlotsRearranged
         DEF StartFails, PoolInPlace, PoolTyped, SlotsInPlace
  <1>2. CASE ReleaseRaises(c) /\ ThreadUnstarted
    <2>1. CASE ReleaseWorker(c)
      BY <1>0, <2>1, ReleaseSlots
    <2>2. CASE /\ workers' = workers \ {c} /\ ~prewarming
               /\ prewarm_thread = "none" /\ UNCHANGED <<pooled, lost>>
      <3>1. prewarming' \in BOOLEAN /\ Reserved' = 1 /\ Reserved = 0
        BY <1>2, <2>2 DEF ThreadUnstarted, Reserved
      <3>2. QED
        BY <1>0, <1>2, <2>2, <3>1, SlotFreed, SlotsCounted, SlotsRearranged
           DEF ThreadUnstarted, PoolInPlace, PoolTyped, SlotsInPlace
    <2>3. QED
      BY <1>2, <2>1, <2>2 DEF ReleaseRaises
  <1>3. CASE ReleaseRaises(c) /\ ReleaseWorker(c)
    BY <1>0, <1>3, ReleaseSlots
  <1>4. QED
    BY <1>1, <1>2, <1>3 DEF ReleaseRaises

\* The steps of a call that holds a lease keep the invariant.
LEMMA ExecutionPreserves ==
  ASSUME SandboxInvariant, NEW c \in Calls,
         \/ AcquireIdle(c) \/ AcquireSlot(c) \/ AcquireWaits(c) \/ AcquireGivesUp(c)
         \/ StartSucceeds(c) \/ StartFails(c)
         \/ NotExecuted(c) \/ StartExecution(c) \/ Execute(c)
  PROVE  SandboxInvariant'
  <1> USE DEF SandboxInvariant, Goto
  <1> USE DEF AcquireIdle, AcquireSlot, AcquireWaits, AcquireGivesUp, StartSucceeds,
              StartFails, NotExecuted, StartExecution, Execute
  <1>0. BreakerInPlace /\ AdmissionInPlace /\ PoolInPlace /\ CallInPlace(c)
    BY InvariantSplits
  <1>1. UNCHANGED breakerVars /\ UNCHANGED admissionVars
    OBVIOUS
  <1>2. BreakerInPlace' /\ inflight' = inflight
    BY <1>0, <1>1, BreakerUntouched
  <1>3. AdmissionInPlace' /\ stage' = stage
    BY <1>0, <1>1, AdmissionUntouched DEF admissionVars
  <1>4. CallInPlace(c)'
    BY <1>0, <1>2, <1>3 DEF CallInPlace, HoldsPermit, HoldsLease, HoldsWorker,
       poolVars, ReleaseWorker, Control!Refusals
  <1>5. OthersAsBefore(c) /\ at' \in [Calls -> Places]
    BY <1>2, <1>3 DEF OthersAsBefore, Places, poolVars, ReleaseWorker
  <1>6. PoolInPlace'
    <2>1. CASE AcquireGivesUp(c) \/ StartSucceeds(c) \/ StartExecution(c)
      BY <1>0, <2>1, PoolUntouched
    <2>2. CASE NotExecuted(c) \/ Execute(c)
      BY <1>0, <2>2, ReleaseSlots DEF CallInPlace, HoldsWorker
    <2>3. QED
      BY <2>1, <2>2, AcquireSlots, LossSlots
  <1>7. QED
    BY <1>2, <1>3, <1>4, <1>5, <1>6, OthersStayInPlace
       DEF BreakerInPlace, AdmissionInPlace, PoolInPlace

\* The ways out keep the invariant.
LEMMA ExitPreserves ==
  ASSUME SandboxInvariant, NEW c \in Calls,
         ReleaseLease(c) \/ RecordOutcome(c) \/ Raise(c) \/ Raised(c)
  PROVE  SandboxInvariant'
  <1> USE DEF SandboxInvariant, Goto
  <1>0. BreakerInPlace /\ AdmissionInPlace /\ PoolInPlace /\ CallInPlace(c)
    BY InvariantSplits
  <1>p. PoolInPlace'
    BY <1>0, PoolUntouched, AcquireSlots, LossSlots
       DEF ReleaseLease, RecordOutcome, Raise, Raised, callVars
  <1>1. CASE ReleaseLease(c) \/ Raised(c)
    <2>1. BreakerInPlace' /\ inflight' = inflight
      BY <1>0, <1>1, BreakerUntouched DEF ReleaseLease, Raised
    <2>2. AdmissionInPlace' /\ stage' = [stage EXCEPT ![c] = "out"]
      BY <1>0, <1>1, FinishCounts DEF ReleaseLease, Raised
    <2>3. CallInPlace(c)' /\ OthersAsBefore(c)
      BY <1>0, <1>1, <2>1, <2>2 DEF ReleaseLease, Raised, CallInPlace, OthersAsBefore,
         HoldsPermit, HoldsLease, HoldsWorker, Control!Refusals, poolVars, callVars
    <2>4. at' \in [Calls -> Places]
      BY <1>1 DEF ReleaseLease, Raised, Places
    <2>5. QED
      BY <2>1, <2>2, <2>3, <2>4, OthersStayInPlace, <1>p
         DEF BreakerInPlace, AdmissionInPlace, PoolInPlace
  <1>2. CASE RecordOutcome(c) \/ Raise(c)
    <2>1. BreakerInPlace' /\ inflight' = inflight \ {c}
      BY <1>0, <1>2, ReturnClears DEF RecordOutcome, Raise
    <2>2. AdmissionInPlace' /\ stage' = stage
      BY <1>0, <1>2, AdmissionUntouched DEF RecordOutcome, Raise, admissionVars
    <2>3. CallInPlace(c)' /\ OthersAsBefore(c)
      BY <1>0, <1>2, <2>1, <2>2 DEF RecordOutcome, Raise, CallInPlace, OthersAsBefore,
         HoldsPermit, HoldsLease, HoldsWorker, poolVars, AcquireRaises, ReleaseRaises,
         ReleaseWorker, Control!Refusals, poolVars, callVars
    <2>4. at' \in [Calls -> Places]
      BY <1>2 DEF RecordOutcome, Raise, Places
    <2>5. QED
      BY <2>1, <2>2, <2>3, <2>4, OthersStayInPlace, <1>p
         DEF BreakerInPlace, AdmissionInPlace, PoolInPlace
  <1>3. QED
    BY <1>1, <1>2

\* The background prewarm and the shutdown touch nothing a call holds.
LEMMA BackgroundPreserves ==
  ASSUME SandboxInvariant, Prewarm \/ PrewarmEnds \/ Shutdown
  PROVE  SandboxInvariant'
  <1>0. BreakerInPlace /\ AdmissionInPlace /\ PoolInPlace /\ MaximumWorkers \in Nat
    BY InvariantSplits
  <1>1. UNCHANGED <<breakerVars, admissionVars, at, workers>> /\ lost' = lost
    BY DEF Prewarm, PrewarmEnds, Shutdown
  <1>2. PoolInPlace'
    <2>1. CASE Prewarm
      <3>1. prewarming' \in BOOLEAN /\ Reserved' = 1 /\ Reserved = 0
        BY <2>1 DEF Prewarm, MayPrewarm, Reserved
      <3>2. Cardinality(workers) + pooled + lost < MaximumWorkers /\ lost = 0
        BY <1>0, <2>1, <3>1, SlotsCounted
           DEF Prewarm, MayPrewarm, Total, PoolInPlace, SlotsInPlace
      <3>3. QED
        BY <1>0, <1>1, <2>1, <3>1, <3>2, SlotsCounted, SlotsRearranged
           DEF Prewarm, PoolInPlace, PoolTyped
    <2>2. CASE PrewarmEnds
      <3>1. prewarming' \in BOOLEAN /\ Reserved' = 0
        BY <2>2 DEF PrewarmEnds, Reserved
      <3>2. pooled' \in Nat /\ pooled' <= pooled + Reserved /\ lost = 0
        BY <1>0, <2>2, SlotsCounted DEF PrewarmEnds, PoolInPlace, PoolTyped, SlotsInPlace
      <3>3. QED
        BY <1>0, <1>1, <2>2, <3>1, <3>2, SlotsCounted, SlotsRearranged
           DEF PrewarmEnds, PoolInPlace, PoolTyped
    <2>3. CASE Shutdown
      <3>1. prewarming' \in BOOLEAN /\ Reserved' = 0
        BY <2>3 DEF Shutdown, Reserved
      <3>2. QED
        BY <1>0, <1>1, <2>3, <3>1, SlotsCounted, SlotsRearranged
           DEF Shutdown, PoolInPlace, PoolTyped, SlotsInPlace
    <2>4. QED
      BY <2>1, <2>2, <2>3
  <1>3. BreakerInPlace' /\ inflight' = inflight
    BY <1>0, <1>1, BreakerUntouched
  <1>4. AdmissionInPlace' /\ stage' = stage
    BY <1>0, <1>1, AdmissionUntouched DEF admissionVars
  <1>5. \A c \in Calls : CallInPlace(c)'
    BY <1>1, <1>3, <1>4 DEF SandboxInvariant, CallInPlace
  <1>6. QED
    BY <1>1, <1>2, <1>3, <1>4, <1>5
       DEF SandboxInvariant, BreakerInPlace, AdmissionInPlace, PoolInPlace

\* Cancellation, deadline and clock touch nothing a call holds.
LEMMA SignalsPreserve ==
  ASSUME SandboxInvariant,
         \/ \E c \in Calls : CancelCall(c) \/ DeadlinePasses(c)
         \/ ClockAdvances
         \/ UNCHANGED vars
  PROVE  SandboxInvariant'
  <1> USE DEF SandboxInvariant
  <1>0. BreakerInPlace /\ AdmissionInPlace /\ PoolInPlace
    BY InvariantSplits
  <1>p. PoolInPlace'
    BY <1>0, PoolUntouched DEF CancelCall, DeadlinePasses, ClockAdvances, vars, callVars
  <1>1. UNCHANGED <<stage, active, at, workers, inflight>>
    BY DEF CancelCall, DeadlinePasses, ClockAdvances, vars, callVars, poolVars, admissionVars,
       breakerVars, Control!Cancel, Control!Expire, Control!admissionVars, Control!counters,
       Breaker!CoolDown, Breaker!callVars
  <1>2. AdmissionInPlace'
    BY <1>0, <1>1, AdmissionUntouched
  <1>3. \A c \in Calls : CallInPlace(c)'
    BY <1>1 DEF CallInPlace
  <1>4. BreakerInPlace'
    <2>1. CASE UNCHANGED breakerVars
      BY <1>0, <2>1, BreakerUntouched
    <2>2. CASE Breaker!CoolDown
      BY <1>0, <2>2 DEF Breaker!CoolDown, Breaker!callVars, BreakerInPlace,
         Breaker!ProbeIsCarried, Breaker!Opened, Breaker!NoProbe, Breaker!Permit
    <2>3. QED
      BY <2>1, <2>2 DEF CancelCall, DeadlinePasses, ClockAdvances, vars
  <1>5. QED
    BY <1>1, <1>2, <1>3, <1>4, <1>p DEF BreakerInPlace, AdmissionInPlace, PoolInPlace

\* Every call always holds exactly what its place in the code says.
THEOREM CallsInPlace == Spec => []SandboxInvariant
  <1>1. Init => SandboxInvariant
    BY InitInPlace
  <1>2. SandboxInvariant /\ [Next]_vars => SandboxInvariant'
    BY EntryPreserves, ExecutionPreserves, ExitPreserves, BackgroundPreserves,
       SignalsPreserve DEF Next, Step
  <1>3. QED
    BY <1>1, <1>2, PTL DEF Spec

\* On every path out of _run_operation_impl, refusals and exceptions included,
\* permit, lease and worker are given back, and the probe is never stranded.
THEOREM NothingIsKept == Spec => []NothingKept
  <1>1. SandboxInvariant => NothingKept
    <2> SUFFICES ASSUME SandboxInvariant PROVE NothingKept
      OBVIOUS
    <2>1. ASSUME NEW c \in Calls, at[c] = "idle"
          PROVE  c \notin inflight /\ stage[c] = "out" /\ c \notin workers
      BY <2>1 DEF SandboxInvariant, CallInPlace, HoldsPermit, HoldsLease, HoldsWorker,
         Control!Stages
    <2>2. QED
      BY <2>1 DEF NothingKept, SandboxInvariant
  <1>2. QED
    BY <1>1, CallsInPlace, PTL

\* The calls that hold a worker or start one hold a lease, and so does one that is
\* about to ask for a worker.  So it waits for nothing but the reservation of a
\* prewarm, or a slot lost to a thread that could not be started, and calls, idle
\* workers and reservation together stay within the maximum of the pool.
THEOREM AdmittedWaitForPrewarmOnly == Spec => []AdmittedFindsRoom
  <1>1. SandboxInvariant => AdmittedFindsRoom
    <2> SUFFICES ASSUME SandboxInvariant PROVE AdmittedFindsRoom
      OBVIOUS
    <2>0. SlotsInPlace /\ PoolInPlace
      BY InvariantSplits DEF PoolInPlace
    <2>1. ASSUME NEW c \in Calls, at[c] = "pool", ~prewarming, ~(lost > 0)
          PROVE  PoolHasRoom
      <3>1. IsFiniteSet(Control!Leased)
        BY FS_Subset DEF Control!Leased
      <3>2. c \in Control!Leased /\ workers \in SUBSET (Control!Leased \ {c})
        BY <2>1 DEF SandboxInvariant, PoolTyped, CallInPlace, HoldsLease, HoldsWorker,
                    Control!Leased
      <3>3. /\ IsFiniteSet(Control!Leased \ {c})
            /\ Cardinality(Control!Leased \ {c}) = Cardinality(Control!Leased) - 1
        BY <3>1, <3>2, FS_RemoveElement
      <3>4. /\ Cardinality(workers) <= Cardinality(Control!Leased \ {c})
            /\ Cardinality(workers) \in Nat /\ Cardinality(Control!Leased) \in Nat
        BY <3>1, <3>2, <3>3, FS_Subset, FS_CardinalityType
      <3>5. Cardinality(Control!Leased) <= MaximumWorkers
        BY <3>4 DEF SandboxInvariant
      <3>6. lost = 0
        BY <2>0, <2>1, SlotsCounted
      <3>7. QED
        BY <2>1, <3>3, <3>4, <3>5, <3>6 DEF PoolHasRoom
    <2>2. QED
      BY <2>0, <2>1 DEF AdmittedFindsRoom
  <1>2. QED
    BY <1>1, CallsInPlace, PTL

-----------------------------------------------------------------------------
(* The calls as the callers of the admission controller                    *)

\* Every step of the sandbox is a step of the controller's callers, or leaves
\* the controller alone.
LEMMA StepIsControlStep ==
  ASSUME [Next]_vars
  PROVE  [Control!Next]_(Control!vars)
  <1> USE DEF Control!vars, Control!admissionVars, Control!counters, Control!signals
  <1>1. ASSUME NEW c \in Calls, Acquire(c) \/ Abandon(c) \/ ReleaseLease(c) \/ Raised(c)
                                \/ CancelCall(c) \/ DeadlinePasses(c)
        PROVE  Control!Next
    BY <1>1 DEF Acquire, Abandon, ReleaseLease, Raised, CancelCall, DeadlinePasses,
                Control!Next
  <1>2. ASSUME NEW c \in Calls,
               \/ Begin(c) \/ Allow(c) \/ AcquireIdle(c) \/ AcquireSlot(c)
               \/ AcquireWaits(c) \/ AcquireGivesUp(c) \/ StartSucceeds(c)
               \/ StartFails(c) \/ NotExecuted(c) \/ StartExecution(c) \/ Execute(c) \/ RecordOutcome(c)
               \/ Raise(c)
        PROVE  UNCHANGED Control!vars
    BY <1>2 DEF Begin, Allow, AcquireIdle, AcquireSlot, AcquireWaits, AcquireGivesUp,
                StartSucceeds, StartFails, NotExecuted,
                StartExecution, Execute, RecordOutcome, Raise, admissionVars
  <1>3. CASE Prewarm \/ PrewarmEnds \/ Shutdown \/ ClockAdvances \/ UNCHANGED vars
    BY <1>3 DEF Prewarm, PrewarmEnds, Shutdown, ClockAdvances, vars, admissionVars
  <1>4. QED
    BY <1>1, <1>2, <1>3 DEF Next, Step

\* The sandbox implements the specification of the controller's callers, so
\* what is proved of Admission holds of the calls that run operations.
THEOREM SandboxImplementsAdmission == Spec => Control!Spec
  <1>1. Init => Control!Init
    BY DEF Init
  <1>2. [Next]_vars => [Control!Next]_(Control!vars)
    BY StepIsControlStep
  <1>3. QED
    BY <1>1, <1>2, PTL DEF Spec, Control!Spec
=============================================================================
