--------------------------- MODULE AdmissionProofs ---------------------------
(***************************************************************************)
(* Proofs about the admission controller for any finite set of requests,   *)
(* any limits and any memory sizes.                                        *)
(***************************************************************************)
EXTENDS Admission, FiniteSetTheorems, SequenceTheorems, WellFoundedInduction, TLAPS

USE AdmissionAssumption

\* The controller starts within its limits, with nothing leased.
LEMMA InitInvariant == Init => InductiveInvariant
  <1> SUFFICES ASSUME Init PROVE InductiveInvariant
    OBVIOUS
  <1>1. Leased = {} /\ LeasedBatch = {}
    BY DEF Init, AdmissionInit, Leased, LeasedBatch
  <1>2. QED
    BY <1>1, FS_EmptySet DEF Init, AdmissionInit, InductiveInvariant, TypeOK,
       LeasesAccounted, CapacityRespected, Stages, NoTicket, BatchLimit, Entries

\* A non-empty set of naturals has a least element.
LEMMA LeastNatural ==
  ASSUME NEW T, T \subseteq Nat, T # {}
  PROVE  \E x \in T : \A y \in T : x <= y
  <1>1. \E x \in T : \A y \in T : ~ (<<y, x>> \in OpToRel(<, Nat))
    BY NatLessThanWellFounded, WFMin
  <1>2. ASSUME NEW x \in Nat, NEW y \in Nat, y < x
        PROVE  <<y, x>> \in OpToRel(<, Nat)
    <2>1. <<y, x>> \in Nat \X Nat /\ <<y, x>>[1] < <<y, x>>[2]
      BY <1>2
    <2>2. QED
      BY <2>1 DEF OpToRel
  <1>3. PICK x \in T : \A y \in T : ~ (<<y, x>> \in OpToRel(<, Nat))
    BY <1>1
  <1>4. ASSUME NEW y \in T
        PROVE  x <= y
    <2>1. x \in Nat /\ y \in Nat
      OBVIOUS
    <2>2. ~(y < x)
      BY <1>2, <1>3, <2>1, Zenon
    <2>3. QED
      BY <2>1, <2>2
  <1>5. QED
    BY <1>4

\* queue.remove takes exactly one ticket out when an equal one is queued, and
\* what is left is a queue of tickets.
LEMMA RemovalType ==
  ASSUME NEW q \in Seq(Entries), NEW t
  PROVE  /\ RemoveFirstEqual(q, t) \in Seq(Entries)
         /\ Len(RemoveFirstEqual(q, t)) <= Len(q)
         /\ (\E k \in DOMAIN q : SameTicket(q[k], t)) =>
               Len(RemoveFirstEqual(q, t)) = Len(q) - 1
  <1> DEFINE Equal == {k \in DOMAIN q : SameTicket(q[k], t)}
             First(i) == /\ SameTicket(q[i], t)
                         /\ \A j \in 1..(i - 1) : ~SameTicket(q[j], t)
             i == CHOOSE i \in DOMAIN q : First(i)
  <1>1. CASE Equal = {}
    BY <1>1 DEF RemoveFirstEqual
  <1>2. CASE Equal # {}
    <2>1. Equal \subseteq Nat /\ DOMAIN q = 1..Len(q) /\ Len(q) \in Nat
      OBVIOUS
    <2>2. PICK k \in Equal : \A j \in Equal : k <= j
      BY <1>2, <2>1, LeastNatural
    <2>3. First(k)
      BY <2>1, <2>2
    <2>4. i \in 1..Len(q)
      BY <2>1, <2>2, <2>3
    <2> DEFINE before == SubSeq(q, 1, i - 1)
               after  == SubSeq(q, i + 1, Len(q))
    <2> HIDE DEF i
    <2>5. before \in Seq(Entries) /\ Len(before) = i - 1
      BY <2>4, SubSeqProperties
    <2>6. after \in Seq(Entries) /\ Len(after) = Len(q) - i
      BY <2>4, SubSeqProperties
    <2>7. RemoveFirstEqual(q, t) = before \o after
      BY <1>2 DEF RemoveFirstEqual, i
    <2> HIDE DEF before, after
    <2>8. /\ RemoveFirstEqual(q, t) \in Seq(Entries)
          /\ Len(RemoveFirstEqual(q, t)) = Len(before) + Len(after)
      BY <2>5, <2>6, <2>7, ConcatProperties
    <2>9. QED
      BY <2>1, <2>4, <2>5, <2>6, <2>8
  <1>3. QED
    BY <1>1, <1>2

\* A call that leaves keeps the queue a queue of tickets, no longer than before.
LEMMA WithoutType ==
  ASSUME NEW q \in Seq(Entries), NEW c \in Requests, NEW t
  PROVE  /\ Without(q, c, t) \in Seq(Entries)
         /\ Len(Without(q, c, t)) = Len(RemoveFirstEqual(q, t))
  <1> DEFINE rest == RemoveFirstEqual(q, t)
             Disowned(i) == IF rest[i].owner = c THEN [rest[i] EXCEPT !.owner = Nobody]
                                               ELSE rest[i]
  <1>1. rest \in Seq(Entries) /\ DOMAIN rest = 1..Len(rest) /\ Len(rest) \in Nat
    BY RemovalType
  <1>2. Without(q, c, t) = [i \in 1..Len(rest) |-> Disowned(i)]
    BY <1>1 DEF Without
  <1> HIDE DEF rest
  <1>3. ASSUME NEW i \in 1..Len(rest)
        PROVE  Disowned(i) \in Entries
    <2>1. rest[i] \in Entries
      BY <1>1, ElementOfSeq
    <2>2. QED
      BY <2>1 DEF Entries
  <1>4. QED
    BY <1>1, <1>2, <1>3, IsASeq DEF rest

\* Taking a lease: the counters follow the calls that hold leases.
LEMMA TakeLeaseCounts ==
  ASSUME InductiveInvariant, NEW c \in Requests, NEW t \in Tickets, NEW q \in Seq(Entries),
         c \notin Leased, ticket' = [ticket EXCEPT ![c] = t],
         MayEnter(c, t, q), TakeLease(c, t, q)
  PROVE  /\ LeasesAccounted'
         /\ Cardinality(Leased') <= MaximumActive
         /\ Cardinality(LeasedBatch') <= BatchLimit
         /\ active' \in Nat /\ active_batch' \in Nat
         /\ memory_mb' \in Int /\ memory_mb' <= MemoryBudget
  <1> USE DEF InductiveInvariant, TypeOK, LeasesAccounted, CapacityRespected
  <1>1. IsFiniteSet(Leased) /\ IsFiniteSet(LeasedBatch)
    BY FS_Subset DEF Leased, LeasedBatch
  <1>2. Leased' = Leased \cup {c}
    BY DEF Leased, TakeLease
  <1>3. LeasedBatch' = IF t.request_class = "batch" THEN LeasedBatch \cup {c}
                                                    ELSE LeasedBatch
    BY <1>2 DEF Leased, LeasedBatch, TakeLease
  <1>4. Cardinality(Leased') = active + 1
    BY <1>1, <1>2, FS_AddElement
  <1>5. c \notin LeasedBatch
    BY DEF LeasedBatch
  <1>6. Cardinality(LeasedBatch') = active_batch + IsBatch(t)
    <2>1. CASE t.request_class = "batch"
      BY <1>1, <1>3, <1>5, <2>1, FS_AddElement DEF IsBatch
    <2>2. CASE t.request_class # "batch"
      BY <1>3, <2>2 DEF IsBatch
    <2>3. QED
      BY <2>1, <2>2
  <1>7. t.memory_mb \in Nat
    <2>1. t.memory_mb \in MemorySizes
      BY DEF Tickets
    <2>2. QED
      BY <2>1
  <1>8. BatchLimit \in Nat
    BY DEF BatchLimit
  <1>9. active' = Cardinality(Leased') /\ active_batch' = Cardinality(LeasedBatch')
    BY <1>4, <1>6 DEF TakeLease
  <1>10. /\ active + 1 <= MaximumActive
         /\ active_batch + IsBatch(t) <= BatchLimit
         /\ memory_mb + t.memory_mb <= MemoryBudget
    BY <1>7, <1>8 DEF MayEnter, MemoryFits, BatchHasRoom, IsBatch
  <1>11. IsBatch(t) \in Nat
    BY DEF IsBatch
  <1>12. Cardinality(Leased') <= MaximumActive /\ Cardinality(LeasedBatch') <= BatchLimit
    BY <1>4, <1>6, <1>10
  <1>13. active' \in Nat /\ active_batch' \in Nat
    BY <1>11 DEF TakeLease
  <1>14. memory_mb' \in Int /\ memory_mb' <= MemoryBudget
    BY <1>7, <1>10 DEF TakeLease
  <1>15. QED
    BY <1>9, <1>12, <1>13, <1>14

\* One turn of acquire's loop preserves the invariant.
LEMMA TurnPreserves ==
  ASSUME InductiveInvariant, NEW c \in Requests, NEW t \in Tickets, NEW q \in Seq(Entries),
         Len(q) <= MaximumQueued, c \notin Leased,
         ticket' = [ticket EXCEPT ![c] = t], Turn(c, t, q), UNCHANGED signals
  PROVE  InductiveInvariant'
  <1> USE DEF InductiveInvariant, TypeOK, CapacityRespected
  <1>1. /\ Without(q, c, t) \in Seq(Entries)
        /\ Len(Without(q, c, t)) <= MaximumQueued
    BY RemovalType, WithoutType, LenProperties
  <1>2. /\ queue' \in Seq(Entries)
        /\ Len(queue') <= MaximumQueued
    BY <1>1 DEF Turn, Refuse, TakeLease, KeepWaiting
  <1>3. stage' \in [Requests -> Stages]
    BY DEF Turn, Refuse, TakeLease, KeepWaiting, Stages, Refusals
  <1>4. ticket' \in [Requests -> Tickets \cup {NoTicket}]
    OBVIOUS
  <1>5. cancelled' \subseteq Requests /\ expired' \subseteq Requests
    BY DEF signals
  <1> DEFINE TicketsKnown == \A d \in Requests :
               stage[d] \in {"queued", "leased"} => ticket[d] \in Tickets
  <1>5a. TicketsKnown'
    BY DEF Turn, Refuse, TakeLease, KeepWaiting
  <1>6. CASE MayEnter(c, t, q) /\ TakeLease(c, t, q)
    <2>1. /\ LeasesAccounted'
          /\ Cardinality(Leased') <= MaximumActive
          /\ Cardinality(LeasedBatch') <= BatchLimit
          /\ active' \in Nat /\ active_batch' \in Nat
          /\ memory_mb' \in Int /\ memory_mb' <= MemoryBudget
      BY <1>6, TakeLeaseCounts
    <2>2. QED
      BY <1>2, <1>3, <1>4, <1>5, <1>5a, <2>1
  <1>7. CASE UNCHANGED counters /\ stage'[c] # "leased"
             /\ stage' = [stage EXCEPT ![c] = stage'[c]]
    <2>1. Leased' = Leased /\ LeasedBatch' = LeasedBatch
      BY <1>7 DEF Leased, LeasedBatch
    <2>2. QED
      BY <1>2, <1>3, <1>4, <1>5, <1>5a, <1>7, <2>1 DEF counters, LeasesAccounted
  <1>8. QED
    BY <1>6, <1>7 DEF Turn, Refuse, KeepWaiting

\* A call that holds no lease ends: the leases are as before.
LEMMA GiveUpPreserves ==
  ASSUME InductiveInvariant, NEW c \in Requests, GiveUp(c)
  PROVE  InductiveInvariant'
  <1>1. Leased' = Leased /\ LeasedBatch' = LeasedBatch
    BY DEF InductiveInvariant, TypeOK, GiveUp, Finish, Leased, LeasedBatch, Refusals
  <1>2. QED
    BY <1>1 DEF InductiveInvariant, TypeOK, LeasesAccounted, CapacityRespected,
                GiveUp, Finish, counters, Stages

\* release() gives back exactly what its lease took.
LEMMA ReleasePreserves ==
  ASSUME InductiveInvariant, NEW c \in Requests, Release(c)
  PROVE  InductiveInvariant'
  <1> USE DEF InductiveInvariant, TypeOK, LeasesAccounted, CapacityRespected
  <1>1. IsFiniteSet(Leased) /\ IsFiniteSet(LeasedBatch) /\ c \in Leased
    BY FS_Subset DEF Leased, LeasedBatch, Release
  <1>2. Leased' = Leased \ {c}
    BY DEF Leased, Release, Finish
  <1>3. LeasedBatch' = LeasedBatch \ {c}
    BY <1>2 DEF Leased, LeasedBatch, Release, Finish
  <1>4. Cardinality(Leased') = active - 1
    BY <1>1, <1>2, FS_RemoveElement
  <1>5. Cardinality(LeasedBatch') = active_batch - IsBatch(ticket[c])
    <2>1. CASE ticket[c].request_class = "batch"
      <3>1. c \in LeasedBatch
        BY <1>1, <2>1 DEF LeasedBatch
      <3>2. QED
        BY <1>1, <1>3, <2>1, <3>1, FS_RemoveElement DEF IsBatch
    <2>2. CASE ticket[c].request_class # "batch"
      <3>1. LeasedBatch' = LeasedBatch
        BY <1>3, <2>2 DEF LeasedBatch
      <3>2. QED
        BY <2>2, <3>1 DEF IsBatch
    <2>3. QED
      BY <2>1, <2>2
  <1>6. Cardinality(Leased') \in Nat /\ Cardinality(LeasedBatch') \in Nat
    BY <1>1, <1>2, <1>3, FS_RemoveElement, FS_CardinalityType
  <1>7. ticket[c].memory_mb \in Nat
    <2>1. ticket[c].memory_mb \in MemorySizes
      BY DEF Tickets, Release
    <2>2. QED
      BY <2>1
  <1>8. IsBatch(ticket[c]) \in Nat /\ BatchLimit \in Nat
    BY DEF IsBatch, BatchLimit
  <1>9. /\ LeasesAccounted'
        /\ active' \in Nat /\ active_batch' \in Nat
    BY <1>4, <1>5, <1>6 DEF Release
  <1>10. CapacityRespected'
    <2>1. Cardinality(Leased') <= MaximumActive
      BY <1>4
    <2>2. Cardinality(LeasedBatch') <= BatchLimit
      BY <1>5, <1>8
    <2>3. memory_mb' <= MemoryBudget
      BY <1>7 DEF Release
    <2>4. QED
      BY <2>1, <2>2, <2>3 DEF Release, Finish, BatchLimit
  <1>11. memory_mb' \in Int
    BY <1>7 DEF Release
  <1>12. /\ stage' \in [Requests -> Stages]
         /\ ticket' \in [Requests -> Tickets \cup {NoTicket}]
         /\ \A d \in Requests :
               stage'[d] \in {"queued", "leased"} => ticket'[d] \in Tickets
    BY DEF Release, Finish, Stages
  <1>13. queue' = queue /\ cancelled' \subseteq Requests /\ expired' \subseteq Requests
    BY DEF Release, Finish
  <1>14. QED
    BY <1>9, <1>10, <1>11, <1>12, <1>13

\* Every step of the controller preserves the inductive invariant.
LEMMA NextPreserves ==
  ASSUME InductiveInvariant, [Next]_vars
  PROVE  InductiveInvariant'
  <1>1. ASSUME NEW c \in Requests, NEW t \in Tickets, Acquire(c, t)
        PROVE  InductiveInvariant'
    <2> DEFINE q == Append(queue, Entry(c, t))
    <2>1. c \notin Leased
      BY <1>1 DEF Acquire, Leased
    <2>2. CASE QueueFull /\ stage' = [stage EXCEPT ![c] = "overloaded"]
               /\ UNCHANGED <<queue, counters>>
      <3>1. Leased' = Leased /\ LeasedBatch' = LeasedBatch
        BY <1>1, <2>1, <2>2 DEF Leased, LeasedBatch, Acquire, InductiveInvariant, TypeOK
      <3>2. QED
        BY <1>1, <2>2, <3>1 DEF Acquire, InductiveInvariant, TypeOK, signals,
           LeasesAccounted, CapacityRespected, counters, Stages, Refusals
    <2>3. CASE ~QueueFull /\ Turn(c, t, q)
      <3>1. q \in Seq(Entries) /\ Len(q) <= MaximumQueued
        <4>1. Entry(c, t) \in Entries
          BY DEF Entry, Entries, Tickets
        <4>2. queue \in Seq(Entries) /\ Len(queue) \in Nat /\ Len(queue) < MaximumQueued
          BY <2>3 DEF InductiveInvariant, TypeOK, QueueFull
        <4>3. QED
          BY <4>1, <4>2, AppendProperties
      <3> HIDE DEF q
      <3>2. QED
        BY <1>1, <2>1, <2>3, <3>1, TurnPreserves DEF Acquire
    <2>4. QED
      BY <1>1, <2>2, <2>3 DEF Acquire
  <1>2. ASSUME NEW c \in Requests, Wake(c)
        PROVE  InductiveInvariant'
    <2>1. ticket[c] \in Tickets /\ c \notin Leased
      BY <1>2 DEF Wake, InductiveInvariant, Leased
    <2>2. ticket' = [ticket EXCEPT ![c] = ticket[c]]
      BY <1>2 DEF Wake, InductiveInvariant, TypeOK
    <2>3. QED
      BY <1>2, <2>1, <2>2, TurnPreserves
         DEF Wake, InductiveInvariant, TypeOK, CapacityRespected
  <1>3. ASSUME NEW c \in Requests, Cancel(c) \/ Expire(c) \/ UNCHANGED vars
        PROVE  InductiveInvariant'
    BY <1>3 DEF Cancel, Expire, vars, admissionVars, signals, counters, Leased,
       LeasedBatch, InductiveInvariant, TypeOK, LeasesAccounted, CapacityRespected
  <1>4. CASE UNCHANGED vars
    BY <1>4 DEF vars, admissionVars, signals, counters, Leased,
       LeasedBatch, InductiveInvariant, TypeOK, LeasesAccounted, CapacityRespected
  <1>5. QED
    BY <1>1, <1>2, <1>3, <1>4, GiveUpPreserves, ReleasePreserves DEF Next

\* The inductive invariant holds in every reachable state of the controller.
THEOREM AdmissionInvariant == Spec => []InductiveInvariant
  <1>1. Init => InductiveInvariant
    BY InitInvariant
  <1>2. InductiveInvariant /\ [Next]_vars => InductiveInvariant'
    BY NextPreserves
  <1>3. QED
    BY <1>1, <1>2, PTL DEF Spec

\* Type correctness: the counters never go below zero.
THEOREM TypeCorrect == Spec => []TypeOK
  BY AdmissionInvariant, PTL DEF InductiveInvariant

\* The counters are those of the leases that are out.
THEOREM CountersExact == Spec => []LeasesAccounted
  BY AdmissionInvariant, PTL DEF InductiveInvariant

\* Whatever the interleaving, active calls, active batches, queued tickets and
\* requested memory stay within the limits of the constructor.
THEOREM CapacityNeverExceeded == Spec => []CapacityRespected
  BY AdmissionInvariant, PTL DEF InductiveInvariant

-----------------------------------------------------------------------------
(* The queue                                                               *)

\* queue.remove closes the gap that the first equal ticket leaves.
LEMMA RemovalShifts ==
  ASSUME NEW q \in Seq(Entries), NEW t, Places(q, t) # {}
  PROVE  \E i \in 1..Len(q) :
            /\ SameTicket(q[i], t)
            /\ Len(RemoveFirstEqual(q, t)) = Len(q) - 1
            /\ \A j \in 1..(Len(q) - 1) :
                 RemoveFirstEqual(q, t)[j] = IF j < i THEN q[j] ELSE q[j + 1]
  <1> DEFINE n == Len(q)
             First(i) == /\ SameTicket(q[i], t)
                         /\ \A j \in 1..(i - 1) : ~SameTicket(q[j], t)
             i == CHOOSE i \in DOMAIN q : First(i)
  <1>1. Places(q, t) \subseteq Nat /\ DOMAIN q = 1..n /\ n \in Nat
    BY DEF Places
  <1>2. PICK k \in Places(q, t) : \A j \in Places(q, t) : k <= j
    BY <1>1, LeastNatural
  <1>3. k \in DOMAIN q /\ First(k)
    BY <1>1, <1>2 DEF Places
  <1>4. i \in 1..n /\ SameTicket(q[i], t)
    BY <1>1, <1>3
  <1> DEFINE before == SubSeq(q, 1, i - 1)
             after  == SubSeq(q, i + 1, n)
  <1>5. RemoveFirstEqual(q, t) = before \o after
    BY <1>2 DEF RemoveFirstEqual, Places
  <1> HIDE DEF i
  <1>6. /\ before \in Seq(Entries) /\ Len(before) = i - 1
        /\ \A j \in 1..(i - 1) : before[j] = q[j]
    BY <1>1, <1>4, SubSeqProperties
  <1>7. /\ after \in Seq(Entries) /\ Len(after) = n - i
        /\ \A j \in 1..(n - i) : after[j] = q[i + j]
    <2>1. i + 1 \in 1..(n + 1) /\ n \in i..n /\ n - (i + 1) + 1 = n - i
      BY <1>1, <1>4
    <2>2. /\ after \in Seq(Entries)
          /\ Len(after) = IF i + 1 <= n THEN n - (i + 1) + 1 ELSE 0
          /\ \A j \in 1..(n - (i + 1) + 1) : after[j] = q[(i + 1) + j - 1]
      BY <2>1, SubSeqProperties
    <2> HIDE DEF n, after
    <2>3. Len(after) = n - i
      BY <1>1, <1>4, <2>2
    <2>4. ASSUME NEW j \in 1..(n - i)
          PROVE  after[j] = q[i + j]
      <3>1. (i + 1) + j - 1 = i + j /\ j \in 1..(n - (i + 1) + 1)
        BY <1>1, <1>4
      <3>2. QED
        BY <2>2, <3>1
    <2>5. QED
      BY <2>2, <2>3, <2>4
  <1> HIDE DEF before, after
  <1>8. /\ Len(before \o after) = Len(before) + Len(after)
        /\ \A j \in 1..(Len(before) + Len(after)) :
             (before \o after)[j] = IF j <= Len(before) THEN before[j]
                                     ELSE after[j - Len(before)]
    BY <1>6, <1>7, ConcatProperties
  <1> HIDE DEF n
  <1>9. Len(before \o after) = n - 1
    BY <1>1, <1>4, <1>6, <1>7, <1>8
  <1>10. ASSUME NEW j \in 1..(n - 1)
         PROVE  (before \o after)[j] = IF j < i THEN q[j] ELSE q[j + 1]
    <2>1. (before \o after)[j] = IF j <= i - 1 THEN before[j] ELSE after[j - (i - 1)]
      BY <1>1, <1>4, <1>6, <1>7, <1>8
    <2>2. CASE j < i
      BY <1>1, <1>4, <1>6, <2>1, <2>2
    <2>3. CASE ~(j < i)
      <3>1. j - (i - 1) \in 1..(n - i) /\ i + (j - (i - 1)) = j + 1
        BY <1>1, <1>4, <2>3
      <3>2. QED
        BY <1>1, <1>4, <1>7, <2>1, <2>3, <3>1
    <2>4. QED
      BY <2>2, <2>3
  <1>11. QED
    BY <1>4, <1>5, <1>9, <1>10 DEF n

\* The places of a ticket are finitely many.
LEMMA PlacesFinite ==
  ASSUME NEW q \in Seq(Entries), NEW t
  PROVE  IsFiniteSet(Places(q, t)) /\ Cardinality(Places(q, t)) \in Nat
  <1>1. Len(q) \in Nat /\ DOMAIN q = 1..Len(q)
    BY LenProperties
  <1>2. IsFiniteSet(1..Len(q))
    BY <1>1, FS_Interval
  <1>3. Places(q, t) \in SUBSET (1..Len(q))
    BY <1>1 DEF Places
  <1>4. IsFiniteSet(Places(q, t))
    BY <1>2, <1>3, FS_Subset
  <1>5. QED
    BY <1>4, FS_CardinalityType

\* A ticket is its memory and its class.
LEMMA TicketsEqual ==
  ASSUME NEW t \in Tickets, NEW u \in Tickets, NEW e, SameTicket(e, t)
  PROVE  SameTicket(e, u) <=> t = u
  BY DEF Tickets, SameTicket

\* queue.remove takes one ticket of its own shape and none of any other.
LEMMA RemovalCounts ==
  ASSUME NEW q \in Seq(Entries), NEW t \in Tickets, NEW u \in Tickets,
         Places(q, t) # {}
  PROVE  Cardinality(Places(RemoveFirstEqual(q, t), u))
           = IF u = t THEN Cardinality(Places(q, u)) - 1 ELSE Cardinality(Places(q, u))
  <1> DEFINE n == Len(q)
             rest == RemoveFirstEqual(q, t)
  <1>1. PICK i \in 1..n :
            /\ SameTicket(q[i], t)
            /\ Len(rest) = n - 1
            /\ \A j \in 1..(n - 1) : rest[j] = IF j < i THEN q[j] ELSE q[j + 1]
    BY RemovalShifts
  <1>2. n \in Nat /\ DOMAIN q = 1..n /\ DOMAIN rest = 1..(n - 1) /\ rest \in Seq(Entries)
    BY <1>1, RemovalType, LenProperties
  <1> HIDE DEF n, rest
  <1> DEFINE S == Places(rest, u)
             T == Places(q, u) \ {i}
             f == [j \in S |-> IF j < i THEN j ELSE j + 1]
  <1>3. \A j \in S : j \in 1..(n - 1) /\ SameTicket(rest[j], u)
    BY <1>2 DEF Places
  <1>4. \A k \in T : k \in 1..n /\ SameTicket(q[k], u) /\ k # i
    BY <1>2 DEF Places
  <1>5. ASSUME NEW j \in S
        PROVE  f[j] \in T
    <2>1. f[j] \in 1..n /\ f[j] # i /\ rest[j] = q[f[j]]
      BY <1>1, <1>2, <1>3
    <2>2. QED
      BY <1>2, <1>3, <2>1 DEF Places
  <1>6. ASSUME NEW j \in S, NEW k \in S, f[j] = f[k]
        PROVE  j = k
    BY <1>1, <1>2, <1>3, <1>6
  <1>7. ASSUME NEW k \in T
        PROVE  \E j \in S : f[j] = k
    <2>1. k \in 1..n /\ k # i /\ SameTicket(q[k], u)
      BY <1>4
    <2>2. CASE k < i
      <3>1. k \in 1..(n - 1) /\ rest[k] = q[k]
        BY <1>1, <1>2, <2>1, <2>2
      <3>2. k \in S
        BY <1>2, <2>1, <3>1 DEF Places
      <3>3. QED
        BY <2>2, <3>2
    <2>3. CASE k > i
      <3>1. k - 1 \in 1..(n - 1) /\ ~(k - 1 < i) /\ (k - 1) + 1 = k
        BY <1>1, <1>2, <2>1, <2>3
      <3>2. rest[k - 1] = q[k]
        BY <1>1, <3>1
      <3>3. k - 1 \in S
        BY <1>2, <2>1, <3>1, <3>2 DEF Places
      <3>4. QED
        BY <3>1, <3>3
    <2>4. QED
      BY <1>1, <1>2, <2>1, <2>2, <2>3
  <1>8. f \in Bijection(S, T)
    <2>1. f \in [S -> T]
      BY <1>5
    <2> HIDE DEF f, S, T
    <2>2. QED
      BY <1>6, <1>7, <2>1, Zenon DEF Bijection, Injection, Surjection, IsInjective
  <1>9. IsFiniteSet(S) /\ IsFiniteSet(Places(q, u))
    BY <1>2, PlacesFinite
  <1>10. Cardinality(S) = Cardinality(T)
    <2> HIDE DEF f, S, T
    <2>1. ExistsBijection(S, T)
      BY <1>8 DEF ExistsBijection
    <2>2. QED
      BY <1>9, <2>1, FS_Bijection
  <1>11. Cardinality(T) = IF i \in Places(q, u) THEN Cardinality(Places(q, u)) - 1
                          ELSE Cardinality(Places(q, u))
    BY <1>9, FS_RemoveElement
  <1>12. i \in Places(q, u) <=> u = t
    BY <1>1, <1>2, TicketsEqual DEF Places
  <1>13. QED
    BY <1>10, <1>11, <1>12 DEF rest

\* A call that leaves disowns what it left behind; the tickets stay what they are.
LEMMA WithoutPlaces ==
  ASSUME NEW q \in Seq(Entries), NEW c \in Requests, NEW t, NEW u
  PROVE  Places(Without(q, c, t), u) = Places(RemoveFirstEqual(q, t), u)
  <1> DEFINE rest == RemoveFirstEqual(q, t)
  <1>1. rest \in Seq(Entries) /\ DOMAIN rest = 1..Len(rest)
    BY RemovalType
  <1>2. Without(q, c, t) = [i \in DOMAIN rest |->
           IF rest[i].owner = c THEN [rest[i] EXCEPT !.owner = Nobody] ELSE rest[i]]
    BY DEF Without
  <1> HIDE DEF rest
  <1>3. ASSUME NEW i \in DOMAIN rest
        PROVE  /\ Without(q, c, t)[i].memory_mb = rest[i].memory_mb
               /\ Without(q, c, t)[i].request_class = rest[i].request_class
    <2>1. rest[i] \in Entries
      BY <1>1, ElementOfSeq
    <2>2. QED
      BY <1>2, <2>1 DEF Entries
  <1>4. DOMAIN Without(q, c, t) = DOMAIN rest
    BY <1>2
  <1>5. QED
    BY <1>3, <1>4 DEF Places, SameTicket, rest

\* A queued ticket adds a place of its own shape and of no other.
LEMMA AppendCounts ==
  ASSUME NEW q \in Seq(Entries), NEW c \in Requests, NEW t \in Tickets, NEW u \in Tickets
  PROVE  Cardinality(Places(Append(q, Entry(c, t)), u))
           = IF u = t THEN Cardinality(Places(q, u)) + 1 ELSE Cardinality(Places(q, u))
  <1> DEFINE n == Len(q)
             longer == Append(q, Entry(c, t))
  <1>1. Entry(c, t) \in Entries /\ SameTicket(Entry(c, t), t)
    BY DEF Entry, Entries, Tickets, SameTicket
  <1>2. n \in Nat /\ DOMAIN q = 1..n
    BY LenProperties
  <1>3. /\ DOMAIN longer = 1..(n + 1)
        /\ \A i \in 1..n : longer[i] = q[i]
        /\ longer[n + 1] = Entry(c, t)
    BY <1>1, <1>2, AppendProperties
  <1> HIDE DEF n, longer
  <1>4. n + 1 \notin Places(q, u) /\ \A i \in 1..(n + 1) : i # n + 1 => i \in 1..n
    BY <1>2 DEF Places
  <1>5. CASE u = t
    <2>1. Places(longer, u) = Places(q, u) \cup {n + 1}
      BY <1>1, <1>2, <1>3, <1>4, <1>5 DEF Places
    <2>2. QED
      BY <1>4, <1>5, <2>1, PlacesFinite, FS_AddElement DEF longer
  <1>6. CASE u # t
    <2>1. ~SameTicket(Entry(c, t), u)
      BY <1>1, <1>6, TicketsEqual
    <2>2. Places(longer, u) = Places(q, u)
      BY <1>2, <1>3, <1>4, <2>1 DEF Places
    <2>3. QED
      BY <1>6, <2>2 DEF longer
  <1>7. QED
    BY <1>5, <1>6

\* The waiting calls other than c that hold ticket u.
Others(c, u) == {d \in Waiting \ {c} : ticket[d] = u}

\* The tickets of queue q are those of the other waiting calls and one for c.
HoldsOneFor(q, c, t) ==
    \A u \in Tickets :
        Cardinality(Places(q, u)) = Cardinality(Others(c, u)) + (IF u = t THEN 1 ELSE 0)

\* A turn of acquire's loop keeps the tickets and the waiting calls in step.
LEMMA TurnKeepsTickets ==
  ASSUME InductiveInvariant, NEW c \in Requests, NEW t \in Tickets, NEW q \in Seq(Entries),
         HoldsOneFor(q, c, t), ticket' = [ticket EXCEPT ![c] = t], Turn(c, t, q)
  PROVE  TicketsMatchWaiters'
  <1> USE DEF InductiveInvariant, TypeOK
  <1>1. ASSUME NEW u \in Tickets
        PROVE  IsFiniteSet(Others(c, u)) /\ Cardinality(Others(c, u)) \in Nat
    <2>1. Others(c, u) \in SUBSET Requests
      BY DEF Others, Waiting
    <2>2. IsFiniteSet(Others(c, u))
      BY <2>1, FS_Subset
    <2>3. QED
      BY <2>2, FS_CardinalityType
  <1>2. CASE KeepWaiting(c, q)
    <2>1. ASSUME NEW u \in Tickets
          PROVE  Cardinality(Places(q, u)) = Cardinality(Asking(u)')
      <3>1. c \notin Others(c, u)
        BY DEF Others
      <3>2. CASE u = t
        <4>1. Asking(u)' = Others(c, u) \cup {c}
          BY <1>2, <3>2 DEF Asking, Others, Waiting, KeepWaiting
        <4>2. QED
          BY <1>1, <3>1, <3>2, <4>1, FS_AddElement DEF HoldsOneFor
      <3>3. CASE u # t
        <4>1. Asking(u)' = Others(c, u)
          BY <1>2, <3>3 DEF Asking, Others, Waiting, KeepWaiting
        <4>2. QED
          BY <1>1, <3>3, <4>1 DEF HoldsOneFor
      <3>4. QED
        BY <3>2, <3>3
    <2>2. QED
      BY <1>2, <2>1 DEF TicketsMatchWaiters, KeepWaiting, Places
  <1>3. CASE queue' = Without(q, c, t) /\ stage' = [stage EXCEPT ![c] = stage'[c]]
             /\ stage'[c] # "queued"
    <2>1. Places(q, t) # {}
      <3>1. Cardinality(Places(q, t)) = Cardinality(Others(c, t)) + 1
        BY DEF HoldsOneFor
      <3>2. Cardinality(Places(q, t)) # 0
        BY <1>1, <3>1
      <3>3. QED
        BY <3>2, FS_EmptySet
    <2>2. ASSUME NEW u \in Tickets
          PROVE  Cardinality(Places(Without(q, c, t), u)) = Cardinality(Asking(u)')
      <3>1. Asking(u)' = Others(c, u)
        BY <1>3 DEF Asking, Others, Waiting
      <3>2. Cardinality(Places(q, u)) = Cardinality(Others(c, u)) + (IF u = t THEN 1 ELSE 0)
        BY DEF HoldsOneFor
      <3>3. Cardinality(Places(Without(q, c, t), u))
              = IF u = t THEN Cardinality(Places(q, u)) - 1 ELSE Cardinality(Places(q, u))
        BY <2>1, WithoutPlaces, RemovalCounts
      <3>4. QED
        BY <1>1, <3>1, <3>2, <3>3
    <2>3. QED
      BY <1>3, <2>2 DEF TicketsMatchWaiters, Places
  <1>4. QED
    BY <1>2, <1>3 DEF Turn, Refuse, TakeLease

\* In queue q, c owns tickets like t and every other owner waits with its ticket.
OwnersOf(q, c, t) ==
    \A i \in DOMAIN q :
        q[i].owner # Nobody =>
            \/ q[i].owner = c /\ SameTicket(q[i], t)
            \/ /\ q[i].owner # c
               /\ stage[q[i].owner] = "queued"
               /\ SameTicket(q[i], ticket[q[i].owner])

\* What is left after a removal was queued before it.
LEMMA RemovalKeepsTickets ==
  ASSUME NEW q \in Seq(Entries), NEW t, NEW i \in DOMAIN RemoveFirstEqual(q, t)
  PROVE  \E j \in DOMAIN q : RemoveFirstEqual(q, t)[i] = q[j]
  <1> DEFINE n == Len(q)
             rest == RemoveFirstEqual(q, t)
  <1>1. CASE Places(q, t) = {}
    BY <1>1 DEF RemoveFirstEqual, Places
  <1>2. CASE Places(q, t) # {}
    <2>1. PICK k \in 1..n :
              /\ Len(rest) = n - 1
              /\ \A j \in 1..(n - 1) : rest[j] = IF j < k THEN q[j] ELSE q[j + 1]
      BY <1>2, RemovalShifts
    <2>2. DOMAIN rest = 1..Len(rest) /\ DOMAIN q = 1..n /\ n \in Nat
      BY RemovalType, LenProperties
    <2>3. i \in DOMAIN rest
      OBVIOUS
    <2> HIDE DEF n, rest
    <2>4. i \in 1..(n - 1) /\ i \in 1..n /\ i + 1 \in 1..n
      BY <2>1, <2>2, <2>3
    <2>5. QED
      BY <2>1, <2>2, <2>4 DEF rest
  <1>3. QED
    BY <1>1, <1>2

\* A turn of acquire's loop leaves no ticket in the name of a call that is gone.
LEMMA TurnKeepsOwners ==
  ASSUME InductiveInvariant, NEW c \in Requests, NEW t \in Tickets, NEW q \in Seq(Entries),
         OwnersOf(q, c, t), ticket' = [ticket EXCEPT ![c] = t], Turn(c, t, q)
  PROVE  OwnersWait'
  <1> USE DEF InductiveInvariant, TypeOK
  <1>0. ASSUME NEW i \in DOMAIN q
        PROVE  q[i] \in Entries
    BY ElementOfSeq
  <1>1. CASE KeepWaiting(c, q)
    <2>1. ASSUME NEW i \in DOMAIN q, q[i].owner # Nobody
          PROVE  /\ q[i].owner \in Requests
                 /\ stage'[q[i].owner] = "queued"
                 /\ SameTicket(q[i], ticket'[q[i].owner])
      <3>1. q[i].owner \in Requests
        BY <1>0, <2>1 DEF Entries
      <3>2. QED
        BY <1>1, <2>1, <3>1 DEF KeepWaiting, OwnersOf
    <2>2. QED
      BY <1>1, <2>1 DEF OwnersWait, KeepWaiting, SameTicket
  <1>2. CASE queue' = Without(q, c, t) /\ stage' = [stage EXCEPT ![c] = stage'[c]]
    <2> DEFINE rest == RemoveFirstEqual(q, t)
    <2>1. Without(q, c, t) = [i \in DOMAIN rest |->
             IF rest[i].owner = c THEN [rest[i] EXCEPT !.owner = Nobody] ELSE rest[i]]
      BY DEF Without
    <2>2. ASSUME NEW i \in DOMAIN rest
          PROVE  \E j \in DOMAIN q : rest[i] = q[j]
      BY RemovalKeepsTickets
    <2> HIDE DEF rest
    <2>3. ASSUME NEW i \in DOMAIN queue', queue'[i].owner # Nobody
          PROVE  /\ stage'[queue'[i].owner] = "queued"
                 /\ SameTicket(queue'[i], ticket'[queue'[i].owner])
      <3>1. i \in DOMAIN rest
        BY <1>2, <2>1
      <3>2. PICK j \in DOMAIN q : rest[i] = q[j]
        BY <2>2, <3>1
      <3>3. q[j] \in Entries
        BY <1>0
      <3>4. q[j].owner # c
        <4>1. SUFFICES ASSUME q[j].owner = c PROVE FALSE
          OBVIOUS
        <4>2. queue'[i] = [q[j] EXCEPT !.owner = Nobody]
          BY <1>2, <2>1, <3>1, <3>2, <4>1
        <4>3. QED
          BY <2>3, <3>3, <4>2 DEF Entries
      <3>5. queue'[i] = q[j]
        BY <1>2, <2>1, <3>1, <3>2, <3>4
      <3>6. q[j].owner \in Requests
        BY <2>3, <3>3, <3>5 DEF Entries
      <3>7. stage[q[j].owner] = "queued" /\ SameTicket(q[j], ticket[q[j].owner])
        BY <2>3, <3>4, <3>5 DEF OwnersOf
      <3>8. stage'[q[j].owner] = stage[q[j].owner] /\ ticket'[q[j].owner] = ticket[q[j].owner]
        BY <1>2, <3>4, <3>6
      <3>9. QED
        BY <3>5, <3>7, <3>8
    <2>4. QED
      BY <2>3 DEF OwnersWait, SameTicket
  <1>3. QED
    BY <1>1, <1>2 DEF Turn, Refuse, TakeLease

\* Every step of the controller keeps tickets, waiting calls and owners in step.
LEMMA NextKeepsQueue ==
  ASSUME InductiveInvariant, TicketsMatchWaiters, OwnersWait, [Next]_vars
  PROVE  TicketsMatchWaiters' /\ OwnersWait'
  <1> USE DEF InductiveInvariant, TypeOK
  <1>0. ASSUME NEW i \in DOMAIN queue, queue[i].owner # Nobody
        PROVE  queue[i].owner \in Requests
    <2>1. queue[i] \in Entries
      BY ElementOfSeq
    <2>2. QED
      BY <1>0, <2>1 DEF Entries
  <1>1. ASSUME NEW c \in Requests, NEW t \in Tickets, Acquire(c, t)
        PROVE  TicketsMatchWaiters' /\ OwnersWait'
    <2> DEFINE q == Append(queue, Entry(c, t))
    <2>1. c \notin Waiting /\ \A u \in Tickets : Others(c, u) = Asking(u)
      BY <1>1 DEF Acquire, Waiting, Others, Asking
    <2>2. CASE QueueFull /\ stage' = [stage EXCEPT ![c] = "overloaded"]
               /\ UNCHANGED <<queue, counters>>
      <3>1. \A u \in Tickets : Asking(u)' = Asking(u)
        BY <1>1, <2>1, <2>2 DEF Acquire, Waiting, Asking
      <3>2. TicketsMatchWaiters'
        BY <2>2, <3>1 DEF TicketsMatchWaiters, Places
      <3>3. ASSUME NEW d \in Requests, stage[d] = "queued"
            PROVE  stage'[d] = "queued" /\ ticket'[d] = ticket[d]
        BY <1>1, <2>2, <3>3 DEF Acquire
      <3>4. OwnersWait'
        BY <1>0, <2>2, <3>3 DEF OwnersWait, SameTicket
      <3>5. QED
        BY <3>2, <3>4
    <2>3. CASE ~QueueFull /\ Turn(c, t, q)
      <3>1. Entry(c, t) \in Entries
        BY DEF Entry, Entries, Tickets
      <3>2. q \in Seq(Entries)
        BY <3>1, AppendProperties
      <3>3. HoldsOneFor(q, c, t)
        <4>1. ASSUME NEW u \in Tickets
              PROVE  Cardinality(Places(q, u))
                       = Cardinality(Others(c, u)) + (IF u = t THEN 1 ELSE 0)
          <5>1. Cardinality(Places(q, u)) = IF u = t THEN Cardinality(Places(queue, u)) + 1
                                                     ELSE Cardinality(Places(queue, u))
            BY AppendCounts
          <5>2. Cardinality(Places(queue, u)) \in Nat
            BY PlacesFinite
          <5>3. Cardinality(Places(queue, u)) = Cardinality(Others(c, u))
            BY <2>1 DEF TicketsMatchWaiters
          <5> HIDE DEF q
          <5>4. QED
            BY <5>1, <5>2, <5>3
        <4>2. QED
          BY <4>1 DEF HoldsOneFor
      <3>4. OwnersOf(q, c, t)
        <4>1. /\ DOMAIN q = 1..(Len(queue) + 1) /\ DOMAIN queue = 1..Len(queue)
              /\ \A i \in 1..Len(queue) : q[i] = queue[i]
              /\ q[Len(queue) + 1] = Entry(c, t)
              /\ Len(queue) \in Nat
          BY <3>1, AppendProperties, LenProperties
        <4> DEFINE n == Len(queue)
        <4> HIDE DEF q, n
        <4>2. \A i \in 1..(n + 1) : i = n + 1 \/ i \in 1..n
          BY <4>1 DEF n
        <4>3. \A i \in DOMAIN q : q[i] = Entry(c, t) \/ (i \in DOMAIN queue /\ q[i] = queue[i])
          BY <4>1, <4>2 DEF n
        <4>4. stage[c] # "queued"
          BY <1>1 DEF Acquire
        <4>5. QED
          BY <4>3, <4>4 DEF OwnersOf, OwnersWait, Entry, SameTicket
      <3> HIDE DEF q
      <3>5. QED
        BY <1>1, <2>3, <3>2, <3>3, <3>4, TurnKeepsTickets, TurnKeepsOwners DEF Acquire
    <2>4. QED
      BY <1>1, <2>2, <2>3 DEF Acquire
  <1>2. ASSUME NEW c \in Requests, Wake(c)
        PROVE  TicketsMatchWaiters' /\ OwnersWait'
    <2> DEFINE t == ticket[c]
    <2>1. t \in Tickets /\ c \in Waiting
      BY <1>2 DEF Wake, Waiting
    <2>2. ticket' = [ticket EXCEPT ![c] = t]
      BY <1>2 DEF Wake
    <2>3. HoldsOneFor(queue, c, t)
      <3>1. ASSUME NEW u \in Tickets
            PROVE  Cardinality(Places(queue, u))
                     = Cardinality(Others(c, u)) + (IF u = t THEN 1 ELSE 0)
        <4>1. Asking(u) \in SUBSET Requests
          BY DEF Asking, Waiting
        <4>2. IsFiniteSet(Asking(u)) /\ Cardinality(Asking(u)) \in Nat
          BY <4>1, FS_Subset, FS_CardinalityType
        <4>3. Others(c, u) = Asking(u) \ {c} /\ (c \in Asking(u) <=> u = t)
          BY <2>1 DEF Others, Asking
        <4>4. Cardinality(Others(c, u)) = IF u = t THEN Cardinality(Asking(u)) - 1
                                                   ELSE Cardinality(Asking(u))
          BY <4>2, <4>3, FS_RemoveElement
        <4> HIDE DEF t
        <4>5. QED
          BY <4>2, <4>4 DEF TicketsMatchWaiters
      <3>2. QED
        BY <3>1 DEF HoldsOneFor
    <2>4. OwnersOf(queue, c, t)
      BY DEF OwnersOf, OwnersWait
    <2>5. QED
      BY <1>2, <2>1, <2>2, <2>3, <2>4, TurnKeepsTickets, TurnKeepsOwners DEF Wake
  <1>3. ASSUME NEW c \in Requests, GiveUp(c) \/ Release(c)
        PROVE  TicketsMatchWaiters' /\ OwnersWait'
    <2>1. /\ queue' = queue
          /\ stage[c] # "queued"
          /\ stage' = [stage EXCEPT ![c] = "out"]
          /\ ticket' = [ticket EXCEPT ![c] = NoTicket]
      BY <1>3 DEF GiveUp, Release, Finish, Refusals
    <2>2. \A u \in Tickets : Asking(u)' = Asking(u)
      BY <2>1 DEF Asking, Waiting
    <2>3. ASSUME NEW d \in Requests, stage[d] = "queued"
          PROVE  stage'[d] = "queued" /\ ticket'[d] = ticket[d]
      BY <2>1, <2>3
    <2>4. TicketsMatchWaiters'
      BY <2>1, <2>2 DEF TicketsMatchWaiters, Places
    <2>5. OwnersWait'
      BY <1>0, <2>1, <2>3 DEF OwnersWait, SameTicket
    <2>6. QED
      BY <2>4, <2>5
  <1>4. ASSUME UNCHANGED admissionVars
        PROVE  TicketsMatchWaiters' /\ OwnersWait'
    <2>1. queue' = queue /\ stage' = stage /\ ticket' = ticket
      BY <1>4 DEF admissionVars
    <2>2. \A u \in Tickets : Asking(u)' = Asking(u) /\ Places(queue, u)' = Places(queue, u)
      BY <2>1 DEF Asking, Waiting, Places, SameTicket
    <2>3. TicketsMatchWaiters'
      BY <2>2 DEF TicketsMatchWaiters
    <2>4. OwnersWait'
      BY <2>1 DEF OwnersWait, SameTicket
    <2>5. QED
      BY <2>3, <2>4
  <1>5. QED
    BY <1>1, <1>2, <1>3, <1>4 DEF Next, Cancel, Expire, vars

-----------------------------------------------------------------------------
(* The memory counter                                                      *)

\* A step that leaves the leases and what they asked for alone.
LEMMA SameLeases ==
  ASSUME MemoryAccounted, Leased' = Leased, memory_mb' = memory_mb,
         \A d \in Leased : ticket'[d] = ticket[d]
  PROVE  MemoryAccounted'
  <1> DEFINE n == Cardinality(Leased)
  <1>1. PICK order \in [1..n -> Leased], sum \in [0..n -> 0..MemoryBudget] :
            RunningTotal(order, sum, n, ticket) /\ sum[n] = memory_mb
    BY DEF MemoryAccounted
  <1>2. n' = n
    OBVIOUS
  <1> HIDE DEF n
  <1>3. RunningTotal(order, sum, n, ticket')
    BY <1>1, <1>2 DEF RunningTotal
  <1>4. QED
    BY <1>1, <1>2, <1>3 DEF MemoryAccounted, n

\* A new lease goes to the end of the line.
LEMMA LeaseAddsMemory ==
  ASSUME InductiveInvariant, MemoryAccounted, NEW c \in Requests, NEW t \in Tickets,
         c \notin Leased, Leased' = Leased \cup {c},
         ticket' = [ticket EXCEPT ![c] = t],
         memory_mb' = memory_mb + t.memory_mb, memory_mb + t.memory_mb <= MemoryBudget
  PROVE  MemoryAccounted'
  <1> DEFINE n == Cardinality(Leased)
             m == t.memory_mb
  <1>1. PICK order \in [1..n -> Leased], sum \in [0..n -> 0..MemoryBudget] :
            RunningTotal(order, sum, n, ticket) /\ sum[n] = memory_mb
    BY DEF MemoryAccounted
  <1>2. IsFiniteSet(Leased) /\ n \in Nat
    BY FS_Subset, FS_CardinalityType DEF Leased
  <1>3. Cardinality(Leased') = n + 1
    BY <1>2, FS_AddElement
  <1>4. m \in Nat
    BY DEF Tickets
  <1> HIDE DEF n, m
  <1> DEFINE o == [i \in 1..(n + 1) |-> IF i = n + 1 THEN c ELSE order[i]]
             s == [i \in 0..(n + 1) |-> IF i = n + 1 THEN sum[n] + m ELSE sum[i]]
  <1>5. /\ \A i \in 1..(n + 1) : i # n + 1 => i \in 1..n
        /\ \A i \in 0..(n + 1) : i # n + 1 => i \in 0..n
        /\ \A i \in 1..(n + 1) : i - 1 \in 0..n /\ i - 1 # n + 1
        /\ 0 # n + 1 /\ n \in 0..n /\ n + 1 \in 0..(n + 1) /\ 0 \in 0..(n + 1)
        /\ (n + 1) - 1 = n
    BY <1>2
  <1>6. o \in [1..(n + 1) -> Leased']
    BY <1>5
  <1>7. sum[n] + m \in 0..MemoryBudget
    BY <1>1, <1>4, <1>5 DEF m
  <1>8. s \in [0..(n + 1) -> 0..MemoryBudget]
    BY <1>5, <1>7
  <1>9. RunningTotal(o, s, n + 1, ticket')
    <2>1. ASSUME NEW i \in 1..(n + 1), NEW j \in 1..(n + 1), o[i] = o[j]
          PROVE  i = j
      <3>1. \A k \in 1..(n + 1) : k # n + 1 => o[k] = order[k] /\ o[k] # c
        BY <1>1, <1>5
      <3>2. o[n + 1] = c
        BY <1>5
      <3> HIDE DEF o
      <3>3. CASE i = n + 1 \/ j = n + 1
        BY <2>1, <3>1, <3>2, <3>3
      <3>4. CASE i # n + 1 /\ j # n + 1
        BY <1>1, <1>5, <2>1, <3>1, <3>4 DEF RunningTotal
      <3>5. QED
        BY <3>3, <3>4
    <2>2. s[0] = 0
      BY <1>1, <1>5 DEF RunningTotal
    <2>3. ASSUME NEW i \in 1..(n + 1)
          PROVE  s[i] = s[i - 1] + ticket'[o[i]].memory_mb
      <3>0. i \in 0..(n + 1) /\ i - 1 \in 0..(n + 1)
        BY <1>2
      <3>1. CASE i = n + 1
        <4>1. s[i] = sum[n] + m /\ s[i - 1] = sum[n] /\ o[i] = c
          BY <1>5, <3>0, <3>1
        <4>2. ticket'[c].memory_mb = m
          BY DEF m, InductiveInvariant, TypeOK
        <4>3. QED
          BY <4>1, <4>2
      <3>2. CASE i # n + 1
        <4>1. i \in 1..n /\ s[i] = sum[i] /\ s[i - 1] = sum[i - 1] /\ o[i] = order[i]
          BY <1>5, <3>0, <3>2
        <4>2. ticket'[order[i]] = ticket[order[i]]
          BY <1>1, <4>1 DEF InductiveInvariant, TypeOK
        <4>3. sum[i] = sum[i - 1] + ticket[order[i]].memory_mb
          BY <1>1, <4>1 DEF RunningTotal
        <4>4. QED
          BY <4>1, <4>2, <4>3
      <3>3. QED
        BY <3>1, <3>2
    <2>4. ASSUME NEW i \in 0..(n + 1), NEW j \in 0..(n + 1), i <= j
          PROVE  s[i] <= s[j]
      <3>1. CASE j # n + 1
        <4>1. i \in 0..n /\ j \in 0..n /\ s[i] = sum[i] /\ s[j] = sum[j]
          BY <1>2, <2>4, <3>1
        <4>2. QED
          BY <1>1, <2>4, <4>1 DEF RunningTotal
      <3>2. CASE j = n + 1 /\ i # n + 1
        <4>0. i \in 0..n /\ i <= n
          BY <1>2, <3>2
        <4>1. s[i] = sum[i] /\ s[j] = sum[n] + m
          BY <3>2
        <4> HIDE DEF s
        <4>2. sum[i] \in 0..MemoryBudget /\ sum[n] \in 0..MemoryBudget
          BY <1>1, <1>5, <4>0
        <4>2a. sum[i] <= sum[n]
          BY <1>1, <1>5, <4>0 DEF RunningTotal
        <4>3. QED
          BY <1>4, <4>1, <4>2, <4>2a
      <3>3. CASE j = n + 1 /\ i = n + 1
        BY <1>8, <3>3
      <3>4. QED
        BY <3>1, <3>2, <3>3
    <2> HIDE DEF o, s
    <2>5. QED
      BY <2>1, <2>2, <2>3, <2>4 DEF RunningTotal
  <1>10. s[n + 1] = memory_mb'
    BY <1>1, <1>5 DEF m
  <1> HIDE DEF o, s
  <1>11. QED
    BY <1>3, <1>6, <1>8, <1>9, <1>10 DEF MemoryAccounted

\* A released lease leaves the line; those behind it close up.
LEMMA ReleaseReturnsMemory ==
  ASSUME InductiveInvariant, MemoryAccounted, NEW c \in Requests, Release(c)
  PROVE  MemoryAccounted'
  <1> DEFINE n == Cardinality(Leased)
             m == ticket[c].memory_mb
  <1>1. PICK order \in [1..n -> Leased], sum \in [0..n -> 0..MemoryBudget] :
            RunningTotal(order, sum, n, ticket) /\ sum[n] = memory_mb
    BY DEF MemoryAccounted
  <1>2. IsFiniteSet(Leased) /\ n \in Nat
    BY FS_Subset, FS_CardinalityType DEF Leased
  <1>3. c \in Leased /\ Leased' = Leased \ {c}
    BY DEF Leased, Release, Finish, InductiveInvariant, TypeOK
  <1>4. Cardinality(Leased') = n - 1
    BY <1>2, <1>3, FS_RemoveElement
  <1>5. m \in Nat
    BY <1>3 DEF Leased, Tickets, InductiveInvariant
  <1>6. PICK k \in 1..n : order[k] = c
    <2>1. order \in Injection(1..n, Leased)
      BY <1>1, Zenon DEF Injection, IsInjective, RunningTotal
    <2>2. Cardinality(1..n) = Cardinality(Leased)
      <3> HIDE DEF n
      <3>1. Cardinality(1..n) = n
        BY <1>2, FS_Interval
      <3>2. QED
        BY <3>1 DEF n
    <2>3. order \in Surjection(1..n, Leased)
      BY <1>2, <2>1, <2>2, FS_Injection
    <2>4. QED
      BY <1>3, <2>3 DEF Surjection
  <1> HIDE DEF n, m
  <1>6a. /\ \A i, j \in 1..n : order[i] = order[j] => i = j
         /\ sum[0] = 0
         /\ \A i \in 1..n : sum[i] = sum[i - 1] + ticket[order[i]].memory_mb
         /\ \A i, j \in 0..n : i <= j => sum[i] <= sum[j]
         /\ \A i \in 0..n : sum[i] \in 0..MemoryBudget
    BY <1>1 DEF RunningTotal
  <1>6b. sum[k] = sum[k - 1] + m /\ k - 1 \in 0..n /\ k \in 0..n /\ k \in Nat
    BY <1>2, <1>6, <1>6a DEF m
  <1> DEFINE o == [i \in 1..(n - 1) |-> IF i < k THEN order[i] ELSE order[i + 1]]
             s == [i \in 0..(n - 1) |-> IF i < k THEN sum[i] ELSE sum[i + 1] - m]
  <1>7. /\ \A i \in 1..(n - 1) : i \in 1..n /\ i + 1 \in 1..n /\ i \in Int
        /\ \A i \in 0..(n - 1) : i \in 0..n /\ i + 1 \in 0..n /\ i \in Int
        /\ \A i \in 1..(n - 1) : i - 1 \in 0..(n - 1) /\ i \in 0..(n - 1)
    BY <1>2
  <1>8. o \in [1..(n - 1) -> Leased']
    <2>1. ASSUME NEW i \in 1..(n - 1)
          PROVE  o[i] \in Leased \ {c}
      <3>1. CASE i < k
        <4>1. i \in 1..n /\ i # k /\ o[i] = order[i]
          BY <1>6b, <1>7, <3>1
        <4>2. order[i] # c
          BY <1>6, <1>6a, <4>1
        <4>3. QED
          BY <1>1, <4>1, <4>2
      <3>2. CASE ~(i < k)
        <4>1. i + 1 # k
          BY <1>6b, <1>7, <3>2
        <4>2. QED
          BY <1>1, <1>6, <1>6a, <1>7, <3>2, <4>1
      <3>3. QED
        BY <3>1, <3>2
    <2>2. QED
      BY <1>3, <2>1
  <1>9. ASSUME NEW i \in 0..(n - 1)
        PROVE  s[i] \in 0..MemoryBudget
    <2>1. CASE i < k
      BY <1>6a, <1>7, <2>1
    <2>2. CASE ~(i < k)
      <3>1. k <= i + 1
        BY <1>6b, <1>7, <2>2
      <3>2. sum[k] <= sum[i + 1] /\ sum[i + 1] \in 0..MemoryBudget /\ sum[k - 1] \in 0..MemoryBudget
        BY <1>6a, <1>6b, <1>7, <3>1
      <3>3. s[i] = sum[i + 1] - m
        BY <2>2
      <3> HIDE DEF s
      <3>4. QED
        BY <1>5, <1>6b, <3>2, <3>3
    <2>3. QED
      BY <2>1, <2>2
  <1>10. RunningTotal(o, s, n - 1, ticket')
    <2>1. ASSUME NEW i \in 1..(n - 1), NEW j \in 1..(n - 1), o[i] = o[j]
          PROVE  i = j
      <3>1. order[IF i < k THEN i ELSE i + 1] = order[IF j < k THEN j ELSE j + 1]
        BY <2>1
      <3>2. (IF i < k THEN i ELSE i + 1) = (IF j < k THEN j ELSE j + 1)
        BY <1>6a, <1>7, <3>1
      <3>3. QED
        BY <1>6b, <1>7, <3>2
    <2>2. s[0] = 0
      BY <1>2, <1>6, <1>6a, <1>6b
    <2>3. ASSUME NEW i \in 1..(n - 1)
          PROVE  s[i] = s[i - 1] + ticket'[o[i]].memory_mb
      <3>0. /\ i \in Int /\ i \in 1..n /\ i + 1 \in 1..n /\ i \in 0..(n - 1)
            /\ i - 1 \in 0..(n - 1) /\ (i - 1) + 1 = i /\ (i + 1) - 1 = i
        BY <1>7
      <3>1. o[i] \in Leased /\ o[i] # c
        BY <1>3, <1>8
      <3>2. ticket'[o[i]] = ticket[o[i]]
        BY <3>1 DEF Release, Finish, InductiveInvariant, TypeOK, Leased
      <3>3. CASE i < k
        <4>1. s[i] = sum[i] /\ s[i - 1] = sum[i - 1] /\ o[i] = order[i]
          BY <1>6b, <3>0, <3>3
        <4>2. QED
          BY <1>6a, <3>0, <3>2, <4>1
      <3>4. CASE i = k
        <4>1. s[i] = sum[i + 1] - m /\ s[i - 1] = sum[i - 1] /\ o[i] = order[i + 1]
          BY <1>6b, <3>0, <3>4
        <4>2. sum[i + 1] = sum[i] + ticket[order[i + 1]].memory_mb
          BY <1>6a, <3>0
        <4>3. sum[i] = sum[i - 1] + m /\ sum[i - 1] \in Int /\ sum[i + 1] \in Int /\ sum[i] \in Int
          BY <1>6a, <1>6b, <1>7, <3>0, <3>4
        <4>4. ticket[order[i + 1]].memory_mb \in Nat
          BY <1>1, <3>0 DEF Leased, Tickets, InductiveInvariant
        <4> HIDE DEF s, o
        <4>5. QED
          BY <1>5, <3>2, <4>1, <4>2, <4>3, <4>4
      <3>5. CASE i > k
        <4>1. s[i] = sum[i + 1] - m /\ s[i - 1] = sum[i] - m /\ o[i] = order[i + 1]
          BY <1>6b, <3>0, <3>5
        <4>2. sum[i + 1] = sum[i] + ticket[order[i + 1]].memory_mb
          BY <1>6a, <3>0
        <4>3. sum[i] \in Int /\ sum[i + 1] \in Int
          BY <1>6a, <1>7, <3>0
        <4>4. ticket[order[i + 1]].memory_mb \in Nat
          BY <1>1, <3>0 DEF Leased, Tickets, InductiveInvariant
        <4> HIDE DEF s, o
        <4>5. QED
          BY <1>5, <3>2, <4>1, <4>2, <4>3, <4>4
      <3>6. QED
        BY <1>6b, <3>0, <3>3, <3>4, <3>5
    <2>4. ASSUME NEW i \in 0..(n - 1), NEW j \in 0..(n - 1), i <= j
          PROVE  s[i] <= s[j]
      <3>0. /\ i \in 0..n /\ i + 1 \in 0..n /\ i \in Int
            /\ j \in 0..n /\ j + 1 \in 0..n /\ j \in Int
        BY <1>7
      <3>1. CASE j < k
        <4>1. s[i] = sum[i] /\ s[j] = sum[j]
          BY <1>6b, <2>4, <3>0, <3>1
        <4>2. QED
          BY <1>6a, <2>4, <3>0, <4>1
      <3>2. CASE i < k /\ ~(j < k)
        <4>1. s[i] = sum[i] /\ s[j] = sum[j + 1] - m
          BY <3>0, <3>2
        <4>2. sum[i] <= sum[k - 1] /\ sum[k] <= sum[j + 1]
          BY <1>6a, <1>6b, <3>0, <3>2
        <4>3. sum[i] \in Int /\ sum[k - 1] \in Int /\ sum[k] \in Int /\ sum[j + 1] \in Int
          BY <1>6a, <1>6b, <3>0
        <4> HIDE DEF s
        <4>4. QED
          BY <1>5, <1>6b, <4>1, <4>2, <4>3
      <3>3. CASE ~(i < k)
        <4>1. s[i] = sum[i + 1] - m /\ s[j] = sum[j + 1] - m
          BY <1>6b, <2>4, <3>0, <3>3
        <4>2. sum[i + 1] <= sum[j + 1]
          BY <1>6a, <2>4, <3>0
        <4>3. sum[i + 1] \in Int /\ sum[j + 1] \in Int
          BY <1>6a, <3>0
        <4> HIDE DEF s
        <4>4. QED
          BY <1>5, <4>1, <4>2, <4>3
      <3>4. QED
        BY <3>1, <3>2, <3>3
    <2> HIDE DEF o, s
    <2>5. QED
      BY <2>1, <2>2, <2>3, <2>4 DEF RunningTotal
  <1>11. s[n - 1] = memory_mb'
    <2>1. n - 1 \in 0..(n - 1) /\ (n - 1) + 1 = n
      BY <1>2, <1>6
    <2>2. memory_mb' = sum[n] - m /\ sum[n] \in Int
      BY <1>1, <1>2, <1>6a DEF Release, m
    <2>3. CASE n = k
      <3>1. s[n - 1] = sum[n - 1]
        BY <1>2, <2>1, <2>3
      <3> HIDE DEF s
      <3>2. sum[n] = sum[n - 1] + m /\ sum[n - 1] \in Int
        BY <1>6a, <1>6b, <2>3
      <3>3. QED
        BY <1>5, <2>2, <3>1, <3>2
    <2>4. CASE n # k
      BY <1>2, <1>6, <2>1, <2>2, <2>4
    <2>5. QED
      BY <2>3, <2>4
  <1>12. s \in [0..(n - 1) -> 0..MemoryBudget]
    BY <1>9
  <1> HIDE DEF o, s
  <1>13. QED
    BY <1>4, <1>8, <1>10, <1>11, <1>12 DEF MemoryAccounted

\* Nothing is leased, nothing is counted.
LEMMA InitMemory == Init => MemoryAccounted
  <1> SUFFICES ASSUME Init PROVE MemoryAccounted
    OBVIOUS
  <1>1. Leased = {}
    BY DEF Init, AdmissionInit, Leased
  <1>2. Cardinality(Leased) = 0 /\ 1..0 = {}
    BY <1>1, FS_EmptySet
  <1> DEFINE o == [i \in {} |-> {}]
             s == [i \in 0..0 |-> 0]
  <1>3. o \in [1..0 -> Leased] /\ s \in [0..0 -> 0..MemoryBudget]
    BY <1>2
  <1>4. s[0] = 0 /\ memory_mb = 0
    BY DEF Init, AdmissionInit
  <1>5. \A i \in 0..0 : i = 0
    OBVIOUS
  <1> HIDE DEF o, s
  <1>6. RunningTotal(o, s, 0, ticket)
    BY <1>2, <1>4, <1>5 DEF RunningTotal
  <1>7. QED
    BY <1>2, <1>3, <1>4, <1>6 DEF MemoryAccounted

\* Every step of the controller keeps the memory counter the sum of the leases'.
LEMMA NextKeepsMemory ==
  ASSUME InductiveInvariant, MemoryAccounted, [Next]_vars
  PROVE  MemoryAccounted'
  <1> USE DEF InductiveInvariant, TypeOK
  <1>1. ASSUME NEW c \in Requests, NEW t \in Tickets, NEW q, c \notin Leased,
               ticket' = [ticket EXCEPT ![c] = t], Turn(c, t, q)
        PROVE  MemoryAccounted'
    <2>1. CASE MayEnter(c, t, q) /\ TakeLease(c, t, q)
      <3>1. Leased' = Leased \cup {c}
        BY <2>1 DEF TakeLease, Leased
      <3>2. memory_mb' = memory_mb + t.memory_mb /\ memory_mb + t.memory_mb <= MemoryBudget
        BY <2>1 DEF TakeLease, MayEnter, MemoryFits
      <3>3. QED
        BY <1>1, <3>1, <3>2, LeaseAddsMemory
    <2>2. CASE UNCHANGED counters /\ stage'[c] # "leased"
               /\ stage' = [stage EXCEPT ![c] = stage'[c]]
      <3>1. Leased' = Leased /\ memory_mb' = memory_mb
        BY <1>1, <2>2 DEF Leased, counters
      <3>2. \A d \in Leased : ticket'[d] = ticket[d]
        BY <1>1 DEF Leased
      <3>3. QED
        BY <3>1, <3>2, SameLeases
    <2>3. QED
      BY <1>1, <2>1, <2>2 DEF Turn, Refuse, KeepWaiting
  <1>2. ASSUME NEW c \in Requests, NEW t \in Tickets, Acquire(c, t)
        PROVE  MemoryAccounted'
    <2>1. c \notin Leased /\ ticket' = [ticket EXCEPT ![c] = t]
      BY <1>2 DEF Acquire, Leased
    <2>2. CASE stage' = [stage EXCEPT ![c] = "overloaded"] /\ UNCHANGED <<queue, counters>>
      <3>1. Leased' = Leased /\ memory_mb' = memory_mb
        BY <2>1, <2>2 DEF Leased, counters
      <3>2. \A d \in Leased : ticket'[d] = ticket[d]
        BY <2>1 DEF Leased
      <3>3. QED
        BY <3>1, <3>2, SameLeases
    <2>3. CASE Turn(c, t, Append(queue, Entry(c, t)))
      BY <1>1, <2>1, <2>3
    <2>4. QED
      BY <1>2, <2>2, <2>3 DEF Acquire
  <1>3. ASSUME NEW c \in Requests, Wake(c)
        PROVE  MemoryAccounted'
    <2>1. c \notin Leased /\ ticket[c] \in Tickets /\ ticket' = [ticket EXCEPT ![c] = ticket[c]]
      BY <1>3 DEF Wake, Leased
    <2>2. Turn(c, ticket[c], queue)
      BY <1>3 DEF Wake
    <2>3. QED
      BY <1>1, <2>1, <2>2
  <1>4. ASSUME NEW c \in Requests, GiveUp(c)
        PROVE  MemoryAccounted'
    <2>1. Leased' = Leased /\ memory_mb' = memory_mb
      BY <1>4 DEF GiveUp, Finish, Leased, Refusals, counters
    <2>2. \A d \in Leased : ticket'[d] = ticket[d]
      BY <1>4 DEF GiveUp, Finish, Leased, Refusals
    <2>3. QED
      BY <2>1, <2>2, SameLeases
  <1>5. ASSUME UNCHANGED admissionVars
        PROVE  MemoryAccounted'
    BY <1>5, SameLeases DEF admissionVars, counters, Leased
  <1>6. QED
    BY <1>2, <1>3, <1>4, <1>5, ReleaseReturnsMemory DEF Next, Cancel, Expire, vars

\* The queue starts empty, with nobody waiting.
LEMMA InitQueue == Init => TicketsMatchWaiters /\ OwnersWait
  <1> SUFFICES ASSUME Init PROVE TicketsMatchWaiters /\ OwnersWait
    OBVIOUS
  <1>1. queue = <<>> /\ Waiting = {}
    BY DEF Init, AdmissionInit, Waiting
  <1>2. DOMAIN queue = {}
    BY <1>1
  <1>3. \A t \in Tickets : Places(queue, t) = {} /\ Asking(t) = {}
    BY <1>1, <1>2 DEF Places, Asking
  <1>4. QED
    BY <1>2, <1>3 DEF TicketsMatchWaiters, OwnersWait

\* The inductive invariant of the queue holds in every reachable state.
THEOREM QueueInPlace == Spec => []QueueInvariant
  <1>1. Init => QueueInvariant
    BY InitInvariant, InitMemory, InitQueue DEF QueueInvariant
  <1>2. QueueInvariant /\ [Next]_vars => QueueInvariant'
    BY NextPreserves, NextKeepsMemory, NextKeepsQueue DEF QueueInvariant
  <1>3. QED
    BY <1>1, <1>2, PTL DEF Spec

\* Batches leave the first waiting single a lane.
LEMMA InvariantKeepsLane ==
  ASSUME QueueInvariant, LanesConfigured
  PROVE  LaneKept
  <1> USE DEF QueueInvariant, InductiveInvariant, TypeOK
  <1> SUFFICES ASSUME NEW i \in DOMAIN queue, HeadSingle(i), OnlyBatchLeases,
                      memory_mb + ticket[queue[i].owner].memory_mb <= MemoryBudget
               PROVE  MayEnter(queue[i].owner, ticket[queue[i].owner], queue)
    BY DEF LaneKept
  <1> DEFINE c == queue[i].owner
             t == ticket[c]
  <1>1. t.request_class = "single"
    BY DEF HeadSingle, OwnersWait, SameTicket
  <1>2. active < MaximumActive
    <2>1. Cardinality(Leased) <= BatchLimit /\ active = Cardinality(Leased)
      BY DEF CapacityRespected, LeasesAccounted, OnlyBatchLeases
    <2>2. BatchLimit < MaximumActive
      BY DEF LanesConfigured, BatchLimit
    <2>3. BatchLimit \in Nat
      BY DEF BatchLimit
    <2>4. QED
      BY <2>1, <2>2, <2>3
  <1>3. OwnTurn(c, t, queue)
    BY <1>1 DEF OwnTurn, HeadSingle
  <1>4. QED
    BY <1>1, <1>2, <1>3 DEF MayEnter, MemoryFits, BatchHasRoom

\* With no lease out and no ticket lost, the call whose turn it is may enter.
LEMMA InvariantAdmits ==
  ASSUME QueueInvariant, LanesConfigured
  PROVE  OnlyLostTicketsBlock
  <1> USE DEF QueueInvariant, InductiveInvariant, TypeOK
  <1> SUFFICES ASSUME \A i \in DOMAIN queue : queue[i].owner # Nobody,
                      active = 0, Waiting # {}
               PROVE  \E c \in Waiting : MayEnter(c, ticket[c], queue)
    BY DEF OnlyLostTicketsBlock, NoDeadQueue
  <1>1. ASSUME NEW i \in DOMAIN queue
        PROVE  /\ queue[i].owner \in Waiting
               /\ ticket[queue[i].owner] \in Tickets
               /\ SameTicket(queue[i], ticket[queue[i].owner])
               /\ queue[i].request_class \in Classes
    <2>1. queue[i] \in Entries
      BY ElementOfSeq
    <2>2. queue[i].owner \in Requests /\ queue[i].request_class \in Classes
      BY <2>1 DEF Entries
    <2>3. stage[queue[i].owner] = "queued" /\ SameTicket(queue[i], ticket[queue[i].owner])
      BY DEF OwnersWait
    <2>4. QED
      BY <2>2, <2>3 DEF Waiting
  <1>2. memory_mb = 0
    <2>1. IsFiniteSet(Leased) /\ Cardinality(Leased) = 0
      BY FS_Subset DEF Leased, LeasesAccounted
    <2>2. QED
      BY <2>1 DEF MemoryAccounted, RunningTotal
  <1>3. ASSUME NEW t \in Tickets
        PROVE  MemoryFits(t)
    <2>1. t.memory_mb \in MemorySizes /\ t.memory_mb \in Nat
      BY DEF Tickets
    <2>2. QED
      BY <1>2, <2>1 DEF MemoryFits, LanesConfigured
  <1>4. active < MaximumActive /\ active_batch = 0 /\ 0 < BatchLimit
    <2>1. LeasedBatch = {}
      <3>1. IsFiniteSet(Leased) /\ Cardinality(Leased) = 0
        BY FS_Subset DEF Leased, LeasesAccounted
      <3>2. QED
        BY <3>1, FS_EmptySet DEF LeasedBatch
    <2>2. active_batch = 0
      BY <2>1, FS_EmptySet DEF LeasesAccounted
    <2>3. QED
      BY <2>2 DEF LanesConfigured, BatchLimit
  <1>5. DOMAIN queue # {}
    <2>1. PICK c \in Waiting : TRUE
      OBVIOUS
    <2>2. ticket[c] \in Tickets /\ c \in Asking(ticket[c])
      BY DEF Waiting, Asking
    <2>3. IsFiniteSet(Asking(ticket[c]))
      <3>1. Asking(ticket[c]) \in SUBSET Requests
        BY DEF Asking, Waiting
      <3>2. QED
        BY <3>1, FS_Subset
    <2>4. Cardinality(Places(queue, ticket[c])) # 0
      BY <2>2, <2>3, FS_EmptySet DEF TicketsMatchWaiters
    <2>5. Places(queue, ticket[c]) # {}
      BY <2>4, FS_EmptySet
    <2>6. QED
      BY <2>5 DEF Places
  <1>6. DOMAIN queue = 1..Len(queue) /\ Len(queue) \in Nat
    BY LenProperties
  <1> DEFINE singles == {i \in DOMAIN queue : queue[i].request_class = "single"}
  <1>7. CASE singles # {}
    <2>1. singles \subseteq Nat
      BY <1>6
    <2>2. PICK i \in singles : \A j \in singles : i <= j
      BY <1>7, <2>1, LeastNatural
    <2>3. ASSUME NEW j \in 1..(i - 1)
          PROVE  queue[j].request_class = "batch"
      <3>1. j \in DOMAIN queue /\ ~(i <= j)
        BY <1>6, <2>2
      <3>2. QED
        BY <1>1, <2>2, <3>1 DEF Classes
    <2>4. ticket[queue[i].owner].request_class = "single"
      BY <1>1, <2>2 DEF SameTicket
    <2>5. OwnTurn(queue[i].owner, ticket[queue[i].owner], queue)
      BY <2>2, <2>3, <2>4 DEF OwnTurn
    <2>6. QED
      BY <1>1, <1>3, <1>4, <2>2, <2>4, <2>5 DEF MayEnter, BatchHasRoom
  <1>8. CASE singles = {}
    <2>1. 1 \in DOMAIN queue /\ 1..(1 - 1) = {}
      BY <1>5, <1>6
    <2>2. OwnTurn(queue[1].owner, ticket[queue[1].owner], queue)
      BY <2>1 DEF OwnTurn
    <2>3. BatchHasRoom(ticket[queue[1].owner], queue)
      BY <1>4, <1>8 DEF BatchHasRoom
    <2>4. QED
      BY <1>1, <1>3, <1>4, <2>1, <2>2, <2>3 DEF MayEnter
  <1>9. QED
    BY <1>7, <1>8

\* Whatever is cancelled, refused or late, and where the limits leave batches a
\* share smaller than the whole and every request fits the budget: memory is
\* counted exactly, tickets and waiting calls agree shape by shape, a single
\* call keeps its lane, and only a lost ticket keeps an idle controller shut.
THEOREM QueueStaysConsistent ==
  ASSUME LanesConfigured
  PROVE  Spec => []QueueConsistent
  <1>1. QueueInvariant => QueueConsistent
    BY InvariantKeepsLane, InvariantAdmits DEF QueueConsistent, QueueInvariant
  <1>2. QED
    BY <1>1, QueueInPlace, PTL
=============================================================================
