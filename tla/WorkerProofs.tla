---------------------------- MODULE WorkerProofs ----------------------------
(***************************************************************************)
(* Proofs about the worker pool, for any finite sets of threads and        *)
(* workers, any maximum and any number of shutdowns, and about the         *)
(* exchange with one worker, for any number of requests.                   *)
(***************************************************************************)
EXTENDS WorkerPool, FiniteSetTheorems, SequenceTheorems, TLAPS

USE PoolAssumption, ExchangeAssumption

----------------------------------------------------------------------------
(* The worker pool: where workers are.                                     *)

\* The pool starts empty.
LEMMA PoolInitInvariant == PoolInit => PoolInvariant
  <1> SUFFICES ASSUME PoolInit PROVE PoolInvariant
    OBVIOUS
  <1>1. Holders = {} /\ Starters = {} /\ available = {} /\ Reserved = 0
    BY DEF PoolInit, Holders, Starters, Reserved
  <1>2. Occupied = 0
    BY <1>1, FS_EmptySet DEF Occupied
  <1>3. TypeOK
    BY DEF PoolInit, TypeOK, Generations, NoGeneration, ThreadStates, WarmStates
  <1>4. OwnersInPlace
    BY DEF PoolInit, OwnersInPlace, SoleOwner, OnlyCurrentPooled, ThreadsInPlace,
           WarmerInPlace, OwnedExist
  <1>5. SlotsBounded /\ SlotsAccounted
    BY <1>2 DEF PoolInit, SlotsBounded, SlotsAccounted
  <1>6. QED
    BY <1>3, <1>4, <1>5 DEF PoolInvariant

\* The owners change hands without sharing or losing a worker: steps of acquire.
LEMMA AcquireOwners ==
  ASSUME TypeOK, OwnersInPlace, NEW c \in Threads, BeginAcquire(c) \/ Acquire(c)
  PROVE  OwnersInPlace'
  <1> USE DEF TypeOK, OwnersInPlace, SoleOwner, OnlyCurrentPooled, ThreadsInPlace,
              WarmerInPlace, OwnedExist, At, Goto, ThreadsStart, counters, prewarm,
              children, warmer
  <1>1. CASE BeginAcquire(c)
    BY <1>1 DEF BeginAcquire
  <1>2. CASE AcquireCancelled(c)
    BY <1>2 DEF AcquireCancelled
  <1>3. ASSUME NEW w \in Workers, NEW unfit \in SUBSET available,
               AcquirePooled(c, w, unfit)
        PROVE  OwnersInPlace'
    BY <1>3 DEF AcquirePooled
  <1>4. CASE AcquireWaits(c)
    BY <1>4 DEF AcquireWaits, AllUnfit
  <1>5. CASE AcquireSlot(c)
    BY <1>5 DEF AcquireSlot, AllUnfit
  <1>6. QED
    BY <1>1, <1>2, <1>3, <1>4, <1>5 DEF Acquire

\* The same for starting, releasing and terminating a worker.
LEMMA ReleaseOwners ==
  ASSUME TypeOK, OwnersInPlace, NEW c \in Threads,
         Start(c) \/ Release(c) \/ Terminate(c)
  PROVE  OwnersInPlace'
  <1> USE DEF TypeOK, OwnersInPlace, SoleOwner, OnlyCurrentPooled, ThreadsInPlace,
              WarmerInPlace, OwnedExist, At, Goto, ThreadsStart, counters, prewarm,
              children, warmer
  <1>1. ASSUME NEW w \in Workers, StartSucceeds(c, w)
        PROVE  OwnersInPlace'
    BY <1>1 DEF StartSucceeds
  <1>2. CASE StartFails(c)
    BY <1>2 DEF StartFails
  <1>3. CASE ReleaseReusable(c)
    BY <1>3 DEF ReleaseReusable, Current
  <1>4. CASE ReleaseDiscard(c)
    BY <1>4 DEF ReleaseDiscard
  <1>5. ASSUME NEW w \in Workers, TerminateVictim(c, w)
        PROVE  OwnersInPlace'
    BY <1>5 DEF TerminateVictim, Gone
  <1>6. QED
    BY <1>1, <1>2, <1>3, <1>4, <1>5 DEF Start, Release, Terminate

\* The same for warm_worker_pool, up to a prewarm thread that cannot be started.
LEMMA WarmOwners ==
  ASSUME TypeOK, OwnersInPlace, NEW c \in Threads,
         WarmAtStartup(c) \/ WarmPool(c) \/ PrewarmThreadFails(c)
  PROVE  OwnersInPlace'
  <1> USE DEF TypeOK, OwnersInPlace, SoleOwner, OnlyCurrentPooled, ThreadsInPlace,
              WarmerInPlace, OwnedExist, At, Goto, ThreadsStart, counters, prewarm,
              children, warmer, AfterWarm, WarmAbandoned
  <1>1. CASE WarmAtStartup(c)
    BY <1>1 DEF WarmAtStartup
  <1>2. CASE ReservePrewarm(c)
    BY <1>2 DEF ReservePrewarm, MayReserve
  <1>3. CASE ReserveRefused(c)
    BY <1>3 DEF ReserveRefused
  <1>4. CASE FetchCancelEvent(c)
    BY <1>4 DEF FetchCancelEvent
  <1>5. CASE StartPrewarmThread(c)
    BY <1>5 DEF StartPrewarmThread, SpawnAllowed
  <1>6. CASE PrewarmThreadFails(c)
    BY <1>6 DEF PrewarmThreadFails, SpawnAllowed
  <1>7. QED
    BY <1>1, <1>2, <1>3, <1>4, <1>5, <1>6 DEF WarmPool

\* The same for the prewarm thread, shutdown and the death of a process.
LEMMA BackgroundOwners ==
  ASSUME TypeOK, OwnersInPlace,
         \/ WarmThread
         \/ Shutdown
         \/ \E w \in Workers : ShutdownTerminates(w) \/ Dies(w)
         \/ UNCHANGED poolVars
  PROVE  OwnersInPlace'
  <1> USE DEF TypeOK, OwnersInPlace, SoleOwner, OnlyCurrentPooled, ThreadsInPlace,
              WarmerInPlace, OwnedExist, ThreadsStart, counters, prewarm, children,
              warmer, threads, WarmStates
  <1>1. CASE WarmCheck
    BY <1>1 DEF WarmCheck
  <1>2. ASSUME NEW w \in Workers, WarmStartSucceeds(w)
        PROVE  OwnersInPlace'
    BY <1>2 DEF WarmStartSucceeds
  <1>3. CASE WarmStartFails
    BY <1>3 DEF WarmStartFails
  <1>4. CASE FinishPrewarm
    BY <1>4 DEF FinishPrewarm, WarmedWorkerUsable, OwnsReservation
  <1>5. CASE WarmTerminate
    BY <1>5 DEF WarmTerminate, Gone
  <1>6. CASE WarmClear
    BY <1>6 DEF WarmClear
  <1>7. CASE Shutdown
    BY <1>7 DEF Shutdown
  <1>8. ASSUME NEW w \in Workers, ShutdownTerminates(w)
        PROVE  OwnersInPlace'
    BY <1>8 DEF ShutdownTerminates, Gone
  <1>9. ASSUME NEW w \in Workers, Dies(w)
        PROVE  OwnersInPlace'
    BY <1>9 DEF Dies
  <1>10. CASE UNCHANGED poolVars
    BY <1>10 DEF poolVars
  <1>11. QED
    BY <1>1, <1>2, <1>3, <1>4, <1>5, <1>6, <1>7, <1>8, <1>9, <1>10 DEF WarmThread

----------------------------------------------------------------------------
(* The worker pool: counting slots.                                        *)

\* What is counted is finite.
LEMMA CountsAreNaturals ==
  ASSUME TypeOK
  PROVE  /\ IsFiniteSet(available) /\ IsFiniteSet(Holders) /\ IsFiniteSet(Starters)
         /\ Cardinality(available) \in Nat
         /\ Cardinality(Holders) \in Nat
         /\ Cardinality(Starters) \in Nat
         /\ Reserved \in {0, 1}
         /\ Occupied \in Nat
  <1>1. IsFiniteSet(available) /\ IsFiniteSet(Holders) /\ IsFiniteSet(Starters)
    BY FS_Subset DEF TypeOK, Holders, Starters
  <1>2. /\ Cardinality(available) \in Nat
        /\ Cardinality(Holders) \in Nat
        /\ Cardinality(Starters) \in Nat
    BY <1>1, FS_CardinalityType
  <1>3. Reserved \in {0, 1}
    BY DEF Reserved
  <1>4. QED
    BY <1>1, <1>2, <1>3 DEF Occupied

\* A thread takes a worker.
LEMMA HoldersGain ==
  ASSUME TypeOK, NEW c \in Threads, NEW w \in Workers,
         held[c] = NoWorker, held' = [held EXCEPT ![c] = w]
  PROVE  Cardinality(Holders') = Cardinality(Holders) + 1
  <1>1. Holders' = Holders \cup {c} /\ c \notin Holders
    BY DEF Holders, TypeOK
  <1>2. QED
    BY <1>1, CountsAreNaturals, FS_AddElement

\* A thread lets its worker go.
LEMMA HoldersDrop ==
  ASSUME TypeOK, NEW c \in Threads,
         held[c] # NoWorker, held' = [held EXCEPT ![c] = NoWorker]
  PROVE  Cardinality(Holders') = Cardinality(Holders) - 1
  <1>1. Holders' = Holders \ {c} /\ c \in Holders
    BY DEF Holders, TypeOK
  <1>2. QED
    BY <1>1, CountsAreNaturals, FS_RemoveElement

\* A thread moves: it begins a start, ends one, or neither.
LEMMA StartersStep ==
  ASSUME TypeOK, NEW c \in Threads, NEW place, Goto(c, place)
  PROVE  Cardinality(Starters') =
            Cardinality(Starters) + (IF place = "starting" THEN 1 ELSE 0)
                                  - (IF pc[c] = "starting" THEN 1 ELSE 0)
  <1>1. IsFiniteSet(Starters) /\ Cardinality(Starters) \in Nat
    BY CountsAreNaturals
  <1>2. CASE place = "starting"
    <2>1. Starters' = Starters \cup {c}
      BY <1>2 DEF Starters, TypeOK, Goto
    <2>2. pc[c] = "starting" <=> c \in Starters
      BY DEF Starters
    <2>3. Cardinality(Starters') = IF c \in Starters THEN Cardinality(Starters) ELSE Cardinality(Starters) + 1
      BY <1>1, <2>1, FS_AddElement
    <2>4. QED
      BY <1>1, <1>2, <2>2, <2>3
  <1>3. CASE place # "starting"
    <2>1. Starters' = Starters \ {c}
      BY <1>3 DEF Starters, TypeOK, Goto
    <2>2. pc[c] = "starting" <=> c \in Starters
      BY DEF Starters
    <2>3. Cardinality(Starters') = IF c \in Starters THEN Cardinality(Starters) - 1 ELSE Cardinality(Starters)
      BY <1>1, <2>1, FS_RemoveElement
    <2>4. QED
      BY <1>1, <1>3, <2>2, <2>3
  <1>4. QED
    BY <1>2, <1>3

Counted == total \in 0..Maximum /\ SlotsBounded /\ SlotsAccounted

\* A step that changes the counter by what it occupies or frees keeps it right.
LEMMA CountStep ==
  ASSUME TypeOK, SlotsBounded, SlotsAccounted,
         Occupied' \in Nat, total' - total = Occupied' - Occupied,
         total' \in Int, total' <= Maximum, ThreadsStart' => ThreadsStart
  PROVE  Counted'
  <1>1. Occupied \in Nat /\ total \in 0..Maximum
    BY CountsAreNaturals DEF TypeOK
  <1>2. Occupied' <= total' /\ (ThreadsStart' => total' = Occupied')
    BY <1>1 DEF SlotsBounded, SlotsAccounted
  <1>3. QED
    BY <1>1, <1>2 DEF Counted, SlotsBounded, SlotsAccounted

\* The loop of acquire pops unfit workers and a usable one.
LEMMA PoppedCount ==
  ASSUME TypeOK, NEW w \in available, NEW unfit \in SUBSET (available \ {w})
  PROVE  /\ Cardinality(unfit) \in Nat
         /\ Cardinality(available \ (unfit \cup {w}))
              = Cardinality(available) - Cardinality(unfit) - 1
  <1>1. IsFiniteSet(available) /\ Cardinality(available) \in Nat
    BY CountsAreNaturals
  <1>2. IsFiniteSet(unfit) /\ w \notin unfit
    BY <1>1, FS_Subset
  <1>3. IsFiniteSet(unfit \cup {w}) /\ Cardinality(unfit \cup {w}) = Cardinality(unfit) + 1
    BY <1>2, FS_AddElement
  <1>4. available \cap (unfit \cup {w}) = unfit \cup {w}
    OBVIOUS
  <1>5. Cardinality(available \ (unfit \cup {w}))
          = Cardinality(available) - Cardinality(unfit \cup {w})
    BY <1>1, <1>4, FS_Difference
  <1>6. QED
    BY <1>1, <1>2, <1>3, <1>5, FS_CardinalityType

\* acquire() counts what it pops, evicts and starts.
LEMMA AcquireCounts ==
  ASSUME PoolInvariant, NEW c \in Threads, BeginAcquire(c) \/ Acquire(c)
  PROVE  Counted'
  <1> USE DEF PoolInvariant
  <1>1. /\ total \in 0..Maximum /\ Occupied \in Nat /\ Occupied <= total
        /\ Reserved \in {0, 1}
        /\ Cardinality(available) \in Nat
        /\ Cardinality(Holders) \in Nat
        /\ Cardinality(Starters) \in Nat
    BY CountsAreNaturals DEF TypeOK, SlotsBounded
  <1>2. ASSUME BeginAcquire(c) \/ AcquireCancelled(c)
        PROVE  Counted'
    <2>1. /\ available' = available /\ Holders' = Holders
          /\ Reserved' = Reserved /\ ThreadsStart' = ThreadsStart /\ total' = total
      BY <1>2 DEF BeginAcquire, AcquireCancelled, Holders, Reserved, ThreadsStart,
                  counters, prewarm
    <2>2. Starters' = Starters
      BY <1>2 DEF BeginAcquire, AcquireCancelled, Goto, At, Starters, TypeOK
    <2>3. Occupied' = Occupied
      BY <2>1, <2>2 DEF Occupied
    <2>4. QED
      BY <1>1, <2>1, <2>3, CountStep
  <1>3. ASSUME NEW w \in Workers, NEW unfit \in SUBSET available,
               AcquirePooled(c, w, unfit)
        PROVE  Counted'
    <2>1. PICK place \in {"reserve", "leased"} : Goto(c, place)
      BY <1>3 DEF AcquirePooled
    <2>2. /\ w \in available /\ unfit \in SUBSET (available \ {w})
          /\ available' = available \ (unfit \cup {w})
          /\ Reserved' = Reserved /\ ThreadsStart' = ThreadsStart
          /\ total' = total - Cardinality(unfit)
          /\ pc[c] = "acquiring" /\ held' = [held EXCEPT ![c] = w]
      BY <1>3 DEF AcquirePooled, Reserved, ThreadsStart, counters, prewarm, At
    <2>3. held[c] = NoWorker
      BY <2>2 DEF OwnersInPlace, ThreadsInPlace
    <2>4. Cardinality(Holders') = Cardinality(Holders) + 1
      BY <2>2, <2>3, HoldersGain
    <2>5. Cardinality(Starters') = Cardinality(Starters)
      BY <1>1, <2>1, <2>2, StartersStep
    <2>6. /\ Cardinality(unfit) \in Nat
          /\ Cardinality(available') = Cardinality(available) - Cardinality(unfit) - 1
      BY <2>2, PoppedCount
    <2>7. Cardinality(available') \in Nat
      BY <1>1, <2>2, CountsAreNaturals, FS_Subset, FS_CardinalityType
    <2>8. /\ Occupied' \in Nat /\ total' - total = Occupied' - Occupied
          /\ total' \in Int /\ total' <= Maximum
      BY <1>1, <2>2, <2>4, <2>5, <2>6, <2>7 DEF Occupied
    <2>9. QED
      BY <2>2, <2>8, CountStep
  <1>4. ASSUME AcquireWaits(c)
        PROVE  Counted'
    <2>1. PICK place \in {"idle", "acquiring"} : Goto(c, place)
      BY <1>4 DEF AcquireWaits
    <2>2. /\ available' = {} /\ Holders' = Holders
          /\ Reserved' = Reserved /\ ThreadsStart' = ThreadsStart
          /\ total' = total - Cardinality(available)
          /\ pc[c] = "acquiring"
      BY <1>4 DEF AcquireWaits, AllUnfit, RemainingTotal, Reserved, ThreadsStart,
                  prewarm, Holders, At
    <2>3. Cardinality(Starters') = Cardinality(Starters)
      BY <1>1, <2>1, <2>2, StartersStep
    <2>4. Cardinality(available') = 0
      BY <2>2, FS_EmptySet
    <2>5. /\ Occupied' \in Nat /\ total' - total = Occupied' - Occupied
          /\ total' \in Int /\ total' <= Maximum
      BY <1>1, <2>2, <2>3, <2>4 DEF Occupied
    <2>6. QED
      BY <2>2, <2>5, CountStep
  <1>5. ASSUME AcquireSlot(c)
        PROVE  Counted'
    <2>1. /\ available' = {} /\ Holders' = Holders
          /\ Reserved' = Reserved /\ ThreadsStart' = ThreadsStart
          /\ total' = total - Cardinality(available) + 1
          /\ total - Cardinality(available) < Maximum
          /\ pc[c] = "acquiring" /\ Goto(c, "starting")
      BY <1>5 DEF AcquireSlot, AllUnfit, RemainingTotal, RoomToStart, Reserved,
                  ThreadsStart, prewarm, Holders, At
    <2>2. Cardinality(Starters') = Cardinality(Starters) + 1
      BY <1>1, <2>1, StartersStep
    <2>3. Cardinality(available') = 0
      BY <2>1, FS_EmptySet
    <2>4. /\ Occupied' \in Nat /\ total' - total = Occupied' - Occupied
          /\ total' \in Int /\ total' <= Maximum
      BY <1>1, <2>1, <2>2, <2>3 DEF Occupied
    <2>5. QED
      BY <2>1, <2>4, CountStep
  <1>6. QED
    BY <1>2, <1>3, <1>4, <1>5 DEF Acquire

\* A start that fails or succeeds, and a release, move one slot or free it.
LEMMA ReleaseCounts ==
  ASSUME PoolInvariant, NEW c \in Threads, Start(c) \/ Release(c) \/ Terminate(c)
  PROVE  Counted'
  <1> USE DEF PoolInvariant
  <1>1. /\ total \in 0..Maximum /\ Occupied \in Nat /\ Occupied <= total
        /\ Reserved \in {0, 1}
        /\ Cardinality(available) \in Nat
        /\ Cardinality(Holders) \in Nat
        /\ Cardinality(Starters) \in Nat
    BY CountsAreNaturals DEF TypeOK, SlotsBounded
  <1>2. ASSUME NEW w \in Workers, StartSucceeds(c, w)
        PROVE  Counted'
    <2>1. /\ available' = available /\ Reserved' = Reserved /\ total' = total
          /\ ThreadsStart' = ThreadsStart
          /\ pc[c] = "starting" /\ Goto(c, "leased") /\ held' = [held EXCEPT ![c] = w]
      BY <1>2 DEF StartSucceeds, Reserved, ThreadsStart, counters, prewarm, At
    <2>2. held[c] = NoWorker
      BY <2>1 DEF OwnersInPlace, ThreadsInPlace
    <2>3. Cardinality(Holders') = Cardinality(Holders) + 1
      BY <2>1, <2>2, HoldersGain
    <2>4. Cardinality(Starters') = Cardinality(Starters) - 1
      BY <1>1, <2>1, StartersStep
    <2>5. Occupied' = Occupied
      BY <1>1, <2>1, <2>3, <2>4 DEF Occupied
    <2>6. QED
      BY <1>1, <2>1, <2>5, CountStep
  <1>3. ASSUME StartFails(c)
        PROVE  Counted'
    <2>1. /\ available' = available /\ Reserved' = Reserved /\ total' = total - 1
          /\ ThreadsStart' = ThreadsStart /\ Holders' = Holders
          /\ pc[c] = "starting" /\ Goto(c, "idle")
      BY <1>3 DEF StartFails, Reserved, ThreadsStart, prewarm, At, Holders
    <2>2. Cardinality(Starters') = Cardinality(Starters) - 1 /\ c \in Starters
      BY <1>1, <2>1, StartersStep DEF Starters
    <2>3. Cardinality(Starters) # 0
      BY <2>2, CountsAreNaturals, FS_EmptySet
    <2>4. Occupied' = Occupied - 1 /\ Occupied' \in Nat
      BY <1>1, <2>1, <2>2, <2>3 DEF Occupied
    <2>5. QED
      BY <1>1, <2>1, <2>4, CountStep
  <1>4. ASSUME ReleaseReusable(c)
        PROVE  Counted'
    <2>1. /\ available' = available \cup {held[c]} /\ Reserved' = Reserved
          /\ total' = total /\ ThreadsStart' = ThreadsStart
          /\ pc[c] = "leased" /\ Goto(c, "idle")
          /\ held' = [held EXCEPT ![c] = NoWorker]
      BY <1>4 DEF ReleaseReusable, Reserved, ThreadsStart, counters, prewarm, At
    <2>2. held[c] # NoWorker /\ held[c] \notin available
      BY <2>1 DEF OwnersInPlace, ThreadsInPlace, SoleOwner
    <2>3. Cardinality(Holders') = Cardinality(Holders) - 1
      BY <2>1, <2>2, HoldersDrop
    <2>4. Cardinality(available') = Cardinality(available) + 1
      BY <2>1, <2>2, CountsAreNaturals, FS_AddElement
    <2>5. Cardinality(Starters') = Cardinality(Starters)
      BY <1>1, <2>1, StartersStep
    <2>6. Occupied' = Occupied
      BY <1>1, <2>1, <2>3, <2>4, <2>5 DEF Occupied
    <2>7. QED
      BY <1>1, <2>1, <2>6, CountStep
  <1>5. ASSUME ReleaseDiscard(c)
        PROVE  Counted'
    <2>1. PICK place \in {"reserve", "idle"} : Goto(c, place)
      BY <1>5 DEF ReleaseDiscard
    <2>2. /\ available' = available /\ Reserved' = Reserved /\ total' = total - 1
          /\ ThreadsStart' = ThreadsStart
          /\ pc[c] = "leased" /\ held' = [held EXCEPT ![c] = NoWorker]
      BY <1>5 DEF ReleaseDiscard, Reserved, ThreadsStart, prewarm, At
    <2>3. held[c] # NoWorker /\ c \in Holders
      BY <2>2 DEF OwnersInPlace, ThreadsInPlace, Holders
    <2>4. Cardinality(Holders') = Cardinality(Holders) - 1
      BY <2>2, <2>3, HoldersDrop
    <2>5. Cardinality(Starters') = Cardinality(Starters)
      BY <1>1, <2>1, <2>2, StartersStep
    <2>6. Cardinality(Holders) # 0
      BY <2>3, CountsAreNaturals, FS_EmptySet
    <2>7. Occupied' = Occupied - 1 /\ Occupied' \in Nat
      BY <1>1, <2>2, <2>4, <2>5, <2>6 DEF Occupied
    <2>8. QED
      BY <1>1, <2>2, <2>7, CountStep
  <1>6. ASSUME NEW w \in Workers, TerminateVictim(c, w)
        PROVE  Counted'
    <2>1. /\ available' = available /\ Holders' = Holders /\ Starters' = Starters
          /\ Reserved' = Reserved /\ ThreadsStart' = ThreadsStart /\ total' = total
      BY <1>6 DEF TerminateVictim, Holders, Starters, Reserved, ThreadsStart,
                  counters, prewarm
    <2>2. Occupied' = Occupied
      BY <2>1 DEF Occupied
    <2>3. QED
      BY <1>1, <2>1, <2>2, CountStep
  <1>7. QED
    BY <1>2, <1>3, <1>4, <1>5, <1>6 DEF Start, Release, Terminate

\* warm_worker_pool: the reservation takes a slot; a thread that cannot be
\* started keeps it, together with that of the worker it lost.
LEMMA WarmCounts ==
  ASSUME PoolInvariant, NEW c \in Threads,
         WarmAtStartup(c) \/ WarmPool(c) \/ PrewarmThreadFails(c)
  PROVE  Counted'
  <1> USE DEF PoolInvariant
  <1>1. /\ total \in 0..Maximum /\ Occupied \in Nat /\ Occupied <= total
        /\ Reserved \in {0, 1}
        /\ Cardinality(available) \in Nat
        /\ Cardinality(Holders) \in Nat
        /\ Cardinality(Starters) \in Nat
    BY CountsAreNaturals DEF TypeOK, SlotsBounded
  <1>2. ASSUME WarmAtStartup(c) \/ ReserveRefused(c) \/ FetchCancelEvent(c)
                 \/ StartPrewarmThread(c)
        PROVE  Counted'
    <2>1. PICK place \in {"idle", "leased", "reserve", "spawn"} : Goto(c, place)
      BY <1>2 DEF WarmAtStartup, ReserveRefused, FetchCancelEvent, StartPrewarmThread,
                  WarmAbandoned, AfterWarm
    <2>2. /\ available' = available /\ Reserved' = Reserved /\ total' = total
          /\ Holders' = Holders /\ pc[c] # "starting"
          /\ ThreadsStart' => ThreadsStart
      BY <1>2 DEF WarmAtStartup, ReserveRefused, FetchCancelEvent, StartPrewarmThread,
                  WarmAbandoned, SpawnAllowed, Reserved, Holders, ThreadsStart, At,
                  counters, prewarm
    <2>3. Cardinality(Starters') = Cardinality(Starters)
      BY <1>1, <2>1, <2>2, StartersStep
    <2>4. Occupied' = Occupied
      BY <1>1, <2>2, <2>3 DEF Occupied
    <2>5. QED
      BY <1>1, <2>2, <2>4, CountStep
  <1>3. ASSUME ReservePrewarm(c)
        PROVE  Counted'
    <2>1. /\ available' = available /\ Holders' = Holders
          /\ total' = total + 1 /\ total < desired_warm
          /\ prewarm_generation = NoGeneration /\ prewarm_generation' = generation
          /\ ThreadsStart' = ThreadsStart
          /\ pc[c] = "reserve" /\ Goto(c, "event")
      BY <1>3 DEF ReservePrewarm, MayReserve, Holders, ThreadsStart, At
    <2>2. Reserved = 0 /\ Reserved' = 1
      BY <2>1 DEF Reserved, NoGeneration, TypeOK
    <2>3. Cardinality(Starters') = Cardinality(Starters)
      BY <1>1, <2>1, StartersStep
    <2>4. Occupied' = Occupied + 1
      BY <1>1, <2>1, <2>2, <2>3 DEF Occupied
    <2>5. total' <= Maximum
      BY <1>1, <2>1 DEF TypeOK
    <2>6. QED
      BY <1>1, <2>1, <2>4, <2>5, CountStep
  <1>4. ASSUME PrewarmThreadFails(c)
        PROVE  Counted'
    <2>1. /\ available' = available /\ Reserved' = Reserved /\ total' = total
          /\ ~ThreadsStart'
          /\ pc[c] = "spawn" /\ Goto(c, "idle")
          /\ held' = [held EXCEPT ![c] = NoWorker]
      BY <1>4 DEF PrewarmThreadFails, Reserved, ThreadsStart, counters, At
    <2>2. Cardinality(Starters') = Cardinality(Starters)
      BY <1>1, <2>1, StartersStep
    <2>3. Holders' \in SUBSET Holders
      BY <2>1 DEF Holders, TypeOK
    <2>4. Cardinality(Holders') <= Cardinality(Holders) /\ Cardinality(Holders') \in Nat
      BY <2>3, CountsAreNaturals, FS_Subset, FS_CardinalityType
    <2>5. Occupied' <= Occupied /\ Occupied' \in Nat
      BY <1>1, <2>1, <2>2, <2>4 DEF Occupied
    <2>6. QED
      BY <1>1, <2>1, <2>5 DEF Counted, SlotsBounded, SlotsAccounted
  <1>5. QED
    BY <1>2, <1>3, <1>4 DEF WarmPool

\* The prewarm thread turns the reservation into a pooled worker or frees it;
\* shutdown frees every pooled worker and the reservation.
LEMMA BackgroundCounts ==
  ASSUME PoolInvariant,
         \/ WarmThread
         \/ Shutdown
         \/ \E w \in Workers : ShutdownTerminates(w) \/ Dies(w)
         \/ UNCHANGED poolVars
  PROVE  Counted'
  <1> USE DEF PoolInvariant
  <1>1. /\ total \in 0..Maximum /\ Occupied \in Nat /\ Occupied <= total
        /\ Reserved \in {0, 1}
        /\ Cardinality(available) \in Nat
        /\ Cardinality(Holders) \in Nat
        /\ Cardinality(Starters) \in Nat
    BY CountsAreNaturals DEF TypeOK, SlotsBounded
  <1>2. ASSUME WarmCheck \/ (\E w \in Workers : WarmStartSucceeds(w)) \/ WarmStartFails
                 \/ WarmTerminate \/ WarmClear
                 \/ (\E w \in Workers : ShutdownTerminates(w) \/ Dies(w))
                 \/ UNCHANGED poolVars
        PROVE  Counted'
    <2>1. /\ available' = available /\ Holders' = Holders /\ Starters' = Starters
          /\ Reserved' = Reserved /\ total' = total
      BY <1>2 DEF WarmCheck, WarmStartSucceeds, WarmStartFails, WarmTerminate, WarmClear,
                  ShutdownTerminates, Dies, poolVars, Holders, Starters, Reserved,
                  counters, prewarm, threads
    <2>2. ThreadsStart' => ThreadsStart
      BY <1>2 DEF WarmCheck, WarmStartSucceeds, WarmStartFails, WarmTerminate, WarmClear,
                  ShutdownTerminates, Dies, poolVars, ThreadsStart, prewarm,
                  OwnersInPlace, WarmerInPlace
    <2>3. Occupied' = Occupied
      BY <2>1 DEF Occupied
    <2>4. QED
      BY <1>1, <2>1, <2>2, <2>3, CountStep
  <1>3. ASSUME FinishPrewarm
        PROVE  Counted'
    <2>1. /\ Holders' = Holders /\ Starters' = Starters /\ ThreadsStart' = ThreadsStart
      BY <1>3 DEF FinishPrewarm, Holders, Starters, ThreadsStart, threads
    <2>2. warm_gen \in Nat
      BY <1>3 DEF FinishPrewarm, OwnersInPlace, WarmerInPlace
    <2>3. OwnsReservation => Reserved = 1 /\ Reserved' = 0
      BY <1>3, <2>2 DEF FinishPrewarm, OwnsReservation, Reserved, NoGeneration
    <2>4. ~OwnsReservation => Reserved' = Reserved
      BY <1>3 DEF FinishPrewarm, Reserved
    <2>5. CASE WarmedWorkerUsable
      <3>1. /\ available' = available \cup {warm_worker} /\ warm_worker \notin available
            /\ total' = total
        BY <1>3, <2>5 DEF FinishPrewarm, OwnersInPlace, SoleOwner
      <3>2. Cardinality(available') = Cardinality(available) + 1
        BY <3>1, CountsAreNaturals, FS_AddElement
      <3>3. Occupied' = Occupied
        BY <1>1, <2>1, <2>3, <2>5, <3>2 DEF Occupied, WarmedWorkerUsable
      <3>4. QED
        BY <1>1, <2>1, <3>1, <3>3, CountStep
    <2>6. CASE ~WarmedWorkerUsable
      <3>1. /\ available' = available
            /\ total' = IF OwnsReservation THEN total - 1 ELSE total
        BY <1>3, <2>6 DEF FinishPrewarm
      <3>2. /\ Occupied' \in Nat /\ total' - total = Occupied' - Occupied
            /\ total' \in Int /\ total' <= Maximum
        BY <1>1, <2>1, <2>3, <2>4, <3>1 DEF Occupied
      <3>3. QED
        BY <2>1, <3>2, CountStep
    <2>7. QED
      BY <2>5, <2>6
  <1>4. ASSUME Shutdown
        PROVE  Counted'
    <2>1. /\ available' = {} /\ Holders' = Holders /\ Starters' = Starters
          /\ ThreadsStart' = ThreadsStart /\ Reserved' = 0
          /\ total' = total - Cardinality(available) - Reserved
      BY <1>4 DEF Shutdown, Holders, Starters, ThreadsStart, Reserved, threads
    <2>2. Cardinality(available') = 0
      BY <2>1, FS_EmptySet
    <2>3. /\ Occupied' \in Nat /\ total' - total = Occupied' - Occupied
          /\ total' \in Int /\ total' <= Maximum
      BY <1>1, <2>1, <2>2 DEF Occupied
    <2>4. QED
      BY <2>1, <2>3, CountStep
  <1>5. QED
    BY <1>2, <1>3, <1>4 DEF WarmThread

----------------------------------------------------------------------------
(* The worker pool: the theorem.                                           *)

\* Every step keeps the types, given the count.
LEMMA PoolTypes ==
  ASSUME PoolInvariant, [Next]_poolVars, total' \in 0..Maximum
  PROVE  TypeOK'
  <1> USE DEF PoolInvariant, TypeOK, ThreadStates, WarmStates, Generations, NoGeneration,
              counters, prewarm, children, threads, warmer, At, Goto
  <1>1. ASSUME NEW c \in Threads, BeginAcquire(c) \/ AcquireCancelled(c)
                                 \/ AcquireWaits(c) \/ WarmAtStartup(c)
        PROVE  TypeOK'
    BY <1>1 DEF BeginAcquire, AcquireCancelled, AcquireWaits, AllUnfit, WarmAtStartup
  <1>2. ASSUME NEW c \in Threads, NEW w \in Workers, NEW unfit \in SUBSET available,
               AcquirePooled(c, w, unfit)
        PROVE  TypeOK'
    BY <1>2 DEF AcquirePooled
  <1>3. ASSUME NEW c \in Threads, AcquireSlot(c)
        PROVE  TypeOK'
    <2>1. RemainingTotal \in Int /\ RemainingTotal + 1 <= Maximum
      BY <1>3, CountsAreNaturals DEF AcquireSlot, RoomToStart, RemainingTotal
    <2>2. desired_warm' \in 1..Maximum
      BY <1>3, <2>1 DEF AcquireSlot
    <2>3. QED
      BY <1>3, <2>2 DEF AcquireSlot, AllUnfit
  <1>4. ASSUME NEW c \in Threads, Start(c) \/ Release(c) \/ Terminate(c)
        PROVE  TypeOK'
    <2>1. CASE Start(c)
      BY <2>1 DEF Start, StartSucceeds, StartFails
    <2>2. CASE Release(c)
      <3>1. held[c] \in Workers
        BY <2>2 DEF Release, ReleaseReusable, ReleaseDiscard, OwnersInPlace, ThreadsInPlace
      <3>2. QED
        BY <2>2, <3>1 DEF Release, ReleaseReusable, ReleaseDiscard
    <2>3. CASE Terminate(c)
      BY <2>3 DEF Terminate, TerminateVictim, Gone
    <2>4. QED
      BY <1>4, <2>1, <2>2, <2>3
  <1>5. ASSUME NEW c \in Threads, WarmPool(c) \/ PrewarmThreadFails(c)
        PROVE  TypeOK'
    <2>1. CASE ReservePrewarm(c) \/ ReserveRefused(c)
      BY <2>1 DEF ReservePrewarm, ReserveRefused, AfterWarm
    <2>2. CASE FetchCancelEvent(c)
      BY <2>2 DEF FetchCancelEvent, WarmAbandoned, AfterWarm
    <2>3. CASE StartPrewarmThread(c)
      BY <2>3 DEF StartPrewarmThread, WarmAbandoned, AfterWarm
    <2>4. CASE PrewarmThreadFails(c)
      BY <2>4 DEF PrewarmThreadFails
    <2>5. QED
      BY <1>5, <2>1, <2>2, <2>3, <2>4 DEF WarmPool
  <1>6. CASE WarmThread
    <2>1. CASE FinishPrewarm
      BY <2>1 DEF FinishPrewarm, WarmedWorkerUsable
    <2>2. CASE WarmTerminate
      BY <2>2 DEF WarmTerminate, Gone
    <2>3. QED
      BY <1>6, <2>1, <2>2 DEF WarmThread, WarmCheck, WarmStartSucceeds, WarmStartFails,
                              WarmClear
  <1>7. CASE Shutdown
    BY <1>7 DEF Shutdown
  <1>8. ASSUME NEW w \in Workers, ShutdownTerminates(w) \/ Dies(w)
        PROVE  TypeOK'
    BY <1>8 DEF ShutdownTerminates, Dies, Gone
  <1>9. CASE UNCHANGED poolVars
    BY <1>9 DEF poolVars
  <1>10. QED
    BY <1>1, <1>2, <1>3, <1>4, <1>5, <1>6, <1>7, <1>8, <1>9 DEF Next, Acquire

\* Every step of the pool preserves the inductive invariant.
LEMMA PoolStep ==
  ASSUME PoolInvariant, [Next]_poolVars
  PROVE  PoolInvariant'
  <1>1. Counted'
    BY AcquireCounts, ReleaseCounts, WarmCounts, BackgroundCounts DEF Next
  <1>2. TypeOK'
    BY <1>1, PoolTypes DEF Counted
  <1>3. OwnersInPlace'
    BY AcquireOwners, ReleaseOwners, WarmOwners, BackgroundOwners DEF Next, PoolInvariant
  <1>4. QED
    BY <1>1, <1>2, <1>3 DEF PoolInvariant, Counted

\* The inductive invariant holds in every reachable state of the pool.
THEOREM PoolAlwaysInPlace == Spec => []PoolInvariant
  BY PoolInitInvariant, PoolStep, PTL DEF Spec, Init

\* Whatever acquires, evictions, failed starts, prewarming, crashes and shutdowns
\* do meanwhile, the pool never owns more workers than its maximum, its slot
\* counter is exact while threads can be started, no worker has two owners, and
\* only workers of the current generation are pooled.
THEOREM PoolStaysConsistent == Spec => []PoolConsistent
  <1>1. PoolInvariant => PoolConsistent
    BY DEF PoolInvariant, PoolConsistent, TypeOK, OwnersInPlace
  <1>2. QED
    BY <1>1, PoolAlwaysInPlace, PTL

----------------------------------------------------------------------------
(* The exchange with one worker.                                           *)

\* A fresh worker is silent.
LEMMA ExchangeInitInvariant == ExchangeInit => ExchangeInvariant
  <1> SUFFICES ASSUME ExchangeInit PROVE ExchangeInvariant
    OBVIOUS
  <1>1. /\ <<>> \in Seq(Lines) /\ <<>> \in Seq(0..MaxRequests) /\ Len(<<>>) = 0
    BY EmptySeq
  <1>s. Signals
    BY Zenon DEF ExchangeInit, Signals
  <1>2. ExchangeTypeOK /\ PipesTyped
    BY <1>1, <1>s DEF ExchangeInit, ExchangeTypeOK, PipesTyped
  <1>3. AnswerBelongs /\ QuietWhenPooled
    BY DEF ExchangeInit, AnswerBelongs, QuietWhenPooled, NoAnswer, Replies
  <1>4. OnePermission /\ RequestInPlace /\ ReaderEnds /\ NothingBeforeSend /\ ~Busy
    BY <1>1 DEF ExchangeInit, OnePermission, Permissions, Busy, ReaderEnds,
       RequestInPlace, NothingBeforeSend
  <1>5. QED
    BY <1>2, <1>3, <1>4 DEF ExchangeInvariant, ExchangeConsistent

\* A response queue that holds the permission holds one line and nothing is read.
LEMMA ResponseIsAlone ==
  ASSUME ExchangeInvariant, responses # <<>>
  PROVE  /\ Len(responses) = 1 /\ read_requests = 0 /\ reader # "reading"
         /\ Head(responses) = responses[1] /\ Head(responses) \in Lines
         /\ Tail(responses) = <<>>
  <1>1. Len(responses) \in Nat \ {0} /\ read_requests \in 0..1 /\ Permissions <= 1
    BY EmptySeq DEF ExchangeInvariant, ExchangeConsistent, ExchangeTypeOK, PipesTyped,
       OnePermission
  <1>2. Len(responses) = 1 /\ read_requests = 0 /\ reader # "reading"
    <2> DEFINE n == Len(responses)
               reading == IF reader = "reading" THEN 1 ELSE 0
    <2>1. n \in Nat \ {0} /\ reading \in 0..1 /\ read_requests + reading + n <= 1
      BY <1>1 DEF Permissions
    <2> HIDE DEF n, reading
    <2>2. n = 1 /\ read_requests = 0 /\ reading = 0
      BY <1>1, <2>1
    <2>3. QED
      BY <2>2 DEF n, reading
  <1>3. /\ Head(responses) = responses[1] /\ Head(responses) \in Lines
        /\ Tail(responses) \in Seq(Lines) /\ Len(Tail(responses)) = 0
    BY <1>2, HeadTailProperties DEF ExchangeInvariant, PipesTyped
  <1>4. QED
    BY <1>2, <1>3, EmptySeq

\* The supervisor takes a line: the operation is told what was computed for it,
\* or the worker is discarded.
LEMMA ConcludePreserves ==
  ASSUME ExchangeInvariant, Busy, sup \in {"look", "check"}, responses # <<>>, Conclude(Head(responses))
  PROVE  ExchangeInvariant'
  <1> DEFINE line == Head(responses)
  <1>1. /\ Len(responses) = 1 /\ read_requests = 0 /\ reader # "reading"
        /\ line = responses[1] /\ line \in Lines
        /\ Tail(responses) = <<>> /\ 1 \in DOMAIN responses
    BY ResponseIsAlone DEF ExchangeInvariant, PipesTyped
  <1>2. /\ responses' = <<>> /\ read_requests' = 0 /\ reader' = reader
        /\ stdout' = stdout /\ request' = request /\ expired' = expired
        /\ cancelled' = cancelled /\ stamp' = stamp
        /\ stdin' \in {stdin, <<>>} /\ child' \in {child, "dead"}
        /\ sup' \in {"pooled", "discarded"}
    BY <1>1 DEF Conclude, Kill, childVars
  <1>3. sup' = "pooled" => line.kind \in {"ok", "error"} /\ UNCHANGED childVars
    BY DEF Conclude, KeepsWorker
  <1>4. line.kind \in Replies => line.of = request /\ stdout = <<>> /\ Answered
    BY <1>1 DEF ExchangeInvariant, ReplyIsLast
  <1>5. AnswerBelongs'
    BY <1>4 DEF AnswerBelongs, Conclude, Tell, Replies, InBudget, EndOfFile, Line
  <1>6. QuietWhenPooled'
    <2> SUFFICES ASSUME sup' = "pooled" PROVE QuietWhenPooled'
      BY DEF QuietWhenPooled
    <2>1. stdout = <<>> /\ Answered /\ UNCHANGED childVars
      BY <1>3, <1>4 DEF Replies
    <2>2. reader # "gone"
      BY <1>3 DEF ExchangeInvariant, ReaderEnds, Busy
    <2>3. reader = "waiting"
      BY <1>1, <2>2 DEF ExchangeInvariant, ExchangeConsistent, ExchangeTypeOK
    <2>4. QED
      BY <1>2, <2>1, <2>3 DEF QuietWhenPooled, Answered, childVars
  <1>7. ExchangeTypeOK' /\ PipesTyped'
    <2>1. /\ <<>> \in Seq(Lines) /\ <<>> \in Seq(0..MaxRequests) /\ Len(<<>>) = 0
      BY EmptySeq
    <2>2. Len(stdin') <= 1 /\ Len(responses') <= 1
      BY <1>2, <2>1 DEF ExchangeInvariant, ExchangeConsistent, ExchangeTypeOK
    <2>3. Signals'
      BY <1>2, Zenon DEF ExchangeInvariant, ExchangeConsistent, ExchangeTypeOK, Signals
    <2>4. PipesTyped'
      BY <1>2, <2>1 DEF ExchangeInvariant, PipesTyped
    <2>5. ExchangeTypeOK'
      BY <1>2, <2>2, <2>3 DEF ExchangeInvariant, ExchangeConsistent, ExchangeTypeOK
    <2>6. QED
      BY <2>4, <2>5
  <1>8. OnePermission' /\ ~Busy'
    BY <1>1, <1>2, EmptySeq DEF OnePermission, Permissions, Busy
  <1>9. ReaderEnds' /\ NothingBeforeSend' /\ RequestInPlace'
    <2>1. \/ UNCHANGED <<child, stdin>>
          \/ child' = "dead" /\ stdin' = <<>>
      BY DEF Conclude, Kill, childVars
    <2>2. QED
      BY <1>2, <1>6, <2>1 DEF ExchangeInvariant, ReaderEnds, NothingBeforeSend,
                              RequestInPlace, QuietWhenPooled
  <1>10. QED
    BY <1>5, <1>6, <1>7, <1>8, <1>9 DEF ExchangeInvariant, ExchangeConsistent

\* An operation that is cut short discards its worker.
LEMMA AbortPreserves ==
  ASSUME ExchangeInvariant, Busy, NEW code, code \notin Replies, Abort(code)
  PROVE  ExchangeInvariant'
  <1>1. /\ sup' = "discarded" /\ child' = "dead" /\ stdin' = <<>>
        /\ UNCHANGED <<stamp, request, expired, cancelled, read_requests, reader,
                      responses, stdout>>
    BY DEF Abort, Kill, readerVars
  <1>2. Signals'
    BY <1>1, Zenon DEF ExchangeInvariant, ExchangeConsistent, ExchangeTypeOK, Signals
  <1>3. ExchangeTypeOK'
    BY <1>1, <1>2, EmptySeq DEF ExchangeInvariant, ExchangeConsistent, ExchangeTypeOK
  <1>4. PipesTyped'
    BY <1>1, EmptySeq DEF ExchangeInvariant, PipesTyped
  <1>5. OnePermission'
    BY <1>1 DEF ExchangeInvariant, OnePermission, Permissions, Busy
  <1>6. /\ AnswerBelongs' /\ QuietWhenPooled' /\ ReaderEnds' /\ RequestInPlace'
        /\ ~Busy' /\ NothingBeforeSend'
    BY <1>1 DEF AnswerBelongs, QuietWhenPooled, ReaderEnds, RequestInPlace, Busy,
                NothingBeforeSend, Abort, Tell
  <1>7. QED
    BY <1>3, <1>4, <1>5, <1>6 DEF ExchangeInvariant, ExchangeConsistent

\* Steps of the clock, the caller and the supervisor that touch no pipe.
LEMMA IdleStep ==
  ASSUME ExchangeInvariant,
         UNCHANGED <<request, answer, childVars, readerVars, stdout>>, Signals',
         \/ sup' = sup
         \/ sup \in {"look", "check"} /\ sup' \in {"look", "check"}
  PROVE  ExchangeInvariant'
  <1> USE DEF childVars, readerVars
  <1>1. (Busy' <=> Busy) /\ sup' \in {"pooled", "send", "blocked", "look", "check", "discarded"}
    BY DEF Busy, ExchangeInvariant, ExchangeConsistent, ExchangeTypeOK
  <1>2. ExchangeTypeOK' /\ PipesTyped'
    BY <1>1 DEF ExchangeInvariant, ExchangeConsistent, ExchangeTypeOK, PipesTyped
  <1>3. OnePermission' /\ (Busy' => ReplyIsLast')
    BY <1>1 DEF ExchangeInvariant, OnePermission, Permissions, ReplyIsLast, Answered
  <1>4. /\ AnswerBelongs' /\ QuietWhenPooled' /\ ReaderEnds' /\ RequestInPlace'
        /\ NothingBeforeSend'
    BY DEF ExchangeInvariant, ExchangeConsistent, AnswerBelongs, QuietWhenPooled,
           ReaderEnds, RequestInPlace, NothingBeforeSend, Answered
  <1>5. QED
    BY <1>2, <1>3, <1>4 DEF ExchangeInvariant, ExchangeConsistent

\* A new operation leases a silent worker and permits one line to be read.
LEMMA LeaseStep ==
  ASSUME ExchangeInvariant, Lease
  PROVE  ExchangeInvariant'
  <1>1. /\ stdin = <<>> /\ stdout = <<>> /\ responses = <<>> /\ read_requests = 0
        /\ reader = "waiting" /\ child \in {"idle", "dead"}
    BY DEF ExchangeInvariant, ExchangeConsistent, QuietWhenPooled, Lease
  <1>2. /\ sup' = "send" /\ request' = request + 1 /\ request' \in 0..MaxRequests
        /\ read_requests' = 1 /\ expired' = FALSE /\ cancelled' = FALSE
        /\ UNCHANGED <<answer, child, stamp, stdin, reader, responses, stdout>>
    BY <1>1 DEF Lease, childVars, ExchangeInvariant, ExchangeConsistent, ExchangeTypeOK
  <1>3. Signals'
    BY <1>2, Zenon DEF Signals
  <1>4. Len(<<>>) = 0
    BY EmptySeq
  <1>5. ExchangeTypeOK' /\ PipesTyped'
    BY <1>1, <1>2, <1>3, <1>4
       DEF ExchangeInvariant, ExchangeConsistent, ExchangeTypeOK, PipesTyped
  <1>6. OnePermission'
    BY <1>1, <1>2, <1>4 DEF OnePermission, Permissions
  <1>7. /\ AnswerBelongs' /\ QuietWhenPooled' /\ ReaderEnds' /\ RequestInPlace'
        /\ ReplyIsLast' /\ NothingBeforeSend'
    BY <1>1, <1>2 DEF ExchangeInvariant, ExchangeConsistent, AnswerBelongs, QuietWhenPooled,
       ReaderEnds, RequestInPlace, ReplyIsLast, NothingBeforeSend, Answered
  <1>8. QED
    BY <1>5, <1>6, <1>7 DEF ExchangeInvariant, ExchangeConsistent

\* The request is written, at once or when the child has read it, or the write
\* waits for the child, or the pipe of a dead child breaks.
LEMMA SendStep ==
  ASSUME ExchangeInvariant, Send \/ PipeBreaks \/ Drain
  PROVE  ExchangeInvariant'
  <1>1. /\ stdin = <<>> /\ stdout = <<>> /\ child \in {"idle", "dead"} /\ Busy
        /\ \A i \in DOMAIN responses : responses[i].kind \notin Replies
    BY DEF ExchangeInvariant, NothingBeforeSend, Answered, Send, PipeBreaks, Drain, Busy
  <1>2. /\ UNCHANGED <<request, expired, cancelled, child, stamp, read_requests, reader,
                      responses, stdout>>
        /\ sup' \in {"look", "blocked", "discarded"}
        /\ sup' = "blocked" => stdin' = stdin
    BY DEF Send, PipeBreaks, Drain, InputUnavailable, readerVars
  <1>3. stdin' \in {<<>>, <<request>>} /\ (child = "dead" => stdin' = <<>>)
    BY <1>1 DEF Send, PipeBreaks, Drain, InputUnavailable
  <1>4. Signals'
    BY <1>2, Zenon DEF ExchangeInvariant, ExchangeConsistent, ExchangeTypeOK, Signals
  <1>5. stdin' \in Seq(0..MaxRequests) /\ Len(stdin') <= 1
    <2>1. request \in 0..MaxRequests
      BY DEF ExchangeInvariant, ExchangeConsistent, ExchangeTypeOK
    <2>2. <<request>> \in Seq(0..MaxRequests) /\ Len(<<request>>) = 1
      BY <2>1
    <2>3. <<>> \in Seq(0..MaxRequests) /\ Len(<<>>) = 0
      BY EmptySeq
    <2> DEFINE n == Len(stdin')
    <2>4. stdin' \in Seq(0..MaxRequests) /\ n \in {0, 1}
      BY <1>3, <2>2, <2>3, Zenon
    <2> HIDE DEF n
    <2>5. n <= 1
      BY <2>4
    <2>6. QED
      BY <2>4, <2>5 DEF n
  <1>6. ExchangeTypeOK' /\ PipesTyped'
    BY <1>2, <1>4, <1>5
       DEF ExchangeInvariant, ExchangeConsistent, ExchangeTypeOK, PipesTyped
  <1>7. OnePermission'
    BY <1>1, <1>2 DEF ExchangeInvariant, OnePermission, Permissions
  <1>8. AnswerBelongs'
    BY DEF ExchangeInvariant, ExchangeConsistent, AnswerBelongs, Send, PipeBreaks, Drain,
       InputUnavailable, Tell, Replies
  <1>9. QuietWhenPooled' /\ RequestInPlace' /\ ReplyIsLast'
    BY <1>1, <1>2, <1>3 DEF QuietWhenPooled, RequestInPlace, ReplyIsLast
  <1>10. NothingBeforeSend'
    BY <1>1, <1>2 DEF NothingBeforeSend, Answered
  <1>11. ReaderEnds'
    BY <1>1, <1>2 DEF ExchangeInvariant, ReaderEnds, Busy
  <1>12. QED
    BY <1>6, <1>7, <1>8, <1>9, <1>10, <1>11 DEF ExchangeInvariant, ExchangeConsistent

\* One pass of the supervisor's loop.
LEMMA SuperviseStep ==
  ASSUME ExchangeInvariant, Supervise
  PROVE  ExchangeInvariant'
  <1>1. CASE Send \/ PipeBreaks
    BY <1>1, SendStep
  <1>2. ASSUME sup \in {"look", "check"}, responses # <<>>, Conclude(Head(responses))
        PROVE  ExchangeInvariant'
    BY <1>2, ConcludePreserves DEF Busy
  <1>3. ASSUME sup \in {"look", "check"}, NEW code \in {"E_CANCELLED", "E_TIMEOUT", "E_MEMORY"},
               Abort(code)
        PROVE  ExchangeInvariant'
    BY <1>3, AbortPreserves DEF Busy, Replies
  <1>4. ASSUME sup \in {"look", "check"}, sup' \in {"look", "check"},
               UNCHANGED <<request, expired, cancelled, answer, childVars, readerVars, stdout>>
        PROVE  ExchangeInvariant'
    <2>1. Signals'
      BY <1>4, Zenon DEF ExchangeInvariant, ExchangeConsistent, ExchangeTypeOK, Signals
    <2>2. QED
      BY <1>4, <2>1, IdleStep
  <1>5. QED
    BY <1>1, <1>2, <1>3, <1>4 DEF Supervise, Look, Check

\* The child works on the request, is done with it, or crashes: no line moves.
LEMMA ChildWorks ==
  ASSUME ExchangeInvariant, ReadRequest \/ StampResponse \/ Crash
  PROVE  ExchangeInvariant'
  <1>1. /\ UNCHANGED <<sup, request, expired, cancelled, answer, stdout,
                      read_requests, reader, responses>>
        /\ stamp' \in {"none", "in_time", "late"}
    BY DEF ReadRequest, StampResponse, Crash, supVars, readerVars, ExchangeInvariant,
           ExchangeConsistent, ExchangeTypeOK
  <1>2. \/ child' \in {"computing", "writing"} /\ stdin # <<>> /\ stdin' = stdin
        \/ child' = "dead" /\ stdin' = <<>>
    BY DEF ReadRequest, StampResponse, Crash, ExchangeInvariant, RequestInPlace
  <1>3. Signals'
    BY <1>1, Zenon DEF ExchangeInvariant, ExchangeConsistent, ExchangeTypeOK, Signals
  <1>4. <<>> \in Seq(0..MaxRequests) /\ Len(<<>>) = 0
    BY EmptySeq
  <1>5. ExchangeTypeOK'
    BY <1>1, <1>2, <1>3, <1>4 DEF ExchangeInvariant, ExchangeConsistent, ExchangeTypeOK
  <1>6. PipesTyped'
    BY <1>1, <1>2, <1>4 DEF ExchangeInvariant, PipesTyped
  <1>7. OnePermission'
    BY <1>1 DEF ExchangeInvariant, OnePermission, Permissions, Busy
  <1>8. AnswerBelongs' /\ ReaderEnds' /\ RequestInPlace'
    BY <1>1, <1>2 DEF ExchangeInvariant, ExchangeConsistent, AnswerBelongs, ReaderEnds,
       RequestInPlace
  <1>9. QuietWhenPooled' /\ NothingBeforeSend'
    BY <1>1, <1>2 DEF ExchangeInvariant, ExchangeConsistent, QuietWhenPooled,
       NothingBeforeSend, Answered
  <1>10. Busy' => ReplyIsLast'
    BY <1>1, <1>2 DEF ExchangeInvariant, ReplyIsLast, Answered, Busy
  <1>11. QED
    BY <1>5, <1>6, <1>7, <1>8, <1>9, <1>10 DEF ExchangeInvariant, ExchangeConsistent

\* The child writes a line: a stray while it computes, then one reply.
LEMMA ChildWrites ==
  ASSUME ExchangeInvariant, NEW line \in Lines, stdout' = Append(stdout, line),
         UNCHANGED <<supVars, readerVars>>, child' \in {"idle", "computing"},
         child \in {"computing", "writing"},
         stamp' \in {"none", "in_time", "late"},
         \/ line.kind \notin Replies /\ UNCHANGED <<child, stdin>>
         \/ line.of = request /\ stdin' = <<>> /\ child' = "idle"
  PROVE  ExchangeInvariant'
  <1> USE DEF supVars, readerVars
  <1>1. stdin = <<request>> /\ ~Answered /\ sup \notin {"pooled", "send", "blocked"}
    BY DEF ExchangeInvariant, ExchangeConsistent, QuietWhenPooled, NothingBeforeSend,
           RequestInPlace, Answered
  <1>2. /\ stdout' \in Seq(Lines) /\ Len(stdout') = Len(stdout) + 1
        /\ \A i \in 1..Len(stdout) : stdout'[i] = stdout[i]
        /\ stdout'[Len(stdout) + 1] = line
        /\ DOMAIN stdout = 1..Len(stdout) /\ DOMAIN stdout' = 1..(Len(stdout) + 1)
        /\ Len(stdout) \in Nat
    BY AppendProperties DEF ExchangeInvariant, PipesTyped
  <1>3. Signals'
    BY Zenon DEF ExchangeInvariant, ExchangeConsistent, ExchangeTypeOK, Signals
  <1>4. <<>> \in Seq(0..MaxRequests) /\ Len(<<>>) = 0
    BY EmptySeq
  <1>5. ExchangeTypeOK'
    BY <1>3, <1>4 DEF ExchangeInvariant, ExchangeConsistent, ExchangeTypeOK
  <1>6. PipesTyped'
    BY <1>2, <1>4 DEF ExchangeInvariant, PipesTyped
  <1>7. OnePermission'
    BY DEF ExchangeInvariant, OnePermission, Permissions, Busy
  <1>8. /\ AnswerBelongs' /\ ReaderEnds' /\ RequestInPlace' /\ QuietWhenPooled'
        /\ NothingBeforeSend'
    BY <1>1 DEF ExchangeInvariant, ExchangeConsistent, AnswerBelongs, ReaderEnds,
       RequestInPlace, QuietWhenPooled, NothingBeforeSend
  <1>9. ASSUME Busy'
        PROVE  ReplyIsLast'
    <2>1. Busy /\ ReplyIsLast
      BY <1>9 DEF Busy, ExchangeInvariant
    <2>2. \A i \in DOMAIN responses : responses[i].kind \notin Replies
      BY <1>1, <2>1 DEF ReplyIsLast
    <2>3. \A i \in DOMAIN stdout : stdout[i].kind \notin Replies
      BY <1>1, <2>1 DEF ReplyIsLast
    <2>4. ASSUME NEW i \in DOMAIN stdout', stdout'[i].kind \in Replies
          PROVE  i = Len(stdout') /\ stdout'[i].of = request' /\ Answered'
      <3>1. i \notin 1..Len(stdout)
        BY <1>2, <2>3, <2>4
      <3>2. i = Len(stdout) + 1
        BY <1>2, <3>1
      <3>3. QED
        BY <1>2, <2>4, <3>2 DEF Answered
    <2>5. QED
      BY <2>2, <2>4 DEF ReplyIsLast
  <1>10. QED
    BY <1>5, <1>6, <1>7, <1>8, <1>9 DEF ExchangeInvariant, ExchangeConsistent

\* The reader takes a permission.
LEMMA ReaderWakesStep ==
  ASSUME ExchangeInvariant, ReaderWakes
  PROVE  ExchangeInvariant'
  <1>1. /\ UNCHANGED <<sup, request, expired, cancelled, answer, child, stamp, stdin,
                      responses, stdout>>
        /\ read_requests = 1 /\ read_requests' = 0
        /\ reader = "waiting" /\ reader' = "reading"
    BY DEF ReaderWakes, supVars, childVars, ExchangeInvariant, ExchangeConsistent,
           ExchangeTypeOK
  <1>2. Signals'
    BY <1>1, Zenon DEF ExchangeInvariant, ExchangeConsistent, ExchangeTypeOK, Signals
  <1>3. ExchangeTypeOK' /\ PipesTyped'
    BY <1>1, <1>2 DEF ExchangeInvariant, ExchangeConsistent, ExchangeTypeOK, PipesTyped
  <1>4. OnePermission'
    <2>1. Permissions' = Permissions
      BY <1>1 DEF Permissions
    <2>2. QED
      BY <1>1, <2>1 DEF ExchangeInvariant, OnePermission, Busy
  <1>5. sup # "pooled"
    BY <1>1 DEF ExchangeInvariant, ExchangeConsistent, QuietWhenPooled
  <1>6. /\ AnswerBelongs' /\ ReaderEnds' /\ RequestInPlace' /\ QuietWhenPooled'
        /\ NothingBeforeSend' /\ (Busy' => ReplyIsLast')
    BY <1>1, <1>5 DEF ExchangeInvariant, ExchangeConsistent, AnswerBelongs, ReaderEnds,
       RequestInPlace, QuietWhenPooled, NothingBeforeSend, ReplyIsLast, Answered, Busy
  <1>7. QED
    BY <1>3, <1>4, <1>6 DEF ExchangeInvariant, ExchangeConsistent

\* A reader at work holds the permission: no response is queued.
LEMMA NothingWhileReading ==
  ASSUME ExchangeInvariant, reader = "reading"
  PROVE  responses = <<>> /\ read_requests = 0 /\ sup # "pooled"
  <1>1. responses = <<>>
    BY ResponseIsAlone
  <1>2. Len(<<>>) = 0
    BY EmptySeq
  <1>3. read_requests + 1 + 0 <= 1 /\ read_requests \in 0..1
    BY <1>1, <1>2 DEF ExchangeInvariant, ExchangeConsistent, ExchangeTypeOK,
       OnePermission, Permissions
  <1>4. QED
    BY <1>1, <1>3 DEF ExchangeInvariant, ExchangeConsistent, QuietWhenPooled

\* The reader hands a line over and keeps one only for itself.
LEMMA ReaderHandsOver ==
  ASSUME ExchangeInvariant, reader = "reading", NEW line \in Lines,
         responses' = Append(responses, line), reader' = ReaderAfter(line),
         stdout' \in Seq(Lines),
         UNCHANGED <<read_requests, supVars, childVars>>,
         sup \in {"send", "blocked"} => stdout' = <<>> /\ line.kind \notin Replies,
         Busy => /\ line.kind \in Replies => line.of = request /\ stdout' = <<>> /\ Answered
                 /\ \A i \in DOMAIN stdout' : stdout'[i].kind \in Replies =>
                       i = Len(stdout') /\ stdout'[i].of = request /\ Answered
  PROVE  ExchangeInvariant'
  <1> USE DEF supVars, childVars
  <1>1. responses = <<>> /\ read_requests = 0 /\ sup # "pooled"
    BY NothingWhileReading
  <1>2. responses' = <<line>>
    BY <1>1
  <1>3. /\ responses' \in Seq(Lines) /\ DOMAIN responses' = {1} /\ responses'[1] = line
        /\ Head(responses') = line /\ responses' # <<>> /\ Len(responses') = 1
    BY <1>2
  <1>4. Signals'
    BY Zenon DEF ExchangeInvariant, ExchangeConsistent, ExchangeTypeOK, Signals
  <1>5. reader' \in {"waiting", "gone"}
    BY DEF ReaderAfter
  <1>6. ExchangeTypeOK' /\ PipesTyped'
    BY <1>3, <1>4, <1>5 DEF ExchangeInvariant, ExchangeConsistent, ExchangeTypeOK, PipesTyped
  <1>7. OnePermission'
    <2>1. Permissions' = 1
      BY <1>1, <1>3, <1>5 DEF Permissions
    <2>2. QED
      BY <2>1 DEF OnePermission
  <1>8. AnswerBelongs' /\ RequestInPlace' /\ QuietWhenPooled'
    BY <1>1 DEF ExchangeInvariant, ExchangeConsistent, AnswerBelongs, RequestInPlace,
       QuietWhenPooled
  <1>9. ReaderEnds'
    BY <1>3 DEF ReaderEnds, ReaderAfter
  <1>10. NothingBeforeSend'
    BY <1>3 DEF ExchangeInvariant, NothingBeforeSend, Answered
  <1>11. Busy' => ReplyIsLast'
    BY <1>3 DEF Busy, ReplyIsLast, Answered
  <1>12. QED
    BY <1>6, <1>7, <1>8, <1>9, <1>10, <1>11 DEF ExchangeInvariant, ExchangeConsistent

\* The reader reads the next line, or the end of file of a dead child.
LEMMA ReaderReadsStep ==
  ASSUME ExchangeInvariant, ReaderReads
  PROVE  ExchangeInvariant'
  <1>1. /\ reader = "reading" /\ UNCHANGED <<read_requests, supVars, childVars>>
        /\ stdout \in Seq(Lines)
    BY DEF ReaderReads, ExchangeInvariant, PipesTyped
  <1>2. ASSUME stdout # <<>>, responses' = Append(responses, Head(stdout)),
               reader' = ReaderAfter(Head(stdout)), stdout' = Tail(stdout)
        PROVE  ExchangeInvariant'
    <2> DEFINE n == Len(stdout)
               m == Len(stdout')
    <2>1. /\ n \in Nat \ {0} /\ DOMAIN stdout = 1..n
          /\ Head(stdout) = stdout[1] /\ Head(stdout) \in Lines
          /\ stdout' \in Seq(Lines) /\ m = n - 1
          /\ DOMAIN stdout' = 1..(n - 1)
          /\ \A i \in 1..(n - 1) : stdout'[i] = stdout[i + 1]
      BY <1>1, <1>2, EmptySeq, HeadTailProperties, LenProperties
    <2>2. sup \notin {"send", "blocked"}
      BY <1>2 DEF ExchangeInvariant, NothingBeforeSend
    <2>3. ASSUME Busy, Head(stdout).kind \in Replies
          PROVE  Head(stdout).of = request /\ stdout' = <<>> /\ Answered
      <3>1. 1 = n /\ stdout[1].of = request /\ Answered
        BY <2>1, <2>3 DEF ExchangeInvariant, ReplyIsLast
      <3> HIDE DEF m, n
      <3>2. m = 0
        BY <2>1, <3>1
      <3>3. QED
        BY <2>1, <3>1, <3>2, EmptySeq DEF m
    <2>4. ASSUME Busy, NEW i \in DOMAIN stdout', stdout'[i].kind \in Replies
          PROVE  i = Len(stdout') /\ stdout'[i].of = request /\ Answered
      <3>1. i \in 1..(n - 1) /\ i + 1 \in 1..n /\ stdout'[i] = stdout[i + 1]
        BY <2>1
      <3>2. i + 1 = n /\ stdout[i + 1].of = request /\ Answered
        BY <2>1, <2>4, <3>1 DEF ExchangeInvariant, ReplyIsLast
      <3> HIDE DEF m, n
      <3>3. i = m
        BY <2>1, <3>1, <3>2
      <3>4. QED
        BY <3>1, <3>2, <3>3 DEF m
    <2>5. QED
      BY <1>1, <1>2, <2>1, <2>2, <2>3, <2>4, ReaderHandsOver
  <1>3. ASSUME stdout = <<>>, responses' = Append(responses, EndOfFile),
               reader' = ReaderAfter(EndOfFile), stdout' = stdout
        PROVE  ExchangeInvariant'
    <2>1. EndOfFile \in Lines /\ EndOfFile.kind \notin Replies
      BY DEF EndOfFile, Line, Lines, Replies
    <2>2. DOMAIN stdout' = {}
      BY <1>3
    <2>3. QED
      BY <1>1, <1>3, <2>1, <2>2, ReaderHandsOver
  <1>4. QED
    BY <1>2, <1>3 DEF ReaderReads

\* Every step of the exchange preserves the inductive invariant.
LEMMA ExchangeStep ==
  ASSUME ExchangeInvariant, [ExchangeNext]_exchangeVars
  PROVE  ExchangeInvariant'
  <1>1. CASE Lease
    BY <1>1, LeaseStep
  <1>2. CASE Supervise
    BY <1>2, SuperviseStep
  <1>3. CASE ReadRequest \/ Drain \/ StampResponse \/ Crash
    BY <1>3, ChildWorks, SendStep
  <1>4. ASSUME NEW kind \in Strays, WriteStray(kind)
        PROVE  ExchangeInvariant'
    <2>1. Line(0, kind, "none") \in Lines /\ Line(0, kind, "none").kind \notin Replies
      BY DEF Line, Lines, Strays, Replies
    <2>2. QED
      BY <1>4, <2>1, ChildWrites DEF WriteStray, childVars, ExchangeInvariant,
         ExchangeConsistent, ExchangeTypeOK
  <1>5. ASSUME NEW kind \in Replies, WriteResponse(kind)
        PROVE  ExchangeInvariant'
    <2>1. stdin = <<request>> /\ request \in Nat /\ stamp \in {"none", "in_time", "late"}
      BY <1>5 DEF WriteResponse, ExchangeInvariant, RequestInPlace, ExchangeConsistent,
                  ExchangeTypeOK
    <2>2. Head(stdin) = request /\ Tail(stdin) = <<>>
      BY <2>1
    <2>3. Line(request, kind, stamp) \in Lines /\ Line(request, kind, stamp).of = request
      BY <2>1 DEF Line, Lines
    <2>4. QED
      BY <1>5, <2>2, <2>3, ChildWrites DEF WriteResponse
  <1>6. CASE ReaderWakes \/ ReaderReads
    BY <1>6, ReaderWakesStep, ReaderReadsStep
  <1>7. CASE DeadlinePasses \/ CallerCancels \/ UNCHANGED exchangeVars
    <2>1. Signals'
      BY <1>7, Zenon DEF DeadlinePasses, CallerCancels, exchangeVars, supVars,
         ExchangeInvariant, ExchangeConsistent, ExchangeTypeOK, Signals
    <2>2. QED
      BY <1>7, <2>1, IdleStep DEF DeadlinePasses, CallerCancels, exchangeVars, supVars
  <1>8. QED
    BY <1>1, <1>2, <1>3, <1>4, <1>5, <1>6, <1>7 DEF ExchangeNext, Child, Reader

\* The inductive invariant holds in every reachable state of the exchange.
THEOREM ExchangeAlwaysInPlace == ExchangeSpec => []ExchangeInvariant
  BY ExchangeInitInvariant, ExchangeStep, PTL DEF ExchangeSpec

\* However the supervisor, the reader thread, the child and the clock interleave,
\* an operation is told only what was computed for it in time, and a worker that
\* goes back to the pool is silent.
THEOREM NoCrosstalk == ExchangeSpec => []ExchangeConsistent
  BY ExchangeAlwaysInPlace, PTL DEF ExchangeInvariant
=============================================================================
