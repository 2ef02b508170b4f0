--------------------------- MODULE ServiceProofs ---------------------------
(***************************************************************************)
(* Proofs about the currency rates, for any finite set of threads, any     *)
(* intervals and any bounds, with a cache file that may fail or not, and   *)
(* about batches, for any items, sizes and limits.                         *)
(***************************************************************************)
EXTENDS Batch, CurrencyRates, FiniteSetTheorems, NaturalsInduction,
        WellFoundedInduction, TLAPS

USE RatesAssumption, BatchAssumption

----------------------------------------------------------------------------
(* Types.                                                                  *)

\* The constructors build what their names say.
LEMMA Constructed ==
    /\ NoSnapshot \in Snapshots
    /\ Unavailable \in RateResults
    /\ NoCall \in Calls
    /\ \A x, y, z \in Times : Snapshot(x, y, z) \in Snapshots
    /\ \A s \in Snapshots, f, g, h \in BOOLEAN : Result(s, f, g, h) \in RateResults
    /\ \A now, seen \in Nat, force \in BOOLEAN : NewCall(now, force, seen) \in Calls
  BY DEF NoSnapshot, Unavailable, NoCall, Snapshot, Snapshots, Times, Never, Result,
         RateResults, NewCall, Calls

\* A conversion that leaves forgets everything but its answer.
LEMMA LeaveTyped ==
    ASSUME RatesTyped, NEW c \in Threads, NEW r \in RateResults, Leave(c, r)
    PROVE  /\ pc' \in [Threads -> Places]
           /\ result' \in [Threads -> RateResults]
           /\ call' \in [Threads -> Calls]
           /\ cached' \in [Threads -> Snapshots]
           /\ fresh' \in [Threads -> Snapshots]
           /\ succeeded' \in [Threads -> BOOLEAN]
           /\ call' = [call EXCEPT ![c] = NoCall]
           /\ pc' = [pc EXCEPT ![c] = "idle"]
           /\ result' = [result EXCEPT ![c] = r]
  BY Constructed DEF Leave, Goto, RatesTyped, Places

\* Conversions begin, read, wake up, give up waiting, and time passes: nobody
\* becomes or stops being the leader.
LEMMA QuietTyped ==
    ASSUME RatesTyped,
           \/ \E c \in Threads : \/ \E force \in BOOLEAN : Begin(c, force)
                                 \/ Load(c) \/ Awake(c) \/ WaitExpires(c)
           \/ Tick
           \/ UNCHANGED ratesVars
    PROVE  RatesTyped'
<1>1. ASSUME NEW c \in Threads, NEW force \in BOOLEAN, Begin(c, force) PROVE RatesTyped'
  <2>1. NewCall(clock, force, successes) \in Calls /\ Unavailable \in RateResults
    BY Constructed DEF RatesTyped
  <2> QED
    BY <1>1, <2>1 DEF RatesTyped, Begin, Goto, Places, serviceVars
<1>2. ASSUME NEW c \in Threads, Load(c) PROVE RatesTyped'
  <2>1. PICK found \in {cache, NoSnapshot} : cached' = [cached EXCEPT ![c] = found]
    BY <1>2 DEF Load
  <2> QED
    BY <1>2, <2>1, Constructed DEF RatesTyped, Load, Goto, Places, serviceVars
<1>3. ASSUME NEW c \in Threads, Awake(c) PROVE RatesTyped'
  BY <1>3 DEF RatesTyped, Awake, Goto, Places, serviceVars
<1>4. ASSUME NEW c \in Threads, WaitExpires(c) PROVE RatesTyped'
  BY <1>4 DEF RatesTyped, WaitExpires, Calls, serviceVars
<1>5. CASE Tick
  BY <1>5 DEF RatesTyped, Tick, serviceVars, callVars
<1>6. CASE UNCHANGED ratesVars
  BY <1>6 DEF RatesTyped, ratesVars, serviceVars, callVars
<1> QED
  BY <1>1, <1>2, <1>3, <1>4, <1>5, <1>6

\* A pass under the lock ends the conversion, makes it wait, or makes it the leader.
LEMMA DecideCases ==
    ASSUME RatesTyped, NEW c \in Threads, Decide(c)
    PROVE  \/ \E r \in RateResults : Leave(c, r) /\ refreshing' = refreshing
           \/ Wait(c)
           \/ Lead(c)
<1>0. cached[c] \in Snapshots /\ call[c] \in Calls
  BY DEF RatesTyped
<1>1. CASE WaitTimedOut(c)
  <2>1. (IF HasCache(c) THEN Result(cached[c], FALSE, TRUE, TRUE) ELSE Unavailable) \in RateResults
    BY <1>0, Constructed
  <2> QED
    BY <1>1, <2>1 DEF WaitTimedOut, Served
<1>2. CASE ShareRefresh(c)
  <2> DEFINE completed == refresh_generation > call[c].started
             ok == completed /\ last_refresh_succeeded
             failed == completed /\ ~last_refresh_succeeded
             deferred == ~ok /\ ~failed /\ call[c].now < cached[c].next_refresh_attempt_at
  <2>1. Served(c, Result(cached[c], FALSE, failed, deferred))
    BY <1>2 DEF ShareRefresh
  <2>2. failed \in BOOLEAN /\ deferred \in BOOLEAN
    OBVIOUS
  <2>3. Result(cached[c], FALSE, failed, deferred) \in RateResults
    <3> HIDE DEF failed, deferred
    <3> QED
      BY <1>0, <2>2, Constructed
  <2> QED
    BY <2>1, <2>3 DEF Served
<1>3. CASE UseCache(c)
  <2>1. Result(cached[c], FALSE, FALSE, FALSE) \in RateResults
    BY <1>0, Constructed
  <2> QED
    BY <1>3, <2>1 DEF UseCache, Served
<1>4. CASE Defer(c)
  <2>1. (IF HasCache(c) THEN Result(cached[c], FALSE, FALSE, TRUE) ELSE Unavailable) \in RateResults
    BY <1>0, Constructed
  <2> QED
    BY <1>4, <2>1 DEF Defer, Served
<1> QED
  BY <1>1, <1>2, <1>3, <1>4 DEF Decide

LEMMA DecideTyped ==
    ASSUME RatesTyped, NEW c \in Threads, Decide(c)
    PROVE  RatesTyped'
<1>0. /\ UNCHANGED <<clock, cache, refresh_generation, last_refresh_succeeded, successes, conversions>>
      /\ next_refresh_attempt_at' \in Times
  BY DEF Decide, JoinAttempt, RatesTyped, Snapshots, serviceVars
<1>1. ASSUME NEW r \in RateResults, Leave(c, r), refreshing' = refreshing PROVE RatesTyped'
  BY <1>0, <1>1, LeaveTyped DEF RatesTyped
<1>2. CASE Wait(c)
  <2> DEFINE waiting == [call[c] EXCEPT !.coalesced = TRUE,
                              !.started = IF call[c].coalesced THEN @ ELSE refresh_generation]
  <2>0. waiting \in Calls
    BY DEF RatesTyped, Calls, Times
  <2>1. call' \in [Threads -> Calls]
    BY <1>2, <2>0 DEF Wait, RatesTyped
  <2>2. pc' \in [Threads -> Places]
    BY <1>2 DEF Wait, RatesTyped, Goto, Places
  <2> QED
    BY <1>0, <1>2, <2>1, <2>2 DEF Wait, RatesTyped
<1>3. CASE Lead(c)
  BY <1>0, <1>3 DEF Lead, RatesTyped, Goto, Places
<1> QED
  BY <1>1, <1>2, <1>3, DecideCases

\* The refresh moves the leader on.
LEMMA RefreshTyped ==
    ASSUME RatesTyped, NEW c \in Threads,
           FetchSucceeds(c) \/ FetchFails(c) \/ Save(c) \/ Publish(c)
    PROVE  RatesTyped'
<1>0. /\ call[c].now \in Nat /\ cached[c] \in Snapshots /\ fresh[c] \in Snapshots
      /\ succeeded[c] \in BOOLEAN
  BY DEF RatesTyped, Calls
<1>1. CASE FetchSucceeds(c)
  <2>1. PICK expires \in 0..(call[c].now + MaxAge) :
          fresh' = [fresh EXCEPT ![c] = Snapshot(call[c].now, expires, call[c].now + RetryInterval)]
    BY <1>1 DEF FetchSucceeds
  <2>2. Snapshot(call[c].now, expires, call[c].now + RetryInterval) \in Snapshots
    BY <1>0, Constructed DEF Times
  <2> QED
    BY <1>1, <2>1, <2>2 DEF FetchSucceeds, RatesTyped, Goto, Places, serviceVars
<1>2. CASE FetchFails(c)
  <2> DEFINE retry == call[c].now + RetryInterval
             kept == IF HasCache(c) THEN [cached[c] EXCEPT !.next_refresh_attempt_at = retry]
                     ELSE Snapshot(Never, Never, retry)
  <2>1. kept \in Snapshots
    BY <1>0 DEF Times, Never, Snapshots, Snapshot
  <2>2. fresh' = [fresh EXCEPT ![c] = kept]
    BY <1>2 DEF FetchFails
  <2> QED
    BY <1>2, <2>1, <2>2 DEF FetchFails, RatesTyped, Goto, Places, serviceVars
<1>3. CASE Save(c)
  BY <1>0, <1>3 DEF Save, RatesTyped, Goto, Places, serviceVars
<1>4. CASE Publish(c)
  <2> DEFINE r == IF fresh[c].checked_at = Never THEN Unavailable
                  ELSE Result(fresh[c], succeeded[c], ~succeeded[c], FALSE)
  <2>1. r \in RateResults
    <3>1. (~succeeded[c]) \in BOOLEAN
      OBVIOUS
    <3> QED
      BY <1>0, <3>1, Constructed
  <2>2. Leave(c, r) /\ UNCHANGED <<clock, cache, conversions>>
    BY <1>4 DEF Publish
  <2> HIDE DEF r
  <2>3. /\ refreshing' = FALSE
        /\ refresh_generation' \in Nat
        /\ last_refresh_succeeded' \in BOOLEAN
        /\ next_refresh_attempt_at' \in Times
        /\ successes' \in Nat
    BY <1>0, <1>4 DEF Publish, FlagAfterPublish, RatesTyped, Snapshots
  <2> QED
    BY <2>1, <2>2, <2>3, LeaveTyped DEF RatesTyped
<1> QED
  BY <1>1, <1>2, <1>3, <1>4

----------------------------------------------------------------------------
(* One leader.                                                             *)

\* A conversion that stays on its side of the refresh leaves the leaders as they are.
LEMMA LeadersKept ==
    ASSUME RatesTyped, NEW c \in Threads, NEW place, pc' = [pc EXCEPT ![c] = place],
           pc[c] \in {"fetch", "save", "publish"} <=> place \in {"fetch", "save", "publish"}
    PROVE  Leading' = Leading
  BY DEF Leading, RatesTyped

\* The flag goes up with the leader and down with it.
LEMMA LeaderStep ==
    ASSUME RatesTyped, OneLeader, [RatesNext]_ratesVars
    PROVE  OneLeader'
<1>1. ASSUME NEW c \in Threads, NEW force \in BOOLEAN, Begin(c, force) PROVE OneLeader'
  <2>1. Leading' = Leading /\ refreshing' = refreshing
    BY <1>1, LeadersKept DEF Begin, Goto, serviceVars
  <2> QED
    BY <2>1 DEF OneLeader
<1>2. ASSUME NEW c \in Threads, Load(c) \/ Awake(c) PROVE OneLeader'
  <2>1. Leading' = Leading /\ refreshing' = refreshing
    BY <1>2, LeadersKept DEF Load, Awake, Goto, serviceVars
  <2> QED
    BY <2>1 DEF OneLeader
<1>3. CASE Tick \/ UNCHANGED ratesVars \/ \E c \in Threads : WaitExpires(c)
  <2>1. pc' = pc /\ refreshing' = refreshing
    BY <1>3 DEF Tick, WaitExpires, ratesVars, serviceVars, callVars
  <2> QED
    BY <2>1 DEF OneLeader, Leading
<1>4. ASSUME NEW c \in Threads, Decide(c) PROVE OneLeader'
  <2>0. pc[c] = "decide"
    BY <1>4 DEF Decide
  <2>1. ASSUME NEW r \in RateResults, Leave(c, r), refreshing' = refreshing PROVE OneLeader'
    <3>1. Leading' = Leading
      BY <2>0, <2>1, LeadersKept DEF Leave, Goto
    <3> QED
      BY <2>1, <3>1 DEF OneLeader
  <2>2. CASE Wait(c)
    <3>1. Leading' = Leading /\ refreshing' = refreshing
      BY <2>0, <2>2, LeadersKept DEF Wait, Goto
    <3> QED
      BY <3>1 DEF OneLeader
  <2>3. CASE Lead(c)
    <3>1. Leading = {} /\ refreshing' = TRUE
      BY <2>3 DEF Lead, Decides, MustWait, OneLeader
    <3>2. Leading' = {c}
      BY <2>3, <3>1 DEF Lead, Goto, Leading, RatesTyped
    <3> QED
      BY <3>1, <3>2 DEF OneLeader
  <2> QED
    BY <1>4, <2>1, <2>2, <2>3, DecideCases
<1>5. ASSUME NEW c \in Threads, FetchSucceeds(c) \/ FetchFails(c) \/ Save(c) PROVE OneLeader'
  <2>1. Leading' = Leading /\ refreshing' = refreshing
    BY <1>5, LeadersKept DEF FetchSucceeds, FetchFails, Save, Goto, serviceVars
  <2> QED
    BY <2>1 DEF OneLeader
<1>6. ASSUME NEW c \in Threads, Publish(c) PROVE OneLeader'
  <2>1. c \in Leading /\ refreshing' = FALSE
    BY <1>6 DEF Publish, Leading, FlagAfterPublish
  <2>2. Leading = {c}
    BY <2>1 DEF OneLeader
  <2>3. pc' = [pc EXCEPT ![c] = "idle"]
    BY <1>6 DEF Publish, Leave, Goto
  <2>4. Leading' = {}
    BY <2>2, <2>3 DEF Leading, RatesTyped
  <2> QED
    BY <2>1, <2>4 DEF OneLeader
<1> QED
  BY <1>1, <1>2, <1>3, <1>4, <1>5, <1>6 DEF RatesNext, Step

----------------------------------------------------------------------------
(* What a conversion that waits knows.                                     *)

\* A conversion that begins or is gone has waited for nothing.
LEMMA FreshCall ==
    \A now, force, seen : /\ NewCall(now, force, seen).coalesced = FALSE
                          /\ NewCall(now, force, seen).seen = seen
  BY DEF NewCall

\* Where the generations and successes stay as they are, so does what is known of them.
LEMMA WaitsKept ==
    ASSUME RatesTyped, WaitsCounted, NEW c \in Threads, NEW mine \in Calls,
           call' = [call EXCEPT ![c] = mine],
           UNCHANGED <<refresh_generation, last_refresh_succeeded, successes>>,
           refreshing => refreshing',
           mine.seen <= successes,
           mine.coalesced => /\ call[c].coalesced
                             /\ mine.started = call[c].started
                             /\ mine.seen = call[c].seen
    PROVE  WaitsCounted'
<1> SUFFICES ASSUME NEW d \in Threads
             PROVE  /\ call'[d].seen <= successes'
                    /\ call'[d].coalesced =>
                          /\ call'[d].started <= refresh_generation'
                          /\ call'[d].started = refresh_generation' => refreshing'
                          /\ call'[d].started < refresh_generation' /\ last_refresh_succeeded' =>
                                call'[d].seen < successes'
  BY DEF WaitsCounted
<1>1. CASE d = c
  BY <1>1 DEF RatesTyped, WaitsCounted
<1>2. CASE d # c
  BY <1>2 DEF RatesTyped, WaitsCounted
<1> QED
  BY <1>1, <1>2

LEMMA WaitsStep ==
    ASSUME RatesTyped, WaitsCounted, [RatesNext]_ratesVars
    PROVE  WaitsCounted'
<1>1. ASSUME NEW c \in Threads, NEW force \in BOOLEAN, Begin(c, force) PROVE WaitsCounted'
  <2> DEFINE mine == NewCall(clock, force, successes)
  <2>1. mine \in Calls /\ mine.coalesced = FALSE /\ mine.seen = successes
    BY Constructed, FreshCall DEF RatesTyped
  <2>2. /\ call' = [call EXCEPT ![c] = mine]
        /\ UNCHANGED <<refreshing, refresh_generation, last_refresh_succeeded, successes>>
    BY <1>1 DEF Begin, serviceVars
  <2>3. mine.seen <= successes
    BY <2>1 DEF RatesTyped
  <2> HIDE DEF mine
  <2> QED
    BY <2>1, <2>2, <2>3, WaitsKept
<1>2. ASSUME UNCHANGED <<call, refresh_generation, last_refresh_succeeded, successes>>,
             refreshing => refreshing'
      PROVE  WaitsCounted'
  BY <1>2 DEF WaitsCounted
<1>3. ASSUME NEW c \in Threads, WaitExpires(c) PROVE WaitsCounted'
  <2> DEFINE mine == [call[c] EXCEPT !.timed_out = TRUE]
  <2>1. /\ mine \in Calls
        /\ mine.coalesced = call[c].coalesced
        /\ mine.started = call[c].started
        /\ mine.seen = call[c].seen
    BY DEF RatesTyped, Calls
  <2>2. /\ call' = [call EXCEPT ![c] = mine]
        /\ UNCHANGED <<refreshing, refresh_generation, last_refresh_succeeded, successes>>
    BY <1>3 DEF WaitExpires, serviceVars, RatesTyped
  <2>3. mine.seen <= successes
    BY <2>1 DEF WaitsCounted
  <2> HIDE DEF mine
  <2> QED
    BY <2>1, <2>2, <2>3, WaitsKept
<1>4. ASSUME NEW c \in Threads, Decide(c) PROVE WaitsCounted'
  <2>0. UNCHANGED <<refresh_generation, last_refresh_succeeded, successes>>
    BY <1>4 DEF Decide
  <2>1. ASSUME NEW r \in RateResults, Leave(c, r), refreshing' = refreshing PROVE WaitsCounted'
    <3>1. NoCall \in Calls /\ 0 <= successes
      BY Constructed DEF RatesTyped
    <3>2. NoCall.coalesced = FALSE /\ NoCall.seen = 0
      BY DEF NoCall, NewCall
    <3> QED
      BY <2>0, <2>1, <3>1, <3>2, LeaveTyped, WaitsKept
  <2>2. CASE Wait(c)
    <3> DEFINE mine == [call[c] EXCEPT !.coalesced = TRUE,
                            !.started = IF call[c].coalesced THEN @ ELSE refresh_generation]
    <3>1. refreshing /\ refreshing' = refreshing /\ call' = [call EXCEPT ![c] = mine]
      BY <2>2 DEF Wait, MustWait
    <3>2. /\ mine.seen = call[c].seen
          /\ mine.started = IF call[c].coalesced THEN call[c].started ELSE refresh_generation
      BY DEF RatesTyped, Calls
    <3> HIDE DEF mine
    <3> SUFFICES ASSUME NEW d \in Threads
                 PROVE  /\ call'[d].seen <= successes
                        /\ call'[d].coalesced =>
                              /\ call'[d].started <= refresh_generation
                              /\ call'[d].started < refresh_generation /\ last_refresh_succeeded =>
                                    call'[d].seen < successes
      BY <2>0, <3>1 DEF WaitsCounted
    <3>3. CASE d # c
      BY <3>1, <3>3 DEF RatesTyped, WaitsCounted
    <3>4. CASE d = c
      <4>1. call'[c] = mine
        BY <3>1 DEF RatesTyped
      <4> QED
        BY <3>2, <3>4, <4>1 DEF RatesTyped, WaitsCounted
    <3> QED
      BY <3>3, <3>4
  <2>3. CASE Lead(c)
    BY <2>0, <2>3, <1>2 DEF Lead
  <2> QED
    BY <1>4, <2>1, <2>2, <2>3, DecideCases
<1>5. ASSUME NEW c \in Threads, Publish(c) PROVE WaitsCounted'
  <2>1. /\ call' = [call EXCEPT ![c] = NoCall]
        /\ refresh_generation' = refresh_generation + 1
        /\ last_refresh_succeeded' = succeeded[c]
        /\ successes' = IF succeeded[c] THEN successes + 1 ELSE successes
    BY <1>5 DEF Publish, Leave
  <2>2. NoCall.coalesced = FALSE /\ NoCall.seen = 0
    BY FreshCall DEF NoCall
  <2> SUFFICES ASSUME NEW d \in Threads
               PROVE  /\ call'[d].seen <= successes'
                      /\ call'[d].coalesced =>
                            /\ call'[d].started < refresh_generation'
                            /\ last_refresh_succeeded' => call'[d].seen < successes'
    <3>1. \A d \in Threads : call'[d] \in Calls
      BY <2>1, Constructed DEF RatesTyped
    <3>2. refresh_generation' \in Nat
      BY <2>1 DEF RatesTyped
    <3>3. ASSUME NEW d \in Threads, call'[d].started < refresh_generation'
          PROVE  call'[d].started <= refresh_generation' /\ call'[d].started # refresh_generation'
      BY <3>1, <3>2, <3>3 DEF Calls, Times, Never
    <3> QED
      BY <3>3 DEF WaitsCounted
  <2>3. CASE d = c
    BY <2>1, <2>2, <2>3 DEF RatesTyped
  <2>4. CASE d # c
    <3>1. call'[d] = call[d] /\ call[d] \in Calls
      BY <2>1, <2>4 DEF RatesTyped
    <3> QED
      BY <2>1, <3>1 DEF RatesTyped, WaitsCounted, Calls, Times, Never
  <2> QED
    BY <2>3, <2>4
<1>6. ASSUME NEW c \in Threads,
             Load(c) \/ Awake(c) \/ FetchSucceeds(c) \/ FetchFails(c) \/ Save(c)
      PROVE  WaitsCounted'
  BY <1>2, <1>6 DEF Load, Awake, FetchSucceeds, FetchFails, Save, serviceVars
<1>7. CASE Tick \/ UNCHANGED ratesVars
  BY <1>2, <1>7 DEF Tick, ratesVars, serviceVars, callVars
<1> QED
  BY <1>1, <1>3, <1>4, <1>5, <1>6, <1>7 DEF RatesNext, Step

----------------------------------------------------------------------------
(* The theorems.                                                           *)

LEMMA RatesInductive ==
    /\ RatesInit => RatesInvariant
    /\ RatesInvariant /\ [RatesNext]_ratesVars => RatesInvariant'
<1>1. ASSUME RatesInit PROVE RatesInvariant
  <2>1. RatesTyped
    <3>1. NoSnapshot \in Snapshots /\ Unavailable \in RateResults /\ NoCall \in Calls /\ Never \in Times
      BY Constructed DEF Times
    <3>2. /\ cache \in Snapshots /\ next_refresh_attempt_at \in Times
          /\ refreshing \in BOOLEAN /\ last_refresh_succeeded \in BOOLEAN
      BY <1>1, <3>1, Zenon DEF RatesInit
    <3>3. pc \in [Threads -> Places] /\ succeeded \in [Threads -> BOOLEAN]
      BY <1>1 DEF RatesInit, Places
    <3>4. /\ call \in [Threads -> Calls] /\ result \in [Threads -> RateResults]
          /\ cached \in [Threads -> Snapshots] /\ fresh \in [Threads -> Snapshots]
      BY <1>1, <3>1 DEF RatesInit
    <3>5. /\ clock \in 0..MaxTime /\ refresh_generation \in Nat
          /\ successes \in Nat /\ conversions \in Nat
      BY <1>1 DEF RatesInit
    <3> QED
      BY <3>2, <3>3, <3>4, <3>5 DEF RatesTyped
  <2>2. Leading = {}
    BY <1>1 DEF RatesInit, Leading
  <2>3. \A c \in Threads : call[c].coalesced = FALSE /\ call[c].seen = 0
    BY <1>1, FreshCall DEF RatesInit, NoCall
  <2> QED
    BY <1>1, <2>1, <2>2, <2>3 DEF RatesInit, RatesInvariant, OneLeader, WaitsCounted
<1>2. ASSUME RatesInvariant, [RatesNext]_ratesVars PROVE RatesInvariant'
  <2>1. RatesTyped /\ OneLeader /\ WaitsCounted
    BY <1>2 DEF RatesInvariant
  <2>2. RatesTyped'
    BY <1>2, <2>1, QuietTyped, DecideTyped, RefreshTyped DEF RatesNext, Step
  <2> QED
    BY <1>2, <2>1, <2>2, LeaderStep, WaitsStep DEF RatesInvariant
<1> QED
  BY <1>1, <1>2

THEOREM RatesInPlace == RatesSpec => []RatesInvariant
  BY RatesInductive, PTL DEF RatesSpec

\* The state of the currency rates is well typed, and the flag _refreshing is up exactly
\* while one conversion is between its decision to refresh and the finally clause.
THEOREM RatesTypeCorrect == RatesSpec => []RatesTypeOK
<1>1. RatesInvariant => RatesTypeOK
  <2> SUFFICES ASSUME RatesInvariant PROVE Cardinality(Leading) = IF refreshing THEN 1 ELSE 0
    BY DEF RatesInvariant, RatesTypeOK
  <2>1. CASE refreshing
    <3>1. PICK c \in Threads : Leading = {c}
      BY <2>1 DEF RatesInvariant, OneLeader
    <3> QED
      BY <2>1, <3>1, FS_Singleton
  <2>2. CASE ~refreshing
    BY <2>2, FS_EmptySet DEF RatesInvariant, OneLeader
  <2> QED
    BY <2>1, <2>2
<1> QED
  BY <1>1, RatesInPlace, PTL

\* One pass under the lock that answers without a flag answers from rates that have not
\* expired, or when the latest refresh ended, with success, while the conversion was
\* under way.
LEMMA SilentAnswer ==
    ASSUME RatesInvariant, NEW c \in Threads, Decide(c), pc'[c] = "idle",
           result'[c] # Unavailable, ~result'[c].refresh_failed, ~result'[c].refresh_deferred
    PROVE  \/ call[c].now < result'[c].snapshot.expires_at
           \/ /\ ~refreshing
              /\ last_refresh_succeeded
              /\ successes > call[c].seen
<1>0. /\ RatesTyped /\ WaitsCounted /\ call[c] \in Calls
      /\ refresh_generation \in Nat /\ successes \in Nat
  BY DEF RatesInvariant, RatesTyped
<1>1. ASSUME NEW r, Served(c, r) PROVE result'[c] = r
  BY <1>0, <1>1 DEF Served, Leave, RatesTyped
<1>3. CASE WaitTimedOut(c)
  <2>1. result'[c] = IF HasCache(c) THEN Result(cached[c], FALSE, TRUE, TRUE) ELSE Unavailable
    BY <1>1, <1>3 DEF WaitTimedOut
  <2> QED
    BY <2>1 DEF Result
<1>4. CASE ShareRefresh(c)
  <2> DEFINE completed == refresh_generation > call[c].started
             failed == completed /\ ~last_refresh_succeeded
             deferred == /\ ~(completed /\ last_refresh_succeeded)
                         /\ ~failed
                         /\ call[c].now < cached[c].next_refresh_attempt_at
  <2>1. result'[c] = Result(cached[c], FALSE, failed, deferred) /\ call[c].coalesced /\ ~refreshing
    BY <1>1, <1>4 DEF ShareRefresh, MustWait
  <2>2. ~failed
    <3> HIDE DEF failed, deferred
    <3>1. result'[c].refresh_failed = failed
      BY <2>1 DEF Result
    <3> QED
      BY <3>1
  <2>3. call[c].started < refresh_generation
    BY <1>0, <2>1 DEF WaitsCounted, Calls, Times, Never
  <2>4. completed
    BY <1>0, <2>3 DEF Calls, Times, Never
  <2> QED
    BY <1>0, <2>1, <2>2, <2>3, <2>4 DEF WaitsCounted, Calls
<1>5. CASE UseCache(c)
  <2>1. result'[c] = Result(cached[c], FALSE, FALSE, FALSE) /\ call[c].now < cached[c].expires_at
    BY <1>1, <1>5 DEF UseCache, StillFresh
  <2> QED
    BY <2>1 DEF Result
<1>6. CASE Defer(c)
  <2>1. result'[c] = IF HasCache(c) THEN Result(cached[c], FALSE, FALSE, TRUE) ELSE Unavailable
    BY <1>1, <1>6 DEF Defer
  <2> QED
    BY <2>1 DEF Result
<1>7. CASE Wait(c) \/ Lead(c)
  BY <1>0, <1>7 DEF Wait, Lead, Goto, RatesTyped
<1> QED
  BY <1>3, <1>4, <1>5, <1>6, <1>7 DEF Decide

\* A rate that is returned from the cache without a flag is not expired, or the latest
\* refresh ended during the call, with success: _snapshot_for_conversion never takes a wait
\* that timed out, a spurious wake-up, a leader that failed or a second leader for a
\* successful shared refresh.
THEOREM SilenceStaysFresh == RatesSpec => SilenceIsFresh
<1>1. ASSUME RatesInvariant, [RatesNext]_ratesVars, NEW c \in Threads,
             pc[c] = "decide", pc'[c] = "idle"
      PROVE  Decide(c)
  <2>0. RatesTyped
    BY <1>1 DEF RatesInvariant
  <2>1. ASSUME NEW d \in Threads, NEW place, d # c, pc' = [pc EXCEPT ![d] = place] PROVE FALSE
    BY <1>1, <2>0, <2>1 DEF RatesTyped
  <2>2. ASSUME pc' = pc PROVE FALSE
    BY <1>1, <2>2
  <2>3. ASSUME NEW d \in Threads, NEW force \in BOOLEAN, Begin(d, force) PROVE FALSE
    BY <1>1, <2>1, <2>3 DEF Begin, Goto
  <2>4. ASSUME NEW d \in Threads, Step(d) PROVE d = c
    <3>1. CASE Load(d) \/ Awake(d) \/ FetchSucceeds(d) \/ FetchFails(d) \/ Save(d)
      BY <2>1, <3>1 DEF Load, Awake, FetchSucceeds, FetchFails, Save, Goto
    <3>2. CASE Publish(d)
      BY <2>1, <3>2 DEF Publish, Leave, Goto
    <3>3. CASE Decide(d)
      <4>1. ASSUME NEW r, Leave(d, r) PROVE d = c
        BY <2>1, <4>1 DEF Leave, Goto
      <4>2. CASE Wait(d) \/ Lead(d)
        BY <2>1, <4>2 DEF Wait, Lead, Goto
      <4> QED
        BY <2>0, <3>3, <4>1, <4>2, DecideCases
    <3> QED
      BY <2>4, <3>1, <3>2, <3>3 DEF Step
  <2>5. ASSUME Step(c) PROVE Decide(c)
    BY <1>1, <2>5 DEF Step, Load, Awake, FetchSucceeds, FetchFails, Save, Publish
  <2>6. ASSUME NEW d \in Threads, WaitExpires(d) PROVE FALSE
    BY <2>2, <2>6 DEF WaitExpires
  <2>7. CASE Tick \/ UNCHANGED ratesVars
    BY <2>2, <2>7 DEF Tick, ratesVars, callVars
  <2> QED
    BY <1>1, <2>3, <2>4, <2>5, <2>6, <2>7 DEF RatesNext
<1>2. RatesInvariant /\ [RatesNext]_ratesVars =>
        [ \A c \in Threads :
            LET r == result'[c]
            IN  /\ pc[c] = "decide"
                /\ pc'[c] = "idle"
                /\ r # Unavailable
                /\ ~r.refresh_failed
                /\ ~r.refresh_deferred
                => \/ call[c].now < r.snapshot.expires_at
                   \/ /\ ~refreshing
                      /\ last_refresh_succeeded
                      /\ successes > call[c].seen ]_ratesVars
  BY <1>1, SilentAnswer
<1> QED
  BY <1>2, RatesInPlace, PTL DEF RatesSpec, SilenceIsFresh

----------------------------------------------------------------------------
(* Batches.                                                                *)

\* A non-empty set of indices has a greatest one, and Max is it.
LEMMA GreatestIndex ==
    ASSUME NEW n \in Nat, NEW S, S \subseteq 1..n, S # {}
    PROVE  Max(S) \in S /\ \A y \in S : y <= Max(S)
<1> DEFINE Bounds == {u \in Nat : \A y \in S : y <= u}
<1>1. n \in Bounds /\ Bounds \subseteq Nat
  OBVIOUS
<1>2. PICK u \in Bounds : \A v \in Bounds : ~ (<<v, u>> \in OpToRel(<, Nat))
  BY <1>1, NatLessThanWellFounded, WFMin
<1>3. u \in S
  <2> SUFFICES ASSUME u \notin S PROVE FALSE
    OBVIOUS
  <2>1. PICK y \in S : TRUE
    OBVIOUS
  <2>2. u - 1 \in Nat /\ \A z \in S : z <= u - 1
    BY <2>1
  <2>3. u - 1 \in Bounds
    BY <2>2
  <2>4. <<u - 1, u>> \in Nat \X Nat /\ <<u - 1, u>>[1] < <<u - 1, u>>[2]
    BY <2>2
  <2> QED
    BY <1>2, <2>3, <2>4 DEF OpToRel
<1>4. \A y \in S : u >= y
  BY <1>1
<1> QED
  BY <1>3, <1>4 DEF Max

\* What is charged is a number.
LEMMA ChargedTyped ==
    ASSUME BatchInvariant, NEW k \in Keys, NEW i
    PROVE  Charged(k, i) \in Nat
<1> DEFINE some == {j \in IndicesOf(k) : j <= i}
           count == Cardinality(some)
           size == representative[k].size
<1>1. PICK n \in 1..MaxItems : items \in [1..n -> Keys]
  BY DEF BatchInvariant
<1>2. IsFiniteSet(1..n)
  BY <1>1, FS_Interval
<1>3. some \subseteq 1..n
  BY <1>1 DEF IndicesOf, Indices
<1>4. count \in Nat
  BY <1>2, <1>3, FS_Subset, FS_CardinalityType
<1>5. size \in Nat
  <2>1. representative[k] \in Results \cup {NoResult}
    BY DEF BatchInvariant, TypeOK
  <2>2. CASE representative[k] = NoResult
    BY <2>2 DEF NoResult
  <2>3. CASE representative[k] \in Results
    <3>1. representative[k].size \in Sizes
      BY <2>3 DEF Results
    <3>2. Sizes \subseteq Nat
      BY BatchAssumption
    <3> QED
      BY <3>1, <3>2
  <2> QED
    BY <2>1, <2>2, <2>3
<1>6. encoded_bytes \in Nat
  BY DEF BatchInvariant, TypeOK
<1> HIDE DEF count, size
<1>7. encoded_bytes + size * count \in Nat
  BY <1>4, <1>5, <1>6
<1> QED
  BY <1>7 DEF Charged, count, size

\* A step that completes or starts one item leaves collected groups, and where the
\* caller stands, alone.
LEMMA ItemStep ==
    ASSUME BatchInvariant, NEW k \in Keys,
           RefuseItem(k) \/ StartItem(k) \/ FinishItem(k)
    PROVE  BatchInvariant'
<1>0. /\ UNCHANGED <<items, phase, results_by_index, encoded_bytes, aborted,
                     cancel_event, batch_cancel, late, answer>>
      /\ future[k] \in {"queued", "running"}
      /\ \A g \in Keys : g # k => /\ future'[g] = future[g]
                                  /\ representative'[g] = representative[g]
  BY DEF RefuseItem, StartItem, FinishItem, NextQueued, Complete, BatchInvariant, TypeOK
<1>1. /\ future' \in [Keys -> {"none", "queued", "running", "done", "collected",
                               "cancelled"}]
      /\ representative' \in [Keys -> Results \cup {NoResult}]
      /\ (representative'[k] # NoResult) <=> (future'[k] \in {"done", "collected"})
      /\ future'[k] \in {"done", "running"}
  <2>1. CASE StartItem(k)
    BY <1>0, <2>1 DEF StartItem, BatchInvariant, TypeOK
  <2>2. ASSUME NEW status \in {"ok", "error"}, Complete(k, status)
        PROVE  /\ future' = [future EXCEPT ![k] = "done"]
               /\ representative' \in [Keys -> Results \cup {NoResult}]
               /\ representative'[k] # NoResult
    BY <2>2 DEF Complete, BatchInvariant, TypeOK, Results, NoResult
  <2>3. CASE RefuseItem(k) \/ FinishItem(k)
    BY <2>2, <2>3 DEF RefuseItem, FinishItem, BatchInvariant, TypeOK
  <2> QED
    BY <2>1, <2>3
<1>2. TypeOK'
  BY <1>0, <1>1 DEF BatchInvariant, TypeOK, Indices
<1>3. CollectedStored'
  BY <1>0, <1>1 DEF BatchInvariant, CollectedStored, IndicesOf, Indices
<1>4. Groups \subseteq Keys
  BY DEF BatchInvariant, Groups, Indices
<1>5. AnswerInPlace'
  <2>1. Groups' = Groups /\ (AllOk' <=> AllOk)
    BY <1>0 DEF Groups, Indices, AllOk
  <2>2. phase # "check"
    BY <1>0 DEF BatchInvariant, AnswerInPlace
  <2>3. \A g \in Groups : future[g] = "collected" => future'[g] = "collected"
    BY <1>0, <1>4
  <2>4. AnswerInPlace
    BY DEF BatchInvariant
  <2> QED
    BY <1>0, <2>1, <2>2, <2>3, <2>4 DEF AnswerInPlace
<1> QED
  BY <1>0, <1>2, <1>3, <1>5 DEF BatchInvariant

\* Collecting a group stores its result at every index that asked for it, or
\* aborts the batch.
LEMMA CollectStep ==
    ASSUME BatchInvariant, NEW k \in Keys, Collect(k)
    PROVE  BatchInvariant'
<1>0. UNCHANGED <<items, representative, cancel_event, late, answer>>
  BY DEF Collect
<1>1. PICK n \in 1..MaxItems : items \in [1..n -> Keys]
  BY DEF BatchInvariant
<1>2. encoded_bytes' \in Nat
  BY ChargedTyped DEF Collect
<1>3. results_by_index' \in [Indices -> Results \cup {NoResult}]
  BY DEF Collect, BatchInvariant, TypeOK
<1>4. Groups \subseteq Keys
  BY DEF BatchInvariant, Groups, Indices
<1>5. \A g \in Keys : (representative[g] # NoResult) <=> (future[g] \in {"done", "collected"})
  BY DEF BatchInvariant, TypeOK
<1>6. future \in [Keys -> {"none", "queued", "running", "done", "collected", "cancelled"}]
  BY DEF BatchInvariant, TypeOK
<1>7. /\ answer = "none" /\ phase = "collect"
      /\ future[k] = "done"
  BY DEF Collect, BatchInvariant, AnswerInPlace
<1>8. CASE Overflows(k) # {}
  <2>1. /\ aborted' = TRUE /\ batch_cancel' = TRUE
        /\ future' = CancelPending(k)
        /\ phase' = "join"
    BY <1>8 DEF Collect
  <2>2. /\ future' \in [Keys -> {"none", "queued", "running", "done", "collected",
                                 "cancelled"}]
        /\ \A g \in Keys : future'[g] \in {"done", "collected"}
                           <=> future[g] \in {"done", "collected"}
    BY <1>6, <1>7, <2>1 DEF CancelPending
  <2>3. \A g \in Keys : (representative'[g] # NoResult)
                       <=> (future'[g] \in {"done", "collected"})
    BY <1>0, <1>5, <2>2
  <2>4. TypeOK'
    BY <1>0, <1>2, <1>3, <2>1, <2>2, <2>3 DEF BatchInvariant, TypeOK, Indices
  <2> QED
    BY <1>0, <1>7, <2>1, <2>4 DEF BatchInvariant, CollectedStored, AnswerInPlace
<1>9. CASE Overflows(k) = {}
  <2>1. /\ UNCHANGED <<aborted, batch_cancel>>
        /\ future' = [future EXCEPT ![k] = "collected"]
        /\ phase' \in {"join", "collect"}
        /\ phase' = "join" => \A g \in Groups \ {k} : future[g] = "collected"
    BY <1>9 DEF Collect
  <2>2. \A g \in Keys : (representative'[g] # NoResult)
                       <=> (future'[g] \in {"done", "collected"})
    BY <1>0, <1>5, <1>6, <1>7, <2>1
  <2>3. TypeOK'
    BY <1>0, <1>2, <1>3, <1>6, <2>1, <2>2 DEF BatchInvariant, TypeOK, Indices
  <2>4. \A i \in IndicesOf(k) : i <= LastStored(k)
    <3> SUFFICES ASSUME NEW i \in IndicesOf(k) PROVE i <= Max(IndicesOf(k))
      BY <1>9 DEF LastStored
    <3>1. IndicesOf(k) \subseteq 1..n /\ n \in Nat
      BY <1>1 DEF IndicesOf, Indices
    <3> QED
      BY <3>1, GreatestIndex
  <2>5. \A i \in IndicesOf(k) : results_by_index'[i] = representative[k]
    BY <2>4 DEF Collect, IndicesOf
  <2>6. \A g \in Keys : g # k =>
          \A i \in IndicesOf(g) : results_by_index'[i] = results_by_index[i]
    BY DEF Collect, IndicesOf
  <2>7. CollectedStored'
    BY <1>0, <1>6, <2>1, <2>5, <2>6 DEF BatchInvariant, CollectedStored, IndicesOf, Indices
  <2>8. AnswerInPlace'
    BY <1>0, <1>4, <1>6, <1>7, <2>1 DEF AnswerInPlace, Groups, Indices
  <2> QED
    BY <1>0, <2>3, <2>7, <2>8 DEF BatchInvariant
<1> QED
  BY <1>8, <1>9

\* The invariant holds at first and every step keeps it.
LEMMA BatchInductive ==
    /\ Init => BatchInvariant
    /\ BatchInvariant /\ [Next]_vars => BatchInvariant'
<1>1. Init => BatchInvariant
  <2> SUFFICES ASSUME Init PROVE BatchInvariant
    OBVIOUS
  <2>1. \E n \in 1..MaxItems : items \in [1..n -> Keys]
    BY DEF Init
  <2>2. TypeOK
    BY DEF Init, TypeOK
  <2>3. CollectedStored /\ AnswerInPlace
    BY DEF Init, CollectedStored, AnswerInPlace
  <2> QED
    BY <2>1, <2>2, <2>3 DEF BatchInvariant
<1>2. ASSUME BatchInvariant, [Next]_vars PROVE BatchInvariant'
  <2>1. ASSUME Reject PROVE BatchInvariant'
    <3>1. /\ UNCHANGED <<items, future, representative, results_by_index, encoded_bytes,
                          aborted, cancel_event, batch_cancel, late>>
          /\ phase' = "returned"
          /\ answer' \in {"E_CANCELLED", "E_LIMIT", "E_INPUT", "E_TIMEOUT"}
      BY <2>1 DEF Reject, Answer
    <3>2. TypeOK'
      BY <1>2, <3>1 DEF BatchInvariant, TypeOK, Indices
    <3>3. CollectedStored' /\ AnswerInPlace'
      BY <1>2, <3>1 DEF BatchInvariant, CollectedStored, AnswerInPlace, IndicesOf, Indices
    <3> QED
      BY <1>2, <3>1, <3>2, <3>3 DEF BatchInvariant
  <2>2. ASSUME Submit PROVE BatchInvariant'
    <3>1. /\ UNCHANGED <<items, representative, results_by_index, encoded_bytes, aborted,
                          cancel_event, batch_cancel, late, answer>>
          /\ phase = "check" /\ phase' = "collect"
          /\ future' \in [Keys -> {"queued", "none"}]
      BY <2>2 DEF Submit
    <3>2. \A k \in Keys : future[k] = "none"
      BY <1>2, <3>1 DEF BatchInvariant, AnswerInPlace
    <3>3. \A k \in Keys : representative[k] = NoResult
      BY <1>2, <3>2 DEF BatchInvariant, TypeOK
    <3>4. TypeOK'
      BY <1>2, <3>1, <3>3 DEF BatchInvariant, TypeOK, Indices
    <3>5. CollectedStored' /\ AnswerInPlace'
      BY <1>2, <3>1 DEF BatchInvariant, CollectedStored, AnswerInPlace, IndicesOf, Indices
    <3> QED
      BY <1>2, <3>1, <3>4, <3>5 DEF BatchInvariant
  <2>3. ASSUME Return PROVE BatchInvariant'
    <3>1. /\ UNCHANGED <<items, future, representative, results_by_index, encoded_bytes,
                          aborted, cancel_event, batch_cancel, late>>
          /\ phase = "join" /\ phase' = "returned"
          /\ answer' \in {"ok", "partial", "E_CANCELLED", "E_OUTPUT_LIMIT"}
          /\ answer' \in {"ok", "partial"} => ~aborted /\ (answer' = "ok" <=> AllOk)
      BY <2>3 DEF Return, Answer
    <3>2. TypeOK'
      BY <1>2, <3>1 DEF BatchInvariant, TypeOK, Indices
    <3>3. CollectedStored'
      BY <1>2, <3>1 DEF BatchInvariant, CollectedStored, IndicesOf, Indices
    <3>4. AnswerInPlace'
      BY <1>2, <3>1 DEF BatchInvariant, AnswerInPlace, Groups, Indices, AllOk
    <3> QED
      BY <1>2, <3>1, <3>2, <3>3, <3>4 DEF BatchInvariant
  <2>4. ASSUME CallerCancels \/ DeadlinePasses \/ UNCHANGED vars PROVE BatchInvariant'
    <3>1. /\ UNCHANGED <<items, phase, future, representative, results_by_index,
                          encoded_bytes, aborted, batch_cancel, answer>>
          /\ cancel_event' \in BOOLEAN /\ late' \in BOOLEAN
      BY <1>2, <2>4 DEF CallerCancels, DeadlinePasses, vars, BatchInvariant, TypeOK
    <3>2. TypeOK'
      BY <1>2, <3>1 DEF BatchInvariant, TypeOK, Indices
    <3>3. CollectedStored' /\ AnswerInPlace'
      BY <1>2, <3>1 DEF BatchInvariant, CollectedStored, AnswerInPlace, IndicesOf, Indices,
                        Groups, AllOk
    <3> QED
      BY <1>2, <3>1, <3>2, <3>3 DEF BatchInvariant
  <2> QED
    BY <1>2, <2>1, <2>2, <2>3, <2>4, ItemStep, CollectStep DEF Next, Collector, PoolThread
<1> QED
  BY <1>1, <1>2

\* A batch answered with results holds, at every index, the result of its own item,
\* and says "ok" exactly when every item is: for any items, any sizes and any order
\* in which the pool's threads complete them (results_by_index of run_batch).
THEOREM EveryBatchAnswered == Spec => []EveryIndexAnswered
<1>1. BatchInvariant => EveryIndexAnswered
  <2> SUFFICES ASSUME BatchInvariant, answer \in {"ok", "partial"}
               PROVE  /\ \A i \in Indices :
                            /\ results_by_index[i] = representative[items[i]]
                            /\ results_by_index[i] # NoResult
                      /\ answer = "ok" <=> \A k \in Groups : representative[k].status = "ok"
    BY DEF EveryIndexAnswered
  <2>1. /\ ~aborted
        /\ \A k \in Groups : future[k] = "collected"
        /\ answer = "ok" <=> AllOk
    BY DEF BatchInvariant, AnswerInPlace
  <2>2. \A i \in Indices : items[i] \in Keys /\ items[i] \in Groups
    BY DEF BatchInvariant, Indices, Groups
  <2>3. \A i \in Indices : results_by_index[i] = representative[items[i]]
    BY <2>1, <2>2 DEF BatchInvariant, CollectedStored, IndicesOf
  <2>4. \A i \in Indices : representative[items[i]] # NoResult
    BY <2>1, <2>2 DEF BatchInvariant, TypeOK
  <2>5. AllOk <=> \A k \in Groups : representative[k].status = "ok"
    BY <2>2, <2>3 DEF AllOk, Groups
  <2> QED
    BY <2>1, <2>3, <2>4, <2>5
<1> QED
  BY <1>1, BatchInductive, PTL DEF Spec
----------------------------------------------------------------------------
(* The limits of a batch.                                                  *)

\* A finite set of integers that is not empty has a greatest element, and Max is it.
LEMMA Greatest ==
    ASSUME NEW S \in SUBSET Int, IsFiniteSet(S), S # {}
    PROVE  Max(S) \in S /\ \A y \in S : y <= Max(S)
<1> DEFINE Above(x) == {y \in S : y > x}
           T == {Above(x) : x \in S}
<1>1. T \subseteq FiniteSubsetsOf(S) /\ T # {}
  <2>1. \A x \in S : Above(x) \in SUBSET S
    OBVIOUS
  <2>2. \A x \in S : IsFiniteSet(Above(x))
    BY <2>1, FS_Subset
  <2>3. \A x \in S : Above(x) \in FiniteSubsetsOf(S)
    BY <2>1, <2>2 DEF FiniteSubsetsOf
  <2> HIDE DEF Above
  <2> QED
    BY <2>3
<1>2. PICK U \in T : \A V \in T : ~ (<<V, U>> \in StrictSubsetOrdering(S))
  BY <1>1, FS_StrictSubsetOrderingWellFounded, WFMin
<1>3. PICK x \in S : U = Above(x)
  OBVIOUS
<1>4. \A y \in S : x >= y
  <2> SUFFICES ASSUME NEW y \in S, y > x PROVE FALSE
    OBVIOUS
  <2>1. \A z \in S : z > y => z > x
    <3> SUFFICES ASSUME NEW z \in S, z > y PROVE z > x
      OBVIOUS
    <3>1. x \in Int /\ y \in Int /\ z \in Int
      OBVIOUS
    <3> QED
      BY <3>1
  <2>2. ~ (y > y)
    <3>1. y \in Int
      OBVIOUS
    <3> QED
      BY <3>1
  <2>3. Above(y) \subseteq Above(x) /\ y \in Above(x) /\ y \notin Above(y)
    BY <2>1, <2>2
  <2>4. <<Above(y), Above(x)>> \in StrictSubsetOrdering(S)
    BY <2>3 DEF StrictSubsetOrdering
  <2> QED
    BY <1>2, <1>3, <2>4
<1> QED
  BY <1>4 DEF Max

\* A set of naturals that is not empty has a least element, and Min is it.
LEMMA Least ==
    ASSUME NEW S \in SUBSET Nat, S # {}
    PROVE  Min(S) \in S /\ \A y \in S : Min(S) <= y
<1>1. PICK u \in S : \A v \in S : ~ (<<v, u>> \in OpToRel(<, Nat))
  BY NatLessThanWellFounded, WFMin
<1>2. \A y \in S : u <= y
  <2> SUFFICES ASSUME NEW y \in S, y < u PROVE FALSE
    OBVIOUS
  <2>1. <<y, u>> \in Nat \X Nat /\ <<y, u>>[1] < <<y, u>>[2]
    OBVIOUS
  <2> QED
    BY <1>1, <2>1 DEF OpToRel
<1> QED
  BY <1>2 DEF Min

\* The first n numbers are n.
LEMMA FirstNumbers ==
    ASSUME NEW n \in Nat
    PROVE  IsFiniteSet(1..n) /\ Cardinality(1..n) = n
<1>1. 1 \in Int /\ n \in Int
  OBVIOUS
<1>2. IsFiniteSet(1..n) /\ Cardinality(1..n) = IF 1 > n THEN 0 ELSE n - 1 + 1
  BY <1>1, FS_Interval
<1> QED
  BY <1>2

\* The units of a function with bounded values fit a rectangle.
LEMMA UnitsBound ==
    ASSUME NEW S, IsFiniteSet(S), NEW f, NEW L \in Nat, \A x \in S : f[x] \in 0..L
    PROVE  /\ IsFiniteSet(Units(S, f))
           /\ Sum(S, f) <= Cardinality(S) * L
<1>1. IsFiniteSet(1..L) /\ Cardinality(1..L) = L
  BY FirstNumbers
<1>2. /\ IsFiniteSet(S \X (1..L))
      /\ Cardinality(S \X (1..L)) = Cardinality(S) * Cardinality(1..L)
  BY <1>1, FS_Product
<1>3. Units(S, f) \in SUBSET (S \X (1..L))
  BY DEF Units
<1>4. IsFiniteSet(Units(S, f)) /\ Cardinality(Units(S, f)) <= Cardinality(S \X (1..L))
  BY <1>2, <1>3, FS_Subset
<1> QED
  BY <1>1, <1>2, <1>4 DEF Sum

\* The units of a function with natural values are finitely many.
LEMMA UnitsFinite ==
    ASSUME NEW S, IsFiniteSet(S), NEW f, \A x \in S : f[x] \in Nat
    PROVE  IsFiniteSet(Units(S, f))
<1> DEFINE column == [x \in S |-> {x} \X (1..f[x])]
           T == {{x} \X (1..f[x]) : x \in S}
<1>1. column \in Surjection(S, T)
  BY DEF Surjection
<1>2. IsFiniteSet(T)
  BY <1>1, FS_Surjection
<1>3. \A t \in T : IsFiniteSet(t)
  <2> SUFFICES ASSUME NEW x \in S PROVE IsFiniteSet({x} \X (1..f[x]))
    OBVIOUS
  <2>1. IsFiniteSet({x}) /\ IsFiniteSet(1..f[x])
    BY FS_Singleton, FirstNumbers
  <2> QED
    BY <2>1, FS_Product
<1> QED
  BY <1>2, <1>3, FS_UNION DEF Units

\* Giving the same value v to the elements of A, which had none, adds v for each.
LEMMA UnitsAdded ==
    ASSUME NEW S, IsFiniteSet(S), NEW f, \A x \in S : f[x] \in Nat,
           NEW A \in SUBSET S, NEW v \in Nat, NEW g,
           \A x \in A : f[x] = 0 /\ g[x] = v,
           \A x \in S \ A : g[x] = f[x]
    PROVE  Sum(S, g) = Sum(S, f) + Cardinality(A) * v
<1>1. Units(S, g) = Units(S, f) \cup (A \X (1..v))
  <2>1. \A x \in A : 1..f[x] = {} /\ 1..g[x] = 1..v
    OBVIOUS
  <2>2. \A x \in S \ A : 1..g[x] = 1..f[x]
    OBVIOUS
  <2> QED
    BY <2>1, <2>2 DEF Units
<1>2. Units(S, f) \cap (A \X (1..v)) = {}
  <2>1. \A x \in A : 1..f[x] = {}
    OBVIOUS
  <2> QED
    BY <2>1 DEF Units
<1>3. IsFiniteSet(A) /\ IsFiniteSet(1..v) /\ Cardinality(1..v) = v
  BY FS_Subset, FirstNumbers
<1>4. /\ IsFiniteSet(A \X (1..v))
      /\ Cardinality(A \X (1..v)) = Cardinality(A) * v
  BY <1>3, FS_Product
<1>5. IsFiniteSet(Units(S, f))
  BY UnitsFinite
<1>6. Cardinality(Units(S, f) \cup (A \X (1..v)))
        = Cardinality(Units(S, f)) + Cardinality(A \X (1..v)) - Cardinality({})
  BY <1>2, <1>4, <1>5, FS_Union
<1>7. Cardinality({}) = 0 /\ Cardinality(Units(S, f)) \in Nat /\ Cardinality(A) \in Nat
  BY <1>3, <1>5, FS_EmptySet, FS_CardinalityType
<1>8. Cardinality(A) * v \in Nat
  BY <1>7
<1> HIDE DEF Units
<1> QED
  BY <1>1, <1>4, <1>6, <1>7, <1>8 DEF Sum

\* So many times a quotient's divisor is no more than what was divided.
LEMMA QuotientFits ==
    ASSUME NEW b \in Nat, NEW L \in Nat \ {0}, NEW c \in Nat, c <= b \div L
    PROVE  c * L <= b
<1> DEFINE q == b \div L
<1>1. q \in Nat /\ q * L + (b % L) = b /\ b % L \in Nat
  OBVIOUS
<1> HIDE DEF q
<1>2. c <= q
  BY DEF q
<1>3. c * L <= q * L
  BY <1>1, <1>2
<1>4. q * L <= b
  BY <1>1
<1> QED
  BY <1>3, <1>4, <1>1
\* A quotient is zero exactly when the divisor is greater than what is divided.
LEMMA QuotientPositive ==
    ASSUME NEW b \in Nat, NEW L \in Nat \ {0}
    PROVE  /\ b \div L \in Nat
           /\ L <= b => b \div L >= 1
           /\ L > b => b \div L = 0
<1> DEFINE q == b \div L
           r == b % L
<1>1. q \in Nat /\ r \in 0..(L - 1) /\ b = q * L + r
  OBVIOUS
<1> HIDE DEF q, r
<1>2. ASSUME q = 0 PROVE b < L
  BY <1>1, <1>2
<1>3. ASSUME q >= 1 PROVE L <= b
  <2>1. q * L >= 1 * L
    BY <1>1, <1>3
  <2> QED
    BY <1>1, <2>1
<1>4. q = 0 \/ q >= 1
  BY <1>1
<1>5. /\ q \in Nat
      /\ L <= b => q >= 1
      /\ L > b => q = 0
  BY <1>1, <1>2, <1>3, <1>4
<1> QED
  BY <1>5 DEF q

\* The greater of one and a natural.
LEMMA AtLeastOne ==
    ASSUME NEW x \in Nat
    PROVE  /\ Max({1, x}) \in {1, x}
           /\ Max({1, x}) >= 1 /\ Max({1, x}) >= x
<1>1. {1, x} \in SUBSET Int /\ IsFiniteSet({1, x}) /\ {1, x} # {}
  <2>1. IsFiniteSet({1} \cup {x})
    BY FS_Singleton, FS_AddElement
  <2>2. {1} \cup {x} = {1, x}
    OBVIOUS
  <2> QED
    BY <2>1, <2>2
<1>2. Max({1, x}) \in {1, x} /\ \A y \in {1, x} : y <= Max({1, x})
  BY <1>1, Greatest
<1> QED
  BY <1>2

\* No request of the batch asks for more than the largest limit, and the pool has no
\* more threads than the memory budget has room for such requests; but it has one.
LEMMA WorkersFit ==
    ASSUME BatchInvariant
    PROVE  /\ LargestLimit \in Nat
           /\ \A k \in Groups \ Malformed : MemoryOf[k] <= LargestLimit
           /\ BatchWorkerCount \in Nat
           /\ LargestLimit <= MemoryBudget => BatchWorkerCount * LargestLimit <= MemoryBudget
           /\ LargestLimit > MemoryBudget => BatchWorkerCount = 1
<1>1. PICK n \in 1..MaxItems : items \in [1..n -> Keys]
  BY DEF BatchInvariant
<1> DEFINE asking == Groups \ Malformed
           asked == {MemoryOf[k] : k \in asking}
           limits == asked \cup {DefaultMemory}
<1>2. asking \in SUBSET Keys
  BY <1>1 DEF Groups, Indices
<1>3. /\ limits \in SUBSET Int /\ IsFiniteSet(limits)
      /\ LargestLimit = Max(limits)
      /\ DefaultMemory \in limits
      /\ limits \in SUBSET Nat
  <2>1. IsFiniteSet(asking)
    BY <1>2, FS_Subset
  <2>2. [k \in asking |-> MemoryOf[k]] \in Surjection(asking, asked)
    BY DEF Surjection
  <2>3. IsFiniteSet(asked)
    BY <2>1, <2>2, FS_Surjection
  <2>4. IsFiniteSet(limits)
    BY <2>3, FS_AddElement
  <2>5. asked \in SUBSET Nat /\ DefaultMemory \in Nat
    BY <1>2
  <2> QED
    BY <2>4, <2>5 DEF LargestLimit
<1>4. LargestLimit \in limits /\ \A y \in limits : y <= LargestLimit
  BY <1>3, Greatest
<1>5. LargestLimit \in Nat /\ DefaultMemory <= LargestLimit /\ DefaultMemory \in Nat \ {0}
  BY <1>3, <1>4
<1>6. LargestLimit \in Nat \ {0}
  BY <1>5
<1>7. \A k \in Groups \ Malformed : MemoryOf[k] <= LargestLimit
  BY <1>4
<1> DEFINE q == MemoryBudget \div LargestLimit
           room == Max({1, q})
           length == Len(items)
           m == Min({MaximumBatchActive, length, room})
           w == Max({1, m})
<1>8. BatchWorkerCount = w
  BY DEF BatchWorkerCount
<1>9. length \in Nat
  BY <1>1
<1>10. /\ q \in Nat
       /\ LargestLimit <= MemoryBudget => q >= 1
       /\ LargestLimit > MemoryBudget => q = 0
  BY <1>6, QuotientPositive
<1> HIDE DEF q, length
<1>11. room \in {1, q} /\ room >= 1 /\ room >= q
  BY <1>10, AtLeastOne
<1> HIDE DEF room
<1>12. m \in Nat /\ m <= room
  <2>1. /\ {MaximumBatchActive, length, room} \in SUBSET Nat
        /\ {MaximumBatchActive, length, room} # {}
    BY <1>9, <1>10, <1>11
  <2>2. /\ m \in {MaximumBatchActive, length, room}
        /\ \A y \in {MaximumBatchActive, length, room} : m <= y
    BY <2>1, Least
  <2> HIDE DEF m
  <2> QED
    BY <2>1, <2>2
<1> HIDE DEF m
<1>13. w \in {1, m} /\ w >= 1
  BY <1>12, AtLeastOne
<1> HIDE DEF w
<1>14. w \in Nat
  BY <1>12, <1>13
<1>15. ASSUME LargestLimit <= MemoryBudget PROVE w * LargestLimit <= MemoryBudget
  <2>1. w <= q
    BY <1>10, <1>11, <1>12, <1>13, <1>15
  <2>2. w <= MemoryBudget \div LargestLimit
    BY <2>1 DEF q
  <2>3. MemoryBudget \in Nat
    OBVIOUS
  <2> QED
    BY <1>6, <1>14, <2>2, <2>3, QuotientFits
<1>16. ASSUME LargestLimit > MemoryBudget PROVE w = 1
  BY <1>10, <1>11, <1>12, <1>13, <1>16
<1> QED
  BY <1>5, <1>7, <1>8, <1>14, <1>15, <1>16

\* The running items of a batch are finitely many.
LEMMA RunningFinite ==
    IsFiniteSet(Running) /\ Cardinality(Running) \in Nat
<1>1. Running \in SUBSET Keys
  BY DEF Running
<1> QED
  BY <1>1, FS_Subset, FS_CardinalityType

\* So many threads, each with a valid item, fit the budget.
LEMMA BudgetHolds ==
    ASSUME LimitsInvariant
    PROVE  RunningFitsBudget
<1> DEFINE L == IF LargestLimit <= MemoryBudget THEN LargestLimit ELSE MemoryBudget
           c == Cardinality(Running)
           w == BatchWorkerCount
<1>1. /\ LargestLimit \in Nat
      /\ \A k \in Groups \ Malformed : MemoryOf[k] <= LargestLimit
      /\ w \in Nat
      /\ LargestLimit <= MemoryBudget => w * LargestLimit <= MemoryBudget
      /\ LargestLimit > MemoryBudget => w = 1
  BY WorkersFit DEF LimitsInvariant
<1>2. MemoryBudget \in Nat /\ L \in Nat
  BY <1>1
<1>3. c \in Nat /\ IsFiniteSet(Running) /\ c <= w
  BY RunningFinite DEF LimitsInvariant, ThreadsAccounted
<1>4. \A k \in Running : MemoryOf[k] \in 0..L
  <2> SUFFICES ASSUME NEW k \in Running PROVE MemoryOf[k] \in 0..L
    OBVIOUS
  <2>1. k \in Groups /\ k \notin Malformed /\ MemoryOf[k] \in 1..MemoryBudget
    BY DEF LimitsInvariant, ThreadsAccounted, Running, Valid
  <2>2. MemoryOf[k] <= LargestLimit
    BY <1>1, <2>1
  <2> QED
    BY <1>1, <1>2, <2>1, <2>2
<1>5. Sum(Running, MemoryOf) <= c * L /\ IsFiniteSet(Units(Running, MemoryOf))
  BY <1>2, <1>3, <1>4, UnitsBound
<1>6. w * L <= MemoryBudget
  BY <1>1, <1>2
<1>7. Sum(Running, MemoryOf) \in Nat
  BY <1>5, FS_CardinalityType DEF Sum
<1> HIDE DEF c, w, L
<1>8. c * L <= w * L /\ c * L \in Nat /\ w * L \in Nat
  BY <1>1, <1>2, <1>3
<1> DEFINE total == Sum(Running, MemoryOf)
           p == c * L
           s == w * L
<1>9. total \in Nat /\ total <= p /\ p \in Nat /\ p <= s /\ s \in Nat /\ s <= MemoryBudget
  BY <1>5, <1>6, <1>7, <1>8
<1> HIDE DEF total, p, s
<1>10. total <= MemoryBudget
  BY <1>2, <1>9
<1> QED
  BY <1>10 DEF RunningFitsBudget, total
\* A step that starts nothing and leaves the batch as it is keeps the threads.
LEMMA ThreadsKept ==
    ASSUME ThreadsAccounted, items' = items, Running' \subseteq Running,
           \A k \in Keys : future'[k] # "none" => future[k] # "none",
           BatchInvariant
    PROVE  ThreadsAccounted'
<1>1. /\ BatchWorkerCount' = BatchWorkerCount
      /\ Groups' = Groups
      /\ \A k : Valid(k)' <=> Valid(k)
  BY DEF BatchWorkerCount, LargestLimit, Groups, Indices, Valid
<1>2. Cardinality(Running') <= Cardinality(Running) /\ Cardinality(Running') \in Nat
  BY RunningFinite, FS_Subset, FS_CardinalityType
<1>3. BatchWorkerCount \in Nat
  BY WorkersFit
<1>4. Cardinality(Running') <= BatchWorkerCount
  BY <1>2, <1>3, RunningFinite DEF ThreadsAccounted
<1> QED
  BY <1>1, <1>4 DEF ThreadsAccounted

\* A thread starts an item only when the pool has a thread for it.
LEMMA ThreadStarts ==
    ASSUME BatchInvariant, ThreadsAccounted, NEW k \in Keys, StartItem(k)
    PROVE  ThreadsAccounted'
<1>1. /\ items' = items /\ future[k] = "queued"
      /\ future' = [future EXCEPT ![k] = "running"]
      /\ Cardinality(Running) < BatchWorkerCount
      /\ Valid(k)
  BY DEF StartItem, NextQueued, Refused
<1>2. /\ BatchWorkerCount' = BatchWorkerCount
      /\ Groups' = Groups
      /\ \A g : Valid(g)' <=> Valid(g)
  BY <1>1 DEF BatchWorkerCount, LargestLimit, Groups, Indices, Valid
<1>3. Running' = Running \cup {k} /\ k \notin Running
  BY <1>1 DEF Running, BatchInvariant, TypeOK
<1>4. Cardinality(Running') = Cardinality(Running) + 1
  BY <1>3, RunningFinite, FS_AddElement
<1>5. BatchWorkerCount \in Nat
  BY WorkersFit
<1>6. Cardinality(Running') <= BatchWorkerCount
  BY <1>1, <1>4, <1>5, RunningFinite
<1>7. \A g \in Keys : future'[g] # "none" => g \in Groups
  BY <1>1 DEF ThreadsAccounted, BatchInvariant, TypeOK
<1>8. \A g \in Running' : Valid(g)
  BY <1>1, <1>3 DEF ThreadsAccounted
<1> QED
  BY <1>2, <1>6, <1>7, <1>8 DEF ThreadsAccounted

\* A step that stores no result keeps the account of the bytes.
LEMMA BytesKept ==
    ASSUME BatchInvariant, BytesAccounted,
           UNCHANGED <<items, results_by_index, encoded_bytes, aborted>>,
           \A k \in Keys : future[k] = "collected" => future'[k] = "collected",
           phase' = "collect" => phase \in {"check", "collect"},
           answer' \in {"ok", "partial"} => FitsWithEnvelope
    PROVE  BytesAccounted'
<1>1. /\ Sum(Indices, StoredSize)' = Sum(Indices, StoredSize)
      /\ Indices' = Indices
      /\ FitsWithEnvelope' <=> FitsWithEnvelope
  BY DEF Sum, Units, Indices, StoredSize, FitsWithEnvelope
<1>2. \A i \in Indices : items[i] \in Keys
  BY DEF BatchInvariant, Indices
<1>3. phase' = "collect" => ~aborted'
  BY DEF BytesAccounted, BatchInvariant, AnswerInPlace
<1> QED
  BY <1>1, <1>2, <1>3 DEF BytesAccounted

\* Collecting a group charges exactly the results it stores, and aborts the batch
\* only past the limit.
LEMMA BytesStep ==
    ASSUME BatchInvariant, BytesAccounted, NEW k \in Keys, Collect(k)
    PROVE  BytesAccounted'
<1> DEFINE A == {j \in IndicesOf(k) : j <= LastStored(k)}
           v == representative[k].size
           c == Cardinality(A)
           S == Indices
           f == StoredSize
           g == StoredSize'
<1>1. PICK n \in 1..MaxItems : items \in [1..n -> Keys]
  BY DEF BatchInvariant
<1>2. IsFiniteSet(S) /\ Indices' = S /\ S = 1..n
  BY <1>1, FirstNumbers DEF Indices, Collect
<1>3. A \in SUBSET S /\ IsFiniteSet(A) /\ c \in Nat
  <2>1. A \in SUBSET S
    BY DEF IndicesOf
  <2> QED
    BY <1>2, <2>1, FS_Subset, FS_CardinalityType
<1>4. \A r \in Results \cup {NoResult} : r.size \in Nat
  <2>1. Sizes \subseteq Nat
    OBVIOUS
  <2>2. \A r \in Results : r.size \in Nat
    BY <2>1 DEF Results
  <2> QED
    BY <2>2 DEF NoResult
<1>5. v \in Nat
  BY <1>4 DEF BatchInvariant, TypeOK
<1>6. results_by_index \in [S -> Results \cup {NoResult}]
  BY DEF BatchInvariant, TypeOK
<1>7. \A x \in S : f[x] \in Nat
  BY <1>4, <1>6 DEF StoredSize
<1>8. /\ future[k] = "done" /\ phase = "collect" /\ ~aborted
      /\ answer' = answer /\ answer = "none" /\ items' = items
      /\ encoded_bytes' = Charged(k, LastStored(k))
      /\ results_by_index' = [i \in Indices |-> IF i \in IndicesOf(k) /\ i <= LastStored(k)
                                                THEN representative[k] ELSE results_by_index[i]]
  BY DEF Collect, BytesAccounted, BatchInvariant, AnswerInPlace
<1>9. \A x \in A : f[x] = 0 /\ g[x] = v
  <2> SUFFICES ASSUME NEW x \in A PROVE f[x] = 0 /\ g[x] = v
    OBVIOUS
  <2>1. x \in S /\ items[x] = k
    BY <1>3 DEF IndicesOf
  <2>2. results_by_index[x] = NoResult
    BY <1>8, <2>1 DEF BytesAccounted
  <2>3. results_by_index'[x] = representative[k]
    BY <1>8, <2>1
  <2> QED
    BY <1>2, <2>1, <2>2, <2>3 DEF StoredSize, NoResult
<1>10. \A x \in S \ A : g[x] = f[x]
  <2> SUFFICES ASSUME NEW x \in S \ A PROVE g[x] = f[x]
    OBVIOUS
  <2>1. results_by_index'[x] = results_by_index[x]
    BY <1>8
  <2> QED
    BY <1>2, <2>1 DEF StoredSize
<1> HIDE DEF A, v, S, f, g
<1>11. Sum(S, g) = Sum(S, f) + c * v
  <2>1. IsFiniteSet(S)
    BY <1>2
  <2>2. A \in SUBSET S
    BY <1>3
  <2>3. \A F, G : /\ \A x \in S : F[x] \in Nat
                  /\ \A x \in A : F[x] = 0 /\ G[x] = v
                  /\ \A x \in S \ A : G[x] = F[x]
                  => Sum(S, G) = Sum(S, F) + Cardinality(A) * v
    <3> SUFFICES ASSUME NEW F, NEW G, \A x \in S : F[x] \in Nat,
                        \A x \in A : F[x] = 0 /\ G[x] = v,
                        \A x \in S \ A : G[x] = F[x]
                 PROVE  Sum(S, G) = Sum(S, F) + Cardinality(A) * v
      OBVIOUS
    <3> QED
      BY <1>5, <2>1, <2>2, UnitsAdded
  <2> QED
    BY <1>7, <1>9, <1>10, <2>3
<1>12. encoded_bytes' = encoded_bytes + v * c
  BY <1>8 DEF Charged, v, A
<1>13. encoded_bytes = Sum(S, f)
  BY DEF BytesAccounted, S, f
<1>14. encoded_bytes' = Sum(S, g)
  <2>1. c * v = v * c
    BY <1>3, <1>5
  <2> QED
    BY <1>11, <1>12, <1>13, <2>1
<1>15. (encoded_bytes = Sum(Indices, StoredSize))'
  BY <1>2, <1>14 DEF Sum, Units, S, g, StoredSize
<1>16. \A i \in Indices : results_by_index'[i] # NoResult => future'[items[i]] = "collected"
  <2>0. \A i \in Indices : items[i] \in Keys
    BY DEF BatchInvariant, Indices
  <2>1. future'[k] = "collected"
        /\ \A h \in Keys : future[h] = "collected" => future'[h] = "collected"
    BY DEF Collect, CancelPending, BatchInvariant, TypeOK
  <2> SUFFICES ASSUME NEW i \in Indices, results_by_index'[i] # NoResult
               PROVE  future'[items[i]] = "collected"
    OBVIOUS
  <2>2. CASE i \in IndicesOf(k)
    BY <2>1, <2>2 DEF IndicesOf
  <2>3. CASE i \notin IndicesOf(k)
    BY <1>8, <2>0, <2>1, <2>3 DEF BytesAccounted
  <2> QED
    BY <2>2, <2>3
<1>17. aborted' => encoded_bytes' > MaxOutput /\ phase' # "collect"
  <2>1. CASE Overflows(k) # {}
    <3>1. Overflows(k) \in SUBSET Nat
      BY <1>1 DEF Overflows, IndicesOf, Indices
    <3>2. LastStored(k) \in Overflows(k)
      BY <2>1, <3>1, Least DEF LastStored
    <3>3. Charged(k, LastStored(k)) > MaxOutput
      BY <3>2 DEF Overflows
    <3> QED
      BY <1>8, <2>1, <3>3 DEF Collect
  <2>2. CASE Overflows(k) = {}
    BY <1>8, <2>2 DEF Collect
  <2> QED
    BY <2>1, <2>2
<1>18. Indices' = Indices /\ items' = items
  BY <1>8 DEF Indices
<1> QED
  BY <1>8, <1>15, <1>16, <1>17, <1>18 DEF BytesAccounted

\* The limits' invariant holds at first and every step keeps it.
LEMMA LimitsInductive ==
    /\ Init => LimitsInvariant
    /\ LimitsInvariant /\ [Next]_vars => LimitsInvariant'
<1>1. ASSUME Init PROVE LimitsInvariant
  <2>1. BatchInvariant
    BY <1>1, BatchInductive
  <2>2. PICK n \in 1..MaxItems : items \in [1..n -> Keys]
    BY <2>1 DEF BatchInvariant
  <2>3. \A i \in Indices : StoredSize[i] = 0 /\ results_by_index[i] = NoResult
    BY <1>1 DEF Init, StoredSize, NoResult
  <2>4. Units(Indices, StoredSize) = {}
    <3>1. \A i \in Indices : 1..StoredSize[i] = {}
      BY <2>3
    <3> QED
      BY <3>1 DEF Units
  <2>5. Sum(Indices, StoredSize) = 0
    BY <2>4, FS_EmptySet DEF Sum
  <2>6. BytesAccounted
    BY <1>1, <2>3, <2>5 DEF BytesAccounted, Init
  <2>7. Running = {} /\ Cardinality(Running) = 0
    <3>1. Running = {}
      BY <1>1 DEF Init, Running
    <3> QED
      BY <3>1, FS_EmptySet
  <2>8. ThreadsAccounted
    BY <1>1, <2>1, <2>7, WorkersFit DEF ThreadsAccounted, Init
  <2> QED
    BY <2>1, <2>6, <2>8 DEF LimitsInvariant
<1>2. ASSUME LimitsInvariant, [Next]_vars PROVE LimitsInvariant'
  <2>0. BatchInvariant /\ BytesAccounted /\ ThreadsAccounted
    BY <1>2 DEF LimitsInvariant
  <2>1. BatchInvariant'
    BY <1>2, <2>0, BatchInductive
  <2>2. ASSUME Reject PROVE BytesAccounted' /\ ThreadsAccounted'
    <3>1. /\ UNCHANGED <<items, future, results_by_index, encoded_bytes, aborted>>
          /\ phase' = "returned" /\ answer' \notin {"ok", "partial"}
      BY <2>2 DEF Reject, Answer
    <3>2. Running' \subseteq Running
      BY <3>1 DEF Running
    <3> QED
      BY <2>0, <3>1, <3>2, BytesKept, ThreadsKept
  <2>3. ASSUME Submit PROVE BytesAccounted' /\ ThreadsAccounted'
    <3>1. /\ UNCHANGED <<items, results_by_index, encoded_bytes, aborted, answer>>
          /\ phase = "check" /\ answer = "none" /\ Groups' = Groups
          /\ future' = [g \in Keys |-> IF g \in Groups THEN "queued" ELSE "none"]
      BY <2>0, <2>3 DEF Submit, BatchInvariant, AnswerInPlace, Groups, Indices
    <3>2. \A g \in Keys : future[g] # "collected"
      BY <2>0, <3>1 DEF BatchInvariant, AnswerInPlace
    <3>3. BytesAccounted'
      BY <2>0, <3>1, <3>2, BytesKept
    <3>4. Running' = {} /\ Cardinality(Running') = 0
      <4>1. Running' = {}
        BY <3>1 DEF Running
      <4> QED
        BY <4>1, FS_EmptySet
    <3>5. BatchWorkerCount' = BatchWorkerCount /\ BatchWorkerCount \in Nat
      <4>1. BatchWorkerCount' = BatchWorkerCount
        BY <3>1 DEF BatchWorkerCount, LargestLimit, Groups, Indices
      <4> QED
        BY <2>0, <4>1, WorkersFit
    <3>6. \A g \in Keys : future'[g] # "none" => g \in Groups
      BY <3>1
    <3> QED
      BY <3>1, <3>3, <3>4, <3>5, <3>6 DEF ThreadsAccounted
  <2>4. ASSUME Return PROVE BytesAccounted' /\ ThreadsAccounted'
    <3>1. /\ UNCHANGED <<items, future, results_by_index, encoded_bytes, aborted>>
          /\ phase' = "returned"
          /\ answer' \in {"ok", "partial"} => FitsWithEnvelope
      BY <2>4 DEF Return, Answer
    <3>2. Running' \subseteq Running
      BY <3>1 DEF Running
    <3> QED
      BY <2>0, <3>1, <3>2, BytesKept, ThreadsKept
  <2>5. ASSUME NEW k \in Keys, Collect(k) PROVE BytesAccounted' /\ ThreadsAccounted'
    <3>1. /\ items' = items /\ future[k] = "done"
          /\ \A g \in Keys : future'[g] \in {"collected", "cancelled", future[g]}
          /\ \A g \in Keys : future'[g] # "none" => future[g] # "none"
      BY <2>0, <2>5 DEF Collect, CancelPending, BatchInvariant, TypeOK
    <3>2. Running' \subseteq Running
      BY <3>1 DEF Running
    <3> QED
      BY <2>0, <2>5, <3>1, <3>2, BytesStep, ThreadsKept
  <2>6. ASSUME NEW k \in Keys, RefuseItem(k) \/ StartItem(k) \/ FinishItem(k)
        PROVE  BytesAccounted' /\ ThreadsAccounted'
    <3>1. /\ UNCHANGED <<items, phase, results_by_index, encoded_bytes, aborted, answer>>
          /\ future[k] \in {"queued", "running"}
          /\ \A g \in Keys : g # k => future'[g] = future[g]
      BY <2>0, <2>6 DEF RefuseItem, StartItem, FinishItem, NextQueued, Complete,
                        BatchInvariant, TypeOK
    <3>2. answer' \in {"ok", "partial"} => FitsWithEnvelope
      BY <2>0, <3>1 DEF BytesAccounted
    <3>3. BytesAccounted'
      BY <2>0, <3>1, <3>2, BytesKept
    <3>4. CASE StartItem(k)
      BY <2>0, <3>3, <3>4, ThreadStarts
    <3>5. CASE RefuseItem(k) \/ FinishItem(k)
      <4>1. future' = [future EXCEPT ![k] = "done"]
        BY <3>5 DEF RefuseItem, FinishItem, Complete
      <4>2. Running' \subseteq Running
        BY <2>0, <4>1 DEF Running, BatchInvariant, TypeOK
      <4>3. \A g \in Keys : future'[g] # "none" => future[g] # "none"
        BY <3>1
      <4> QED
        BY <2>0, <3>1, <3>3, <4>2, <4>3, ThreadsKept
    <3> QED
      BY <2>6, <3>4, <3>5
  <2>7. ASSUME CallerCancels \/ DeadlinePasses \/ UNCHANGED vars
        PROVE  BytesAccounted' /\ ThreadsAccounted'
    <3>1. UNCHANGED <<items, phase, future, results_by_index, encoded_bytes, aborted, answer>>
      BY <2>7 DEF CallerCancels, DeadlinePasses, vars
    <3>2. answer' \in {"ok", "partial"} => FitsWithEnvelope
      BY <2>0, <3>1 DEF BytesAccounted
    <3>3. Running' \subseteq Running
      BY <3>1 DEF Running
    <3> QED
      BY <2>0, <3>1, <3>2, <3>3, BytesKept, ThreadsKept
  <2>8. BytesAccounted' /\ ThreadsAccounted'
    BY <1>2, <2>2, <2>3, <2>4, <2>5, <2>6, <2>7 DEF Next, Collector, PoolThread
  <2> QED
    BY <2>1, <2>8 DEF LimitsInvariant
<1> QED
  BY <1>1, <1>2

\* For any items, sizes and limits, in any order of completion: a batch answered with
\* results fits the output limit with every logical result charged, one refused while
\* collecting did not, and the items that run together fit the memory budget
\* (encoded_bytes of run_batch, batch_worker_count).
THEOREM BatchStaysWithinLimits == Spec => []BatchWithinLimits
<1>1. LimitsInvariant => BatchWithinLimits
  <2> SUFFICES ASSUME LimitsInvariant PROVE BatchWithinLimits
    OBVIOUS
  <2>1. RunningFitsBudget
    BY BudgetHolds
  <2>2. OutputLimitExact
    BY DEF OutputLimitExact, LimitsInvariant, BytesAccounted, FitsWithEnvelope
  <2> QED
    BY <2>1, <2>2 DEF BatchWithinLimits
<1> QED
  BY <1>1, LimitsInductive, PTL DEF Spec
=============================================================================
