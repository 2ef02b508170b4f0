---------------------------- MODULE CurrencyRates ----------------------------
(***************************************************************************)
(* ECBRateService of src/src/math_anchor/currency.py: conversions served   *)
(* from a cache file, with one coalesced refresh at a time.  app_runtime   *)
(* runs conversions on two threads that share the service.                 *)
(*                                                                         *)
(* The cache is read before the lock is taken, so what a conversion        *)
(* decides on may be stale; reading (Load) and deciding (Decide) are       *)
(* separate actions.  Fetching, saving and the final publication are       *)
(* separate too.  A snapshot is its three times: checked_at stands for the *)
(* rates, expires_at, next_refresh_attempt_at.  The wall clock moves in    *)
(* ticks; the 4 s limit of a wait is the flag timed_out.                   *)
(***************************************************************************)
EXTENDS Integers, FiniteSets

CONSTANTS
    Threads,
    MaxConversions,      \* bound on the number of conversions
    MaxTime,             \* bound on the clock
    MaxAge,              \* CACHE_MAX_AGE
    RetryInterval,       \* REFRESH_RETRY_INTERVAL
    StorageMayFail       \* whether the cache file may be unreadable or unwritable

ASSUME RatesAssumption ==
    /\ IsFiniteSet(Threads)
    /\ MaxConversions \in Nat
    /\ MaxTime \in Nat
    /\ MaxAge \in Nat
    /\ RetryInterval \in Nat \ {0}
    /\ StorageMayFail \in BOOLEAN

VARIABLES
    clock, cache,
    refreshing, refresh_generation, last_refresh_succeeded,
    next_refresh_attempt_at,
    pc,                  \* where each conversion is
    call,                \* its now, force_refresh, coalesced, wait_started_generation,
                         \* timed_out, and the number of successes when it began
    cached,              \* the cache it has read
    fresh,               \* the snapshot it is about to save
    succeeded,           \* refresh_succeeded
    result,              \* what it returned
    successes,           \* refreshes that have succeeded
    conversions

serviceVars == <<refreshing, refresh_generation, last_refresh_succeeded,
                 next_refresh_attempt_at>>
callVars == <<pc, call, cached, fresh, succeeded, result>>
ratesVars == <<clock, cache, serviceVars, callVars, successes, conversions>>

Never == -1
Snapshot(checked, expires, next) ==
    [checked_at |-> checked, expires_at |-> expires, next_refresh_attempt_at |-> next]
NoSnapshot == Snapshot(Never, Never, Never)
Times == Nat \cup {Never}
Snapshots == [checked_at : Times, expires_at : Times, next_refresh_attempt_at : Times]
NewCall(now, force, seen) ==
    [now |-> now, force |-> force, coalesced |-> FALSE, started |-> Never,
     timed_out |-> FALSE, seen |-> seen]
NoCall == NewCall(0, FALSE, 0)
Result(snapshot, fetched, failed, deferred) ==
    [snapshot |-> snapshot, fetched |-> fetched, refresh_failed |-> failed,
     refresh_deferred |-> deferred]
Unavailable == Result(NoSnapshot, FALSE, FALSE, FALSE)    \* E_PROVIDER

Leading == {c \in Threads : pc[c] \in {"fetch", "save", "publish"}}

Calls == [now : Nat, force : BOOLEAN, coalesced : BOOLEAN, started : Times, timed_out : BOOLEAN, seen : Nat]
RateResults == [snapshot : Snapshots, fetched : BOOLEAN, refresh_failed : BOOLEAN, refresh_deferred : BOOLEAN]
Places == {"idle", "load", "decide", "waiting", "fetch", "save", "publish"}

RatesTyped ==
    /\ clock \in 0..MaxTime
    /\ cache \in Snapshots
    /\ refreshing \in BOOLEAN
    /\ refresh_generation \in Nat
    /\ last_refresh_succeeded \in BOOLEAN
    /\ next_refresh_attempt_at \in Times
    /\ pc \in [Threads -> Places]
    /\ call \in [Threads -> Calls]
    /\ cached \in [Threads -> Snapshots]
    /\ fresh \in [Threads -> Snapshots]
    /\ succeeded \in [Threads -> BOOLEAN]
    /\ result \in [Threads -> RateResults]
    /\ successes \in Nat
    /\ conversions \in Nat

\* One type invariant.  The flag is up exactly while one conversion refreshes.
RatesTypeOK == RatesTyped /\ Cardinality(Leading) = IF refreshing THEN 1 ELSE 0

RatesInit ==
    /\ clock = 0
    /\ cache = NoSnapshot
    /\ refreshing = FALSE
    /\ refresh_generation = 0
    /\ last_refresh_succeeded = FALSE     \* read only after a refresh completed
    /\ next_refresh_attempt_at = Never
    /\ pc = [c \in Threads |-> "idle"]
    /\ successes = 0
    /\ call = [c \in Threads |-> NoCall]
    /\ cached = [c \in Threads |-> NoSnapshot]
    /\ fresh = [c \in Threads |-> NoSnapshot]
    /\ succeeded = [c \in Threads |-> FALSE]
    /\ result = [c \in Threads |-> Unavailable]
    /\ conversions = 0

----------------------------------------------------------------------------
Goto(c, place) == pc' = [pc EXCEPT ![c] = place]

\* The conversion answers; its local variables are gone.
Leave(c, r) ==
    /\ Goto(c, "idle")
    /\ result' = [result EXCEPT ![c] = r]
    /\ call' = [call EXCEPT ![c] = NoCall]
    /\ cached' = [cached EXCEPT ![c] = NoSnapshot]
    /\ fresh' = [fresh EXCEPT ![c] = NoSnapshot]
    /\ succeeded' = [succeeded EXCEPT ![c] = FALSE]

\* convert(): the clock is read once.
Begin(c, force) ==
    /\ pc[c] = "idle"
    /\ conversions < MaxConversions
    /\ conversions' = conversions + 1
    /\ result' = [result EXCEPT ![c] = Unavailable]
    /\ call' = [call EXCEPT ![c] = NewCall(clock, force, successes)]
    /\ Goto(c, "load")
    /\ UNCHANGED <<clock, cache, serviceVars, cached, fresh, succeeded,
                   successes>>

\* _load_cache(): outside the lock; an unreadable file counts as none.
Load(c) ==
    /\ pc[c] = "load"
    /\ \E found \in {cache} \cup (IF StorageMayFail THEN {NoSnapshot} ELSE {}) :
          cached' = [cached EXCEPT ![c] = found]
    /\ Goto(c, "decide")
    /\ UNCHANGED <<clock, cache, serviceVars, call, fresh, succeeded, result,
                   successes, conversions>>

HasCache(c) == cached[c] # NoSnapshot

\* The first statement under the lock.
JoinAttempt(c) ==
    next_refresh_attempt_at' =
        IF HasCache(c) /\ cached[c].next_refresh_attempt_at > next_refresh_attempt_at
        THEN cached[c].next_refresh_attempt_at ELSE next_refresh_attempt_at

Served(c, r) == Leave(c, r) /\ UNCHANGED refreshing

\* Mutant: any wake-up is taken for the end of the refresh.
MustWaitOnce(c) == refreshing /\ ~call[c].coalesced

MustWait(c) == refreshing

WaitTimedOut(c) ==
    /\ MustWait(c)
    /\ call[c].timed_out
    /\ Served(c, IF HasCache(c) THEN Result(cached[c], FALSE, TRUE, TRUE)
                 ELSE Unavailable)

Wait(c) ==
    /\ MustWait(c)
    /\ ~call[c].timed_out
    /\ call' = [call EXCEPT ![c] = [call[c] EXCEPT
          !.coalesced = TRUE,
          !.started = IF call[c].coalesced THEN @ ELSE refresh_generation]]
    /\ Goto(c, "waiting")
    /\ UNCHANGED <<refreshing, cached, fresh, succeeded, result>>

\* The leader has finished; its outcome is shared.
ShareRefresh(c) ==
    LET completed == refresh_generation > call[c].started
        ok == completed /\ last_refresh_succeeded
        failed == completed /\ ~last_refresh_succeeded
    IN  /\ ~MustWait(c)
        /\ HasCache(c)
        /\ call[c].coalesced
        /\ Served(c, Result(cached[c], FALSE, failed,
                            /\ ~ok
                            /\ ~failed
                            /\ call[c].now < cached[c].next_refresh_attempt_at))

Decides(c) == ~MustWait(c) /\ ~(HasCache(c) /\ call[c].coalesced)

StillFresh(c) ==
    HasCache(c) /\ ~call[c].force /\ call[c].now < cached[c].expires_at

UseCache(c) ==
    /\ Decides(c)
    /\ StillFresh(c)
    /\ Served(c, Result(cached[c], FALSE, FALSE, FALSE))

\* next_attempt: of the cache that was read, or else of the service.
NextAttempt(c) ==
    IF HasCache(c) THEN cached[c].next_refresh_attempt_at ELSE next_refresh_attempt_at

TooEarly(c) == ~call[c].force /\ call[c].now < NextAttempt(c)

Defer(c) ==
    /\ Decides(c)
    /\ ~StillFresh(c)
    /\ TooEarly(c)
    /\ Served(c, IF HasCache(c) THEN Result(cached[c], FALSE, FALSE, TRUE)
                 ELSE Unavailable)

Lead(c) ==
    /\ Decides(c)
    /\ ~StillFresh(c)
    /\ ~TooEarly(c)
    /\ refreshing' = TRUE
    /\ Goto(c, "fetch")
    /\ UNCHANGED <<call, cached, fresh, succeeded, result>>

\* One pass under the lock.
Decide(c) ==
    /\ pc[c] = "decide"
    /\ JoinAttempt(c)
    /\ WaitTimedOut(c) \/ Wait(c) \/ ShareRefresh(c) \/ UseCache(c) \/ Defer(c) \/ Lead(c)
    /\ UNCHANGED <<clock, cache, refresh_generation, last_refresh_succeeded, successes,
                   conversions>>

\* Notified, timed out or woken for no reason: the loop starts over.
Awake(c) ==
    /\ pc[c] = "waiting"
    /\ Goto(c, "load")
    /\ UNCHANGED <<clock, cache, serviceVars, call, cached, fresh, succeeded, result,
                   successes, conversions>>

WaitExpires(c) ==
    /\ pc[c] \in {"load", "decide", "waiting"}
    /\ ~call[c].timed_out
    /\ call' = [call EXCEPT ![c].timed_out = TRUE]
    /\ UNCHANGED <<clock, cache, serviceVars, pc, cached, fresh, succeeded, result,
                   successes, conversions>>

----------------------------------------------------------------------------
(* The refresh                                                             *)

\* _fetch(now); the feed may still be the old one, so it may be expired already.
FetchSucceeds(c) ==
    LET now == call[c].now
    IN  /\ pc[c] = "fetch"
        /\ \E expires \in 0..(now + MaxAge) :
              fresh' = [fresh EXCEPT ![c] = Snapshot(now, expires, now + RetryInterval)]
        /\ succeeded' = [succeeded EXCEPT ![c] = TRUE]
        /\ Goto(c, "save")
        /\ UNCHANGED <<clock, cache, serviceVars, call, cached, result, successes,
                       conversions>>

\* The cache that was read is kept, with a later next attempt.
FetchFails(c) ==
    LET retry == call[c].now + RetryInterval
    IN  /\ pc[c] = "fetch"
        /\ succeeded' = [succeeded EXCEPT ![c] = FALSE]
        /\ fresh' = [fresh EXCEPT ![c] =
              IF HasCache(c) THEN [cached[c] EXCEPT !.next_refresh_attempt_at = retry]
              ELSE Snapshot(Never, Never, retry)]
        /\ Goto(c, IF HasCache(c) THEN "save" ELSE "publish")
        /\ UNCHANGED <<clock, cache, serviceVars, call, cached, result, successes,
                       conversions>>

\* _save_cache(snapshot): replaced atomically, or not at all.
Save(c) ==
    /\ pc[c] = "save"
    /\ \/ cache' = fresh[c]
       \/ StorageMayFail /\ UNCHANGED cache
    /\ Goto(c, "publish")
    /\ UNCHANGED <<clock, serviceVars, call, cached, fresh, succeeded, result,
                   successes, conversions>>

\* Mutant: the flag is cleared only after a refresh that succeeded.
FlagAfterPublishOnSuccess(c) == ~succeeded[c]

FlagAfterPublish(c) == FALSE

\* The finally clause.
Publish(c) ==
    /\ pc[c] = "publish"
    /\ next_refresh_attempt_at' = fresh[c].next_refresh_attempt_at
    /\ refresh_generation' = refresh_generation + 1
    /\ last_refresh_succeeded' = succeeded[c]
    /\ refreshing' = FlagAfterPublish(c)
    /\ successes' = IF succeeded[c] THEN successes + 1 ELSE successes
    /\ Leave(c, IF fresh[c].checked_at = Never THEN Unavailable
                ELSE Result(fresh[c], succeeded[c], ~succeeded[c], FALSE))
    /\ UNCHANGED <<clock, cache, conversions>>

Tick ==
    /\ clock < MaxTime
    /\ clock' = clock + 1
    /\ UNCHANGED <<cache, serviceVars, callVars, successes, conversions>>

Step(c) ==
    \/ Load(c)
    \/ Decide(c)
    \/ Awake(c)
    \/ FetchSucceeds(c)
    \/ FetchFails(c)
    \/ Save(c)
    \/ Publish(c)

RatesNext ==
    \/ \E c \in Threads :
          (\E force \in BOOLEAN : Begin(c, force)) \/ Step(c) \/ WaitExpires(c)
    \/ Tick

RatesSpec == RatesInit /\ [][RatesNext]_ratesVars

\* Threads run on, and the feed answers or fails within its timeout.
RatesFairness == \A c \in Threads : WF_ratesVars(Step(c))

RatesFairSpec == RatesSpec /\ RatesFairness

----------------------------------------------------------------------------
(* Properties                                                              *)

\* A rate that is returned from the cache without a failure or deferral flag is
\* either not expired, or no refresh is running and the latest one has ended during
\* the call, with success: a wait that timed out, a spurious wake-up, a leader that
\* failed or a second leader is never taken for a successful shared refresh.
SilenceIsFresh ==
    [][ \A c \in Threads :
          LET r == result'[c]
          IN  /\ pc[c] = "decide"
              /\ pc'[c] = "idle"
              /\ r # Unavailable
              /\ ~r.refresh_failed
              /\ ~r.refresh_deferred
              => \/ call[c].now < r.snapshot.expires_at
                 \/ /\ ~refreshing
                    /\ last_refresh_succeeded
                    /\ successes > call[c].seen ]_ratesVars

\* A conversion that has waited sees that refresh running, or it has ended since; and
\* if the last one to end since succeeded, a success was added to those it saw.
WaitsCounted ==
    \A c \in Threads :
        /\ call[c].seen <= successes
        /\ call[c].coalesced =>
              /\ call[c].started <= refresh_generation
              /\ call[c].started = refresh_generation => refreshing
              /\ call[c].started < refresh_generation /\ last_refresh_succeeded =>
                    call[c].seen < successes

\* The leader, without counting.
OneLeader == IF refreshing THEN \E c \in Threads : Leading = {c} ELSE Leading = {}

\* Inductive: why the flags of an answer can be trusted.
RatesInvariant == RatesTyped /\ OneLeader /\ WaitsCounted

\* "if refresh fails, retain the cache": a failed refresh leaves the rates in the
\* cache file as they are.  It does not hold when another refresh has succeeded
\* in between (README, deviations).
FailureRetainsRates ==
    [][ \A c \in Threads :
          pc[c] = "save" /\ ~succeeded[c] => cache'.checked_at = cache.checked_at ]_ratesVars

\* A refresh ends, whatever its outcome, and later conversions are not held up.
RefreshEnds == refreshing ~> ~refreshing
=============================================================================
