------------------------------ MODULE Finance -------------------------------
(***************************************************************************)
(* operations/finance.py, and the documents of currency.py: the feed and   *)
(* the cache file.  Money is a whole number; a rate is a number of         *)
(* Grid-ths, so that the growth of a period is a rational.  The decimal    *)
(* context's rounding of intermediate values is left out; the overflow of  *)
(* a rounded coefficient is kept.                                          *)
(***************************************************************************)
EXTENDS Handlers

CONSTANTS
    Amounts,            \* money a request may hold
    Rates,              \* rates a request may hold, in units of 1 / Grid
    Brackets,           \* rates that bound a search; far apart enough to be halved
    Grid,
    MaxPeriods,         \* bound of the period counts
    MaxIterations,      \* bound of maxIterations
    MaxCoefficient,     \* largest coefficient of the context's precision
    Day, Release,       \* the length of a day and ECB_EXPECTED_RELEASE_TIME
    MinimumRateCount    \* MINIMUM_RATE_COUNT

VARIABLE call

Infinite == 99992
Modes == {"half_even", "half_up"}

decimal_arg(d) == << <<d # NotANumber, "E_INPUT">>, <<d # Infinite, "E_DOMAIN">> >>

\* _cash_flows
cash_flows(flows) ==
    list_arg(Len(flows), 2, 10)
    \o << <<\A i \in DOMAIN flows : flows[i] # NotANumber, "E_INPUT">>,
          <<\A i \in DOMAIN flows : flows[i] # Infinite, "E_DOMAIN">> >>

\* 1 + rate / periods
Positive(rate, periods) == (Grid * periods) + rate > 0
Growth(rate, periods) == Q((Grid * periods) + rate, Grid * periods)

\* _metric: quantize raises when the coefficient exceeds the precision.
metric(value, places, mode) == QRound(QMul(value, Whole(10^places)), mode)
Fits(values, places) == \A i \in DOMAIN values : Abs(metric(values[i], places, "half_up")) <= MaxCoefficient
Metrics(values, r) == [i \in DOMAIN values |-> metric(values[i], r.places, r.mode)]

\* The checks of an action, then its metrics.  values is only evaluated for a
\* request that passes them.
Priced(checks, values, r) ==
    IF FirstFailure(checks) # "ok" THEN Refused(FirstFailure(checks))
    ELSE Handled(<< <<Fits(values, r.places), "E_DOMAIN">> >>, [exact |-> values, rounded |-> Metrics(values, r)])

compound_value(r) ==
    Priced(decimal_arg(r.principal) \o decimal_arg(r.rate) \o integer_arg(r.periods, 1, MaxPeriods)
           \o integer_arg(r.number, 0, MaxPeriods)
           \o << <<Positive(r.rate, r.periods), "E_DOMAIN">> >>,
           <<QMul(Whole(r.principal), QPow(Growth(r.rate, r.periods), r.number))>>, r)

effective_annual_rate(r) ==
    Priced(decimal_arg(r.rate) \o integer_arg(r.periods, 1, MaxPeriods)
           \o << <<Positive(r.rate, r.periods), "E_DOMAIN">> >>,
           <<QSub(QPow(Growth(r.rate, r.periods), r.periods), Whole(1))>>, r)

\* The payment of an ordinary annuity.
Payment(principal, growth, number) ==
    IF growth = Whole(1) THEN Q(principal, number)
    ELSE LET factor == QPow(growth, number)
         IN QDiv(QMul(QMul(Whole(principal), QSub(growth, Whole(1))), factor), QSub(factor, Whole(1)))

loan_payment(r) ==
    LET payment == Payment(r.principal, Growth(r.rate, r.periods), r.number)
        total == QMul(payment, Whole(r.number))
    IN Priced(decimal_arg(r.principal) \o decimal_arg(r.rate) \o integer_arg(r.periods, 1, MaxPeriods)
              \o integer_arg(r.number, 1, MaxPeriods)
              \o << <<r.principal >= 0, "E_DOMAIN">>, <<Positive(r.rate, r.periods), "E_DOMAIN">> >>,
              <<payment, total, QSub(total, Whole(r.principal))>>, r)

\* _npv
npv(flows, growth) == QSum([i \in DOMAIN flows |-> QDiv(Whole(flows[i]), QPow(growth, i - 1))])

NpvAction(r) ==
    Priced(cash_flows(r.flows) \o decimal_arg(r.rate) \o << <<Positive(r.rate, 1), "E_DOMAIN">> >>,
           <<npv(r.flows, Growth(r.rate, 1))>>, r)

NpvSign(flows, rate) == Sign(npv(flows, Growth(rate, 1))[1])

\* The half of the bracket that keeps the sign change.
Halved(flows, b) ==
    LET midpoint == (b.lower + b.upper) \div 2
    IN IF NpvSign(flows, b.lower) * NpvSign(flows, midpoint) < 0
       THEN [b EXCEPT !.upper = midpoint] ELSE [b EXCEPT !.lower = midpoint]

\* _bracketed_irr, from a bracket with a sign change; error 0 stands for a root
\* at a bound, found after 0 iterations.
bracketed_irr(r) ==
    LET Step(b, i) ==
            LET midpoint == (b.lower + b.upper) \div 2
                error == (b.upper - b.lower) \div 2
            IN IF b.done THEN b
               ELSE IF NpvSign(r.flows, midpoint) = 0 \/ error <= r.tolerance
                    THEN [b EXCEPT !.done = TRUE, !.root = midpoint, !.error = error, !.iterations = i]
                    ELSE Halved(r.flows, b)
        start == [lower |-> r.lower, upper |-> r.upper, done |-> FALSE, root |-> 0, error |-> 0, iterations |-> 0]
    IN CASE NpvSign(r.flows, r.lower) = 0 -> [start EXCEPT !.done = TRUE, !.root = r.lower]
         [] NpvSign(r.flows, r.lower) # 0 /\ NpvSign(r.flows, r.upper) = 0 -> [start EXCEPT !.done = TRUE, !.root = r.upper]
         [] OTHER -> FoldLeft(Step, start, [i \in 1..r.maxIterations |-> i])

\* _cash_flow_sign_changes
cash_flow_sign_changes(flows) ==
    LET nonzero == SelectSeq(flows, LAMBDA v : v # 0)
    IN Cardinality({i \in 1..(Len(nonzero) - 1) : (nonzero[i] > 0) # (nonzero[i + 1] > 0)})

irr(r) ==
    LET checks ==
            cash_flows(r.flows)
            \o << <<(\E i \in DOMAIN r.flows : r.flows[i] < 0) /\ (\E i \in DOMAIN r.flows : r.flows[i] > 0), "E_DOMAIN">> >>
            \o decimal_arg(r.lower) \o decimal_arg(r.upper)
            \o << <<-Grid < r.lower /\ r.lower < r.upper, "E_INPUT">>, <<r.tolerance > 0, "E_INPUT">> >>
            \o integer_arg(r.maxIterations, 1, MaxIterations)
    IN IF FirstFailure(checks) # "ok" THEN Refused(FirstFailure(checks))
       ELSE Handled(<< <<NpvSign(r.flows, r.lower) * NpvSign(r.flows, r.upper) <= 0, "E_DOMAIN">>,
                       <<bracketed_irr(r).done, "E_CONVERGENCE">> >>,
                    [found |-> bracketed_irr(r), warned |-> cash_flow_sign_changes(r.flows) > 1])

-----------------------------------------------------------------------------
(* currency.py.  Time is counted in half seconds, so that texts lose some; *)
(* day 0 is a Monday.  CACHE_MAX_AGE is a day.                             *)

iso_text(time) == time - (time % 2)
next_business_day(day) == Min({d \in (day + 1)..(day + 3) : d % 7 < 5})
fresh_until(date, checked) == Min({checked + Day, (next_business_day(date) * Day) + Release})

GoodRate(rate) == rate \notin {NotANumber, Infinite} /\ rate > 0

\* _parse_ecb_rates: its checks and the rates, where the last entry of a name counts.
parse_ecb_rates(feed) ==
    << <<feed.xml, "E_PROVIDER">>, <<\A i \in DOMAIN feed.rates : GoodRate(feed.rates[i][2]), "E_PROVIDER">>,
       <<feed.date \notin {NotANumber, Infinite}, "E_PROVIDER">>,
       <<Cardinality({"EUR"} \cup {entry[1] : entry \in ToSet(feed.rates)}) >= MinimumRateCount, "E_PROVIDER">> >>
RatesOf(feed) == FoldLeft(LAMBDA rates, entry : (entry[1] :> entry[2]) @@ rates, "EUR" :> 1, feed.rates)

\* What _fetch makes of a feed, and _save_cache of a snapshot.
FetchedSnapshot(feed, checked) == [date |-> feed.date, checked |-> checked, expires |-> fresh_until(feed.date, checked), rates |-> RatesOf(feed)]
SavedPayload(snapshot) ==
    [object |-> TRUE, current |-> TRUE, date |-> snapshot.date, checked |-> iso_text(snapshot.checked),
     expires |-> iso_text(snapshot.expires), rates |-> snapshot.rates]

\* _snapshot_from_json: the checks in their order; _load_cache takes any failure for no
\* cache.  An expiry that was stored may shorten the one the date implies, never extend it.
snapshot_from_json(payload) ==
    << <<payload.object, "E_PROVIDER">>, <<payload.current, "E_PROVIDER">>, <<payload.date \notin {NotANumber, Infinite}, "E_PROVIDER">>,
       <<\A name \in DOMAIN payload.rates : name # "LONG" /\ GoodRate(payload.rates[name]), "E_PROVIDER">>,
       <<"EUR" \in DOMAIN payload.rates /\ payload.rates["EUR"] = 1 /\ Cardinality(DOMAIN payload.rates) >= MinimumRateCount, "E_PROVIDER">>,
       <<payload.checked # NotANumber /\ payload.expires # NotANumber, "E_PROVIDER">> >>
load_cache(payload) ==
    LET verdict == FirstFailure(snapshot_from_json(payload))
    IN IF verdict # "ok" THEN Refused(verdict)
       ELSE Answered([date |-> payload.date, checked |-> payload.checked, rates |-> payload.rates,
                      expires |-> Min({payload.expires, fresh_until(payload.date, payload.checked)})])

-----------------------------------------------------------------------------
Shapes == [places : {0, 1}, mode : Modes]
Counts == {0, 1, 2, 3, MaxPeriods + 1}
Flows == UNION {[1..n -> Amounts] : n \in 1..3}

\* The branches of _calculate, by action.
GrowthAction(action, r) ==
    CASE action = "compound" -> compound_value(r)
      [] action = "effective" -> effective_annual_rate(r)
      [] action = "loan" -> loan_payment(r)
GrowthCall == \E principal \in Amounts, rate \in Rates, periods, number \in Counts, shape \in Shapes,
                 action \in {"compound", "effective", "loan"} :
    LET r == [places |-> shape.places, mode |-> shape.mode, principal |-> principal, rate |-> rate, periods |-> periods, number |-> number]
    IN call' = [op |-> action, r |-> r,
                out |-> GrowthAction(action, r)]
NpvCall == \E flows \in Flows, rate \in Rates, shape \in Shapes :
    LET r == [places |-> shape.places, mode |-> shape.mode, flows |-> flows, rate |-> rate] IN call' = [op |-> "npv", r |-> r, out |-> NpvAction(r)]
IrrCall == \E flows \in Flows, lower, upper \in Brackets, tolerance \in {0, 1, 2}, n \in 0..(MaxIterations + 1) :
    LET r == [flows |-> flows, lower |-> lower, upper |-> upper, tolerance |-> tolerance, maxIterations |-> n]
    IN call' = [op |-> "irr", r |-> r, out |-> irr(r)]


\* A feed that is fetched and saved, and a file of another version or another hand.
Entries == {"USD", "EUR", "LONG"} \X {1, 3, 0, NotANumber}
FeedCall == \E xml \in BOOLEAN, date \in {0, 4, 5, 6, NotANumber}, rates \in UNION {[1..n -> Entries] : n \in 0..2}, since \in {0, 3, 7, 19} :
    LET feed == [xml |-> xml, date |-> date, rates |-> rates]
        checks == parse_ecb_rates(feed)
        snapshot == FetchedSnapshot(feed, (Day * date) + since)
    IN call' = [op |-> "feed", r |-> feed, snapshot |-> IF FirstFailure(checks) = "ok" THEN snapshot ELSE <<>>,
                out |-> IF FirstFailure(checks) = "ok" THEN load_cache(SavedPayload(snapshot)) ELSE Refused(FirstFailure(checks))]
FileRates == {<<>>, "EUR" :> 1, [EUR |-> 1, USD |-> 3], [EUR |-> 3, USD |-> 3], [EUR |-> 1, LONG |-> 3], [EUR |-> 1, USD |-> 0]}
FileCall == \E object, current \in BOOLEAN, date \in {0, 4, NotANumber}, checked, expires \in {0, 8, 40, 60, NotANumber},
               rates \in FileRates :
    LET payload == [object |-> object, current |-> current, date |-> date, checked |-> checked, expires |-> expires, rates |-> rates]
    IN call' = [op |-> "file", r |-> payload, out |-> load_cache(payload)]

Next == GrowthCall \/ NpvCall \/ IrrCall \/ FeedCall \/ FileCall

-----------------------------------------------------------------------------
\* The balance of a loan after its payments, each at the end of its period.
Balance(r, payment) ==
    FoldLeft(LAMBDA owed, i : QSub(QMul(owed, Growth(r.rate, r.periods)), payment),
             Whole(r.principal), [i \in 1..r.number |-> i])

\* An accepted loan is paid off exactly by its payments; the net present value
\* changes sign within the reported error of the rate of return that is found.
FinanceExact ==
    /\ call.op = "loan" /\ call.out.status = "ok" => Balance(call.r, call.out.result.exact[1]) = Whole(0)
    /\ call.op = "irr" /\ call.out.status = "ok" =>
         LET found == call.out.result.found
         IN NpvSign(call.r.flows, found.root - found.error) * NpvSign(call.r.flows, found.root + found.error) <= 0

\* No file, whatever it says, is fresh after the release that follows its date, or for
\* more than a day (_snapshot_from_json, _fresh_until).
CacheExpires ==
    call.op \in {"feed", "file"} /\ call.out.status = "ok" =>
         /\ call.out.result.expires <= call.out.result.checked + Day
         /\ \A day \in (call.out.result.date + 1)..(call.out.result.date + 7) :
               day % 7 < 5 => call.out.result.expires <= (day * Day) + Release

\* A cache that is read back answers with the rates that were fetched, and with no later
\* expiry; it is lost only where the feed redefined the euro or used another kind of name.
CacheNeverExtends ==
    /\ call.op = "feed" /\ call.snapshot # <<>> =>
         /\ call.out.status = "ok" <=> call.snapshot.rates["EUR"] = 1 /\ "LONG" \notin DOMAIN call.snapshot.rates
         /\ call.out.status = "ok" => /\ call.out.result.rates = call.snapshot.rates
                                      /\ call.out.result.expires <= call.snapshot.expires
    /\ CacheExpires
=============================================================================
