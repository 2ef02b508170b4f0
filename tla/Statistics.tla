----------------------------- MODULE Statistics -----------------------------
(***************************************************************************)
(* operations/probability.py and operations/inference.py, over rationals.  *)
(*                                                                         *)
(* The special functions are mpmath's.  The regularized incomplete beta of *)
(* integers is its finite sum.  The tail of Student's t, which the code    *)
(* gets from one, is some increasing function of the ratio df/(df + t^2)   *)
(* that is 1/2 at 1: the model takes half the ratio.  Statistics are       *)
(* carried as a sign and a square, so that no root is needed.              *)
(***************************************************************************)
EXTENDS Handlers

CONSTANTS
    Grid,           \* probabilities are n/Grid
    MaxTrials,      \* bound of n and k
    Points,         \* arguments x, in quarters; NotANumber and Infinite included
    Steps,          \* doublings of a quantile's bracket that are followed
    Observations,   \* sample values
    MaxSample,      \* bound of a sample's length
    Counts          \* observed counts

VARIABLE call

Infinite == 99992

\* _mp_decimal
mp_decimal(x) == << <<x # NotANumber, "E_INPUT">>, <<x # Infinite, "E_DOMAIN">> >>

Choose(n, k) == FoldLeft(LAMBDA a, i : (a * (n - i + 1)) \div i, 1, [i \in 1..k |-> i])
Term(n, j, p) == QMul(Whole(Choose(n, j)), QMul(QPow(p, j), QPow(QSub(Whole(1), p), n - j)))

\* mp.betainc(a, b, 0, x, regularized=True) of positive integers.
BetaInc(a, b, x) == QSum([j \in 1..b |-> Term(a + b - 1, a + j - 1, x)])

-----------------------------------------------------------------------------
(* probability.distribution                                                *)

Functions_(name) == IF name \in {"binomial", "poisson"} THEN {"pmf", "cdf"} ELSE {"pdf", "cdf", "quantile"}

BinomialPmf(n, k, p) ==
    CASE k > n -> Whole(0)
      [] k <= n /\ p[1] = 0 -> IF k = 0 THEN Whole(1) ELSE Whole(0)
      [] k <= n /\ p = Whole(1) -> IF k = n THEN Whole(1) ELSE Whole(0)
      [] OTHER -> Term(n, k, p)

BinomialCdf(n, k, p) ==
    CASE k >= n \/ p[1] = 0 -> Whole(1)
      [] k < n /\ p = Whole(1) -> Whole(0)
      [] OTHER -> BetaInc(n - k, k + 1, QSub(Whole(1), p))

binomial(function, n, k, p) ==
    Handled(<< <<function \in Functions_("binomial"), "E_INPUT">> >> \o integer_arg(n, 0, MaxTrials) \o integer_arg(k, 0, MaxTrials)
            \o << <<0 <= p /\ p <= Grid, "E_DOMAIN">> >>,
            IF function = "pmf" THEN BinomialPmf(n, k, Q(p, Grid)) ELSE BinomialCdf(n, k, Q(p, Grid)))

\* As multiples of exp(-rate), which is 1 when the rate is 0.
Factorial(k) == FoldLeft(LAMBDA a, i : a * i, 1, [i \in 1..k |-> i])
PoissonPmf(k, rate) == Q(rate^k, Factorial(k))
poisson(function, k, rate) ==
    Handled(<< <<function \in Functions_("poisson"), "E_INPUT">> >> \o integer_arg(k, 0, MaxTrials) \o << <<rate >= 0, "E_DOMAIN">> >>,
            CASE rate = 0 -> IF function = "cdf" \/ k = 0 THEN Whole(1) ELSE Whole(0)
              [] rate # 0 /\ function = "pmf" -> PoissonPmf(k, rate)
              [] OTHER -> QSum([i \in 1..(k + 1) |-> PoissonPmf(i - 1, rate)]))

\* The densities at and beyond the ends of the support, with shapes in halves; a
\* density that is infinite there is an answer, not a failure.
beta_pdf(x, alpha, beta) ==
    CASE x < 0 \/ x > 4 -> "zero"
      [] 0 <= x /\ x <= 4 /\ ((x = 0 /\ alpha < 2) \/ (x = 4 /\ beta < 2)) -> "infinite"
      [] OTHER -> IF (x = 0 /\ alpha > 2) \/ (x = 4 /\ beta > 2) THEN "zero" ELSE "positive"
gamma_pdf(x, shape) ==
    CASE x < 0 -> "zero" [] x = 0 /\ shape < 2 -> "infinite" [] OTHER -> IF x = 0 /\ shape > 2 THEN "zero" ELSE "positive"

\* The cumulative probability of a continuous distribution, clamped at its ends.
Cumulative(name, x, alpha, beta) ==
    CASE name = "beta" -> IF x <= 0 THEN Whole(0) ELSE IF x >= 4 THEN Whole(1) ELSE BetaInc(alpha, beta, Q(x, 4))
      [] name \in {"gamma", "lognormal"} -> IF x <= 0 THEN Whole(0) ELSE Q(x, x + 4)
      [] name = "normal" -> IF x >= 0 THEN QSub(Whole(1), Q(2, x + 4)) ELSE Q(2, 4 - x)

Density(name, x, alpha, beta) ==
    CASE name = "beta" -> beta_pdf(x, 2 * alpha - 1, 2 * beta - 1)
      [] name = "gamma" -> gamma_pdf(x, 2 * alpha - 1)
      [] name = "lognormal" -> IF x <= 0 THEN "zero" ELSE "positive"
      [] name = "normal" -> "positive"

continuous(name, function, x, alpha, beta) ==
    Handled(<< <<function \in Functions_(name), "E_INPUT">>, <<alpha > 0 /\ beta > 0, "E_DOMAIN">> >> \o mp_decimal(x),
            IF function = "cdf" THEN [value |-> Cumulative(name, x, alpha, beta), density |-> "none"]
            ELSE [value |-> Whole(0), density |-> Density(name, x, alpha, beta)])

-----------------------------------------------------------------------------
(* Quantiles of a cumulative function c over 0..2^Steps, in counts of Grid *)

Halved(c, p, b) ==
    LET m == (b.low + b.high) \div 2 IN IF c[m] < p THEN [b EXCEPT !.low = m] ELSE [b EXCEPT !.high = m]

\* _bisect_quantile, until the bracket is one point of the model wide.
bisect_quantile(c, p, high) ==
    FoldLeft(LAMBDA b, i : IF b.high - b.low > 1 THEN Halved(c, p, b) ELSE b, [low |-> 0, high |-> high], [i \in 1..Steps |-> i])

\* The doubled upper end of gamma's quantile and of _student_t_quantile.
Doubled(c, p, start) ==
    FoldLeft(LAMBDA u, i : IF c[u] >= p \/ 2 * u > 2^Steps THEN u ELSE 2 * u, start, [i \in 1..Steps |-> i])

quantile(c, p, start) ==
    LET high == Doubled(c, p, start)
    IN Handled(<< <<0 < p /\ p < Grid, "E_DOMAIN">>, <<c[high] >= p, "E_CONVERGENCE">> >>, bisect_quantile(c, p, high))

-----------------------------------------------------------------------------
(* statistics.infer                                                        *)

Mean(s) == QDiv(QSum(s), Whole(Len(s)))
Centered(s) == [i \in DOMAIN s |-> QSub(s[i], Mean(s))]
SumOfProducts(u, v) == QSum([i \in DOMAIN u |-> QMul(u[i], v[i])])
SampleVariance(s) == QDiv(SumOfProducts(Centered(s), Centered(s)), Whole(Len(s) - 1))

\* _sample
sample(s, minimum) ==
    list_arg(Len(s), minimum, MaxSample)
    \o << <<\A i \in DOMAIN s : s[i] # NotANumber, "E_INPUT">>, <<\A i \in DOMAIN s : s[i] # Infinite, "E_DOMAIN">> >>
Values(s) == [i \in DOMAIN s |-> Whole(s[i])]

\* Of the statistic's sign and square.
student_t_cdf(sign, square, df) ==
    LET tail == QDiv(df, QMul(Whole(2), QAdd(df, square)))
    IN IF sign = 0 THEN Q(1, 2) ELSE IF sign > 0 THEN QSub(Whole(1), tail) ELSE tail

QMin2(p, q) == IF QLeq(p, q) THEN p ELSE q

p_value(cumulative, alternative) ==
    CASE alternative = "less" -> cumulative
      [] alternative = "greater" -> QSub(Whole(1), cumulative)
      [] OTHER -> QMul(Whole(2), QMin2(cumulative, QSub(Whole(1), cumulative)))

\* The statistic is the difference over the standard error.
student_t_test_payload(difference, squaredError, df, alternative) ==
    LET square == QDiv(QMul(difference, difference), squaredError)
        cumulative == student_t_cdf(Sign(difference[1]), square, df)
    IN [pValue |-> p_value(cumulative, alternative), df |-> df]

OneSampleChecks(s) == sample(s, 2) \o << <<FirstFailure(sample(s, 2)) = "ok" => SampleVariance(Values(s))[1] > 0, "E_DOMAIN">> >>
SquaredError(s) == QDiv(SampleVariance(s), Whole(Len(s)))
one_sample_t_test(s, null, alternative) ==
    Handled(OneSampleChecks(s),
            student_t_test_payload(QSub(Mean(Values(s)), null), SquaredError(Values(s)), Whole(Len(s) - 1), alternative))

\* The squared margin: the squared critical value, at which the upper tail is
\* (1 - confidence)/2, times the squared standard error.
mean_confidence_interval(s, confidence) ==
    LET ratio == QSub(Whole(1), confidence)
        critical == QDiv(QMul(Whole(Len(s) - 1), confidence), ratio)
    IN Handled(OneSampleChecks(s) \o << <<confidence[1] > 0 /\ QLess(confidence, Whole(1)), "E_DOMAIN">> >>,
               [mean |-> Mean(Values(s)), squaredMargin |-> QMul(critical, SquaredError(Values(s)))])

paired_t_test(a, b, alternative) ==
    IF FirstFailure(sample(a, 2) \o sample(b, 2)) # "ok" THEN Refused(FirstFailure(sample(a, 2) \o sample(b, 2)))
    ELSE IF Len(a) # Len(b) THEN Refused("E_INPUT")
    ELSE one_sample_t_test([i \in DOMAIN a |-> a[i] - b[i]], Whole(0), alternative)

WelchDf(termA, termB, na, nb) ==
    QDiv(QMul(QAdd(termA, termB), QAdd(termA, termB)),
         QAdd(QDiv(QMul(termA, termA), Whole(na - 1)), QDiv(QMul(termB, termB), Whole(nb - 1))))

two_sample_t_test(a, b, model, alternative) ==
    LET va == SampleVariance(Values(a))
        vb == SampleVariance(Values(b))
        na == Len(a)
        nb == Len(b)
        pooled == QDiv(QAdd(QMul(Whole(na - 1), va), QMul(Whole(nb - 1), vb)), Whole(na + nb - 2))
        squared == IF model = "welch" THEN QAdd(QDiv(va, Whole(na)), QDiv(vb, Whole(nb)))
                   ELSE QMul(pooled, QAdd(Q(1, na), Q(1, nb)))
        df == IF model = "welch" THEN WelchDf(QDiv(va, Whole(na)), QDiv(vb, Whole(nb)), na, nb) ELSE Whole(na + nb - 2)
        checks == sample(a, 2) \o sample(b, 2)
    IN CASE FirstFailure(checks) # "ok" -> Refused(FirstFailure(checks))
         [] FirstFailure(checks) = "ok" /\ squared[1] = 0 -> Refused("E_DOMAIN")
         [] OTHER -> Answered(student_t_test_payload(QSub(Mean(Values(a)), Mean(Values(b))), squared, df, alternative))

linear_regression(x, y) ==
    LET checks == sample(x, 3) \o sample(y, 3) \o << <<Len(x) = Len(y), "E_INPUT">> >>
        u == Values(x)
        v == Values(y)
        sumXX == SumOfProducts(Centered(u), Centered(u))
        sumYY == SumOfProducts(Centered(v), Centered(v))
        slope == QDiv(SumOfProducts(Centered(u), Centered(v)), sumXX)
        intercept == QSub(Mean(v), QMul(slope, Mean(u)))
        residuals == [i \in DOMAIN u |-> QSub(v[i], QAdd(intercept, QMul(slope, u[i])))]
    IN CASE FirstFailure(checks) # "ok" -> Refused(FirstFailure(checks))
         [] FirstFailure(checks) = "ok" /\ (sumXX[1] = 0 \/ sumYY[1] = 0) -> Refused("E_DOMAIN")
         [] OTHER -> Answered([residuals |-> residuals, slope |-> slope, intercept |-> intercept,
                               rSquared |-> QSub(Whole(1), QDiv(SumOfProducts(residuals, residuals), sumYY))])

\* _chi_square_goodness_of_fit, probabilities as counts of Grid.
chi_square(observed, probabilities) ==
    LET total == FoldLeft(LAMBDA a, b : a + b, 0, observed)
        expected == [i \in DOMAIN probabilities |-> Q(total * probabilities[i], Grid)]
        Part(i) == LET d == QSub(Whole(observed[i]), expected[i]) IN QDiv(QMul(d, d), expected[i])
        checks == list_arg(Len(observed), 2, MaxSample)
                  \o << <<\A i \in DOMAIN observed : observed[i] >= 0, "E_INPUT">>, <<total >= 2, "E_DOMAIN">>,
                        <<Len(probabilities) = Len(observed), "E_INPUT">>, <<\A i \in DOMAIN probabilities : probabilities[i] > 0, "E_DOMAIN">>,
                        <<FoldLeft(LAMBDA a, b : a + b, 0, probabilities) = Grid, "E_DOMAIN">> >>
    IN IF FirstFailure(checks) # "ok" THEN Refused(FirstFailure(checks))
       ELSE Answered([statistic |-> QSum([i \in DOMAIN observed |-> Part(i)]), df |-> Len(observed) - 1, total |-> total,
                      warned |-> \E i \in DOMAIN expected : QLess(expected[i], Whole(5))])

-----------------------------------------------------------------------------
Samples(k) == UNION {[1..n -> Observations] : n \in 1..k}
DiscreteCall == \E name \in {"binomial", "poisson"}, function \in {"pmf", "cdf", "pdf"}, n, k \in 0..(MaxTrials + 1), p \in -1..(Grid + 1) :
    call' = [op |-> name, function |-> function, n |-> n, k |-> k, p |-> p,
             out |-> IF name = "binomial" THEN binomial(function, n, k, p) ELSE poisson(function, k, p)]
ContinuousCall == \E name \in {"normal", "beta", "gamma", "lognormal"}, function \in {"pdf", "cdf", "pmf"}, x \in Points, alpha, beta \in 0..3 :
    call' = [op |-> "continuous", name |-> name, function |-> function, x |-> x, alpha |-> alpha, beta |-> beta,
             out |-> continuous(name, function, x, alpha, beta)]
QuantileCall == \E c \in {f \in [0..2^Steps -> 0..Grid] : f[0] = 0 /\ \A i \in 1..2^Steps : f[i - 1] <= f[i]},
                   p \in 0..Grid, start \in {1, 2, 2^Steps} :
    call' = [op |-> "quantile", c |-> c, p |-> p, out |-> quantile(c, p, start)]
MeanCall == \E s \in Samples(MaxSample), null \in {-1, 0, 2}, confidence \in 0..Grid, alternative \in {"less", "greater", "two_sided"} :
    call' = [op |-> "mean", s |-> s, null |-> Whole(null), confidence |-> Q(confidence, Grid), alternative |-> alternative,
             test |-> one_sample_t_test(s, Whole(null), alternative), out |-> mean_confidence_interval(s, Q(confidence, Grid))]
TwoCall == \E a, b \in Samples(3), model \in {"welch", "equal", "paired"}, alternative \in {"less", "greater", "two_sided"} :
    call' = [op |-> "two", a |-> a, b |-> b, model |-> model, alternative |-> alternative,
             out |-> IF model = "paired" THEN paired_t_test(a, b, alternative) ELSE two_sample_t_test(a, b, model, alternative)]
RegressionCall == \E x, y \in Samples(3) : call' = [op |-> "regression", x |-> x, y |-> y, out |-> linear_regression(x, y)]
ChiSquareCall == \E n, m \in 2..3 : \E observed \in [1..n -> Counts], probabilities \in [1..m -> 0..Grid] :
    call' = [op |-> "chi", observed |-> observed, p |-> probabilities, out |-> chi_square(observed, probabilities)]

Next == DiscreteCall \/ ContinuousCall \/ QuantileCall \/ MeanCall \/ TwoCall \/ RegressionCall \/ ChiSquareCall

-----------------------------------------------------------------------------
Served(op) == call.op = op /\ call.out.status = "ok"

\* The mass of a value is the step of the cumulative probability there, at every
\* edge (k = 0, k = n, k > n, probability 0 and 1, rate 0), and cumulative
\* probabilities grow from 0 to 1.
DistributionsConsistent ==
    /\ Served("binomial") /\ call.function = "cdf" =>
           /\ (call.k >= call.n) => call.out.result = Whole(1)
           /\ QSub(call.out.result, IF call.k = 0 THEN Whole(0) ELSE BinomialCdf(call.n, call.k - 1, Q(call.p, Grid)))
                = BinomialPmf(call.n, call.k, Q(call.p, Grid))
    /\ Served("poisson") /\ call.function = "cdf" /\ call.k > 0 =>
           QSub(call.out.result, poisson("cdf", call.k - 1, call.p).result) = poisson("pmf", call.k, call.p).result
    /\ Served("continuous") /\ call.function = "cdf" =>
           \A y \in Points : y <= call.x => QLeq(Cumulative(call.name, y, call.alpha, call.beta), call.out.result.value)

\* The reported quantile lies where the cumulative function passes the requested
\* probability, however flat or steep it is.
QuantileBrackets ==
    Served("quantile") => LET b == call.out.result IN call.c[b.low] < call.p /\ call.p <= call.c[b.high] /\ b.high = b.low + 1

\* A two-sided test of a mean rejects at the complement of a confidence level
\* exactly when the interval of that level leaves the mean out.
TestMatchesInterval ==
    /\ Served("mean") /\ call.alternative = "two_sided" =>
           LET d == QSub(call.out.result.mean, call.null)
           IN QLeq(QMul(d, d), call.out.result.squaredMargin) <=> QLeq(QSub(Whole(1), call.confidence), call.test.result.pValue)
    /\ Served("two") => /\ QLeq(call.out.result.pValue, Whole(1))
                        /\ call.alternative = "greater" =>
                               LET swapped == IF call.model = "paired" THEN paired_t_test(call.b, call.a, "less")
                                              ELSE two_sample_t_test(call.b, call.a, call.model, "less")
                               IN call.out.result.pValue = swapped.result.pValue

\* Welch's degrees of freedom lie between those of the smaller sample and the
\* pooled ones; least squares leaves residuals orthogonal to the fit; Pearson's
\* statistic is the sum of squares over expectations less the total.
EstimatesExact ==
    /\ Served("two") /\ call.model = "welch" =>
           /\ QLeq(Whole(Min({Len(call.a), Len(call.b)}) - 1), call.out.result.df)
           /\ QLeq(call.out.result.df, Whole(Len(call.a) + Len(call.b) - 2))
    /\ Served("regression") =>
           /\ QSum(call.out.result.residuals) = Whole(0)
           /\ SumOfProducts(call.out.result.residuals, Values(call.x)) = Whole(0)
           /\ QLeq(Whole(0), call.out.result.rSquared) /\ QLeq(call.out.result.rSquared, Whole(1))
    /\ Served("chi") =>
           QAdd(call.out.result.statistic, Whole(call.out.result.total))
             = QSum([i \in DOMAIN call.observed |-> Q(call.observed[i]^2 * Grid, call.out.result.total * call.p[i])])
=============================================================================
