----------------------------- MODULE FiniteSums -----------------------------
(***************************************************************************)
(* research/polynomial_finite_sum_proposal: a finite sum of a polynomial   *)
(* is answered by an antidifference G, untrusted, whose identity           *)
(* G(k+1) - G(k) = p(k) the obligation runtime checks, and by the hand     *)
(* written rule that then combines G's values at the two ends.             *)
(*                                                                         *)
(* A polynomial in k over the rationals is a function of the exponents     *)
(* 0..Top.  A source text is what the certificate parser makes of it.      *)
(***************************************************************************)
EXTENDS Handlers

CONSTANTS
    MaxDegree,      \* MAX_POLYNOMIAL_DEGREE
    MaxBound,       \* MAX_ABS_BOUND
    MaxValue        \* the largest numerator of MAX_COEFFICIENT_BITS

Top == MaxDegree + 2
UZero == [i \in 0..Top |-> Whole(0)]
UPoly(s) == [i \in 0..Top |-> IF i + 1 \in DOMAIN s THEN s[i + 1] ELSE Whole(0)]
UScale(q, p) == [i \in 0..Top |-> QMul(q, p[i])]
UAdd(p, q) == [i \in 0..Top |-> QAdd(p[i], q[i])]
USum(s) == FoldLeft(UAdd, UZero, s)
UDegree(p) == Max({0} \cup {i \in 0..Top : p[i][1] # 0})

comb(n, k) == FoldLeft(LAMBDA a, i : (a * (n - i + 1)) \div i, 1, [i \in 1..k |-> i])

\* G(k + 1): each power expanded.
Shifted(p) == [j \in 0..Top |-> QSum([n \in 1..(Top - j + 1) |-> QMul(Whole(comb(j + n - 1, j)), p[j + n - 1])])]

-----------------------------------------------------------------------------
\* A source: blank, outside the checker's language, or a polynomial.
parse_summand(source) ==
    << <<source.kind # "blank", "E_INPUT">>, <<source.kind = "polynomial" /\ UDegree(source.terms) <= MaxDegree, "E_UNSUPPORTED">> >>

require_integer(n) == << <<n # NotANumber, "E_DOMAIN">>, <<Abs(n) <= MaxBound, "E_LIMIT">> >>
bounds(lower, upper) == require_integer(lower) \o require_integer(upper) \o << <<upper >= lower - 1, "E_DOMAIN">> >>

\* monomial_antidifference: G(k+1) - G(k) = k^power with G(0) = 0, the triangular
\* system of _solve_linear solved from its last row.
monomial_antidifference(power) ==
    LET a[d \in 1..(Top + 1)] ==
            IF d > power + 1 THEN Whole(0)
            ELSE QDiv(QSub(Whole(IF d = power + 1 THEN 1 ELSE 0),
                           QSum([e \in 1..(power + 1 - d) |-> QMul(Whole(comb(d + e, d - 1)), a[d + e])])),
                      Whole(d))
    IN [i \in 0..Top |-> IF i = 0 THEN Whole(0) ELSE a[i]]

\* Gosper's antidifference, sympy's, up to a constant of its own choosing.
construct_antidifference(p, constant) ==
    UAdd(USum([i \in 1..(MaxDegree + 1) |-> UScale(p[i - 1], monomial_antidifference(i - 1))]), UPoly(<<constant>>))

\* The obligation difference-identity, for a provider that answers or not.
IdentityStatus(g, p, answers) ==
    IF ~answers THEN "unknown" ELSE IF UAdd(Shifted(g), UScale(Whole(-1), g)) = p THEN "checked" ELSE "falsified"

\* evaluate_univariate, from the highest power down: the value, and whether a
\* partial sum ever was too large.
evaluate_univariate(g, n) ==
    LET Add(acc, i) ==
            LET total == QAdd(acc.value, QMul(g[Top - i + 1], QPow(Whole(n), Top - i + 1)))
            IN [value |-> total, fits |-> acc.fits /\ Abs(total[1]) <= MaxValue /\ total[2] <= MaxValue]
    IN FoldLeft(Add, [value |-> Whole(0), fits |-> TRUE], [i \in 1..(Top + 1) |-> i])

Telescoped(g, lower, upper) ==
    [upper |-> evaluate_univariate(g, upper + 1), lower |-> evaluate_univariate(g, lower)]

\* apply_finite_telescoping_sum, once the identity is checked.
Fit(ends) == ends.upper.fits /\ ends.lower.fits
Difference(ends) == QSub(ends.upper.value, ends.lower.value)
DifferenceOf(ends, lower, upper) ==
    Handled(<< <<Fit(ends), "E_LIMIT">>, <<upper >= lower - 1, "E_DOMAIN">> >>, Difference(ends))
apply_finite_telescoping_sum(g, lower, upper) == DifferenceOf(Telescoped(g, lower, upper), lower, upper)

ValueAt(p, n) == QSum([i \in 1..(Top + 1) |-> QMul(p[i - 1], QPow(Whole(n), i - 1))])

\* sympy_finite_sum, term by term; an empty sum is 0, and sympy's convention makes a
\* reversed sum the negative of the terms in between.
SumOver(p, lower, upper) == QSum([i \in 1..(upper - lower + 1) |-> ValueAt(p, lower + i - 1)])
sympy_finite_sum(p, lower, upper) ==
    IF upper < lower - 1 THEN QNeg(SumOver(p, upper + 1, lower - 1)) ELSE SumOver(p, lower, upper)

\* The value of a checked identity, compared with the baseline when that is asked.
Compared(sum, p, lower, upper, compare) ==
    IF sum.status = "ok" /\ compare /\ sum.result # sympy_finite_sum(p, lower, upper) THEN Refused("E_RUNTIME") ELSE sum
Combined(g, p, lower, upper, compare) == Compared(apply_finite_telescoping_sum(g, lower, upper), p, lower, upper, compare)

\* run_polynomial_finite_sum, with the antidifference g that is supplied or constructed.
RunWith(g, task, run) ==
    LET p == task.summand.terms
        checks == bounds(task.lower, task.upper) \o parse_summand(task.summand)
                  \o (IF task.supplied.kind = "none" THEN <<>> ELSE parse_summand(task.supplied))
        identity == IdentityStatus(g, p, run.answers)
    IN CASE FirstFailure(checks) # "ok" -> Refused(FirstFailure(checks))
         [] FirstFailure(checks) = "ok" /\ UDegree(g) > MaxDegree -> Refused("E_LIMIT")
         [] OTHER -> IF identity = "checked" THEN Combined(g, p, task.lower, task.upper, task.compare) ELSE [status |-> identity]
run_polynomial_finite_sum(task, run) ==
    RunWith(IF task.supplied.kind = "none" THEN construct_antidifference(task.summand.terms, run.constant) ELSE task.supplied.terms,
            task, run)
=============================================================================
