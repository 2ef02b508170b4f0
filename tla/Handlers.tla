------------------------------ MODULE Handlers ------------------------------
(***************************************************************************)
(* What the operation handlers share: errors.py, the argument checks of    *)
(* validation.py and the exact arithmetic of numbers and polynomials.      *)
(*                                                                         *)
(* A handler is a function from a request to an outcome.  It runs a        *)
(* sequence of require() checks, the first that fails decides the code.    *)
(* An argument that is no number at all is the number NotANumber.          *)
(***************************************************************************)
EXTENDS Integers, Sequences, FiniteSetsExt, SequencesExt

NotANumber == 99991

\* require(condition, code, message), one after the other.
FirstFailure(checks) ==
    LET failing == {i \in DOMAIN checks : ~checks[i][1]}
    IN IF failing = {} THEN "ok" ELSE checks[Min(failing)][2]

RetryableCodes == {"E_OVERLOADED", "E_RUNTIME", "E_UNAVAILABLE"}
InputCodes == {"E_AST_BLOCK", "E_DOMAIN", "E_INPUT", "E_LIMIT", "E_NAME", "E_OPERATION",
               "E_SYNTAX", "E_UNIT"}

DefaultPhase(code) ==
    CASE code \in InputCodes -> "input"
      [] code = "E_OUTPUT_LIMIT" -> "output"
      [] code = "E_CANCELLED" -> "cancellation"
      [] code \in {"E_OVERLOADED", "E_UNAVAILABLE"} -> "admission"
      [] OTHER -> "execution"

DefaultAction(code) ==
    CASE code = "E_OPERATION" -> "search_operation"
      [] code \in InputCodes \ {"E_OPERATION"} -> "correct_input"
      [] code \in {"E_OUTPUT_LIMIT", "E_MEMORY"} -> "reduce_request"
      [] code = "E_TIMEOUT" -> "split_or_reduce"
      [] code \in RetryableCodes -> "retry"
      [] OTHER -> "stop"

\* error_payload, with no phase, delay or details of its own.
Refused(code) ==
    [status |-> "error", code |-> code, retryable |-> code \in RetryableCodes,
     phase |-> DefaultPhase(code), suggestedAction |-> DefaultAction(code)]

Answered(result) == [status |-> "ok", result |-> result]

\* A handler: the checks in their order, then the result.
Handled(checks, result) ==
    LET verdict == FirstFailure(checks)
    IN IF verdict = "ok" THEN Answered(result) ELSE Refused(verdict)

\* integer_arg and exact_integer_arg: a number, then its range.
integer_arg(value, minimum, maximum) ==
    << <<value # NotANumber, "E_INPUT">>, <<minimum <= value /\ value <= maximum, "E_LIMIT">> >>

\* list_arg: the length of an array, an argument of another type has none.
list_arg(length, minimum, maximum) == integer_arg(length, minimum, maximum)

\* string_arg, of a text's length; the empty text is an input error.
string_arg(length, maximum) ==
    << <<length # NotANumber /\ length # 0, "E_INPUT">>, <<length <= maximum, "E_LIMIT">> >>

\* variables_arg: identifiers without duplicates, "" being none.
variables_arg(names, maximum) ==
    list_arg(Len(names), 1, maximum)
    \o << <<\A i \in DOMAIN names : names[i] # "", "E_INPUT">>,
          <<\A i, j \in DOMAIN names : names[i] = names[j] => i = j, "E_INPUT">> >>

\* enum_arg
enum_arg(value, choices) == << <<value \in choices, "E_INPUT">> >>

Abs(n) == IF n < 0 THEN -n ELSE n
Sign(n) == IF n < 0 THEN -1 ELSE IF n > 0 THEN 1 ELSE 0

-----------------------------------------------------------------------------
(* fractions.Fraction, and the exact rationals of sympy: a pair of a       *)
(* numerator and a positive denominator in lowest terms.                   *)

\* Euclid's algorithm, as a recursive function of the smaller number.
GcdOf(a, b) ==
    LET g[m \in Nat, n \in Nat] == IF n = 0 THEN m ELSE g[n, m % n] IN g[Abs(a), Abs(b)]

LowestTerms(n, d, g) == IF d > 0 THEN <<n \div g, d \div g>> ELSE <<(-n) \div g, (-d) \div g>>
Q(n, d) == LowestTerms(n, d, GcdOf(n, d))
Whole(n) == <<n, 1>>

QAdd(p, q) == Q(p[1] * q[2] + q[1] * p[2], p[2] * q[2])
QNeg(p) == <<-p[1], p[2]>>
QSub(p, q) == QAdd(p, QNeg(q))
QMul(p, q) == Q(p[1] * q[1], p[2] * q[2])
QDiv(p, q) == Q(p[1] * q[2], p[2] * q[1])
QPow(p, n) == FoldLeft(QMul, Whole(1), [i \in 1..n |-> p])
QSum(s) == FoldLeft(QAdd, Whole(0), s)
QLeq(p, q) == p[1] * q[2] <= q[1] * p[2]
QLess(p, q) == p[1] * q[2] < q[1] * p[2]
QAbs(p) == <<Abs(p[1]), p[2]>>

\* The nearest integer: a tie to the even one, or away from zero.
QRound(p, mode) ==
    LET below == p[1] \div p[2]
        twice == 2 * (p[1] % p[2])
        tieUp == IF mode = "half_even" THEN below % 2 = 1 ELSE p[1] > 0
    IN IF twice > p[2] \/ (twice = p[2] /\ tieUp) THEN below + 1 ELSE below

-----------------------------------------------------------------------------
(* sympy.Poly over the integers: a function from the exponent tuples of    *)
(* its terms to their nonzero coefficients.                                *)

Trim(f) == [e \in {d \in DOMAIN f : f[d] # 0} |-> f[e]]
Coefficient(p, e) == IF e \in DOMAIN p THEN p[e] ELSE 0
Combine(d, e) == [i \in DOMAIN d |-> d[i] + e[i]]

PZero == [e \in {} |-> 0]
PAdd(p, q) == Trim([e \in DOMAIN p \cup DOMAIN q |-> Coefficient(p, e) + Coefficient(q, e)])
PScale(k, p) == Trim([e \in DOMAIN p |-> k * p[e]])
PSub(p, q) == PAdd(p, PScale(-1, q))
PMul(p, q) ==
    LET pairs == (DOMAIN p) \X (DOMAIN q)
    IN Trim([e \in {Combine(x[1], x[2]) : x \in pairs} |->
               MapThenSumSet(LAMBDA x : p[x[1]] * q[x[2]], {x \in pairs : Combine(x[1], x[2]) = e})])
PSum(s) == FoldLeft(PAdd, PZero, s)
Diff(p, i) ==
    [e \in {[d EXCEPT ![i] = @ - 1] : d \in {d \in DOMAIN p : d[i] > 0}} |-> (e[i] + 1) * p[[e EXCEPT ![i] = @ + 1]]]
=============================================================================
