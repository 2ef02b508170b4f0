---------------------------- MODULE ExactNumbers ----------------------------
(***************************************************************************)
(* Rounding and exact integers: operations/rounding.py, number_theory.py,  *)
(* combinatorics.py and integer_format.py; float.ieee754: floating.py.     *)
(*                                                                         *)
(* A decimal is a number of hundredths, or NotANumber, or Infinite; a      *)
(* quantum is a positive number of hundredths.                             *)
(***************************************************************************)
EXTENDS Handlers, TLC

CONSTANTS
    Decimals, Increments,   \* hundredths a request may hold
    Integers_,              \* integers a request may hold
    MaxDecimal,             \* bound of a decimal's magnitude (_MAX_DECIMAL_ADJUSTED_EXPONENT)
    MaxInteger,             \* _MAX_INTEGER
    MaxCount,               \* _MAX_COUNT
    Precision,              \* digits of an approximation
    Narrow, Wide,           \* [exponent, fraction]: binary32 and binary64
    UnitExponent,           \* a unit is 2^-UnitExponent
    Magnitudes              \* magnitudes of decimal inputs, in units

VARIABLE call

Infinite == 99992
RoundingModes == {"half_even", "half_up", "half_down", "toward_zero", "away_from_zero",
                  "ceiling", "floor"}

finite_decimal(d) ==
    << <<d # NotANumber, "E_INPUT">>, <<d # Infinite, "E_DOMAIN">>,
       <<Abs(d) <= MaxDecimal, "E_LIMIT">> >>

\* A mutant of Multiple: a tie always moves to the greater multiple.
MultipleTiesUp(value, quantum, mode) ==
    IF 2 * (value % quantum) >= quantum THEN value \div quantum + 1 ELSE value \div quantum

\* Decimal.quantize of value / quantum to an integer, in a rounding mode.
Multiple(value, quantum, mode) ==
    LET below == value \div quantum
        part == value % quantum
        up == CASE mode = "floor" -> FALSE
                [] mode = "ceiling" -> part > 0
                [] mode = "toward_zero" -> part > 0 /\ value < 0
                [] mode = "away_from_zero" -> part > 0 /\ value > 0
                [] mode = "half_even" -> 2 * part > quantum \/ (2 * part = quantum /\ below % 2 = 1)
                [] mode = "half_up" -> 2 * part > quantum \/ (2 * part = quantum /\ value > 0)
                [] mode = "half_down" -> 2 * part > quantum \/ (2 * part = quantum /\ value < 0)
    IN IF up THEN below + 1 ELSE below

Digits(n) == Min({k \in 1..9 : n < 10^k})

\* The quantum of an action: r.amount is its decimalPlaces, significantDigits
\* or increment.  value.adjusted() is the position of the leading digit.
Quantum(r) ==
    CASE r.action = "decimal_places" -> IF r.amount >= 2 THEN 1 ELSE 10^(2 - r.amount)
      [] r.action = "significant_digits" ->
           LET exponent == IF r.value = 0 THEN 3 - r.amount ELSE Digits(Abs(r.value)) - r.amount
           IN IF exponent <= 0 THEN 1 ELSE 10^exponent
      [] r.action = "increment" -> r.amount

quantize(r) ==
    LET rounded == Quantum(r) * Multiple(r.value, Quantum(r), r.mode)
    IN Handled(finite_decimal(r.value)
               \o (CASE r.action = "decimal_places" -> integer_arg(r.amount, -1, 3)
                     [] r.action = "significant_digits" -> integer_arg(r.amount, 1, 3)
                     [] r.action = "increment" ->
                          finite_decimal(r.amount) \o << <<r.amount > 0, "E_DOMAIN">> >>),
               [rounded |-> rounded, quantum |-> Quantum(r),
                direction |-> CASE rounded > r.value -> "up"
                                [] rounded < r.value -> "down"
                                [] OTHER -> "unchanged",
                negativeZero |-> rounded = 0 /\ r.value < 0])

\* The quotient of integer.divide; divmod rounds towards minus infinity.
Quotient(dividend, divisor, mode) ==
    LET divmod(n, d) == IF d > 0 THEN n \div d ELSE (-n) \div (-d) IN
    CASE mode = "truncating" ->
           IF (dividend < 0) # (divisor < 0) THEN -(Abs(dividend) \div Abs(divisor))
           ELSE Abs(dividend) \div Abs(divisor)
      [] mode = "floor" -> divmod(dividend, divisor)
      [] mode = "euclidean" ->
           IF divisor < 0 THEN -divmod(dividend, Abs(divisor)) ELSE divmod(dividend, divisor)

divide_integer(r) ==
    LET quotient == Quotient(r.dividend, r.divisor, r.mode)
    IN Handled(<< <<r.dividend # NotANumber, "E_INPUT">>, <<r.divisor # NotANumber, "E_INPUT">>,
                  <<r.divisor # 0, "E_DOMAIN">> >>,
               [quotient |-> quotient, remainder |-> r.dividend - r.divisor * quotient])

-----------------------------------------------------------------------------
(* number_theory.py and combinatorics.py                                   *)

\* exact_integer_result: the exact digits, and an approximation that is exact
\* while they fit and otherwise a mantissa rounded half to even.
exact_integer_result(value) ==
    LET excess == Digits(Abs(value)) - Precision
        mantissa == Sign(value) * Multiple(Abs(value), 10^excess, "half_even")
    IN [exact |-> value,
        approx |-> IF excess <= 0 THEN <<value, 0>>
                   ELSE IF Abs(mantissa) = 10^Precision THEN <<mantissa \div 10, excess + 1>>
                   ELSE <<mantissa, excess>>]

Divides(d, n) == IF d = 0 THEN n = 0 ELSE n % Abs(d) = 0
IsPrime(n) == n > 1 /\ \A d \in 2..(n - 1) : ~Divides(d, n)

\* math.gcd, by Euclid's algorithm as a recursive function of the smaller.
gcd(a, b) ==
    LET m == Min({Abs(a), Abs(b)})  n == Max({Abs(a), Abs(b)})
        euclid[k \in 0..m, l \in 0..n] == IF k = 0 THEN l ELSE euclid[l % k, k]
    IN euclid[m, n]
lcm(a, b) == IF a = 0 \/ b = 0 THEN 0 ELSE Abs(a * b) \div gcd(a, b)

parse_integer(n) == << <<n # NotANumber, "E_INPUT">>, <<Abs(n) <= MaxInteger, "E_LIMIT">> >>

\* sympy's factorint is external: the exponents of the primes of a number.
factorization(r) ==
    LET magnitude == Abs(r.value)
        Exponent(p) == Max({k \in 0..9 : p^k <= magnitude /\ Divides(p^k, magnitude)})
    IN Handled(integer_arg(r.value, -MaxInteger, MaxInteger)
               \o << <<r.value # 0, "E_DOMAIN">> >>,
               [sign |-> IF r.value < 0 THEN -1 ELSE 1, isPrime |-> IsPrime(r.value),
                factors |-> {<<p, Exponent(p)>> : p \in {q \in 2..magnitude :
                                                         IsPrime(q) /\ Divides(q, magnitude)}}])

gcd_lcm(r) ==
    Handled(list_arg(Len(r.values), 1, 128)
            \o FoldLeft(LAMBDA checks, n : checks \o parse_integer(n), <<>>, r.values),
            [gcd |-> FoldLeft(gcd, 0, r.values), lcm |-> Abs(FoldLeft(lcm, 1, r.values))])

Invertible(value, modulus) == modulus < NotANumber => \E x \in 0..(modulus - 1) : (value * x) % modulus = 1
\* pow(value, exponent, modulus), squarings left out.
ModularPower(value, exponent, modulus) ==
    FoldLeft(LAMBDA power, factor : (power * factor) % modulus, 1 % modulus,
             [i \in 1..exponent |-> value])

modular(r) ==
    Handled(integer_arg(r.value, -MaxInteger, MaxInteger) \o integer_arg(r.modulus, 2, MaxInteger)
            \o << <<r.action = "inverse" => Invertible(r.value, r.modulus), "E_DOMAIN">> >>,
            exact_integer_result(
                CASE r.action = "remainder" -> r.value % r.modulus
                  [] r.action = "power" -> ModularPower(r.value, r.exponent, r.modulus)
                  [] r.action = "inverse" ->
                       CHOOSE x \in 0..(r.modulus - 1) : (r.value * x) % r.modulus = 1))

Factorial(n) == FoldLeft(LAMBDA product, k : product * k, 1, [i \in 1..n |-> i])

\* math.perm and math.comb are external.
count(r) ==
    IF r.action = "multinomial"
    THEN LET total == FoldLeft(LAMBDA sum, n : sum + n, 0, r.counts) IN
         Handled(list_arg(Len(r.counts), 1, 128)
                 \o << <<\A i \in DOMAIN r.counts : r.counts[i] # NotANumber, "E_INPUT">>,
                       <<\A i \in DOMAIN r.counts : r.counts[i] >= 0, "E_INPUT">>,
                       <<total <= MaxCount, "E_LIMIT">> >>,
                 exact_integer_result(FoldLeft(LAMBDA left, n : left \div Factorial(n),
                                               Factorial(total), r.counts)))
    ELSE LET ordered == Factorial(r.n) \div Factorial(r.n - r.k) IN
         Handled(integer_arg(r.n, 0, MaxCount) \o integer_arg(r.k, 0, MaxCount)
                 \o << <<r.k <= r.n, "E_DOMAIN">> >>,
                 exact_integer_result(IF r.action = "binomial" THEN ordered \div Factorial(r.k)
                                      ELSE ordered))

-----------------------------------------------------------------------------
Serve(op, r, out) == call' = [op |-> op, r |-> r, out |-> out]

QuantizeCall ==
    \E a \in {"decimal_places", "significant_digits", "increment"}, v \in Decimals,
       n \in Increments \cup {-2, -1, 1, 2, 3, 4}, m \in RoundingModes :
        LET r == [action |-> a, value |-> v, amount |-> n, mode |-> m]
        IN Serve("quantize", r, quantize(r))
DivideCall ==
    \E x, y \in Integers_, m \in {"truncating", "floor", "euclidean"} :
        LET r == [dividend |-> x, divisor |-> y, mode |-> m]
        IN Serve("divide_integer", r, divide_integer(r))
FactorCall ==
    \E n \in Integers_ : Serve("factorization", [value |-> n], factorization([value |-> n]))
GcdCall ==
    \E n \in 0..3 : \E s \in [1..n -> {-6, -4, 0, 1, 9, 10, MaxInteger + 1, NotANumber}] :
        Serve("gcd_lcm", [values |-> s], gcd_lcm([values |-> s]))
ModularCall ==
    \E a \in {"remainder", "power", "inverse"}, v, m \in Integers_, e \in {0, 1, 3} :
        LET r == [action |-> a, value |-> v, modulus |-> m, exponent |-> e]
        IN (a = "power" \/ e = 0) /\ Serve("modular", r, modular(r))
CountCall ==
    \/ \E a \in {"binomial", "permutations"}, n, k \in -1..(MaxCount + 1) \cup {NotANumber} :
         LET r == [action |-> a, n |-> n, k |-> k] IN Serve("count", r, count(r))
    \/ \E n \in 0..3 : \E s \in [1..n -> {-1, 0, 1, 2, 3, 5, NotANumber}] :
         LET r == [action |-> "multinomial", counts |-> s] IN Serve("count", r, count(r))

Next == QuantizeCall \/ DivideCall \/ FactorCall \/ GcdCall \/ ModularCall \/ CountCall

-----------------------------------------------------------------------------
Accepted(op) == call.op = op /\ call.out.status = "ok"
Closer(a, b, value) == Abs(a - value) < Abs(b - value)

\* decimal.quantize: the result is a multiple of the quantum next to the value,
\* no other multiple is nearer in the half modes, a tie goes where the mode
\* says, and the directed modes never cross the value the wrong way.
QuantizeNearest ==
    Accepted("quantize") =>
      LET r == call.r
          q == call.out.result.quantum
          y == call.out.result.rounded
          tie == 2 * Abs(y - r.value) = q
      IN /\ y % q = 0 /\ Abs(y - r.value) < q
         /\ r.mode \in {"half_even", "half_up", "half_down"} =>
              /\ \A z \in {y - q, y + q} : ~Closer(z, y, r.value)
              /\ tie => CASE r.mode = "half_even" -> (y \div q) % 2 = 0
                          [] r.mode = "half_up" -> Abs(y) > Abs(r.value)
                          [] r.mode = "half_down" -> Abs(y) < Abs(r.value)
         /\ CASE r.mode = "floor" -> y <= r.value
              [] r.mode = "ceiling" -> y >= r.value
              [] r.mode = "toward_zero" -> Abs(y) <= Abs(r.value)
              [] r.mode = "away_from_zero" -> Abs(y) >= Abs(r.value)
              [] OTHER -> TRUE
         /\ call.out.result.negativeZero => r.value < 0

\* Exact integers: division leaves the remainder its mode promises; the
\* factors multiply back; gcd and lcm are the greatest and the least; an
\* inverse is one; counts agree with Pascal's rule however the factorials are
\* divided; an approximation is within half a unit of its last digit.
IntegersExact ==
    /\ Accepted("divide_integer") =>
         LET r == call.r  res == call.out.result IN
         /\ Abs(res.remainder) < Abs(r.divisor)
         /\ r.dividend = r.divisor * res.quotient + res.remainder
         /\ CASE r.mode = "truncating" -> Sign(res.remainder) \in {0, Sign(r.dividend)}
              [] r.mode = "floor" -> Sign(res.remainder) \in {0, Sign(r.divisor)}
              [] r.mode = "euclidean" -> res.remainder >= 0
    /\ Accepted("factorization") =>
         LET res == call.out.result IN
         /\ MapThenFoldSet(LAMBDA x, y : x * y, res.sign, LAMBDA f : f[1]^f[2],
                           LAMBDA S : CHOOSE f \in S : TRUE, res.factors) = call.r.value
         /\ res.isPrime <=> res.factors = {<<call.r.value, 1>>}
    /\ Accepted("gcd_lcm") =>
         LET s == ToSet(call.r.values)  res == call.out.result IN
         /\ \A n \in s : Divides(res.gcd, n) /\ Divides(n, res.lcm)
         /\ \A d \in 1..MaxInteger : (\A n \in s : Divides(d, n)) => Divides(d, res.gcd)
         /\ \A m \in 1..(res.lcm - 1) : \E n \in s : ~Divides(n, m)
    /\ Accepted("modular") =>
         LET r == call.r  y == call.out.result.exact IN
         /\ y \in 0..(r.modulus - 1)
         /\ r.action = "inverse" => (r.value * y) % r.modulus = 1 /\ gcd(r.value, r.modulus) = 1
    /\ Accepted("count") =>
         LET r == call.r  y == call.out.result IN
         /\ r.action = "binomial" /\ r.k \in 1..(r.n - 1) =>
              y.exact = count([r EXCEPT !.n = @ - 1]).result.exact
                        + count([r EXCEPT !.n = @ - 1, !.k = @ - 1]).result.exact
         /\ r.action = "multinomial" =>
              \A f \in {[i \in DOMAIN r.counts |-> Factorial(r.counts[i])]} :
                 y.exact * FoldLeft(LAMBDA a, b : a * b, 1, f)
                   = Factorial(FoldLeft(LAMBDA a, b : a + b, 0, r.counts))
         /\ 2 * Abs(y.approx[1] * 10^y.approx[2] - y.exact) <= 10^y.approx[2]
         /\ y.approx[2] > 0 => Digits(Abs(y.approx[1])) = Precision

-----------------------------------------------------------------------------
(* float.ieee754.  A format has an exponent and a fraction width; the two  *)
(* of the code are scaled down.  A finite value is a number of units,      *)
(* small enough that the midpoints between values are numbers of units     *)
(* too.  A decimal input is [neg, mag], so that -0 is one.                 *)

Formats == {Narrow, Wide}
SignBit(f) == 2^(f.exponent + f.fraction)
PositiveInfinity(f) == (2^f.exponent - 1) * 2^f.fraction
NegativeInfinity(f) == SignBit(f) + PositiveInfinity(f)
Bias(f) == 2^(f.exponent - 1) - 1
Magnitude(bits, f) == bits % SignBit(f)
Negative(bits, f) == bits >= SignBit(f)

\* The fields of a pattern and its class, in _projection.
ExponentBits(bits, f) == Magnitude(bits, f) \div 2^f.fraction
FractionBits(bits, f) == bits % 2^f.fraction
Class(bits, f) ==
    LET e == ExponentBits(bits, f)  zero == FractionBits(bits, f) = 0 IN
    CASE e = 2^f.exponent - 1 -> IF zero THEN "infinity" ELSE "nan"
      [] e = 0 -> IF zero THEN "zero" ELSE "subnormal"
      [] OTHER -> "normal"
Finite(bits, f) == Class(bits, f) \in {"zero", "subnormal", "normal"}

\* ulp_exponent, and the ulp in units.
Ulp(bits, f) ==
    LET e == ExponentBits(bits, f)
    IN 2^(UnitExponent + (IF e = 0 THEN 1 ELSE e) - Bias(f) - f.fraction)

\* bits_to_float: struct.unpack is external.  The value of a finite pattern.
Value(bits, f) ==
    LET e == ExponentBits(bits, f)
        significand == FractionBits(bits, f) + (IF e = 0 THEN 0 ELSE 2^f.fraction)
    IN (IF Negative(bits, f) THEN -1 ELSE 1) * significand * Ulp(bits, f)

\* Rounding a magnitude to a format, ties to even, past the largest to
\* infinity: float() and struct.pack are external.
Nearest(mag, f, top) ==
    LET step == Ulp(top, f)
        over == 2 * (mag - Value(top, f))
    IN IF over > step \/ (over = step /\ top % 2 = 1) THEN top + 1 ELSE top
Rounded(neg, mag, f) ==
    Nearest(mag, f, Max({0} \cup {b \in 0..(PositiveInfinity(f) - 1) : Value(b, f) <= mag})) + (IF neg THEN SignBit(f) ELSE 0)

\* decimal_input and float_to_bits: every decimal goes through a wide float.
Narrowed(wide, neg, f) ==
    IF Class(wide, Wide) = "infinity" THEN (IF neg THEN NegativeInfinity(f) ELSE PositiveInfinity(f))
    ELSE Rounded(neg, Abs(Value(wide, Wide)), f)
float_to_bits(d, f) == Narrowed(Rounded(d.neg, d.mag, Wide), d.neg, f)

Source(d) == IF d.neg THEN -d.mag ELSE d.mag

\* rounding_metadata
RoundingDirection(d, bits, f) ==
    CASE ~Finite(bits, f) -> "overflow"
      [] Finite(bits, f) /\ Value(bits, f) = Source(d) -> "exact"
      [] Finite(bits, f) /\ Value(bits, f) > Source(d) -> "up"
      [] Finite(bits, f) /\ Value(bits, f) < Source(d) -> "down"

None == -1

\* adjacent_bits: the neighbour in the total order, from -infinity through
\* -0 and +0 to infinity.
adjacent_bits(bits, f, direction) ==
    CASE Class(bits, f) = "nan" -> None
      [] Class(bits, f) # "nan" /\ direction > 0 ->
           CASE bits = PositiveInfinity(f) -> None
             [] bits = SignBit(f) -> 0
             [] OTHER -> IF Negative(bits, f) THEN bits - 1 ELSE bits + 1
      [] Class(bits, f) # "nan" /\ direction < 0 ->
           CASE bits = NegativeInfinity(f) -> None
             [] bits = 0 -> SignBit(f)
             [] OTHER -> IF Negative(bits, f) THEN bits + 1 ELSE bits - 1

Ordered(bits, f) == IF Negative(bits, f) THEN 2 * SignBit(f) - 1 - bits ELSE bits + SignBit(f)
ulp_distance(left, right, f) == Abs(Ordered(left, f) - Ordered(right, f))

projection(bits, f) ==
    [bits |-> bits, class |-> Class(bits, f),
     negativeZero |-> Class(bits, f) = "zero" /\ Negative(bits, f),
     previous |-> adjacent_bits(bits, f, -1), next |-> adjacent_bits(bits, f, 1)]

\* decode: a bit pattern as it is, a decimal by rounding.
Decoded(x, bits, f) ==
    projection(bits, f) @@ [direction |-> IF x.mode = "bits" THEN "exact" ELSE RoundingDirection(x, bits, f)]
decode(x, f) == Decoded(x, IF x.mode = "bits" THEN x.bits ELSE float_to_bits(x, f), f)

decode_checks(x, f) ==
    IF x.mode = "bits"
    THEN << <<x.bits # NotANumber, "E_INPUT">>, <<x.bits < 2 * SignBit(f), "E_LIMIT">> >>
    ELSE << <<x.mag # NotANumber, "E_INPUT">> >>

Inspect(r) == Handled(decode_checks(r.value, r.format), decode(r.value, r.format))

Comparison(left, right, f) ==
    LET Rank(b) == IF Class(b, f) # "infinity" THEN Value(b, f)
                   ELSE IF Negative(b, f) THEN -10^6 ELSE 10^6
        nan == "nan" \in {left.class, right.class}
    IN [comparison |-> CASE nan -> "unordered"
                         [] ~nan /\ Rank(left.bits) = Rank(right.bits) -> "equal"
                         [] ~nan /\ Rank(left.bits) < Rank(right.bits) -> "less"
                         [] ~nan /\ Rank(left.bits) > Rank(right.bits) -> "greater",
        bitsEqual |-> left.bits = right.bits,
        ulpDistance |-> IF nan THEN None ELSE ulp_distance(left.bits, right.bits, f),
        left |-> left.bits, right |-> right.bits]
Compare(r) ==
    Handled(decode_checks(r.value, r.format) \o decode_checks(r.right, r.format),
            Comparison(decode(r.value, r.format), decode(r.right, r.format), r.format))

-----------------------------------------------------------------------------
Patterns == [mode : {"bits"}, bits : 0..(2 * SignBit(Narrow)) \cup {NotANumber}]
DecimalInputs == [mode : {"decimal"}, neg : BOOLEAN, mag : Magnitudes \cup {NotANumber}]

InspectCall ==
    \E f \in Formats, x \in Patterns \cup DecimalInputs :
        LET r == [format |-> f, value |-> x]
        IN call' = [op |-> "inspect", r |-> r, out |-> Inspect(r)]
CompareCall ==
    \E x, y \in Patterns :
        LET r == [format |-> Narrow, value |-> x, right |-> y]
        IN call' = [op |-> "compare", r |-> r, out |-> Compare(r)]

NextFloat == InspectCall \/ CompareCall

-----------------------------------------------------------------------------
Neighbours(p, f) == {b \in {p.previous, p.next} : b # None /\ Finite(b, f)}

\* The wide value of a decimal is halfway between two narrow ones.
WideTie(d, a, b) == 2 * Value(Rounded(d.neg, d.mag, Wide), Wide) = Value(a, Narrow) + Value(b, Narrow)

\* float.ieee754: next and previous undo each other and never skip a value; the
\* distance in ulps counts the steps of next, so it is that of the order the
\* comparison uses, with -0 and +0 one apart.  A rounded input is reported on the
\* side it lies, and no neighbour is nearer to its source, but for a narrow input
\* whose wide value is a tie; of two equally near the even one is taken.
FloatsOrdered ==
    /\ Accepted("inspect") =>
         LET f == call.r.format  p == call.out.result IN
         /\ p.next # None => adjacent_bits(p.next, f, -1) = p.bits
                             /\ ulp_distance(p.bits, p.next, f) = 1
         /\ p.previous # None => adjacent_bits(p.previous, f, 1) = p.bits
         /\ Finite(p.bits, f) /\ p.next # None /\ Finite(p.next, f) /\ p.bits # SignBit(f) =>
              Value(p.next, f) - Value(p.bits, f)
                = Min({Ulp(p.bits, f), Ulp(p.next, f)})
         /\ call.r.value.mode = "decimal" /\ Finite(p.bits, f) =>
              \A b \in Neighbours(p, f), d \in {call.r.value} :
                 /\ Closer(Value(b, f), Value(p.bits, f), Source(d)) =>
                      f = Narrow /\ WideTie(d, p.bits, b)
                 /\ Value(b, f) + Value(p.bits, f) = 2 * Source(d)
                      => p.bits % 2 = 0 \/ Value(b, f) = Value(p.bits, f)
                 /\ p.direction = "up" => Value(p.bits, f) > Source(d)
                 /\ p.direction = "down" => Value(p.bits, f) < Source(d)
    /\ Accepted("compare") =>
         LET f == call.r.format  res == call.out.result IN
         /\ res.comparison = "less" => Ordered(res.left, f) < Ordered(res.right, f)
         /\ res.comparison = "greater" => Ordered(res.left, f) > Ordered(res.right, f)
         /\ res.comparison = "equal" =>
              res.ulpDistance = (IF res.bitsEqual THEN 0 ELSE 1)
         /\ res.comparison = "unordered" <=> res.ulpDistance = None

\* The warning of decode: an input "was rounded to the nearest representable
\* {format_name} value using ties-to-even" (floating.py:125), for both formats.
NearestRepresentable ==
    Accepted("inspect") /\ call.r.value.mode = "decimal" =>
      call.out.result.bits = Rounded(call.r.value.neg, call.r.value.mag, call.r.format)
=============================================================================
