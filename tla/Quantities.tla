----------------------------- MODULE Quantities -----------------------------
(***************************************************************************)
(* Units, quantities, statistics and uncertainty: operations/units.py,     *)
(* quantity.py, data.py and measurement.py.                                *)
(*                                                                         *)
(* Pint is external: a unit has a dimension and a factor to the base unit  *)
(* of that dimension.  A registry holds a rational in place of an          *)
(* irrational factor, so that Factor and TrueFactor differ for such a unit *)
(* and an exact-looking result that went through it is wrong.              *)
(***************************************************************************)
EXTENDS Handlers

CONSTANTS
    Units,          \* name -> [dim, factor, trueFactor, calendar]
    Expressions,    \* quantity expressions, trees over numbers and unit names
    MaxNodes,       \* bound of the nodes of an expression
    MaxExponent,    \* bound of an exponent
    Samples,        \* values of a statistics request: integers, "float" or "text"
    MaxSamples      \* bound: length of a sample

VARIABLE call

Names == DOMAIN Units
Dims == {Units[u].dim : u \in Names}

\* Products of units: a function from names to exponents.
Dimensionless == [u \in Names |-> 0]
Single(u) == [v \in Names |-> IF v = u THEN 1 ELSE 0]
DimOf(units) == [d \in Dims |-> SumFunctionOnSet(units, {u \in Names : Units[u].dim = d})]
FactorOf(units, f(_)) ==
    FoldSet(LAMBDA u, acc : IF units[u] >= 0 THEN QMul(acc, QPow(f(u), units[u])) ELSE QDiv(acc, QPow(f(u), -units[u])),
            Whole(1), Names)
Factor(units) == FactorOf(units, LAMBDA u : Units[u].factor)
TrueFactor(units) == FactorOf(units, LAMBDA u : Units[u].trueFactor)

\* _unit_path_is_rational
unit_path_is_rational(units) == \A u \in Names : units[u] # 0 => Units[u].factor = Units[u].trueFactor

calendar_unit_names(units) == {u \in Names : units[u] # 0 /\ Units[u].calendar}
require_calendar_policy(names, policy) == names = {} \/ policy = "average_duration"

\* quantity.to(units) of the registry.
Converted(q, units) == [q EXCEPT !.mag = QDiv(QMul(q.mag, Factor(q.units)), Factor(units)), !.units = units]

-----------------------------------------------------------------------------
(* quantity.py, _QuantityTranslator                                        *)

Failing(code) == [code |-> code, mag |-> Whole(0), units |-> Dimensionless, rational |-> TRUE, calendar |-> {}]
Quantity(mag, units) == [Failing("ok") EXCEPT !.mag = mag, !.units = units, !.calendar = calendar_unit_names(units)]
Joined(l, r, mag, units) ==
    [code |-> "ok", mag |-> mag, units |-> units, rational |-> l.rational /\ r.rational, calendar |-> l.calendar \cup r.calendar]

\* A sum is in the units of its left operand.  A conversion the registry cannot
\* do in fractions raises TypeError, which visit_BinOp turns into E_UNIT.
Sum(l, r, sign, raises) ==
    LET rational == l.units # r.units => unit_path_is_rational(l.units) /\ unit_path_is_rational(r.units)
    IN IF DimOf(l.units) # DimOf(r.units) \/ (raises /\ ~rational) THEN Failing("E_UNIT")
       ELSE [Joined(l, r, QAdd(l.mag, QMul(Whole(sign), Converted(r, l.units).mag)), l.units)
               EXCEPT !.rational = l.rational /\ r.rational /\ rational]

Power(l, r) ==
    CASE DimOf(r.units) # DimOf(Dimensionless) \/ r.mag[2] # 1 -> Failing("E_UNIT")
      [] DimOf(r.units) = DimOf(Dimensionless) /\ r.mag[2] = 1 /\ Abs(r.mag[1]) > MaxExponent -> Failing("E_LIMIT")
      [] OTHER ->
           IF r.mag[1] < 0 /\ l.mag[1] = 0 THEN Failing("E_UNIT")
           ELSE LET n == Abs(r.mag[1])
                    mag == IF r.mag[1] < 0 THEN QDiv(Whole(1), QPow(l.mag, n)) ELSE QPow(l.mag, n)
                IN Joined(l, r, mag, [u \in Names |-> l.units[u] * r.mag[1]])

BinOp(op, l, r, raises) ==
    CASE l.code # "ok" -> l
      [] l.code = "ok" /\ r.code # "ok" -> r
      [] OTHER ->
           CASE op = "add" -> Sum(l, r, 1, raises)
             [] op = "sub" -> Sum(l, r, -1, raises)
             [] op = "mul" -> Joined(l, r, QMul(l.mag, r.mag), [u \in Names |-> l.units[u] + r.units[u]])
             [] op = "div" -> IF r.mag[1] = 0 THEN Failing("E_UNIT")
                              ELSE Joined(l, r, QDiv(l.mag, r.mag), [u \in Names |-> l.units[u] - r.units[u]])
             [] op = "pow" -> Power(l, r)
             [] OTHER -> Failing("E_AST_BLOCK")

RECURSIVE visit(_, _)
visit(t, raises) ==
    CASE t[1] = "num" -> Quantity(Whole(t[2]), Dimensionless)
      [] t[1] = "unit" -> IF t[2] \in Names THEN Quantity(Whole(1), Single(t[2])) ELSE Failing("E_UNIT")
      [] t[1] = "neg" -> LET v == visit(t[2], raises) IN [v EXCEPT !.mag = QNeg(v.mag)]
      [] t[1] = "call" -> Failing("E_AST_BLOCK")
      [] OTHER -> BinOp(t[1], visit(t[2], raises), visit(t[3], raises), raises)

RECURSIVE Nodes(_)
Nodes(t) ==
    CASE t[1] \in {"num", "unit", "call"} -> 1
      [] t[1] = "neg" -> 1 + Nodes(t[2])
      [] OTHER -> 1 + Nodes(t[2]) + Nodes(t[3])

translate(t, raises) == IF Nodes(t) > MaxNodes THEN Failing("E_LIMIT") ELSE visit(t, raises)

\* evaluate.  target is a unit name, "none", or "unknown".  raises: the exact
\* registry raises TypeError on an irrational conversion; the last one, to the
\* target, is then done again in floating point.
evaluate(t, target, policy, raises) ==
    LET q == translate(t, raises)
        to == Single(target)
        rational == target # "none" => unit_path_is_rational(q.units) /\ unit_path_is_rational(to)
        calendar == q.calendar \cup (IF target = "none" THEN {} ELSE calendar_unit_names(to))
        fallback == target # "none" /\ raises /\ ~rational /\ q.units # to
    IN IF q.code # "ok" THEN Refused(q.code)
       ELSE Handled(<< <<target # "unknown", "E_UNIT">>,
                       <<target # "none" => DimOf(q.units) = DimOf(to), "E_UNIT">>,
                       <<require_calendar_policy(calendar, policy), "E_UNIT">> >>,
                    [exact |-> q.rational /\ rational /\ ~fallback, averaged |-> calendar # {},
                     value |-> IF target = "none" THEN q ELSE Converted(q, to)])

-----------------------------------------------------------------------------
(* data.py                                                                 *)

\* units_convert: a floating-point value is never exact.
units_convert(value, source, target, policy, raises) ==
    LET from == Single(source)  to == Single(target)
        rational == unit_path_is_rational(from) /\ unit_path_is_rational(to)
        known == {source, target} \subseteq Names
    IN Handled(<< <<value # "bool", "E_INPUT">>, <<value # "text", "E_UNIT">>, <<known, "E_UNIT">>,
                  <<known => require_calendar_policy(calendar_unit_names(from) \cup calendar_unit_names(to), policy), "E_UNIT">>,
                  <<known => DimOf(from) = DimOf(to), "E_UNIT">> >>,
               [exact |-> value = "exact" /\ rational /\ ~(raises /\ ~rational /\ from # to),
                averaged |-> calendar_unit_names(from) \cup calendar_unit_names(to) # {},
                value |-> Converted(Quantity(Whole(6), from), to)])

\* _linear_quartile; sequences count from 1.
linear_quartile(ordered, numerator) ==
    LET position == Q((Len(ordered) - 1) * numerator, 4)
        lower == position[1] \div position[2]
        upper == Min({lower + 1, Len(ordered) - 1})
    IN QAdd(ordered[lower + 1], QMul(QSub(ordered[upper + 1], ordered[lower + 1]), QSub(position, Whole(lower))))

exact_statistics(values, ddof) ==
    LET ordered == SortSeq([i \in DOMAIN values |-> Whole(values[i])], QLess)
        count == Len(values)
        mean == QDiv(QSum(ordered), Whole(count))
        half == count \div 2
    IN [mean |-> mean,
        median |-> IF count % 2 = 1 THEN ordered[half + 1] ELSE QDiv(QAdd(ordered[half], ordered[half + 1]), Whole(2)),
        variance |-> QDiv(QSum([i \in 1..count |-> QMul(QSub(ordered[i], mean), QSub(ordered[i], mean))]), Whole(count - ddof)),
        minimum |-> ordered[1], maximum |-> ordered[count],
        q1 |-> linear_quartile(ordered, 1), q3 |-> linear_quartile(ordered, 3), ordered |-> ordered]

\* statistics_describe: one value that is no exact number sends the whole
\* sample through floating point, text that is no number raises there.
statistics_describe(values, ddof) ==
    LET exact == \A i \in DOMAIN values : values[i] \notin {NotANumber, 99992}
    IN Handled(list_arg(Len(values), 1, MaxSamples) \o integer_arg(ddof, 0, Max({0, Len(values) - 1}))
               \o << <<\A i \in DOMAIN values : values[i] # NotANumber, "E_RUNTIME">> >>,
               IF exact /\ ddof < Len(values) THEN exact_statistics(values, ddof) ELSE [approximate |-> TRUE])

-----------------------------------------------------------------------------
(* measurement.py.  Three inputs; a correlation is a number of halves.     *)

Pairs == {{1, 2}, {1, 3}, {2, 3}}
Correlation(rho, i, j) == IF i = j THEN 2 ELSE rho[{i, j}]

\* Every principal minor of the matrix, in units of powers of a half.
positive_semidefinite(rho) ==
    /\ \A p \in Pairs : rho[p]^2 <= 4
    /\ 8 + (2 * rho[{1, 2}] * rho[{1, 3}] * rho[{2, 3}]) - (2 * (rho[{1, 2}]^2 + rho[{1, 3}]^2 + rho[{2, 3}]^2)) >= 0


\* Twice the variance of the first-order model, for sensitivities s.
Variance(rho, u, s) ==
    SumFunctionOnSet([p \in (1..3) \X (1..3) |->
                        s[p[1]] * s[p[2]] * u[p[1]] * u[p[2]] * Correlation(rho, p[1], p[2])], (1..3) \X (1..3))

propagate(rho, u, s, used, repeated) ==
    Handled(<< <<used, "E_INPUT">>, <<\A i \in 1..3 : u[i] >= 0, "E_DOMAIN">>, <<~repeated, "E_INPUT">>,
               <<\A p \in Pairs : -2 <= rho[p] /\ rho[p] <= 2, "E_DOMAIN">>,
               <<positive_semidefinite(rho), "E_DOMAIN">> >>,
            Variance(rho, u, s))

-----------------------------------------------------------------------------
Policies == {"reject", "average_duration"}
EvaluateCall == \E t \in Expressions, target \in Names \cup {"none", "unknown"}, policy \in Policies, raises \in BOOLEAN :
    call' = [op |-> "quantity", t |-> t, target |-> target, policy |-> policy, out |-> evaluate(t, target, policy, raises)]
ConvertCall == \E value \in {"exact", "float", "text", "bool"}, source, target \in Names \cup {"unknown"}, policy \in Policies, raises \in BOOLEAN :
    call' = [op |-> "convert", t |-> <<"mul", <<"num", 6>>, <<"unit", source>>>>, target |-> target, policy |-> policy,
             out |-> units_convert(value, source, target, policy, raises)]
StatisticsCall == \E n \in 0..(MaxSamples + 1), ddof \in 0..2 : \E values \in [1..n -> Samples] :
    call' = [op |-> "statistics", out |-> statistics_describe(values, ddof)]
PropagateCall == \E rho \in [Pairs -> {-3, -2, -1, 0, 1, 2}], u \in [1..3 -> {-1, 1, 2}], s \in [1..3 -> {-1, 1}], used, repeated \in BOOLEAN :
    call' = [op |-> "propagate", out |-> propagate(rho, u, s, used, repeated)]

Next == EvaluateCall \/ ConvertCall \/ StatisticsCall \/ PropagateCall

-----------------------------------------------------------------------------
(* Properties.                                                             *)

\* The value of an expression in base units, by the factors the units have.
RECURSIVE Meaning(_)
Meaning(t) ==
    CASE t[1] = "num" -> Whole(t[2])
      [] t[1] = "unit" -> Units[t[2]].trueFactor
      [] t[1] = "neg" -> QNeg(Meaning(t[2]))
      [] t[1] = "add" -> QAdd(Meaning(t[2]), Meaning(t[3]))
      [] t[1] = "sub" -> QSub(Meaning(t[2]), Meaning(t[3]))
      [] t[1] = "mul" -> QMul(Meaning(t[2]), Meaning(t[3]))
      [] t[1] = "div" -> QDiv(Meaning(t[2]), Meaning(t[3]))
      [] t[1] = "pow" -> QPow(Meaning(t[2]), Meaning(t[3])[1])

\* A quantity reported as exact is worth what its expression means, whichever
\* of the sums and conversions went through an irrational factor; a calendar
\* unit is answered only under the policy that names its average length.
ExactQuantityIsTrue ==
    call.op \in {"quantity", "convert"} /\ call.out.status = "ok" =>
      /\ call.out.result.exact =>
           QMul(call.out.result.value.mag, TrueFactor(call.out.result.value.units)) = Meaning(call.t)
      /\ call.out.result.averaged => call.policy = "average_duration"

\* The quartiles of a sample are in order about its median, which is the second
\* of them; the variance of a measurement that passed the checks on its
\* correlations is never negative.
SampleInOrder ==
    /\ call.op = "statistics" /\ call.out.status = "ok" /\ "ordered" \in DOMAIN call.out.result =>
         LET m == call.out.result
         IN /\ QLeq(m.minimum, m.q1) /\ QLeq(m.q1, m.median) /\ QLeq(m.median, m.q3) /\ QLeq(m.q3, m.maximum)
            /\ m.median = linear_quartile(m.ordered, 2)
            /\ QLeq(m.minimum, m.mean) /\ QLeq(m.mean, m.maximum)
    /\ call.op = "propagate" /\ call.out.status = "ok" => call.out.result >= 0
=============================================================================
