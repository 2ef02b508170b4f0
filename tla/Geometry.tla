------------------------------ MODULE Geometry ------------------------------
(***************************************************************************)
(* operations/geometry.py: the local check of an almost complex structure  *)
(* J given by polynomials in the coordinates of a chart.                   *)
(*                                                                         *)
(* An entry is a tree: <<"int", n>>, <<"x", i>> (a coordinate), <<"neg",   *)
(* a>>, <<"add"|"sub"|"mul", a, b>>, <<"div", a, b>>, <<"pow", a, n>>, or  *)
(* a call, a name or a float the analyzer refuses.                         *)
(***************************************************************************)
EXTENDS Handlers

CONSTANTS
    Coordinates,    \* numbers of coordinates tried
    Entries,        \* trees of the entries
    Probes,         \* trees only the analyzer is asked about
    MaxNodes,       \* MAX_ENTRY_AST_NODES
    MaxDegree,      \* MAX_ENTRY_DEGREE
    MaxTerms,       \* MAX_ENTRY_TERMS
    MaxDerived,     \* MAX_INTERMEDIATE_TERMS
    MaxCoefficient  \* the largest coefficient of MAX_COEFFICIENT_BITS

VARIABLE call

N == 2
Constant == [i \in 1..N |-> 0]
Unit(i) == [j \in 1..N |-> IF j = i THEN 1 ELSE 0]
Degree(e) == SumFunction(e)

-----------------------------------------------------------------------------
(* The shape of an entry: a code, and the exponents its expansion may have.*)

\* _bounded_shape
bounded_shape(terms) ==
    [code |-> IF Cardinality(terms) > MaxTerms \/ \E e \in terms : Degree(e) > MaxDegree THEN "E_LIMIT" ELSE "ok", terms |-> terms]
Failing(code) == [code |-> code, terms |-> {}]

\* _multiply_shapes
multiply_shapes(l, r) ==
    CASE l.code # "ok" -> l
      [] l.code = "ok" /\ r.code # "ok" -> r
      [] OTHER -> bounded_shape({Combine(d, e) : d \in l.terms, e \in r.terms})

add_shapes(l, r) == IF l.code # "ok" THEN l ELSE IF r.code # "ok" THEN r ELSE bounded_shape(l.terms \cup r.terms)

\* _power_shape: the bits of the exponent from the lowest, the squares bounded too.
power_shape(base, exponent) ==
    LET Turn(p, i) ==
            LET rest == p.remaining \div 2
            IN IF p.remaining = 0 THEN p
               ELSE [result |-> IF p.remaining % 2 = 1 THEN multiply_shapes(p.result, p.factor) ELSE p.result,
                     factor |-> IF rest > 0 THEN multiply_shapes(p.factor, p.factor) ELSE p.factor, remaining |-> rest]
        start == [result |-> bounded_shape({Constant}), factor |-> base, remaining |-> exponent]
    IN CASE base.code # "ok" -> base
         [] base.code = "ok" /\ exponent < 0 -> Failing("E_DOMAIN")
         [] base.code = "ok" /\ exponent > MaxDegree -> Failing("E_LIMIT")
         [] OTHER -> FoldLeft(Turn, start, [i \in 1..MaxDegree |-> i]).result

\* _PolynomialShapeAnalyzer
RECURSIVE shape(_)
shape(t) ==
    CASE t[1] = "int" -> bounded_shape({Constant})
      [] t[1] = "x" -> IF t[2] <= N THEN bounded_shape({Unit(t[2])}) ELSE Failing("E_DOMAIN")
      [] t[1] \in {"float", "call"} -> Failing("E_DOMAIN")
      [] t[1] = "compare" -> Failing("E_AST_BLOCK")
      [] t[1] = "neg" -> shape(t[2])
      [] t[1] \in {"add", "sub"} -> add_shapes(shape(t[2]), shape(t[3]))
      [] t[1] = "mul" -> multiply_shapes(shape(t[2]), shape(t[3]))
      [] t[1] = "pow" -> power_shape(shape(t[2]), t[3])
      [] t[1] = "div" ->
           LET numerator == shape(t[2])
               denominator == shape(t[3])
           IN CASE t[3] = <<"int", 0>> -> Failing("E_DOMAIN")
                [] t[3] # <<"int", 0>> /\ (numerator.code # "ok" \/ denominator.code # "ok") ->
                     IF numerator.code # "ok" THEN numerator ELSE denominator
                [] OTHER -> IF denominator.terms = {Constant} THEN numerator ELSE Failing("E_DOMAIN")

RECURSIVE Nodes(_)
Nodes(t) ==
    CASE t[1] \in {"int", "x", "float", "call"} -> 1
      [] t[1] = "neg" -> 1 + Nodes(t[2])
      [] t[1] = "pow" -> 1 + Nodes(t[2])
      [] OTHER -> 1 + Nodes(t[2]) + Nodes(t[3])

\* _preflight_shape, then the bound on the whole entry.
preflight_shape(t) ==
    CASE t[1] = "unparsed" -> Failing("E_SYNTAX")
      [] t[1] # "unparsed" /\ 1 + Nodes(t) > MaxNodes -> Failing("E_LIMIT")
      [] OTHER -> shape(t)

\* sympy.Poly of an entry the analyzer accepts; integer division only by +-1 is
\* enumerated, so that the coefficients stay integers.
RECURSIVE Polynomial(_)
Polynomial(t) ==
    CASE t[1] = "int" -> Trim([e \in {Constant} |-> t[2]])
      [] t[1] = "x" -> [e \in {Unit(t[2])} |-> 1]
      [] t[1] = "neg" -> PScale(-1, Polynomial(t[2]))
      [] t[1] = "add" -> PAdd(Polynomial(t[2]), Polynomial(t[3]))
      [] t[1] = "sub" -> PSub(Polynomial(t[2]), Polynomial(t[3]))
      [] t[1] = "mul" -> PMul(Polynomial(t[2]), Polynomial(t[3]))
      [] t[1] = "div" -> PScale(t[3][2], Polynomial(t[2]))
      [] t[1] = "pow" -> FoldLeft(PMul, [e \in {Constant} |-> 1], [i \in 1..t[3] |-> Polynomial(t[2])])

\* _bounded_polynomial
bounded_polynomial(p) == Cardinality(DOMAIN p) <= MaxDerived /\ \A e \in DOMAIN p : Abs(p[e]) <= MaxCoefficient

-----------------------------------------------------------------------------
(* almost_complex_local_check, J[row][column] with rows as outputs.        *)

Square(J, row, column) ==
    PAdd(PSum([k \in 1..N |-> PMul(J[row][k], J[k][column])]), IF row = column THEN [e \in {Constant} |-> 1] ELSE PZero)

Nijenhuis(J, out, left, right) ==
    PSum([k \in 1..N |->
            PAdd(PSub(PMul(J[k][left], Diff(J[out][right], k)), PMul(J[k][right], Diff(J[out][left], k))),
                 PSub(PMul(J[out][k], Diff(J[k][left], right)), PMul(J[out][k], Diff(J[k][right], left))))])

Components == {x \in (1..N) \X (1..N) \X (1..N) : x[2] < x[3]}

local_check(count, rows) ==
    LET J == [i \in 1..N |-> [j \in 1..N |-> Polynomial(rows[i][j])]]
        codes == [k \in 1..(N * N) |-> preflight_shape(rows[1 + ((k - 1) \div N)][1 + ((k - 1) % N)]).code]
        squares == {x \in (1..N) \X (1..N) : Square(J, x[1], x[2]) # PZero}
        tensors == {x \in Components : Nijenhuis(J, x[1], x[2], x[3]) # PZero}
        derived == {Square(J, x[1], x[2]) : x \in (1..N) \X (1..N)} \cup {Nijenhuis(J, x[1], x[2], x[3]) : x \in Components}
        checks == << <<count \in {2, 4, 6}, "E_DOMAIN">>, <<count = N, "E_INPUT">> >> \o [k \in DOMAIN codes |-> <<codes[k] = "ok", codes[k]>>]
    IN CASE FirstFailure(checks) # "ok" -> Refused(FirstFailure(checks))
         [] FirstFailure(checks) = "ok" /\ ~(\A p \in derived : bounded_polynomial(p)) -> Refused("E_LIMIT")
         [] OTHER -> Answered([squares |-> squares, tensors |-> tensors, checked |-> Cardinality(Components),
                               conclusion |-> CASE squares # {} -> "not_almost_complex"
                                                [] squares = {} /\ tensors # {} -> "nonintegrable"
                                                [] squares = {} /\ tensors = {} -> "satisfied"])

-----------------------------------------------------------------------------
ShapeCall == \E t \in Probes : call' = [op |-> "shape", t |-> t, out |-> preflight_shape(t)]
CheckCall == \E count \in Coordinates, rows \in [1..N -> [1..N -> Entries]] :
    /\ count # N => \A i, j \in 1..N : rows[i][j] = rows[1][1]
    /\ call' = [op |-> "check", rows |-> rows, out |-> local_check(count, rows)]

Next == ShapeCall \/ CheckCall

-----------------------------------------------------------------------------
\* An entry the analyzer accepts expands to no term outside the analyzed shape,
\* so the expansion itself stays within the announced degree and term limits.
ShapeCoversExpansion ==
    call.op = "shape" /\ call.out.code = "ok" =>
        LET terms == DOMAIN Polynomial(call.t)
        IN terms \subseteq call.out.terms /\ Cardinality(terms) <= MaxTerms /\ \A e \in terms : Degree(e) <= MaxDegree

\* The bracket of two vector fields, and N(X, Y) = [JX, JY] - J[JX, Y] - J[X, JY]
\* of coordinate fields, whose own bracket is zero.
Bracket(X, Y) == [k \in 1..N |-> PSum([i \in 1..N |-> PSub(PMul(X[i], Diff(Y[k], i)), PMul(Y[i], Diff(X[k], i)))])]
Field(i) == [k \in 1..N |-> IF k = i THEN [e \in {Constant} |-> 1] ELSE PZero]
Apply(J, X) == [k \in 1..N |-> PSum([i \in 1..N |-> PMul(J[k][i], X[i])])]
Tensor(J, left, right) ==
    LET both == Bracket(Apply(J, Field(left)), Apply(J, Field(right)))
        first == Apply(J, Bracket(Apply(J, Field(left)), Field(right)))
        second == Apply(J, Bracket(Field(left), Apply(J, Field(right))))
    IN [k \in 1..N |-> PSub(both[k], PAdd(first[k], second[k]))]

\* The components the check computes from its index formula are those of the
\* bracket definition it names, for every ordered pair of coordinates; and the
\* conclusion agrees with the fact that in two real dimensions every almost
\* complex structure is integrable.
NijenhuisFaithful ==
    call.op = "check" /\ call.out.status = "ok" =>
        LET J == [i \in 1..N |-> [j \in 1..N |-> Polynomial(call.rows[i][j])]]
        IN /\ \A l, r, k \in 1..N : Nijenhuis(J, k, l, r) = Tensor(J, l, r)[k]
           /\ call.out.result.conclusion # "nonintegrable"
=============================================================================
