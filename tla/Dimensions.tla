----------------------------- MODULE Dimensions -----------------------------
(***************************************************************************)
(* dimension.check, dimension.infer and dimension.pi_groups:               *)
(* src/math_anchor/dimension_expression.py and operations/dimension.py.    *)
(*                                                                         *)
(* A dimension maps base dimensions to exponents, counted in quarters so   *)
(* that square roots stay integers.  Expressions are trees.  SymPy's       *)
(* linear algebra is external: solution sets are sets of vectors.          *)
(***************************************************************************)
EXTENDS Handlers

CONSTANTS
    Bases,              \* base dimensions
    Known, Unknowns,    \* declared symbols with a dimension, and without
    Declared,           \* [Known -> dimensions]
    Trees,              \* expressions a request may hold
    Grid,               \* exponents (in quarters) an unknown may have
    MaxPower, MaxConstraints, MaxNodes,
    Measures,           \* dimensions of the variables of a pi-group request
    MaxVariables

VARIABLE call

Quarter == 4
Dimensionless == [b \in Bases |-> 0]
NoCoefficients == [u \in Unknowns |-> 0]

\* DimensionFormula: a constant and the coefficients of the unknown symbols.
known(d) == [constant |-> d, coefficients |-> NoCoefficients]
unknown(u) == [constant |-> Dimensionless, coefficients |-> [NoCoefficients EXCEPT ![u] = Quarter]]
Plain == known(Dimensionless)

\* DimensionVector and DimensionFormula: __add__, __sub__ and scale, by the
\* fraction n/4.
Plus(f, g) ==
    [constant |-> [b \in Bases |-> f.constant[b] + g.constant[b]],
     coefficients |-> [u \in Unknowns |-> f.coefficients[u] + g.coefficients[u]]]
Scale(f, n) ==
    [constant |-> [b \in Bases |-> (f.constant[b] * n) \div Quarter],
     coefficients |-> [u \in Unknowns |-> (f.coefficients[u] * n) \div Quarter]]
Minus(f, g) == Plus(f, Scale(g, -Quarter))

-----------------------------------------------------------------------------
(* DimensionExpressionAnalyzer: [code, formula, constraints], a constraint *)
(* the pair of formulas that must agree.                                   *)

Analysis(formula, constraints) == [code |-> "ok", formula |-> formula, constraints |-> constraints]
Failed(code) == [code |-> code, formula |-> Plain, constraints |-> <<>>]

\* add_constraint: the analyzer holds so many constraints already, beside those of a.
WithConstraint(a, left, right, before) ==
    IF before + Len(a.constraints) < MaxConstraints
    THEN [a EXCEPT !.constraints = Append(@, <<left, right>>)] ELSE Failed("E_LIMIT")

\* A mutant of BinOp: the terms of a sum are not compared.
BinOpLax(op, left, right, before) ==
    LET both == left.constraints \o right.constraints IN
    IF left.code # "ok" THEN left ELSE IF right.code # "ok" THEN right
    ELSE Analysis(CASE op = "mul" -> Plus(left.formula, right.formula)
                    [] op = "div" -> Minus(left.formula, right.formula)
                    [] op = "add" -> left.formula, both)

\* visit_BinOp: an additive term counts as its left operand.
BinOp(op, left, right, before) ==
    LET both == left.constraints \o right.constraints IN
    CASE left.code # "ok" -> left
      [] left.code = "ok" /\ right.code # "ok" -> right
      [] left.code = "ok" /\ right.code = "ok" ->
           CASE op = "mul" -> Analysis(Plus(left.formula, right.formula), both)
             [] op = "div" -> Analysis(Minus(left.formula, right.formula), both)
             [] op = "add" -> WithConstraint(Analysis(left.formula, both), left.formula, right.formula, before)

RECURSIVE visit(_, _, _)
visit(e, bindings, before) ==
    CASE e[1] = "num" -> Analysis(Plain, <<>>)
      [] e[1] = "name" ->
           IF e[2] \in DOMAIN bindings THEN Analysis(bindings[e[2]], <<>>) ELSE Failed("E_NAME")
      [] e[1] = "pow" ->
           LET a == visit(e[2], bindings, before) IN
           IF a.code # "ok" THEN a ELSE IF Abs(e[3]) > MaxPower THEN Failed("E_LIMIT")
           ELSE [a EXCEPT !.formula = Scale(@, Quarter * e[3])]
      [] e[1] = "sqrt" ->
           LET a == visit(e[2], bindings, before) IN [a EXCEPT !.formula = Scale(@, Quarter \div 2)]
      [] e[1] = "sin" ->
           LET a == visit(e[2], bindings, before) IN
           IF a.code # "ok" THEN a
           ELSE WithConstraint(Analysis(Plain, a.constraints), a.formula, Plain, before)
      [] e[1] \in {"mul", "div", "add"} ->
           LET a == visit(e[2], bindings, before)
           IN BinOp(e[1], a, visit(e[3], bindings, before + Len(a.constraints)), before)

RECURSIVE Nodes(_)
Nodes(e) == CASE e[1] \in {"mul", "div", "add"} -> 1 + Nodes(e[2]) + Nodes(e[3])
              [] e[1] = "pow" -> 2 + Nodes(e[2])
              [] e[1] \in {"sqrt", "sin"} -> 1 + Nodes(e[2])
              [] OTHER -> 1

analyze(e, bindings, before) ==
    IF Nodes(e) > MaxNodes THEN Failed("E_LIMIT") ELSE visit(e, bindings, before)

\* concrete_issues: the constraints whose sides differ.
Issues(constraints) == {i \in DOMAIN constraints : Minus(constraints[i][1], constraints[i][2]) # Plain}

\* One analyzer for both sides, and add_equation; a is what it holds so far.
AnalyzeEquation(a, equation, bindings) ==
    LET held == Len(a.constraints)
        l == analyze(equation[1], bindings, held)
        r == analyze(equation[2], bindings, held + Len(l.constraints))
    IN CASE a.code # "ok" -> a
         [] a.code = "ok" /\ l.code # "ok" -> l
         [] a.code = "ok" /\ l.code = "ok" /\ r.code # "ok" -> r
         [] OTHER -> WithConstraint(Analysis(Plain, a.constraints \o l.constraints \o r.constraints),
                                    l.formula, r.formula, 0)

\* dimension.check: the sides are compared only when each is sound by itself.
check(left, right, bindings) ==
    LET l == analyze(left, bindings, 0)
        r == analyze(right, bindings, Len(l.constraints))
        inner == Issues(l.constraints) \cup Issues(r.constraints)
        a == AnalyzeEquation(Analysis(Plain, <<>>), <<left, right>>, bindings)
    IN CASE l.code # "ok" -> Refused(l.code)
         [] l.code = "ok" /\ r.code # "ok" -> Refused(r.code)
         [] l.code = "ok" /\ r.code = "ok" /\ inner # {} -> Answered([consistent |-> FALSE])
         [] OTHER -> IF a.code = "ok" THEN Answered([consistent |-> Issues(a.constraints) = {}])
                     ELSE Refused(a.code)

KnownBindings == [s \in Known |-> known(Declared[s])]

\* dimension.infer: the constraints of all equations as one linear system, a
\* right side for every base dimension.
infer(equations) ==
    LET bindings == [s \in Known \cup Unknowns |->
                       IF s \in Known THEN known(Declared[s]) ELSE unknown(s)]
        analyzer == FoldLeft(LAMBDA a, equation : AnalyzeEquation(a, equation, bindings),
                             Analysis(Plain, <<>>), equations)
        rows == {Minus(c[1], c[2]) : c \in ToSet(analyzer.constraints)}
        Dot(row, x) == MapThenSumSet(LAMBDA u : row.coefficients[u] * x[u], Unknowns)
        Solutions(b) == {x \in [Unknowns -> Grid] :
                           \A row \in rows : Dot(row, x) + Quarter * row.constant[b] = 0}
        kernel == {x \in [Unknowns -> Grid] : \A row \in rows : Dot(row, x) = 0}
        conflicting == {b \in Bases : Solutions(b) = {}}
        resolved == {u \in Unknowns : \A x \in kernel : x[u] = 0}
    IN IF analyzer.code # "ok" THEN Refused(analyzer.code)
       ELSE Answered(
              [classification |-> IF conflicting # {} THEN "inconsistent"
                                  ELSE IF resolved = Unknowns THEN "unique" ELSE "underdetermined",
               inferred |-> IF conflicting # {} THEN <<>>
                            ELSE [u \in resolved |-> [b \in Bases |-> (CHOOSE x \in Solutions(b) : TRUE)[u]]]])

-----------------------------------------------------------------------------
(* dimension.pi_groups                                                     *)

Gcd(S) == Max({d \in 1..60 : \A n \in S : n % d = 0})
Lcm(S) == Min({m \in 1..60 : \A n \in S : m % n = 0})

\* primitive_integer_exponents of a null vector of fractions <<p, q>>.
primitive_integer_exponents(vector) ==
    LET denominator == Lcm({vector[i][2] : i \in DOMAIN vector})
        integers == [i \in DOMAIN vector |-> vector[i][1] * (denominator \div vector[i][2])]
        divisor == Gcd({Abs(integers[i]) : i \in DOMAIN vector})
        primitive == [i \in DOMAIN vector |-> Sign(integers[i]) * (Abs(integers[i]) \div divisor)]
        positive == {i \in DOMAIN vector : primitive[i] > 0}
        negative == {i \in DOMAIN vector : primitive[i] < 0}
        flip == \/ Cardinality(negative) > Cardinality(positive)
                \/ Cardinality(negative) = Cardinality(positive) /\ Min(positive \cup negative) \in negative
    IN [i \in DOMAIN vector |-> IF flip THEN -primitive[i] ELSE primitive[i]]

\* _pi_unit_declarations: the variables in their order, each by its name and its unit.
pi_unit_declarations(variables) ==
    << <<variables # <<>>, "E_INPUT">>, <<Len(variables) <= MaxVariables, "E_LIMIT">> >>
    \o FlattenSeq([i \in DOMAIN variables |->
          << <<variables[i].name # "malformed", "E_INPUT">>, <<variables[i].name # "long", "E_LIMIT">>,
             <<variables[i].unit # "no text", "E_INPUT">>, <<variables[i].unit # "unknown", "E_UNIT">> >>])

\* Matrix.rank and Matrix.nullspace: a column that depends on the ones before it is
\* free, and gives the null vector that is 1 there and 0 at the other free columns.
Weights == -4..4
Balances(columns, i, weight, d) ==
    \A b \in Bases : (d * columns[i][b]) + MapThenSumSet(LAMBDA j : weight[j] * columns[j][b], 1..(i - 1)) = 0
FreeColumns(columns) == {i \in DOMAIN columns : \E weight \in [1..(i - 1) -> Weights], d \in 1..4 : Balances(columns, i, weight, d)}
NullVector(columns, i) ==
    LET before == 1..(i - 1)
        solution == CHOOSE s \in [weight : {w \in [before -> Weights] : \A j \in before \cap FreeColumns(columns) : w[j] = 0}, d : 1..4] :
                        Balances(columns, i, s.weight, s.d)
    IN [j \in DOMAIN columns |-> IF j < i THEN <<solution.weight[j], solution.d>> ELSE IF j = i THEN <<1, 1>> ELSE <<0, 1>>]

\* pi_groups: a group for every null vector, in the order of the free columns.
pi_groups(variables) ==
    LET columns == [i \in DOMAIN variables |-> variables[i].dimension]
        free == SetToSortSeq(FreeColumns(columns), <)
        failure == FirstFailure(pi_unit_declarations(variables))
    IN IF failure # "ok" THEN Refused(failure)
       ELSE Answered([rank |-> Len(variables) - Len(free),
                      groups |-> [k \in DOMAIN free |-> primitive_integer_exponents(NullVector(columns, free[k]))]])

-----------------------------------------------------------------------------
CheckCall ==
    \E l, r \in Trees :
        call' = [op |-> "dimension_check", r |-> <<l, r>>, out |-> check(l, r, KnownBindings)]
InferCall ==
    \E n \in {1, 2} : \E equations \in [1..n -> Trees \X {<<"name", "d">>, <<"name", "u">>, <<"num">>}] :
        call' = [op |-> "dimension_infer", r |-> equations, out |-> infer(equations)]
PiVariables == [name : {"plain"}, unit : {"known"}, dimension : Measures]
OddVariables == [name : {"plain", "malformed", "long"}, unit : {"known", "no text", "unknown"}, dimension : {Dimensionless}]
PiCall ==
    \E n \in 0..(MaxVariables + 1) : \E variables \in [1..n -> IF n = MaxVariables THEN PiVariables ELSE OddVariables] :
        call' = [op |-> "pi_groups", r |-> variables, out |-> pi_groups(variables)]

Next == CheckCall \/ InferCall \/ PiCall

-----------------------------------------------------------------------------
\* An assignment of dimensions to the unknowns under which dimension.check
\* accepts every equation.
Explains(x, equations) ==
    LET bindings == [s \in Known \cup Unknowns |->
                       IF s \in Known THEN known(Declared[s]) ELSE known(x[s])]
    IN \A i \in DOMAIN equations : check(equations[i][1], equations[i][2], bindings).result.consistent

\* dimension.infer agrees with dimension.check: a unique answer is the one
\* assignment the check accepts, an inconsistent system has none, and a symbol
\* inferred in an underdetermined one has that dimension in all of them.
InferenceAgreesWithCheck ==
    call.op = "dimension_infer" /\ call.out.status = "ok" =>
      LET res == call.out.result
          explaining == {x \in [Unknowns -> [Bases -> Grid]] : Explains(x, call.r)}
      IN /\ res.classification = "inconsistent" <=> explaining = {}
         /\ res.classification = "unique" => explaining = {res.inferred}
         /\ res.classification # "inconsistent" =>
              \A x \in explaining, u \in DOMAIN res.inferred : x[u] = res.inferred[u]

\* The dimension of an expression of declared symbols, as a set: empty where
\* unlike dimensions are added, or a function is applied to one.
RECURSIVE DimensionOf(_)
DimensionOf(e) ==
    CASE e[1] = "num" -> {Dimensionless}
      [] e[1] = "name" -> {Declared[e[2]]}
      [] e[1] = "add" -> DimensionOf(e[2]) \cap DimensionOf(e[3])
      [] e[1] \in {"mul", "div"} ->
           {[b \in Bases |-> x[b] + (IF e[1] = "mul" THEN y[b] ELSE -y[b])] :
              x \in DimensionOf(e[2]), y \in DimensionOf(e[3])}
      [] e[1] = "pow" -> {[b \in Bases |-> x[b] * e[3]] : x \in DimensionOf(e[2])}
      [] e[1] = "sqrt" -> {[b \in Bases |-> x[b] \div 2] : x \in DimensionOf(e[2])}
      [] e[1] = "sin" -> DimensionOf(e[2]) \cap {Dimensionless}

\* dimension.check calls consistent the equations whose sides have a dimension,
\* and the same one; a constraint may be met anywhere in either side.
CheckIsHomogeneity ==
    call.op = "dimension_check" /\ call.out.status = "ok" =>
      (call.out.result.consistent <=> DimensionOf(call.r[1]) \cap DimensionOf(call.r[2]) # {})

\* The product of the variables with exponents w has no dimension.
Dimensionfree(w, variables) ==
    \A b \in Bases : MapThenSumSet(LAMBDA i : w[i] * variables[i].dimension[b], DOMAIN variables) = 0

\* Every Pi group is a dimensionless product with whole exponents and no common
\* factor, most of them positive, the first one where they balance; and every
\* dimensionless product of the variables is one of powers of the groups, of which
\* there are as many as the rank leaves.
PiGroupsSpan ==
    call.op = "pi_groups" /\ call.out.status = "ok" =>
      LET groups == call.out.result.groups
          up(g) == {i \in DOMAIN g : g[i] > 0}
          down(g) == {i \in DOMAIN g : g[i] < 0}
          lead(g) == Max(up(g) \cup down(g))
          scale == FoldSeq(LAMBDA g, product : product * g[lead(g)], 1, groups)
          Combined(w, i) == MapThenSumSet(LAMBDA k : w[lead(groups[k])] * (scale \div groups[k][lead(groups[k])]) * groups[k][i], DOMAIN groups)
      IN /\ \A g \in ToSet(groups) :
               /\ Dimensionfree(g, call.r)
               /\ Gcd({Abs(g[i]) : i \in DOMAIN g}) = 1
               /\ Cardinality(down(g)) <= Cardinality(up(g))
               /\ Cardinality(down(g)) = Cardinality(up(g)) => Min(up(g)) < Min(down(g))
         /\ call.out.result.rank + Len(groups) = Len(call.r)
         /\ \A w \in [DOMAIN call.r -> -2..2] :
               Dimensionfree(w, call.r) => \A i \in DOMAIN w : w[i] * scale = Combined(w, i)
=============================================================================
