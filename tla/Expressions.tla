----------------------------- MODULE Expressions ----------------------------
(***************************************************************************)
(* Parsing, evaluation, formatting and solving: safe_expression.py,        *)
(* formatting.py, operations/expression.py and operations/algebra.py.      *)
(*                                                                         *)
(* SymPy is external.  A value is a rational, free of symbols or not; zoo  *)
(* (complex infinity), nan and oo are values of their own; float marks one *)
(* that has gone through a floating-point literal.                         *)
(***************************************************************************)
EXTENDS Handlers

CONSTANTS
    Sources,        \* parsed expressions: trees
    MaxNodes,       \* bound of the nodes visited
    MaxExponent,    \* bound of a numeric exponent
    MaxFactorial,   \* bound of factorial's argument
    MaxArguments    \* bound of a call's arguments

VARIABLE call

Failing(code) == [code |-> code, kind |-> "num", v |-> Whole(0), float |-> FALSE]
Val(kind, v, float) == [code |-> "ok", kind |-> kind, v |-> v, float |-> float]
Num(v, float) == Val("num", v, float)
IsZero(x) == x.kind = "num" /\ x.v[1] = 0

\* SymPy's arithmetic on the values that are no finite number.
Arithmetic(op, l, r) ==
    LET float == l.float \/ r.float
        kinds == {l.kind, r.kind}
    IN CASE "nan" \in kinds -> Val("nan", Whole(0), float)
         [] "nan" \notin kinds /\ "sym" \in kinds -> Val("sym", Whole(0), float)
         [] kinds \cap {"nan", "sym"} = {} /\ kinds # {"num"} ->
              (CASE op = "div" /\ r.kind # "num" /\ l.kind = "num" -> Num(Whole(0), float)
                 [] op = "mul" /\ (IsZero(l) \/ IsZero(r)) -> Val("nan", Whole(0), float)
                 [] op \in {"add", "sub", "div"} /\ l.kind # "num" /\ r.kind # "num" -> Val("nan", Whole(0), float)
                 [] OTHER -> Val(IF l.kind = "num" THEN r.kind ELSE l.kind, Whole(0), float))
         [] OTHER ->
              CASE op = "add" -> Num(QAdd(l.v, r.v), float)
                [] op = "sub" -> Num(QSub(l.v, r.v), float)
                [] op = "mul" -> Num(QMul(l.v, r.v), float /\ ~(IsZero(l) /\ ~l.float) /\ ~(IsZero(r) /\ ~r.float))
                [] op = "div" -> Num(QDiv(l.v, r.v), float)
                [] op = "mod" -> LET q == QDiv(l.v, r.v) IN Num(QSub(l.v, QMul(Whole(q[1] \div q[2]), r.v)), float)

\* Of an integer exponent; 0 to a negative power is zoo.
Raised(l, r) ==
    CASE l.kind = "nan" \/ r.kind = "nan" -> Val("nan", Whole(0), l.float \/ r.float)
      [] l.kind = "num" /\ r.kind = "num" /\ r.v[1] < 0 /\ IsZero(l) -> Val("zoo", Whole(0), l.float)
      [] l.kind = "num" /\ r.kind = "num" /\ ~(r.v[1] < 0 /\ IsZero(l)) ->
           Num(IF r.v[1] < 0 THEN QDiv(Whole(1), QPow(l.v, -r.v[1])) ELSE QPow(l.v, r.v[1]), l.float)
      [] OTHER -> Val("sym", Whole(0), l.float \/ r.float)

\* A mutant of visit_BinOp: a division by zero is left to SymPy.
visit_BinOpUnguarded(op, l, r) ==
    CASE l.code # "ok" -> l
      [] l.code = "ok" /\ r.code # "ok" -> r
      [] OTHER -> IF op = "pow" THEN Raised(l, r)
                  ELSE IF op \in {"div", "mod"} /\ IsZero(r) THEN Val("zoo", Whole(0), FALSE) ELSE Arithmetic(op, l, r)

visit_BinOp(op, l, r) ==
    CASE op \notin {"add", "sub", "mul", "div", "mod", "pow"} -> Failing("E_AST_BLOCK")
      [] op \in {"add", "sub", "mul", "div", "mod", "pow"} /\ l.code # "ok" -> l
      [] op \in {"add", "sub", "mul", "div", "mod", "pow"} /\ l.code = "ok" /\ r.code # "ok" -> r
      [] OTHER ->
           CASE op = "pow" /\ r.kind # "sym" /\ (r.kind # "num" \/ Abs(r.v[1]) > MaxExponent * r.v[2]) -> Failing("E_LIMIT")
             [] op = "pow" /\ (r.kind = "sym" \/ (r.kind = "num" /\ Abs(r.v[1]) <= MaxExponent * r.v[2])) -> Raised(l, r)
             [] op = "div" /\ (r.kind = "nan" \/ IsZero(r)) -> Failing("E_DOMAIN")
             [] op = "mod" /\ ({l.kind, r.kind} \cap {"nan", "zoo", "oo"} # {} \/ IsZero(r)) -> Failing("E_DOMAIN")
             [] OTHER -> Arithmetic(op, l, r)

\* _require_factorial_bound: the floor of an infinite or undefined magnitude raises.
FactorialBound(x) ==
    CASE x.kind \in {"zoo", "oo", "nan"} -> "E_RUNTIME"
      [] x.kind = "num" /\ Abs(x.v[1]) \div x.v[2] > MaxFactorial -> "E_LIMIT"
      [] OTHER -> "ok"

\* visit_Call: arguments are visited after the checks on their number; the bound of
\* a factorial comes before its arity.
visit_Call(name, arguments) ==
    LET bound == IF name = "factorial" /\ arguments # <<>> THEN FactorialBound(arguments[1]) ELSE "ok"
        failed == {i \in DOMAIN arguments : arguments[i].code # "ok"}
        float == \E i \in DOMAIN arguments : arguments[i].float
        n == Len(arguments)
    IN CASE name \notin {"max", "factorial", "sqrt"} -> Failing("E_NAME")
         [] name \in {"max", "factorial", "sqrt"} /\ n > MaxArguments -> Failing("E_LIMIT")
         [] name = "max" /\ n = 0 -> Failing("E_INPUT")
         [] name \in {"max", "factorial", "sqrt"} /\ n <= MaxArguments /\ ~(name = "max" /\ n = 0) ->
              CASE failed # {} -> arguments[Min(failed)]
                [] failed = {} /\ bound # "ok" -> Failing(bound)
                [] failed = {} /\ bound = "ok" /\ name # "max" /\ n # 1 -> Failing("E_INPUT")
                [] failed = {} /\ name = "max" ->
                     IF \E i \in 1..n : arguments[i].kind \in {"zoo", "oo"} THEN Failing("E_DOMAIN")
                     ELSE IF \A i \in 1..n : arguments[i].kind = "num"
                          THEN Num(CHOOSE v \in {arguments[i].v : i \in 1..n} : \A i \in 1..n : QLeq(arguments[i].v, v), float)
                          ELSE Val("sym", Whole(0), float)
                [] failed = {} /\ name = "factorial" /\ n = 1 /\ bound = "ok" ->
                     CASE arguments[1].kind = "num" /\ arguments[1].v[1] < 0 -> Val("zoo", Whole(0), float)
                       [] arguments[1].kind = "num" /\ arguments[1].v[1] >= 0 /\ arguments[1].v[2] = 1 ->
                            Num(Whole(FoldLeft(LAMBDA a, b : a * b, 1, [i \in 1..arguments[1].v[1] |-> i])), float)
                       [] OTHER -> Val("sym", Whole(0), float)
                [] OTHER -> Val("sym", Whole(0), float)

\* visit_Name: a value hides a symbol, a symbol a constant.
visit_Name(name, symbols, values) ==
    CASE name \in DOMAIN values -> values[name]
      [] name \notin DOMAIN values /\ name \in symbols -> Val("sym", Whole(0), FALSE)
      [] name \notin DOMAIN values /\ name \notin symbols /\ name = "inf" -> Val("oo", Whole(0), FALSE)
      [] OTHER -> Failing("E_NAME")

RECURSIVE visit(_, _, _)
visit(t, symbols, values) ==
    CASE t[1] = "int" -> Num(Whole(t[2]), FALSE)
      [] t[1] = "float" -> Num(Whole(t[2]), TRUE)
      [] t[1] = "name" -> visit_Name(t[2], symbols, values)
      [] t[1] = "neg" -> LET x == visit(t[2], symbols, values) IN [x EXCEPT !.v = QNeg(x.v)]
      [] t[1] = "string" -> Failing("E_AST_BLOCK")
      [] t[1] = "call" -> visit_Call(t[2], [i \in DOMAIN t[3] |-> visit(t[3][i], symbols, values)])
      [] OTHER -> visit_BinOp(t[1], visit(t[2], symbols, values), visit(t[3], symbols, values))

RECURSIVE Nodes(_)
Nodes(t) ==
    CASE t[1] \in {"int", "float", "name", "string"} -> 1
      [] t[1] = "neg" -> 1 + Nodes(t[2])
      [] t[1] = "call" -> 1 + FoldLeft(LAMBDA n, s : n + Nodes(s), 0, t[3])
      [] OTHER -> 1 + Nodes(t[2]) + Nodes(t[3])

\* parse_expression; text that does not parse is the tree <<"unparsed">>.
parse_expression(t, symbols, values) ==
    CASE t[1] = "unparsed" -> Failing("E_SYNTAX")
      [] t[1] # "unparsed" /\ Nodes(t) > MaxNodes -> Failing("E_LIMIT")
      [] OTHER -> visit(t, symbols, values)

\* make_symbols: distinct identifiers that are no constant and no function.
make_symbols(names) ==
    << <<Len(names) <= 2, "E_LIMIT">>, <<IsInjective(names), "E_INPUT">>,
       <<\A i \in DOMAIN names : names[i] \notin {"inf", "max", "sqrt", "factorial"}, "E_INPUT">> >>

-----------------------------------------------------------------------------
(* formatting.py                                                           *)

\* scalar_result and value_result: what is undefined is refused; no exact text
\* for a value with a Float in it, no approximation for one with a symbol.
value_result(x) ==
    CASE x.code # "ok" -> Refused(x.code)
      [] x.code = "ok" /\ x.kind \in {"zoo", "nan"} -> Refused("E_DOMAIN")
      [] OTHER -> Answered([value |-> x.v, kind |-> x.kind, exact |-> ~x.float, approx |-> x.kind \in {"num", "oo"}])

\* _reconcile of the evaluation at the requested precision and of the one with
\* guard digits: a number, or "nonfinite", or "uncertain" (a zero with no digit).
reconcile(direct, evaluated) ==
    CASE {direct, evaluated} \cap {"nonfinite", "uncertain"} # {} -> "direct"
      [] {direct, evaluated} \cap {"nonfinite", "uncertain"} = {} /\ direct = "zero" -> IF evaluated = "large" THEN "direct" ELSE "evaluated"
      [] {direct, evaluated} \cap {"nonfinite", "uncertain"} = {} /\ direct # "zero" /\ evaluated = "zero" -> "direct"
      [] OTHER -> IF direct # evaluated THEN "direct" ELSE "evaluated"

-----------------------------------------------------------------------------
(* expression.py                                                           *)

simplify(t, names) ==
    IF FirstFailure(make_symbols(names)) # "ok" THEN Refused(FirstFailure(make_symbols(names)))
    ELSE value_result(parse_expression(t, Range(names), <<>>))
evaluate(t, x) == value_result(parse_expression(t, {}, [a |-> x]))

\* sample: the rows of a table; a point that does not parse fails the call, one
\* where the expression has no value is a row of its own.
sample(t, points, grid) ==
    LET parsed == [i \in DOMAIN points |-> parse_expression(points[i], {}, <<>>)]
        bad == {i \in DOMAIN points : parsed[i].code # "ok"}
        expression == parse_expression(t, {"a"}, <<>>)
    IN CASE expression.code # "ok" -> Refused(expression.code)
         [] expression.code = "ok" /\ (points # <<>>) = grid -> Refused("E_INPUT")
         [] expression.code = "ok" /\ (points # <<>>) # grid /\ bad # {} -> Refused(parsed[Min(bad)].code)
         [] OTHER ->
              Answered([i \in DOMAIN points |->
                          LET row == value_result(visit(t, {}, [a |-> parsed[i]]))
                          IN [undefined |-> row.status = "error"]])

-----------------------------------------------------------------------------
(* algebra.py, solve of several equations.  A solution has components that *)
(* are known to be real, known not to be, or neither (then actual says     *)
(* what they are); a free one ranges over a set.                           *)

Components == [real : {"yes", "no", "unknown"}, actual : BOOLEAN, free : BOOLEAN]
Solutions == {c \in Components : c.real # "unknown" => c.actual = (c.real = "yes")}
Sets == [kind : {"empty", "finite", "condition", "image"}, members : SUBSET Solutions]

retained(set, domain) == {s \in set.members : domain = "real" => s.real # "no"}

solve(set, domain) ==
    LET tuples == IF set.kind = "finite" THEN set.members ELSE {}
        kept == IF set.kind = "finite" THEN retained(set, domain) ELSE {}
        complete == set.kind # "condition" /\ ~(domain = "real" /\ \E s \in kept : s.real = "unknown")
    IN [complete |-> complete, solutions |-> kept,
        classification |->
          CASE set.kind = "empty" -> "none"
            [] set.kind # "empty" /\ kept = {} /\ tuples # {} -> "none"
            [] set.kind # "empty" /\ (kept # {} \/ tuples = {}) /\ ((\E s \in kept : s.free) \/ set.kind # "finite") -> "infinite"
            [] OTHER -> IF complete THEN "finite" ELSE "unknown"]

\* One equation in one variable: the engine works in the domain itself.
solve_one(set) ==
    [complete |-> set.kind # "condition", solutions |-> IF set.kind = "finite" THEN set.members ELSE {},
     classification |-> CASE set.kind = "empty" -> "none"
                          [] set.kind = "finite" -> "finite"
                          [] set.kind = "image" -> "infinite"
                          [] set.kind = "condition" -> "unknown"]

-----------------------------------------------------------------------------
Points == {<<"int", 0>>, <<"int", 2>>, <<"float", 1>>, <<"unparsed">>}
EvaluateCall == \E t \in Sources, n \in {-1, 0, 2}, float \in BOOLEAN :
    call' = [op |-> "evaluate", t |-> t, a |-> n, float |-> float, out |-> evaluate(t, Num(Whole(n), float))]
SimplifyCall == \E t \in Sources, names \in {<<>>, <<"a">>, <<"a", "a">>, <<"inf">>, <<"a", "b", "c">>} :
    call' = [op |-> "simplify", out |-> simplify(t, names)]
SampleCall == \E t \in Sources, points \in {<<>>} \cup [1..2 -> Points], grid \in BOOLEAN :
    call' = [op |-> "sample", t |-> t, points |-> points, out |-> sample(t, points, grid)]
ReconcileCall == \E direct, evaluated \in {"nonfinite", "uncertain", "zero", "small", "large"} :
    call' = [op |-> "reconcile", out |-> reconcile(direct, evaluated)]
SolveCall == \E set \in Sets, domain \in {"real", "complex"} :
    /\ set.kind # "finite" => set.members = {}
    /\ set.kind = "finite" => set.members # {}
    /\ call' = [op |-> "solve", set |-> set, domain |-> domain, out |-> solve(set, domain)]
SolveOneCall == \E set \in Sets :
    /\ set.kind # "finite" => set.members = {}
    /\ set.kind = "finite" => set.members # {} /\ \A s \in set.members : s.real # "no" /\ s.actual /\ ~s.free
    /\ call' = [op |-> "solve", set |-> set, domain |-> "complex", out |-> solve_one(set)]

Next == EvaluateCall \/ SimplifyCall \/ SampleCall \/ ReconcileCall \/ SolveCall \/ SolveOneCall

-----------------------------------------------------------------------------
(* Properties.                                                             *)

\* Whether a division, at a, is by nothing that is zero or itself undefined.
RECURSIVE Divisions(_)
Divisions(t) ==
    CASE t[1] \in {"int", "float", "name", "string", "unparsed", "call"} -> {}
      [] t[1] = "neg" -> Divisions(t[2])
      [] OTHER -> Divisions(t[2]) \cup Divisions(t[3]) \cup (IF t[1] = "div" THEN {t[3]} ELSE {})
RECURSIVE HasFloat(_)
HasFloat(t) ==
    CASE t[1] = "float" -> TRUE
      [] t[1] \in {"int", "name", "string", "unparsed", "call"} -> FALSE
      [] t[1] = "neg" -> HasFloat(t[2])
      [] OTHER -> HasFloat(t[2]) \/ (t[1] # "pow" /\ HasFloat(t[3]))

\* An answer divides by nothing that is zero at the supplied values, in no
\* subexpression however deep, and is called exact only when no floating-point
\* literal went into it (an exact zero absorbs one); a table has one row for each point.
AnswersDefined ==
    /\ call.op = "evaluate" /\ call.out.status = "ok" =>
         /\ \A d \in Divisions(call.t) : ~IsZero(visit(d, {}, [a |-> Num(Whole(call.a), FALSE)]))
         /\ call.out.result.exact /\ HasFloat(call.t) => call.out.result.value = Whole(0)
    /\ call.op = "sample" /\ call.out.status = "ok" => Len(call.out.result) = Len(call.points)

\* A system said to have no solution has none, one said to be finite lists
\* exactly its solutions: what the engine cannot decide is neither dropped nor
\* counted as decided.
SolutionsHonest ==
    call.op = "solve" =>
      LET actual == {s \in call.set.members : call.domain = "real" => s.actual}
      IN /\ call.out.classification = "none" => actual = {}
         /\ call.out.classification = "finite" => call.out.solutions = actual /\ call.out.complete
=============================================================================
