---------------------------- MODULE Certificates ----------------------------
(***************************************************************************)
(* certificate.polynomial_identity and the independent checker of what it  *)
(* issues: operations/certificate.py, certificate_checker.py and the node  *)
(* bound of safe_expression.py; with the Lean bridge, lean_bridge.py.      *)
(*                                                                         *)
(* Expressions are trees in one variable, a polynomial maps degrees to     *)
(* rationals <<p, q>> in lowest terms.  A digest is what it digests.       *)
(***************************************************************************)
EXTENDS Handlers

CONSTANTS
    Expressions,        \* the trees a request may hold
    MaxTerms, MaxDegree,        \* MAX_CERTIFICATE_TERMS, MAX_POLYNOMIAL_DEGREE
    MaxCoefficient,             \* the bound MAX_COEFFICIENT_BITS puts on p and q
    MaxNodes,                   \* MAX_AST_NODES, of one side here, of both in the checker
    MaxParsed,                  \* the node bound of the translator, for each side
    Statements                  \* pairs of expressions that are brought to Lean

VARIABLE call

Binary == {"add", "sub", "mul", "div"}

\* Nodes of a tree; an exponent is one for the translator only.
RECURSIVE Nodes(_, _)
Nodes(e, exponent) ==
    CASE e[1] \in Binary -> 1 + Nodes(e[2], exponent) + Nodes(e[3], exponent)
      [] e[1] = "pow" -> 1 + exponent + Nodes(e[2], exponent)
      [] e[1] = "neg" -> 1 + Nodes(e[2], exponent)
      [] OTHER -> 1

-----------------------------------------------------------------------------
(* The bound on the expansion: a shape is the set of degrees that may occur.*)

Failed(code) == [code |-> code, shape |-> {}]

bounded_shape(shape) ==
    IF Cardinality(shape) <= MaxTerms /\ \A d \in shape : d <= MaxDegree
    THEN [code |-> "ok", shape |-> shape] ELSE Failed("E_LIMIT")

multiply_shapes(left, right) == bounded_shape({a + b : a \in left, b \in right})

power_shape(base, exponent) ==
    IF exponent < 0 THEN Failed("E_DOMAIN") ELSE IF exponent > MaxDegree THEN Failed("E_LIMIT")
    ELSE FoldLeft(LAMBDA power, factor :
                     IF power.code = "ok" THEN multiply_shapes(power.shape, factor) ELSE power,
                  [code |-> "ok", shape |-> {0}], [i \in 1..exponent |-> base])

RECURSIVE Shape(_)
Shape(e) ==
    CASE e[1] = "int" -> [code |-> "ok", shape |-> {0}]
      [] e[1] = "x" -> [code |-> "ok", shape |-> {1}]
      [] e[1] \in {"float", "call", "name"} -> Failed("E_DOMAIN")
      [] e[1] = "neg" -> Shape(e[2])
      [] e[1] = "pow" ->
           LET base == Shape(e[2])
           IN IF base.code # "ok" THEN base ELSE power_shape(base.shape, e[3])
      [] e[1] = "div" /\ e[3] = <<"int", 0>> -> Failed("E_DOMAIN")
      [] e[1] \in Binary /\ ~(e[1] = "div" /\ e[3] = <<"int", 0>>) ->
           LET left == Shape(e[2])  right == Shape(e[3]) IN
           CASE left.code # "ok" -> left
             [] left.code = "ok" /\ right.code # "ok" -> right
             [] left.code = "ok" /\ right.code = "ok" ->
                  CASE e[1] \in {"add", "sub"} -> bounded_shape(left.shape \cup right.shape)
                    [] e[1] = "mul" -> multiply_shapes(left.shape, right.shape)
                    [] e[1] = "div" -> IF right.shape = {0} THEN left ELSE Failed("E_DOMAIN")

preflight_shape(e) == IF 1 + Nodes(e, 0) > MaxNodes THEN Failed("E_LIMIT") ELSE Shape(e)

-----------------------------------------------------------------------------
(* Rationals and polynomials.                                              *)

Zero == <<0, 1>>
CoefficientAt(f, d) == IF d \in DOMAIN f THEN f[d] ELSE Zero
Terms(f) == {<<d, f[d]>> : d \in {k \in DOMAIN f : f[k] # Zero}}
NonZero(f) == [d \in {k \in DOMAIN f : f[k] # Zero} |-> f[d]]

Sum(f, g, scale) ==
    NonZero([d \in DOMAIN f \cup DOMAIN g |->
            QAdd(CoefficientAt(f, d), QMul(<<scale, 1>>, CoefficientAt(g, d)))])
Product(f, g) ==
    NonZero([d \in {a + b : a \in DOMAIN f, b \in DOMAIN g} |->
            FoldSet(LAMBDA a, sum : QAdd(sum, QMul(CoefficientAt(f, a), CoefficientAt(g, d - a))),
                    Zero, DOMAIN f)])

\* normalize: what the checker lets stand as an intermediate result.
Fits(f) ==
    /\ Cardinality(DOMAIN f) <= MaxTerms /\ \A d \in DOMAIN f : d <= MaxDegree
    /\ \A d \in DOMAIN f : Abs(f[d][1]) <= MaxCoefficient /\ f[d][2] <= MaxCoefficient

\* The checker's parse of a tree: [ok, poly], every step normalized.
Rejected == [ok |-> FALSE, poly |-> <<>>]
normalize(f) == IF Fits(f) THEN [ok |-> TRUE, poly |-> f] ELSE Rejected

Multiplied(f, g) == IF f.ok /\ g.ok THEN normalize(Product(f.poly, g.poly)) ELSE Rejected

\* _power, by repeated squaring: every square on the way is within the limits too.
Power(f, exponent) ==
    LET Turn(q) ==
          [result |-> IF q.remaining % 2 = 1 THEN Multiplied(q.result, q.factor) ELSE q.result,
           factor |-> IF q.remaining > 1 THEN Multiplied(q.factor, q.factor) ELSE q.factor,
           remaining |-> q.remaining \div 2]
        one == [ok |-> TRUE, poly |-> [d \in {0} |-> <<1, 1>>]]
    IN FoldLeft(LAMBDA q, i : Turn(q), [result |-> one, factor |-> f, remaining |-> exponent],
                [i \in 1..exponent |-> i]).result

RECURSIVE Parsed(_)
Parsed(e) ==
    CASE e[1] = "int" ->
           [ok |-> TRUE, poly |-> IF e[2] = 0 THEN [d \in {} |-> Zero] ELSE [d \in {0} |-> <<e[2], 1>>]]
      [] e[1] = "x" -> [ok |-> TRUE, poly |-> [d \in {1} |-> <<1, 1>>]]
      [] e[1] \in {"float", "call", "name"} -> Rejected
      [] e[1] = "neg" ->
           LET f == Parsed(e[2])
           IN IF f.ok THEN [f EXCEPT !.poly = [d \in DOMAIN f.poly |-> QMul(<<-1, 1>>, f.poly[d])]] ELSE f
      [] e[1] = "pow" ->
           LET f == Parsed(e[2])
           IN IF ~f.ok \/ e[3] \notin 0..MaxDegree THEN Rejected
              ELSE Power(f, e[3])
      [] e[1] \in Binary ->
           LET f == Parsed(e[2])  g == Parsed(e[3]) IN
           IF ~f.ok \/ ~g.ok THEN Rejected
           ELSE CASE e[1] = "add" -> normalize(Sum(f.poly, g.poly, 1))
                  [] e[1] = "sub" -> normalize(Sum(f.poly, g.poly, -1))
                  [] e[1] = "mul" -> normalize(Product(f.poly, g.poly))
                  [] e[1] = "div" ->
                       IF DOMAIN g.poly # {0} THEN Rejected
                       ELSE normalize([d \in DOMAIN f.poly |->
                                         Q(f.poly[d][1] * g.poly[0][2], f.poly[d][2] * g.poly[0][1])])

-----------------------------------------------------------------------------
(* Issuing.  SymPy expands without bounds on intermediate coefficients; a   *)
(* division by a computed zero has no rational value.                      *)

RECURSIVE Expanded(_)
Expanded(e) ==
    CASE e[1] = "int" -> [ok |-> TRUE, poly |-> NonZero([d \in {0} |-> <<e[2], 1>>])]
      [] e[1] = "x" -> [ok |-> TRUE, poly |-> [d \in {1} |-> <<1, 1>>]]
      [] e[1] = "neg" -> LET f == Expanded(e[2]) IN [f EXCEPT !.poly = Sum(<<>>, f.poly, -1)]
      [] e[1] = "pow" ->
           LET f == Expanded(e[2])
           IN [f EXCEPT !.poly = FoldLeft(LAMBDA power, i : Product(power, f.poly),
                                          [d \in {0} |-> <<1, 1>>], [i \in 1..e[3] |-> i])]
      [] e[1] \in Binary ->
           LET f == Expanded(e[2])  g == Expanded(e[3]) IN
           CASE e[1] = "add" -> [ok |-> f.ok /\ g.ok, poly |-> Sum(f.poly, g.poly, 1)]
             [] e[1] = "sub" -> [ok |-> f.ok /\ g.ok, poly |-> Sum(f.poly, g.poly, -1)]
             [] e[1] = "mul" -> [ok |-> f.ok /\ g.ok, poly |-> Product(f.poly, g.poly)]
             [] e[1] = "div" ->
                  IF DOMAIN g.poly # {0} THEN [ok |-> FALSE, poly |-> <<>>]
                  ELSE [ok |-> f.ok /\ g.ok,
                        poly |-> Product(f.poly, [d \in {0} |-> Q(g.poly[0][2], g.poly[0][1])])]

CoefficientsFit(f) == \A d \in DOMAIN f : Abs(f[d][1]) <= MaxCoefficient /\ f[d][2] <= MaxCoefficient

CertificateBody(left, right, difference) ==
    [left |-> left, right |-> right, identity |-> difference = <<>>,
     terms |-> Terms(difference), statementDigest |-> <<left, right>>]
Sealed(body) == [body |-> body, digest |-> body]

\* Both sides within their shapes, expanded and subtracted.
IdentityOf(left, right, l, r, difference) ==
    Handled(<< <<bounded_shape(l.shape \cup r.shape).code = "ok", "E_LIMIT">>,
               <<1 + Nodes(left, 1) <= MaxParsed, "E_LIMIT">>,
               <<1 + Nodes(right, 1) <= MaxParsed, "E_LIMIT">>,
               <<difference.ok, "E_DOMAIN">>,
               <<CoefficientsFit(difference.poly), "E_LIMIT">> >>,
            Sealed(CertificateBody(left, right, difference.poly)))

\* polynomial_identity, once the two shapes are known.
Classified(left, right, l, r) ==
    CASE l.code # "ok" -> Refused(l.code)
      [] l.code = "ok" /\ r.code # "ok" -> Refused(r.code)
      [] l.code = "ok" /\ r.code = "ok" -> IdentityOf(left, right, l, r, Expanded(<<"sub", left, right>>))

polynomial_identity(left, right) == Classified(left, right, preflight_shape(left), preflight_shape(right))

\* A mutant of verify: the classification is taken from the certificate.
verifyTrusting(c) ==
    /\ c.body.statementDigest = <<c.body.left, c.body.right>>
    /\ c.digest = c.body
    /\ Nodes(c.body.left, 0) + Nodes(c.body.right, 0) <= MaxNodes
    /\ Parsed(c.body.left).ok /\ Parsed(c.body.right).ok

\* verify_polynomial_identity_certificate: both digests, then the terms and the
\* verdict recomputed from the statement alone.
Recomputed(c, left, right) ==
    LET difference == normalize(Sum(left.poly, right.poly, -1))
    IN /\ left.ok /\ right.ok /\ difference.ok
       /\ c.body.terms = Terms(difference.poly)
       /\ c.body.identity <=> DOMAIN difference.poly = {}
verify(c) ==
    /\ c.body.statementDigest = <<c.body.left, c.body.right>>
    /\ c.digest = c.body
    /\ Cardinality(c.body.terms) <= MaxTerms
    /\ Nodes(c.body.left, 0) + Nodes(c.body.right, 0) <= MaxNodes
    /\ Recomputed(c, Parsed(c.body.left), Parsed(c.body.right))

-----------------------------------------------------------------------------
Issue ==
    \E left, right \in Expressions :
        call' = [op |-> "certificate", r |-> [left |-> left, right |-> right],
                 out |-> polynomial_identity(left, right)]

\* A certificate that did not come from the issuer, with or without digests
\* that match it.
Forgeries(c) ==
    {[c EXCEPT !.body.identity = ~@], [c EXCEPT !.body.right = <<"int", 2>>],
     [c EXCEPT !.body.terms = {}]}
    \cup {[c EXCEPT !.body.identity = ~@, !.digest = [c.body EXCEPT !.identity = ~@]],
          [c EXCEPT !.body.terms = {}, !.digest = [c.body EXCEPT !.terms = {}]]}

-----------------------------------------------------------------------------
\* The value of a tree at a point, by arithmetic alone.
RECURSIVE Eval(_, _)
Eval(e, x) ==
    CASE e[1] = "int" -> <<e[2], 1>>
      [] e[1] = "x" -> <<x, 1>>
      [] e[1] = "neg" -> QMul(<<-1, 1>>, Eval(e[2], x))
      [] e[1] = "pow" -> FoldLeft(LAMBDA p, i : QMul(p, Eval(e[2], x)), <<1, 1>>, [i \in 1..e[3] |-> i])
      [] e[1] = "add" -> QAdd(Eval(e[2], x), Eval(e[3], x))
      [] e[1] = "sub" -> QAdd(Eval(e[2], x), QMul(<<-1, 1>>, Eval(e[3], x)))
      [] e[1] = "mul" -> QMul(Eval(e[2], x), Eval(e[3], x))
      [] e[1] = "div" -> LET v == Eval(e[3], x) IN Q(Eval(e[2], x)[1] * v[2], Eval(e[2], x)[2] * v[1])

Issued == call.op = "certificate" /\ call.out.status = "ok"
EqualEverywhere(left, right) == \A x \in 0..MaxDegree : Eval(left, x) = Eval(right, x)

\* What the checker accepts is true of the statement's values, for issued and
\* for altered certificates alike; and it accepts every issued certificate
\* unless a coefficient on the way outgrew its bound (the shape analysis covers
\* terms and degrees, the translator's bound on each side the nodes of both).
CertificatesSound ==
    Issued =>
      LET c == call.out.result IN
      /\ \A d \in {c} \cup Forgeries(c) :
           verify(d) => (d.body.identity <=> EqualEverywhere(d.body.left, d.body.right))
      /\ verify(c) \/ \E e \in {c.body.left, c.body.right} :
                        ~Parsed(e).ok /\ Expanded(e).ok

\* polynomial_identity's warning calls the certificate "independently
\* checkable": the checker accepts what was issued.  It does not hold where the
\* checker's intermediate polynomials exceed a limit (README, deviations).
IssuedIsCheckable == Issued => verify(call.out.result)

-----------------------------------------------------------------------------
(* The Lean bridge, lean_bridge.py: a certificate becomes a Lean theorem   *)
(* over the rationals, and two subprocess calls under one deadline have    *)
(* Lean check it.  Lean itself is external: it accepts a true theorem, and *)
(* nothing else unless the report names sorryAx.                           *)

NotLean == <<"rejected">>

\* _LeanExpressionTranslator: the grammar again, an exponent being a node.
RECURSIVE translated(_)
translated(e) ==
    CASE e[1] \in {"int", "x"} -> e
      [] e[1] \in {"float", "call", "name"} -> NotLean
      [] e[1] = "neg" -> IF translated(e[2]) = NotLean THEN NotLean ELSE <<"neg", translated(e[2])>>
      [] e[1] = "pow" -> IF translated(e[2]) = NotLean \/ e[3] \notin 0..MaxDegree
                         THEN NotLean ELSE <<"pow", translated(e[2]), e[3]>>
      [] e[1] \in Binary -> IF NotLean \in {translated(e[2]), translated(e[3])}
                            THEN NotLean ELSE <<e[1], translated(e[2]), translated(e[3])>>

translate(e) == IF 1 + Nodes(e, 1) > MaxNodes THEN NotLean ELSE translated(e)

\* The theorem's two sides, of a certificate the stdlib checker accepts.
build_lean_artifact(c) ==
    LET left == translate(c.body.left)  right == translate(c.body.right)
    IN IF ~verify(c) \/ ~c.body.identity \/ NotLean \in {left, right}
       THEN NotLean ELSE <<left, right>>

-----------------------------------------------------------------------------
\* What the host offers: the files, the pinned lock and two runs of lake.
RunEnds == {"ends", "fails", "not started", "deadline"}
Hosts == [lake : BOOLEAN, project : BOOLEAN, lock : BOOLEAN, version : RunEnds \cup {"other"},
          compile : RunEnds, output : {"one report", "no report", "sorryAx", "truncated"}]

\* _run: a subprocess that does not start, or does not end in time and is killed
\* with its process group.
RunChecks(end) ==
    << <<end # "not started", "E_UNAVAILABLE">>, <<end # "deadline", "E_TIMEOUT">> >>

\* _validate_kernel_output
validate_kernel_output(output) ==
    << <<output # "truncated", "E_KERNEL">>, <<output # "sorryAx", "E_KERNEL">>,
       <<output = "one report", "E_KERNEL">> >>

CheckedByLean(theorem, timeout, host) ==
    Handled(<< <<timeout \in 1..600, "E_INPUT">>,
               <<theorem # NotLean, "E_CERTIFICATE">>,
               <<host.lake, "E_UNAVAILABLE">>, <<host.project, "E_INPUT">>, <<host.lock, "E_INPUT">> >>
            \o RunChecks(host.version)
            \o << <<host.version = "ends", "E_UNAVAILABLE">> >>
            \o RunChecks(host.compile)
            \o << <<host.compile = "ends", "E_KERNEL">> >>
            \o validate_kernel_output(host.output),
            [assurance |-> "kernel_checked", theorem |-> theorem])
verify_polynomial_identity_with_lean(c, timeout, host) == CheckedByLean(build_lean_artifact(c), timeout, host)

-----------------------------------------------------------------------------
\* Values of a Lean term: x / 0 is 0 there.
RECURSIVE LeanValue(_, _)
LeanValue(e, x) ==
    CASE e[1] = "div" ->
           LET v == LeanValue(e[3], x) u == LeanValue(e[2], x)
           IN IF v[1] = 0 THEN <<0, 1>> ELSE Q(u[1] * v[2], u[2] * v[1])
      [] e[1] = "add" -> QAdd(LeanValue(e[2], x), LeanValue(e[3], x))
      [] e[1] = "sub" -> QAdd(LeanValue(e[2], x), QMul(<<-1, 1>>, LeanValue(e[3], x)))
      [] e[1] = "mul" -> QMul(LeanValue(e[2], x), LeanValue(e[3], x))
      [] e[1] = "neg" -> QMul(<<-1, 1>>, LeanValue(e[2], x))
      [] e[1] = "pow" ->
           FoldLeft(LAMBDA p, i : QMul(p, LeanValue(e[2], x)), <<1, 1>>, [i \in 1..e[3] |-> i])
      [] OTHER -> Eval(e, x)

TheoremTrue(t) == \A x \in 0..MaxDegree : LeanValue(t[1], x) = LeanValue(t[2], x)

\* Lean is right: it accepts exactly the true theorems.
Plausible(theorem, host) ==
    theorem # NotLean => (host.compile = "ends" <=>
        TheoremTrue(theorem) /\ host.compile \notin {"not started", "deadline"})

KernelCheck ==
    \E statement \in Statements, host \in Hosts, timeout \in {0, 120} :
        \E issued \in {polynomial_identity(statement[1], statement[2])} :
        /\ issued.status = "ok"
        /\ \E c \in {issued.result} \cup Forgeries(issued.result) :
             /\ Plausible(build_lean_artifact(c), host)
             /\ call' = [op |-> "lean", c |-> c, host |-> host,
                         out |-> verify_polynomial_identity_with_lean(c, timeout, host)]

Next == Issue \/ KernelCheck

\* Lean is only asked to prove true theorems: what the checker takes for an
\* identity is one under Lean's own arithmetic, total division included.  And
\* nothing is called kernel checked that Lean did not accept, or that rests on
\* sorryAx or on a report cut short.
LeanSound ==
    /\ Issued => \A c \in {call.out.result} \cup Forgeries(call.out.result) :
                   build_lean_artifact(c) # NotLean => TheoremTrue(build_lean_artifact(c))
    /\ call.op = "lean" /\ call.out.status = "ok" =>
         /\ EqualEverywhere(call.c.body.left, call.c.body.right)
         /\ call.host.output = "one report" /\ call.host.compile = "ends"
=============================================================================
