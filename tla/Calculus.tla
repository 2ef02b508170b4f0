------------------------------ MODULE Calculus ------------------------------
(***************************************************************************)
(* operations/calculus.py: the vector derivatives of calculus.multivariate *)
(* and the root search of numeric.root.                                    *)
(*                                                                         *)
(* A function is known at the points 0..Width, the search moves between    *)
(* them.  Widths and bounds are doubled, so that a midpoint is a number.   *)
(* Whether an interpolated step is taken, and how far it goes, depends on  *)
(* digits the model does not have: s.picks chooses among all the steps the *)
(* guard admits, 0 being the bisection.                                    *)
(***************************************************************************)
EXTENDS Handlers

CONSTANTS Width,            \* points of the bracket
          Heights,          \* values of a function, Pole being none
          MaxIterations,    \* bound of maxIterations
          Picks,            \* steps of the interpolation
          Scalars,          \* expressions in three variables
          Directions        \* components of a direction

VARIABLE call

Pole == 77

-----------------------------------------------------------------------------
(* multivariate                                                            *)

gradient(p) == [i \in 1..3 |-> Diff(p, i)]
jacobian(field) == [i \in DOMAIN field |-> [j \in 1..3 |-> Diff(field[i], j)]]
hessian(p) == [i \in 1..3 |-> [j \in 1..3 |-> Diff(Diff(p, i), j)]]
divergence(field) == PSum([i \in 1..3 |-> Diff(field[i], i)])
laplacian(p) == PSum([i \in 1..3 |-> Diff(Diff(p, i), i)])

curl(field) ==
    <<PSub(Diff(field[3], 2), Diff(field[2], 3)), PSub(Diff(field[1], 3), Diff(field[3], 1)),
      PSub(Diff(field[2], 1), Diff(field[1], 2))>>
directional_derivative(p, direction) == PSum([i \in 1..3 |-> PScale(direction[i], Diff(p, i))])

multivariate(action, p, field, direction) ==
    Handled(CASE action = "divergence" -> << <<Len(field) = 3, "E_INPUT">> >>
              [] action = "curl" -> << <<Len(field) = 3, "E_INPUT">> >>
              [] action = "directional_derivative" ->
                   << <<Len(direction) = 3, "E_INPUT">>, <<\A i \in DOMAIN direction : direction[i] # NotANumber, "E_INPUT">>,
                      <<\E i \in DOMAIN direction : direction[i] # 0, "E_DOMAIN">> >>
              [] OTHER -> <<>>,
            CASE action = "gradient" -> gradient(p)
              [] action = "hessian" -> hessian(p)
              [] action = "laplacian" -> laplacian(p)
              [] action = "jacobian" -> jacobian(field)
              [] action = "divergence" -> divergence(field)
              [] action = "curl" -> curl(field)
              [] action = "directional_derivative" -> directional_derivative(p, direction))

-----------------------------------------------------------------------------
(* _bracketed_root: the previous point a, the best point b, and c with a   *)
(* value of the other sign.                                                *)

Found(code, root, width, low, high) == [code |-> code, root |-> root, width |-> width, low |-> low, high |-> high]
Failed(code) == Found(code, 0, 0, 0, 0)

Repaired(f, r) == IF (f[r.b] > 0) = (f[r.c] > 0) THEN [r EXCEPT !.c = r.a] ELSE r
Ordered(f, r) == IF Abs(f[r.c]) < Abs(f[r.b]) THEN [r EXCEPT !.a = r.b, !.b = r.c, !.c = r.b] ELSE r

\* An interpolated step towards c of less than three quarters of the bracket,
\* only when c lies above b; otherwise the midpoint.
NextPoint(r, pick) ==
    IF pick > 0 /\ 4 * pick < 3 * (r.c - r.b) THEN r.b + pick ELSE (r.b + r.c) \div 2

Stepped(s, o, i) ==
    LET width == Abs(o.c - o.b)
        point == NextPoint(o, s.picks[i])
        ends == [low |-> Min({o.b, o.c}), high |-> Max({o.b, o.c})]
    IN CASE s.f[o.b] = 0 ->
              [o EXCEPT !.out = Found("ok", 2 * o.b, width, ends.low, ends.high)]
         [] s.f[o.b] # 0 /\ width <= s.tolerance ->
              [o EXCEPT !.out = IF s.jump THEN Failed("E_DOMAIN") ELSE Found("ok", o.b + o.c, width, ends.low, ends.high)]
         [] OTHER -> IF s.f[point] = Pole THEN [o EXCEPT !.out = Failed("E_DOMAIN")]
                     ELSE [o EXCEPT !.a = o.b, !.b = point]
Turn(s, r, i) == IF r.out.code = "running" THEN Stepped(s, Ordered(s.f, Repaired(s.f, r)), i) ELSE r

bracketed_root(s, low, high) ==
    LET start == [a |-> low, b |-> high, c |-> low, out |-> Failed("running")]
        end == FoldLeft(LAMBDA r, i : Turn(s, r, i), start, [i \in 1..s.maxIterations |-> i])
    IN CASE Pole \in {s.f[low], s.f[high]} -> Failed("E_DOMAIN")
         [] Pole \notin {s.f[low], s.f[high]} /\ s.f[low] = 0 -> Found("ok", 2 * low, 0, low, low)
         [] Pole \notin {s.f[low], s.f[high]} /\ s.f[low] # 0 /\ s.f[high] = 0 -> Found("ok", 2 * high, 0, high, high)
         [] Pole \notin {s.f[low], s.f[high]} /\ s.f[low] * s.f[high] > 0 -> Failed("E_DOMAIN")
         [] OTHER -> IF end.out.code = "running" THEN Failed("E_CONVERGENCE") ELSE end.out

\* Roots whose intervals touch become one entry, with both brackets.
Merged(s, merged, r) ==
    IF merged # <<>> /\ r.root - Max({r.width, s.tolerance}) <= 2 * Last(merged).high
    THEN Front(merged) \o <<[Last(merged) EXCEPT !.width = Max({@, r.width}), !.low = Min({@, r.low}), !.high = Max({@, r.high})]>>
    ELSE Append(merged, r)

\* _all_roots_result, over a grid of every second point.
GridPoints == [i \in 1..(Width \div 2) |-> 2 * (i - 1)]
Collected(s, solved) ==
    LET zeros == SelectSeq(GridPoints \o <<Width>>, LAMBDA x : s.f[x] = 0)
        failing == {i \in DOMAIN solved : solved[i].code # "ok"}
        ordered == SortSeq(solved \o [i \in DOMAIN zeros |-> Found("ok", 2 * zeros[i], 0, zeros[i], zeros[i])],
                           LAMBDA x, y : x.root < y.root)
    IN IF failing # {} THEN Refused(solved[Min(failing)].code)
       ELSE Answered(FoldLeft(LAMBDA m, r : Merged(s, m, r), <<>>, ordered))
all_roots(s) ==
    LET crossing == SelectSeq(GridPoints, LAMBDA x : s.f[x] * s.f[x + 2] < 0)
    IN IF \E x \in 0..Width : x % 2 = 0 /\ s.f[x] = Pole THEN Refused("E_DOMAIN")
       ELSE Collected(s, [i \in DOMAIN crossing |-> bracketed_root(s, crossing[i], crossing[i] + 2)])

RootAnswer(r) == IF r.code = "ok" THEN Answered(<<r>>) ELSE Refused(r.code)
numeric_root(s) ==
    LET checks == << <<s.low # NotANumber /\ s.high # NotANumber, "E_INPUT">>, <<s.low < s.high, "E_INPUT">>, <<s.tolerance > 0, "E_INPUT">> >>
                  \o integer_arg(s.maxIterations, 1, MaxIterations)
    IN CASE FirstFailure(checks) # "ok" -> Refused(FirstFailure(checks))
         [] FirstFailure(checks) = "ok" /\ s.findAll -> all_roots(s)
         [] OTHER -> RootAnswer(bracketed_root(s, s.low, s.high))

-----------------------------------------------------------------------------
Actions == {"gradient", "hessian", "laplacian", "jacobian", "divergence", "curl", "directional_derivative"}
FieldCall == \E action \in Actions, p \in Scalars, n \in 2..3 :
    \E field \in {f \in [1..n -> Scalars] : action \in {"jacobian", "divergence", "curl"} \/ \A i \in 1..n : f[i] = p},
       direction \in {d \in [1..n -> Directions] : action = "directional_derivative" \/ \A i \in 1..n : d[i] = 0} :
        call' = [op |-> action, p |-> p, field |-> field, direction |-> direction,
                 out |-> multivariate(action, p, field, direction)]
Search(f, tolerance, n, findAll, jump, low, picks) ==
    LET s == [f |-> f, tolerance |-> tolerance, maxIterations |-> n, findAll |-> findAll, jump |-> jump,
              low |-> low, high |-> Width, picks |-> [i \in 1..n |-> IF i \in DOMAIN picks THEN picks[i] ELSE 0]]
    IN [op |-> "root", s |-> s, out |-> numeric_root(s)]
RootCall == \E f \in {g \in [0..Width -> Heights] : \A x \in 0..Width : g[x] = Pole => x = 3},
               tolerance \in 1..2, n \in {1, MaxIterations}, jump, findAll \in BOOLEAN :
    \E picks \in IF findAll THEN {<<>>} ELSE [1..2 -> Picks], low \in IF findAll THEN {0} ELSE {0, 2} :
        call' = Search(f, tolerance, n, findAll, jump, low, picks)
BadRootCall == \E tolerance \in 0..1, n \in {1, MaxIterations + 1}, low \in {0, Width, NotANumber} :
    call' = Search([x \in 0..Width |-> x - 1], tolerance, n, FALSE, FALSE, low, <<>>)

Next == FieldCall \/ RootCall \/ BadRootCall

-----------------------------------------------------------------------------
\* The vector derivatives keep the identities of vector analysis: a gradient
\* has no curl, a curl no divergence, the laplacian is the divergence of the
\* gradient, the hessian the symmetric jacobian of the gradient.
FieldsConsistent ==
    /\ call.op = "gradient" => /\ \A i \in 1..3 : curl(call.out.result)[i] = PZero
                               /\ divergence(call.out.result) = laplacian(call.p)
    /\ call.op = "hessian" => /\ call.out.result = jacobian(gradient(call.p))
                              /\ \A i, j \in 1..3 : call.out.result[i][j] = call.out.result[j][i]
    /\ call.op = "curl" /\ call.out.status = "ok" => divergence(call.out.result) = PZero
    /\ call.op = "curl" /\ call.out.status = "ok" =>
           \A i, j \in 1..3 : LET anti == PSub(jacobian(call.field)[i][j], jacobian(call.field)[j][i])
                              IN \/ i = j
                                 \/ \E k \in 1..3 : anti \in {call.out.result[k], PScale(-1, call.out.result[k])}

\* Two points, or one, that show a root: a zero, or values of opposite signs.
Shows(x, y) == call.s.f[x] = 0 \/ call.s.f[x] * call.s.f[y] < 0

\* However the interpolated steps fall, the reported root has, within its error
\* bound, a zero or a change of sign of the function that is inside the reported
\* bracket and inside the requested one.
RootEnclosed ==
    call.op = "root" /\ call.out.status = "ok" /\ ~call.s.findAll =>
        LET r == call.out.result[1]
        IN /\ call.s.low <= r.low /\ r.low <= r.high /\ r.high <= call.s.high
           /\ \/ r.root % 2 = 0 /\ Shows(r.root \div 2, r.root \div 2)
              \/ Shows(r.low, r.high) /\ r.root - r.width <= 2 * r.low /\ 2 * r.high <= r.root + r.width
           /\ r.root % 2 = 0 => r.low <= r.root \div 2 /\ r.root \div 2 <= r.high

\* With findAll every zero on the grid and every change of sign between two grid
\* points is inside the bracket of some reported root, merged or not.
RootsAllReported ==
    call.op = "root" /\ call.out.status = "ok" /\ call.s.findAll =>
        \A x \in 0..Width : x % 2 = 0 =>
            LET Inside(lo, hi) == \E i \in DOMAIN call.out.result :
                                     \E y, z \in Max({lo, call.out.result[i].low})..Min({hi, call.out.result[i].high}) : Shows(y, z)
            IN /\ call.s.f[x] = 0 => Inside(x, x)
               /\ x < Width /\ call.s.f[x] * call.s.f[x + 2] < 0 => Inside(x, x + 2)
=============================================================================
