------------------------------ MODULE Numerics ------------------------------
(***************************************************************************)
(* operations/numerical.py: the probes, the refinement and the budget of   *)
(* numeric.integrate, and the diagnostics of matrix.solve_approximate;     *)
(* operations/matrix.py, linear_algebra.py, and parse_matrix of            *)
(* safe_expression.py.                                                     *)
(*                                                                         *)
(* The integrand's values are left out: a segment has an error, the two    *)
(* halves of a refined one have its error divided by s.shrink.             *)
(***************************************************************************)
EXTENDS Handlers

CONSTANTS
    Bounds,         \* lower, breakpoints, upper: sequences of points
    Scales,         \* featureScale, 0 being none
    Budgets,        \* maxEvaluations
    Errors,         \* errors of a probe segment
    ProbeCap,       \* the cap on probe segments without a feature scale (256)
    RulePoints,     \* points of the quadrature rule of a half (17)
    MaxTurns,       \* bound of the refinements followed
    Entries,        \* entries of a matrix
    Solved,         \* computed solutions, as numbers of halves
    MatrixEntries,  \* entries of a matrix that is parsed
    Shapes,         \* <<rows, columns>> of the matrices of a request
    MaxSide,        \* bound of rows and columns
    Spectra,        \* sequences of singular values a matrix may have
    Scale           \* tolerances are numbers of 1 / Scale

VARIABLE call

-----------------------------------------------------------------------------
(* integrate                                                               *)

\* _integration_breakpoints: strictly inside, distinct; the result is sorted.
integration_breakpoints(points) ==
    LET n == Len(points)
    IN << <<\A i \in 2..(n - 1) : points[1] < points[i] /\ points[i] < points[n], "E_INPUT">>,
          <<IsInjective(points), "E_INPUT">> >>
Boundaries(points) == SetToSortSeq(Range(points), LAMBDA x, y : x < y)
Widths(boundaries) == [i \in 1..(Len(boundaries) - 1) |-> boundaries[i + 1] - boundaries[i]]
SumOf(s) == FoldLeft(LAMBDA a, b : a + b, 0, s)

MaxProbes(budget, regions) == (budget - regions) \div 4

\* Probes by width, the remainders handed out from the largest down.
Shares(widths, total) ==
    LET remaining == total - Len(widths)
        Addition(i) == (remaining * widths[i]) \div SumOf(widths)
        Left(i) == (remaining * widths[i]) % SumOf(widths)
        undistributed == remaining - SumOf([i \in DOMAIN widths |-> Addition(i)])
        Rank(i) == Cardinality({j \in DOMAIN widths : Left(j) > Left(i) \/ (Left(j) = Left(i) /\ j <= i)})
    IN [i \in DOMAIN widths |-> 1 + Addition(i) + (IF Rank(i) <= undistributed THEN 1 ELSE 0)]

\* _probe_segment_counts
probe_segment_counts(widths, maximum, scale) ==
    IF scale = 0 THEN Shares(widths, Min({ProbeCap, maximum}))
    ELSE [i \in DOMAIN widths |-> Max({1, (widths[i] + scale - 1) \div scale})]

\* _initial_segments_for_boundaries: four more points for every segment and one
\* for every region; the segments of a region have equal widths.
InitialEvaluations(counts) == 4 * SumOf(counts) + Len(counts)
initial_segments(s, boundaries, counts) ==
    LET Region(i) == [k \in 1..counts[i] |->
                        [low |-> QAdd(Whole(boundaries[i]), Q((k - 1) * Widths(boundaries)[i], counts[i])),
                         high |-> QAdd(Whole(boundaries[i]), Q(k * Widths(boundaries)[i], counts[i]))]]
        all == FlattenSeq([i \in DOMAIN counts |-> Region(i)])
    IN {[error |-> s.errors[1 + (k % 2)], counter |-> k - 1, low |-> all[k].low, high |-> all[k].high] : k \in DOMAIN all}

Worst(heap) == CHOOSE e \in heap : \A d \in heap : e.error > d.error \/ (e.error = d.error /\ e.counter <= d.counter)
ErrorOf(heap) == MapThenSumSet(LAMBDA e : e.error, heap)

CanRefine(s, q) == q.evaluations + 2 * RulePoints <= s.budget

\* A turn of the refinement: the worst segment is replaced by its halves,
\* _split_refined_segment, each with an error of its own.
Refined(s, q) ==
    LET e == Worst(q.heap)
        middle == QDiv(QAdd(e.low, e.high), Whole(2))
        Half(k, low, high) == [error |-> e.error \div s.shrink, counter |-> q.counter + k, low |-> low, high |-> high]
    IN [q EXCEPT !.heap = (@ \ {e}) \cup {Half(1, e.low, middle), Half(2, middle, e.high)},
                 !.counter = @ + 2, !.evaluations = @ + 2 * RulePoints,
                 !.error = Max({0, @ + 2 * (e.error \div s.shrink) - e.error})]
Turn(s, q) ==
    CASE q.phase # "running" -> q
      [] q.phase = "running" /\ q.error <= s.tolerance -> [q EXCEPT !.phase = "met"]
      [] q.phase = "running" /\ q.error > s.tolerance -> IF CanRefine(s, q) THEN Refined(s, q) ELSE [q EXCEPT !.phase = "spent"]

CoverageStatus(s) ==
    CASE s.scale # 0 -> "feature_scale" [] s.scale = 0 /\ Len(s.points) > 2 -> "feature_points" [] OTHER -> "unverified"

Started(counts, heap) ==
    [phase |-> "running", heap |-> heap, counter |-> Cardinality(heap) - 1,
     evaluations |-> InitialEvaluations(counts), error |-> ErrorOf(heap)]
Integrated(s, counts, end) ==
    [status |-> CASE end.phase = "met" -> IF CoverageStatus(s) = "unverified" THEN "uncertain" ELSE "ok"
                  [] end.phase = "spent" -> "E_CONVERGENCE"
                  [] end.phase = "running" -> "unfinished",
     counts |-> counts, heap |-> end.heap, evaluations |-> end.evaluations, error |-> end.error]

integrate(s) ==
    LET boundaries == Boundaries(s.points)
        widths == Widths(boundaries)
        maximum == MaxProbes(s.budget, Len(widths))
        counts == probe_segment_counts(widths, maximum, s.scale)
        start == Started(counts, initial_segments(s, boundaries, counts))
        checks == << <<s.tolerance >= 0, "E_INPUT">> >> \o integration_breakpoints(s.points)
                  \o << <<s.scale <= s.points[Len(s.points)] - s.points[1], "E_INPUT">> >>
    IN CASE FirstFailure(checks) # "ok" -> Refused(FirstFailure(checks))
         [] FirstFailure(checks) = "ok" /\ maximum < Len(widths) -> Refused("E_LIMIT")
         [] FirstFailure(checks) = "ok" /\ maximum >= Len(widths) /\ SumOf(counts) > maximum /\ s.scale # 0 -> Refused("E_LIMIT")
         [] OTHER -> Integrated(s, counts, FoldLeft(LAMBDA q, i : Turn(s, q), start, [i \in 1..MaxTurns |-> i]))

-----------------------------------------------------------------------------
(* solve_approximate_linear_system, in the infinity norm                   *)

QMax(s) == CHOOSE q \in s : \A r \in s : QLeq(r, q)
Norm(v) == QMax({QAbs(v[i]) : i \in 1..2})
MatrixNorm(m) == QMax({QAdd(QAbs(m[i][1]), QAbs(m[i][2])) : i \in 1..2})
Times(m, v) == [i \in 1..2 |-> QAdd(QMul(m[i][1], v[1]), QMul(m[i][2], v[2]))]
Det(m) == QSub(QMul(m[1][1], m[2][2]), QMul(m[1][2], m[2][1]))
Adjugate(m) == << <<m[2][2], QNeg(m[1][2])>>, <<QNeg(m[2][1]), m[1][1]>> >>
Inverse2(m) == [i \in 1..2 |-> [j \in 1..2 |-> QDiv(Adjugate(m)[i][j], Det(m))]]

Condition(m) == QMul(MatrixNorm(m), MatrixNorm(Inverse2(m)))
BackwardError(m, x, b) ==
    LET residual == Norm([i \in 1..2 |-> QSub(Times(m, x)[i], b[i])])
        denominator == QAdd(QMul(MatrixNorm(m), Norm(x)), Norm(b))
    IN IF denominator[1] = 0 THEN residual ELSE QDiv(residual, denominator)

\* The answer for the computed solution x; <<>> is an absent bound.
ForwardBound(product) == IF QLess(product, Whole(1)) THEN QDiv(product, QSub(Whole(1), product)) ELSE <<>>
solve_approximate(m, b, x, amplified) ==
    IF Det(m)[1] = 0 THEN [classification |-> "singular", bound |-> <<>>]
    ELSE [classification |-> IF QLess(Whole(amplified), Condition(m)) THEN "ill_conditioned" ELSE "stable_for_tolerance",
          bound |-> ForwardBound(QMul(Condition(m), BackwardError(m, x, b)))]

-----------------------------------------------------------------------------
IntegrateCall == \E points \in Bounds, scale \in Scales, budget \in Budgets, errors \in [1..2 -> Errors], shrink \in {1, 4}, tolerance \in {-1, 0, 5} :
    LET s == [points |-> points, scale |-> scale, budget |-> budget, errors |-> errors, shrink |-> shrink, tolerance |-> tolerance]
    IN call' = [op |-> "integrate", s |-> s, out |-> integrate(s)]
SolveCall == \E m \in [1..2 -> [1..2 -> Entries]], truth \in [1..2 -> {-1, 0, 1}], computed \in [1..2 -> Solved] :
    LET q == [i \in 1..2 |-> [j \in 1..2 |-> Whole(m[i][j])]]
        b == Times(q, [i \in 1..2 |-> Whole(truth[i])])
    IN call' = [op |-> "approximate", m |-> q, truth |-> [i \in 1..2 |-> Whole(truth[i])], x |-> [i \in 1..2 |-> Q(computed[i], 2)],
                out |-> solve_approximate(q, b, [i \in 1..2 |-> Q(computed[i], 2)], 4)]

Next == IntegrateCall \/ SolveCall

-----------------------------------------------------------------------------
\* Every region is probed, the probes use up their share and never the budget,
\* no segment is wider than the feature scale, and whatever is refined the
\* segments tile the interval without crossing a breakpoint.
Probed == call.op = "integrate" /\ call.out.status \in {"ok", "uncertain", "E_CONVERGENCE", "unfinished"}
ProbesCover ==
    Probed =>
        LET boundaries == Boundaries(call.s.points)
            counts == call.out.counts
            segments == call.out.heap
        IN /\ \A i \in DOMAIN counts : counts[i] >= 1
           /\ InitialEvaluations(counts) <= call.s.budget
           /\ call.s.scale = 0 => SumOf(counts) = Min({ProbeCap, (call.s.budget - Len(counts)) \div 4})
           /\ call.s.scale # 0 => \A i \in DOMAIN counts : Widths(boundaries)[i] <= call.s.scale * counts[i]
           /\ \A e \in segments : e.low = Whole(boundaries[1]) \/ \E d \in segments : d.high = e.low
           /\ \A e \in segments : e.high = Whole(Last(boundaries)) \/ \E d \in segments : d.low = e.high
           /\ \A d, e \in segments : d # e => QLeq(d.high, e.low) \/ QLeq(e.high, d.low)
           /\ \A e \in segments, p \in Range(boundaries) : ~(QLess(e.low, Whole(p)) /\ QLess(Whole(p), e.high))

\* The refinement never runs out of evaluations inside a step, the running error
\* is the sum of the segments' errors, an answer meets the tolerance, and only
\* the caller's feature information makes it "ok".
RefinementWithinBudget ==
    Probed =>
        /\ call.out.evaluations <= call.s.budget
        /\ call.out.error = ErrorOf(call.out.heap)
        /\ call.out.status \in {"ok", "uncertain"} => call.out.error <= call.s.tolerance
        /\ call.out.status = "ok" => call.s.scale # 0 \/ Len(call.s.points) > 2
        /\ call.out.status = "E_CONVERGENCE" => call.out.error > call.s.tolerance

\* The computed solution differs from the true one by at most twice the reported
\* relativeForwardErrorBound, relative to the true one, whatever the rounding of the
\* solve was.  The residual may be as large as both sides of the backward error's
\* denominator allow, so once the bound would not do for every computed vector.
ForwardErrorWithinTwice ==
    call.op = "approximate" /\ call.out.bound # <<>> =>
      QLeq(Norm([i \in 1..2 |-> QSub(call.x[i], call.truth[i])]),
           QMul(Whole(2), QMul(call.out.bound, Norm(call.truth))))

-----------------------------------------------------------------------------
(* Matrices.  A matrix is a sequence of rows of integers; the entry Float  *)
(* stands for a floating-point number and NotANumber for text that does    *)
(* not parse.  SymPy's elimination is external and modelled by minors;     *)
(* NumPy's singular values are external and given, in decreasing order.    *)

Float == 3333
Cols(m) == Len(m[1])
Matrices(shape) == [1..shape[1] -> [1..shape[2] -> MatrixEntries]]

\* parse_matrix
parse_matrix(m) ==
    << <<m # <<>>, "E_INPUT">>, <<Len(m) <= MaxSide, "E_LIMIT">>,
       <<\A i \in DOMAIN m : m[i] # <<>>, "E_INPUT">>,
       <<m # <<>> => Len(m[1]) <= MaxSide, "E_LIMIT">>,
       <<\A i \in DOMAIN m : Len(m[i]) = Len(m[1]), "E_INPUT">>,
       <<\A i \in DOMAIN m : \A j \in DOMAIN m[i] : m[i][j] # NotANumber, "E_SYNTAX">> >>

\* _require_exact
require_exact(m) == << <<\A i \in DOMAIN m : \A j \in DOMAIN m[i] : m[i][j] # Float, "E_INPUT">> >>
square(m) == << <<Len(m) = Len(m[1]), "E_INPUT">> >>
Passes(checks) == FirstFailure(checks) = "ok"

\* Determinants up to order 2, of the rows and columns chosen.
Minor(m, rows, cols) ==
    IF Cardinality(rows) = 1 THEN m[Min(rows)][Min(cols)]
    ELSE (m[Min(rows)][Min(cols)] * m[Max(rows)][Max(cols)]) - (m[Min(rows)][Max(cols)] * m[Max(rows)][Min(cols)])
Rank(m) ==
    IF \E rows \in kSubset(2, DOMAIN m), cols \in kSubset(2, DOMAIN m[1]) : Minor(m, rows, cols) # 0 THEN 2
    ELSE IF \E i \in DOMAIN m : \E j \in DOMAIN m[i] : m[i][j] # 0 THEN 1 ELSE 0
Augmented(m, constants) == [i \in DOMAIN m |-> Append(m[i], constants[i])]

determinant(m) == Handled(parse_matrix(m) \o square(m), Minor(m, DOMAIN m, DOMAIN m))

\* inverse, times the determinant.
inverse(m) ==
    Handled(parse_matrix(m) \o square(m) \o << <<Len(m) = Len(m[1]) => Minor(m, DOMAIN m, DOMAIN m) # 0, "E_DOMAIN">> >>,
            IF Len(m) = 1 THEN << <<1>> >> ELSE << <<m[2][2], -m[1][2]>>, <<-m[2][1], m[1][1]>> >>)

Classification(m, constants) ==
    CASE Rank(m) < Rank(Augmented(m, constants)) -> "inconsistent"
      [] Rank(m) = Rank(Augmented(m, constants)) /\ Rank(m) = Cols(m) -> "unique"
      [] OTHER -> "infinite"

\* variables: how many names are given, 0 for the default ones.
solve(m, constants, variables) ==
    Handled(parse_matrix(m) \o << <<constants # <<>>, "E_INPUT">>, <<Len(constants) = Len(m), "E_INPUT">> >>
            \o require_exact(m) \o << <<\A i \in DOMAIN constants : constants[i] # Float, "E_INPUT">> >>
            \o << <<variables \in {0, Len(m[1])}, "E_INPUT">> >>,
            [classification |-> Classification(m, constants), rank |-> Rank(m),
             nullity |-> IF Classification(m, constants) = "infinite" THEN Cols(m) - Rank(m) ELSE 0])

\* reduce: lu, rref and the spaces take any shape, the rest a square matrix.
Hermitian(m) == \A i, j \in DOMAIN m : m[i][j] = m[j][i]
PositiveDefinite(m) == m[1][1] > 0 /\ Minor(m, DOMAIN m, DOMAIN m) > 0
reduce(action, m) ==
    Handled(parse_matrix(m) \o require_exact(m)
            \o << <<action \in {"eigenspaces", "cholesky"} => Len(m) = Len(m[1]), "E_INPUT">> >>
            \o << <<action = "cholesky" /\ Len(m) = Len(m[1]) => Hermitian(m), "E_DOMAIN">>,
                  <<action = "cholesky" /\ Len(m) = Len(m[1]) => PositiveDefinite(m), "E_DOMAIN">> >>,
            CASE action \in {"rank", "columnspace"} -> Rank(m)
              [] action = "nullspace" -> Cols(m) - Rank(m)
              [] OTHER -> 0)

-----------------------------------------------------------------------------
(* linear_algebra.exact                                                    *)

Dot(u, v) == FoldLeft(LAMBDA a, b : a + b, 0, [i \in DOMAIN u |-> u[i] * v[i]])
Cross(u, v) == << (u[2] * v[3]) - (u[3] * v[2]), (u[3] * v[1]) - (u[1] * v[3]), (u[1] * v[2]) - (u[2] * v[1]) >>

matrix_multiply(l, r) ==
    Handled(parse_matrix(l) \o require_exact(l) \o parse_matrix(r) \o require_exact(r) \o << <<Len(l[1]) = Len(r), "E_INPUT">> >>,
            [i \in DOMAIN l |-> [j \in DOMAIN r[1] |-> Dot(l[i], [k \in DOMAIN r |-> r[k][j]])]])

\* projection: the numerators over the squared length of the target.
vector(action, u, v) ==
    Handled(require_exact(<<u>>) \o (IF action = "norm_squared" THEN <<>>
                                     ELSE require_exact(<<v>>) \o << <<Len(u) = Len(v), "E_INPUT">> >>)
            \o (CASE action = "cross" -> << <<Len(u) = 3, "E_INPUT">> >>
                  [] action = "projection" -> << <<\E i \in DOMAIN v : v[i] # 0, "E_DOMAIN">> >>
                  [] OTHER -> <<>>),
            CASE action = "cross" -> Cross(u, v)
              [] action = "projection" -> [i \in DOMAIN v |-> v[i] * Dot(u, v)]
              [] action = "dot" -> <<Dot(u, v)>>
              [] action = "norm_squared" -> <<Dot(u, u)>>)

-----------------------------------------------------------------------------
(* linear_algebra.numeric                                                  *)

\* _rank_diagnostics; the spectrum has min(rows, columns) values.
rank_diagnostics(spectrum, tolerance) ==
    LET above == {i \in DOMAIN spectrum : spectrum[i] * Scale > tolerance * spectrum[1]}
        rank == Cardinality(above)
    IN [rank |-> rank, infinite |-> rank < Len(spectrum) \/ spectrum[Len(spectrum)] = 0]

\* numeric: the diagnostics, then what the action adds to them.
numeric(action, rows, cols, spectrum, tolerance, constants, overflow) ==
    LET d == rank_diagnostics(spectrum, tolerance)
    IN Handled(<< <<0 < tolerance, "E_INPUT">>, <<tolerance <= Scale, "E_INPUT">>,
                  <<action = "least_squares" => constants = rows, "E_INPUT">>, <<~overflow, "E_DOMAIN">> >>,
               [rank |-> d.rank, infinite |-> d.infinite, warned |-> d.rank < Min({rows, cols}),
                classification |-> IF d.rank = Min({rows, cols}) THEN "full_rank" ELSE "rank_deficient",
                unique |-> action = "least_squares" /\ d.rank = cols])

-----------------------------------------------------------------------------
Requests == UNION {Matrices(shape) : shape \in Shapes} \cup {<<>>, << <<>> >>, << <<1>>, <<1, 2>> >>, << <<1>>, <<1>>, <<1>>, <<1>> >>}
Small == {-1, 0, 2}

ExactCall == \E m \in Requests, action \in {"determinant", "inverse", "rank", "nullspace", "eigenspaces", "cholesky", "lu"} :
    call' = [op |-> action, m |-> m,
             out |-> IF ~Passes(parse_matrix(m)) THEN Refused(FirstFailure(parse_matrix(m)))
                     ELSE CASE action = "determinant" -> determinant(m)
                            [] action = "inverse" -> inverse(m)
                            [] OTHER -> reduce(action, m)]
ExactSolveCall == \E m \in Requests, variables \in 0..2 : \E constants \in {<<>>} \cup [1..2 -> Small] :
    call' = [op |-> "solve", m |-> m, constants |-> constants,
             out |-> IF ~Passes(parse_matrix(m)) THEN Refused(FirstFailure(parse_matrix(m)))
                     ELSE solve(m, constants, variables)]
MultiplyCall == \E shape \in Shapes : \E l \in Matrices(shape), r \in Matrices(<<2, 2>>) :
    /\ Passes(parse_matrix(l) \o require_exact(l) \o parse_matrix(r) \o require_exact(r))
    /\ call' = [op |-> "multiply", l |-> l, r |-> r, out |-> matrix_multiply(l, r)]
VectorCall == \E n \in {2, 3}, action \in {"dot", "cross", "norm_squared", "projection"} : \E u \in [1..3 -> Small], v \in [1..n -> Small] :
    call' = [op |-> action, u |-> u, v |-> v,
             out |-> IF Len(u) # Len(v) /\ action # "norm_squared" THEN Refused("E_INPUT") ELSE vector(action, u, v)]
NumericCall == \E action \in {"least_squares", "qr", "svd", "pseudoinverse"}, rows, cols \in 1..3, spectrum \in Spectra,
                  tolerance \in 0..(Scale + 1), constants \in 1..3, overflow \in BOOLEAN :
    /\ Len(spectrum) = Min({rows, cols})
    /\ call' = [op |-> "numeric", rows |-> rows, cols |-> cols, out |-> numeric(action, rows, cols, spectrum, tolerance, constants, overflow)]

NextMatrix == ExactCall \/ ExactSolveCall \/ MultiplyCall \/ VectorCall \/ NumericCall

-----------------------------------------------------------------------------
(* Properties.                                                             *)

Served(op) == call.op = op /\ call.out.status = "ok"
Solves(x) == \A i \in DOMAIN call.m : Dot(call.m[i], x) = call.constants[i]

\* A system called inconsistent has no solution and one called unique no two;
\* one with a homogeneous solution and a solution is called infinite.  A minimizer
\* is called unique only at full column rank, and a finite condition number is
\* never reported for a matrix that is called rank deficient.
SystemsClassified ==
    /\ Served("solve") =>
         LET found == {x \in [1..Cols(call.m) -> -3..3] : Solves(x)}
         IN /\ call.out.result.classification = "inconsistent" => found = {}
            /\ call.out.result.classification = "unique" => Cardinality(found) <= 1
            /\ Cardinality(found) > 1 => call.out.result.classification = "infinite" /\ call.out.result.nullity > 0
    /\ Served("numeric") =>
         /\ call.out.result.unique => call.out.result.rank = call.cols /\ call.cols <= call.rows
         /\ call.out.result.classification = "rank_deficient" => call.out.result.infinite /\ call.out.result.warned

\* An inverse times its matrix is the determinant on the diagonal; a cross
\* product is orthogonal to both factors; a product's determinant is the product
\* of the determinants.
AlgebraHolds ==
    /\ Served("inverse") =>
         \A i, j \in DOMAIN call.m :
            Dot(call.m[i], [k \in DOMAIN call.m |-> call.out.result[k][j]]) =
              IF i = j THEN Minor(call.m, DOMAIN call.m, DOMAIN call.m) ELSE 0
    /\ Served("cross") => Dot(call.u, call.out.result) = 0 /\ Dot(call.v, call.out.result) = 0
    /\ Served("multiply") /\ Len(call.l) = 2 =>
         Minor(call.out.result, {1, 2}, {1, 2}) = Minor(call.l, {1, 2}, {1, 2}) * Minor(call.r, {1, 2}, {1, 2})
=============================================================================
