---------------------------- MODULE Optimization ----------------------------
(***************************************************************************)
(* operations/optimization.py: enclosures of an expression over an         *)
(* interval, and branch and bound on them.                                 *)
(*                                                                         *)
(* Points are integers and rounding is left out.  The enclosure that the   *)
(* search asks for is any lower bound of the target on the interval: the   *)
(* least value there, less a slack that a narrow interval does not have.   *)
(***************************************************************************)
EXTENDS Handlers

CONSTANTS
    Trees,          \* expressions over the variable x
    Points,         \* integer end points of the intervals enclosed
    MaxPower,       \* _MAX_INTERVAL_EXPONENT
    Width,          \* the bracket is 0..Width, a power of two
    Heights,        \* values of a target
    Budgets,        \* values of maxEvaluations
    MaxReported     \* bound of the reported intervals

VARIABLE call

-----------------------------------------------------------------------------
(* _IntervalTranslator.  An enclosure is <<low, high>> of rationals, or    *)
(* Undefined when it is not finite or the shape is not supported.          *)

Undefined == <<>>
QMin(s) == CHOOSE q \in s : \A r \in s : QLeq(q, r)
QMax(s) == CHOOSE q \in s : \A r \in s : QLeq(r, q)
Times(a, b) ==
    LET products == {QMul(p, q) : p \in Range(a), q \in Range(b)} IN <<QMin(products), QMax(products)>>
Plus(a, b) == <<QAdd(a[1], b[1]), QAdd(a[2], b[2])>>
HasZero(a) == QLeq(a[1], Whole(0)) /\ QLeq(Whole(0), a[2])

\* A mutant of Absolute: the ends of an interval that straddles zero.
AbsoluteEnds(a) == <<QMin({QAbs(a[1]), QAbs(a[2])}), QMax({QAbs(a[1]), QAbs(a[2])})>>
Absolute(a) ==
    <<IF HasZero(a) THEN Whole(0) ELSE QMin({QAbs(a[1]), QAbs(a[2])}), QMax({QAbs(a[1]), QAbs(a[2])})>>

\* _power, of an integer exponent: repeated squaring of the enclosure.
Power(base, n) ==
    LET power == FoldLeft(Times, <<Whole(1), Whole(1)>>, [i \in 1..Abs(n) |-> base])
    IN CASE Abs(n) > MaxPower -> Undefined
         [] Abs(n) <= MaxPower /\ n >= 0 -> power
         [] OTHER -> IF HasZero(power) THEN Undefined
                     ELSE <<QDiv(Whole(1), power[2]), QDiv(Whole(1), power[1])>>

RECURSIVE enclosure(_, _)
enclosure(t, interval) ==
    LET first == enclosure(t[2], interval)
        second == enclosure(t[3], interval)
    IN CASE t[1] = "x" -> interval
         [] t[1] = "int" -> <<Whole(t[2]), Whole(t[2])>>
         [] t[1] = "zeta" -> Undefined
         [] t[1] = "pow" -> IF first = Undefined THEN Undefined ELSE Power(first, t[3])
         [] t[1] \in {"abs", "floor"} ->
              IF first = Undefined THEN Undefined
              ELSE IF t[1] = "abs" THEN Absolute(first) ELSE <<Whole(first[1][1] \div first[1][2]), Whole(first[2][1] \div first[2][2])>>
         [] OTHER ->
              IF first = Undefined \/ second = Undefined THEN Undefined
              ELSE CASE t[1] = "add" -> Plus(first, second)
                     [] t[1] = "mul" -> Times(first, second)
                     [] t[1] = "max" -> <<QMax({first[1], second[1]}), QMax({first[2], second[2]})>>
                     [] t[1] = "min" -> <<QMin({first[1], second[1]}), QMin({first[2], second[2]})>>

-----------------------------------------------------------------------------
(* minimize.  A search: the target f, what an enclosure costs, its slack,  *)
(* the tolerances and the budget.                                          *)

\* interval_enclosure(low, high).a, of the target or of its negative.
Target(s, x) == IF s.objective = "minimum" THEN s.f[x] ELSE -s.f[x]
LowerBound(s, low, high) ==
    Min({Target(s, x) : x \in low..high}) - (IF high - low > 1 THEN s.slack ELSE 0)

Start(s) ==
    LET bound == LowerBound(s, 0, Width)
    IN [phase |-> "bounding", heap |-> {<<bound, 0, 0, Width>>}, counter |-> 1, lower |-> bound,
        best |-> Target(s, Width \div 2), evaluations |-> s.cost + 1, certified |-> FALSE, exhausted |-> FALSE, cover |-> {}]

Least(heap) == CHOOSE e \in heap : \A d \in heap : e[1] < d[1] \/ (e[1] = d[1] /\ e[2] <= d[2])
WithinTolerance(s, b) == 4 * (b.best - b.lower) <= s.tolerance * (1 + Abs(b.best))

\* One child: its enclosure, unless the budget ends in it, and its place in the
\* heap unless it cannot hold the extremum.
Pushed(s, b, low, high) ==
    IF b.evaluations + s.cost > s.budget THEN [b EXCEPT !.exhausted = TRUE, !.evaluations = s.budget]
    ELSE LET bound == LowerBound(s, low, high)
         IN [b EXCEPT !.evaluations = @ + s.cost, !.counter = @ + 1,
                      !.heap = IF bound <= b.best THEN @ \cup {<<bound, b.counter, low, high>>} ELSE @]

\* Both children of a popped interval, then the value at its middle.  The budget
\* may end before any of the three.
Split(s, b, low, high) ==
    LET middle == (low + high) \div 2
        left == Pushed(s, b, low, middle)
        right == IF left.exhausted THEN left ELSE Pushed(s, left, middle, high)
    IN CASE right.exhausted -> right
         [] ~right.exhausted /\ right.evaluations >= s.budget -> [right EXCEPT !.exhausted = TRUE]
         [] OTHER -> [right EXCEPT !.evaluations = @ + 1, !.best = Min({@, Target(s, middle)})]

\* One turn of the loop that bounds the value, or of the loop that refines the
\* cover; an interval of width 1 is as narrow as the model resolves.
Turn(s, b) ==
    LET e == Least(b.heap)
        popped == [b EXCEPT !.heap = @ \ {e}]
    IN CASE b.exhausted \/ b.phase \in {"done", "unresolved"} -> b
         [] ~b.exhausted /\ b.phase = "bounding" ->
              (LET bounded == [popped EXCEPT !.lower = e[1]]
               IN CASE b.heap = {} -> [b EXCEPT !.phase = "done"]
                    [] b.heap # {} /\ WithinTolerance(s, bounded) ->
                         [b EXCEPT !.lower = e[1], !.certified = TRUE, !.phase = "refining"]
                    [] OTHER -> IF e[4] - e[3] = 1 THEN [b EXCEPT !.phase = "unresolved"] ELSE Split(s, bounded, e[3], e[4]))
         [] OTHER ->
              CASE b.heap = {} -> [b EXCEPT !.phase = "done"]
                [] b.heap # {} /\ e[1] > b.best -> popped
                [] b.heap # {} /\ e[1] <= b.best /\ e[4] - e[3] <= s.argminTolerance ->
                     [popped EXCEPT !.cover = @ \cup {<<e[3], e[4]>>}]
                [] OTHER -> Split(s, popped, e[3], e[4])

\* What is left in the heap belongs to the cover, and bounds the value.
Finished(s, b) ==
    LET left == {e \in b.heap : e[1] <= b.best}
        bounds == {e[1] : e \in b.heap}
    IN [b EXCEPT !.cover = @ \cup {<<e[3], e[4]>> : e \in left},
                 !.lower = IF b.certified \/ bounds = {} THEN @ ELSE Min(bounds \cup {@})]

minimize(s) ==
    Finished(s, FoldLeft(LAMBDA b, i : Turn(s, b), Start(s), [i \in 1..(4 * Width + 2) |-> i]))

\* valueEnclosure, turned round for a maximum, and the status.
Answer(s, b) ==
    [low |-> IF s.objective = "minimum" THEN b.lower ELSE -b.best,
     high |-> IF s.objective = "minimum" THEN b.best ELSE -b.lower,
     cover |-> b.cover, certified |-> b.certified, exhausted |-> b.exhausted, evaluations |-> b.evaluations,
     resolved |-> b.phase = "done" \/ b.exhausted,
     status |-> IF b.certified THEN "ok" ELSE "uncertain", truncated |-> Cardinality(b.cover) > MaxReported]

-----------------------------------------------------------------------------
EncloseCall == \E t \in Trees, low, high \in Points :
    /\ low < high
    /\ call' = [op |-> "enclose", t |-> t, low |-> low, high |-> high, out |-> enclosure(t, <<Whole(low), Whole(high)>>)]
MinimizeCall == \E f \in [0..Width -> Heights], objective \in {"minimum", "maximum"}, cost \in {1, 3}, slack \in {0, 1},
                   tolerance \in {1, 4}, budget \in Budgets :
    LET s == [f |-> f, objective |-> objective, cost |-> cost, slack |-> slack, tolerance |-> tolerance, argminTolerance |-> 1, budget |-> budget]
    IN call' = [op |-> "minimize", s |-> s, out |-> Answer(s, minimize(s))]

Next == EncloseCall \/ MinimizeCall

-----------------------------------------------------------------------------
(* Properties.                                                             *)

RECURSIVE ValueAt(_, _)
ValueAt(t, x) ==
    CASE t[1] = "x" -> Whole(x)
      [] t[1] = "int" -> Whole(t[2])
      [] t[1] = "add" -> QAdd(ValueAt(t[2], x), ValueAt(t[3], x))
      [] t[1] = "mul" -> QMul(ValueAt(t[2], x), ValueAt(t[3], x))
      [] t[1] = "max" -> QMax({ValueAt(t[2], x), ValueAt(t[3], x)})
      [] t[1] = "min" -> QMin({ValueAt(t[2], x), ValueAt(t[3], x)})
      [] t[1] = "abs" -> QAbs(ValueAt(t[2], x))
      [] t[1] = "floor" -> LET v == ValueAt(t[2], x) IN Whole(v[1] \div v[2])
      [] t[1] = "pow" -> IF t[3] >= 0 THEN QPow(ValueAt(t[2], x), t[3]) ELSE QDiv(Whole(1), QPow(ValueAt(t[2], x), -t[3]))

\* An enclosure holds the value at every point of its interval.
EnclosuresHold ==
    call.op = "enclose" /\ call.out # Undefined =>
      \A x \in call.low..call.high :
         QLeq(call.out[1], ValueAt(call.t, x)) /\ QLeq(ValueAt(call.t, x), call.out[2])

Extremum == LET values == Range(call.s.f) IN IF call.s.objective = "minimum" THEN Min(values) ELSE Max(values)
Covered(x) == \E i \in call.out.cover : i[1] <= x /\ x <= i[2]

\* The value enclosure holds the extremum whenever the search stops, budget or
\* not, and every extremal point is in the reported intervals of a search that
\* ended by itself; the budget is never exceeded.
ExtremumEnclosed ==
    call.op = "minimize" /\ call.out.resolved =>
      /\ call.out.low <= Extremum /\ Extremum <= call.out.high
      /\ ~call.out.exhausted => \A x \in 0..Width : call.s.f[x] = Extremum => Covered(x)
      /\ call.out.evaluations <= call.s.budget

\* The comment of the search: "the extremum intervals always form a cover of the
\* true minimizer set", also when the budget ends during refinement.
CoverIsKept ==
    call.op = "minimize" /\ call.out.resolved /\ call.out.certified =>
      \A x \in 0..Width : call.s.f[x] = Extremum => Covered(x)
=============================================================================
