---------------------------- MODULE Verification ----------------------------
(***************************************************************************)
(* expression.equivalent and solution.verify:                              *)
(* src/math_anchor/operations/verification.py.                             *)
(*                                                                         *)
(* An expression in one variable is the function of its values, Undefined  *)
(* and NonReal among them.  SymPy is external: simplify, domains and       *)
(* solveset may fail to decide, and are right when they do.  Two sets it   *)
(* found are compared by their structure, which may tell equal ones apart. *)
(* The constraints of solution.verify have real values where defined.      *)
(***************************************************************************)
EXTENDS Handlers

CONSTANTS
    Probes, Others,     \* points the probes try, and points they do not
    Values,             \* finite real values
    Candidates,         \* points a caller may claim as solutions
    MaxItems            \* the bound on constraints and on candidates

VARIABLE call

\* Codes beside the finite values.
Undefined == NotANumber
NonReal == NotANumber + 1

Points == Probes \cup Others
Expressions == [Points -> Values \cup {Undefined, NonReal}]
Undecided == "undecided"

-----------------------------------------------------------------------------
(* expression.equivalent                                                   *)

\* Where an expression has a value of the domain asked about: the domain of the
\* expression cut down by source_domain_restrictions.
DefinedAt(f, p, domain) == f[p] # Undefined /\ (domain = "real" => f[p] # NonReal)
Domain(f, domain) == {p \in Points : DefinedAt(f, p, domain)}

\* _compare_definedness: what it may answer.  The same source, or no variable,
\* has the same domain; otherwise the two sets are found or not, and left_set ==
\* right_set is a comparison of structure: "different" may be said of equal sets.
compare_definedness(r) ==
    IF r.identical THEN {"same"}
    ELSE {"unknown", "different"}
         \cup {d \in {"same"} : Domain(r.left, r.domain) = Domain(r.right, r.domain)}

\* What simplify(left - right) == 0 may answer.
DifferenceIsZero(r) ==
    {FALSE} \cup {\A p \in Points : p \in Domain(r.left, r.domain) \cap Domain(r.right, r.domain)
                                      => r.left[p] = r.right[p]}

\* find_counterexample: a probe in the domain of both sides, by
\* point_in_source_domain and the checks of the two values, where they differ.
Distinguishes(r, p) ==
    /\ DefinedAt(r.left, p, r.domain) /\ DefinedAt(r.right, p, r.domain)
    /\ r.left[p] # r.right[p]

Equivalence(verdict, definedness, witness) ==
    [equivalence |-> verdict, proven |-> verdict # "unknown", definedness |-> definedness,
     counterexample |-> witness]

expression_equivalent(r, definedness, zero) ==
    LET witnesses == {p \in Probes : Distinguishes(r, p)}
        differ == r.policy = "strict" /\ definedness = "different"
        certain == r.policy = "common_domain" \/ definedness = "same"
    IN CASE differ -> Equivalence("not_equivalent", definedness, {})
         [] ~differ /\ zero /\ certain -> Equivalence("equivalent", definedness, {})
         [] ~differ /\ ~zero /\ witnesses # {} ->
              Equivalence("not_equivalent", definedness, {Min(witnesses)})
         [] OTHER -> Equivalence("unknown", definedness, {})

-----------------------------------------------------------------------------
(* solution.verify                                                         *)

Relations == {"=", "!=", "<"}

\* The form of a number: exact and decided by SymPy; with a Float in it, or not
\* decided, but evaluated numerically; or neither.
Forms == {"exact", "numeric", "undecided"}

\* _zero_with_tolerance: the tolerance is for numeric values only.
zero_with_tolerance(value, tolerance, form) ==
    CASE form = "undecided" -> Undecided
      [] form = "exact" -> IF value = 0 THEN "true" ELSE "false"
      [] form = "numeric" -> IF Abs(value) <= tolerance THEN "true" ELSE "false"

Opposite(verdict) ==
    CASE verdict = "true" -> "false" [] verdict = "false" -> "true" [] OTHER -> verdict

\* _parse_constraint gives [left, relation, right]; _verify_constraint at one
\* candidate: an undefined side is not satisfied.
verify_constraint(c, point, tolerance) ==
    LET l == c.left[point]
        r == c.right[point]
        zero == zero_with_tolerance(l - r, tolerance, c.form)
    IN IF l = Undefined \/ r = Undefined THEN "false"
       ELSE CASE c.relation = "=" -> zero
              [] c.relation = "!=" -> Opposite(zero)
              [] c.relation = "<" -> IF c.form = "undecided" THEN Undecided
                                     ELSE IF l < r THEN "true" ELSE "false"

\* A candidate's verdict over its constraints, and all candidates' verdict.
Conjunction(states) ==
    IF "false" \in states THEN "false" ELSE IF states = {"true"} THEN "true" ELSE Undecided

\* assess_completeness: only for one equation, when the solver lists its
\* solutions; a candidate covers a solution if their difference counts as zero.
SolutionSet(c) == {p \in Points : c.left[p] # Undefined /\ c.left[p] = c.right[p]}

assess_completeness(r) ==
    IF ~r.requested THEN [completeness |-> "not_checked", omitted |-> {}]
    ELSE IF Len(r.constraints) # 1 \/ r.constraints[1].relation # "=" \/ r.unsolved
    THEN [completeness |-> "unknown", omitted |-> {}]
    ELSE LET omitted == {s \in SolutionSet(r.constraints[1]) :
                           \A i \in DOMAIN r.candidates :
                              zero_with_tolerance(r.candidates[i] - s, r.tolerance, r.form) # "true"}
         IN [completeness |-> IF omitted = {} THEN "complete" ELSE "incomplete", omitted |-> omitted]

solution_verify(r) ==
    LET valid == [i \in DOMAIN r.candidates |->
                    Conjunction({verify_constraint(r.constraints[k], r.candidates[i], r.tolerance) :
                                 k \in DOMAIN r.constraints})]
    IN Handled(<< <<Len(r.constraints) > 0, "E_INPUT">>, <<Len(r.constraints) <= MaxItems, "E_LIMIT">>,
                  <<Len(r.candidates) > 0, "E_INPUT">>, <<Len(r.candidates) <= MaxItems, "E_LIMIT">>,
                  <<r.tolerance > 0, "E_INPUT">>,
                  <<r.domain = "real" \/ \A k \in DOMAIN r.constraints :
                                            r.constraints[k].relation \in {"=", "!="}, "E_INPUT">> >>,
               [valid |-> valid, allValid |-> Conjunction({valid[i] : i \in DOMAIN valid}),
                coverage |-> assess_completeness(r)])

-----------------------------------------------------------------------------
EquivalentCall ==
    \E f, g \in Expressions, d \in {"real", "complex"}, p \in {"strict", "common_domain"} :
      \E same \in {FALSE, f = g} :
        LET r == [left |-> f, right |-> g, domain |-> d, policy |-> p, identical |-> same]
        IN \E definedness \in compare_definedness(r), zero \in DifferenceIsZero(r) :
             call' = [op |-> "equivalent", r |-> r,
                      out |-> Answered(expression_equivalent(r, definedness, zero))]

\* p^2 undefined at a point, against a number.
Square(hole, rel, n, form) ==
    [left |-> [p \in Points |-> IF p = hole THEN Undefined ELSE p * p], relation |-> rel,
     right |-> [p \in Points |-> n], form |-> form]
Constraints ==
    {Square(hole, rel, n, form) :
       hole \in {0, 1}, rel \in Relations, n \in {1, 4}, form \in Forms}

VerifyCall ==
    \E n \in 0..2, m \in 0..3, t \in 0..1, d \in {"real", "complex"}, q, u \in BOOLEAN,
       form \in {"exact", "numeric"} :
      \E cs \in [1..n -> Constraints], xs \in [1..m -> Candidates] :
        LET r == [constraints |-> cs, candidates |-> xs, tolerance |-> t, domain |-> d,
                  requested |-> q, unsolved |-> u, form |-> form]
        IN /\ m # 2 \/ n = 1
           /\ n = 1 \/ form = "exact"
           /\ m # 3 \/ n = 0
           /\ call' = [op |-> "verify", r |-> r, out |-> solution_verify(r)]

Next == EquivalentCall \/ VerifyCall

-----------------------------------------------------------------------------
\* What a verdict on a constraint promises: the residual is near zero, or zero if
\* it is exact, where the relation is said to hold of near values, and not zero,
\* or of the right sign, where it is said not to.
Near(n, form, tolerance) == Abs(n) <= tolerance /\ (form = "exact" => n = 0)
HasValues(x, c) == c.left[x] # Undefined /\ c.right[x] # Undefined
Residual(x, c) == c.left[x] - c.right[x]

Met(x, c, tolerance) ==
    /\ HasValues(x, c)
    /\ CASE c.relation = "=" -> Near(Residual(x, c), c.form, tolerance)
         [] c.relation = "!=" -> Residual(x, c) # 0
         [] c.relation = "<" -> Residual(x, c) < 0

Failed(x, c, tolerance) ==
    \/ ~HasValues(x, c)
    \/ CASE c.relation = "=" -> Residual(x, c) # 0
         [] c.relation = "!=" -> Near(Residual(x, c), c.form, tolerance)
         [] c.relation = "<" -> Residual(x, c) >= 0

\* A proven answer is right, whatever the symbolic engine failed to decide.
\* "equivalent" means equal wherever both are defined and, when strict, defined at
\* the same points; "not_equivalent" has a point where both are defined and
\* differ, unless it rests on the comparison of the domains alone, and "same" is
\* never said of different domains.  A candidate is called valid only if it meets
\* every constraint, exactly where the residual is exact and within the tolerance
\* otherwise, and invalid only if it fails one; the candidates are complete only
\* if every solution is within the tolerance of one, and a solution reported as
\* omitted is none of them.
VerificationSound ==
    /\ call.op = "equivalent" =>
         LET r == call.r
             res == call.out.result
             both == Domain(r.left, r.domain) \cap Domain(r.right, r.domain)
             same == Domain(r.left, r.domain) = Domain(r.right, r.domain)
         IN /\ res.equivalence = "equivalent" =>
                 (\A p \in both : r.left[p] = r.right[p]) /\ (r.policy = "strict" => same)
            /\ res.equivalence = "not_equivalent" =>
                 \/ \E p \in both \cap res.counterexample : r.left[p] # r.right[p]
                 \/ r.policy = "strict" /\ res.definedness = "different"
            /\ res.definedness = "same" => same
    /\ call.op = "verify" /\ call.out.status = "ok" =>
         LET r == call.r
             res == call.out.result
         IN /\ res.allValid = "true" =>
                 \A i \in DOMAIN r.candidates, k \in DOMAIN r.constraints :
                    Met(r.candidates[i], r.constraints[k], r.tolerance)
            /\ res.allValid = "false" =>
                 \E i \in DOMAIN r.candidates, k \in DOMAIN r.constraints :
                    Failed(r.candidates[i], r.constraints[k], r.tolerance)
            /\ res.coverage.completeness = "complete" =>
                 \A s \in SolutionSet(r.constraints[1]) :
                    \E i \in DOMAIN r.candidates : Abs(r.candidates[i] - s) <= r.tolerance
            /\ \A s \in res.coverage.omitted, i \in DOMAIN r.candidates : r.candidates[i] # s
=============================================================================
