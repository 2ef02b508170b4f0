---------------------------- MODULE MethodPacks -----------------------------
(***************************************************************************)
(* research/method_packs: a frozen pack is loaded, validated and applied   *)
(* to a task.  The Gosper pack runs the finite-sum procedure; the pack of  *)
(* shifted squares instantiates the antidifference G(k, c) it saved, and   *)
(* may not reconstruct it.                                                 *)
(*                                                                         *)
(* G(k, c) is the sequence of its coefficients of 1, c and c^2.  An        *)
(* application leaves an adoption record, which counts as evidence of use  *)
(* across tasks only for a task other than the one the pack came from.     *)
(***************************************************************************)
EXTENDS FiniteSums

CONSTANTS
    Packs,          \* pack documents
    Sources,        \* summand texts
    Parameters,     \* values of parameterC
    Bounds,         \* values of lower and upper
    TaskIds         \* values of taskId

VARIABLE call

Gosper == "gosper"
Param == "shifted_square"
RequiredRules(id) == IF id = Param THEN "param_rules" ELSE "gosper_rules"

\* validate_pack: the declarations, then the rules, then the saved payload.
validate_pack(pack) ==
    << <<~pack.executableKey, "E_INPUT">>, <<pack.id \in {Gosper, Param}, "E_INPUT">>, <<~pack.promoted, "E_INPUT">>,
       <<pack.status \in {"candidate", "verified", "cross"}, "E_INPUT">>, <<~pack.kernelClaimed, "E_INPUT">>,
       <<pack.checker = "current", "E_INPUT">>, <<pack.rules = RequiredRules(pack.id), "E_INPUT">>,
       <<pack.id = Param => pack.saved # <<>> /\ \E j \in DOMAIN pack.saved : pack.saved[j] # UZero, "E_INPUT">> >>
require_executable(pack) == << <<pack.status \in {"verified", "cross"}, "E_INPUT">> >>

-----------------------------------------------------------------------------
(* shifted_square.py                                                       *)

Square == UPoly(<<Whole(0), Whole(0), Whole(1)>>)

\* instance_summand_terms: (k + c)^2.
instance_summand_terms(c) == UPoly(<<QMul(c, c), QMul(Whole(2), c), Whole(1)>>)

\* derive_parametric_antidifference
derive_parametric_antidifference ==
    <<monomial_antidifference(2), UScale(Whole(2), monomial_antidifference(1)), monomial_antidifference(0)>>

\* The coefficients of (k + c)^2 that the general identity compares.
GeneralSummand == <<Square, UPoly(<<Whole(0), Whole(2)>>), UPoly(<<Whole(1)>>)>>

instantiate_univariate(saved, c) == USum([j \in DOMAIN saved |-> UScale(QPow(c, j - 1), saved[j])])

\* match_shifted_square: half the linear coefficient, if its square is the constant.
Matches(p) == UDegree(p) = 2 /\ p[2] = Whole(1) /\ p[0] = QMul(QDiv(p[1], Whole(2)), QDiv(p[1], Whole(2)))
match_shifted_square(source) ==
    parse_summand(source) \o << <<source.kind = "polynomial" => Matches(source.terms), "E_UNSUPPORTED">> >>
Implied(source) == QDiv(source.terms[1], Whole(2))

\* parse_rational_parameter; a denominator of zero raises past its handlers.
parse_rational_parameter(c) == << <<c.kind \notin {"float", "boolean"}, "E_DOMAIN">>, <<c.kind # "zero_denominator", "ZeroDivisionError">> >>

-----------------------------------------------------------------------------
(* shifted_square_apply.py                                                 *)

\* _parse_task of the shifted squares.
parse_param_task(task) ==
    << <<~task.unknownField, "E_INPUT">>, <<task.supplied.kind = "none", "E_INPUT">>, <<task.variable # "", "E_INPUT">>,
       <<task.variable # "c", "E_DOMAIN">> >>
    \o bounds(task.lower, task.upper)
    \o << <<task.summand.kind # "none" \/ task.c.kind # "none", "E_INPUT">>, <<task.summand.kind # "blank", "E_INPUT">> >>
    \o (IF task.summand.kind = "none" THEN <<>> ELSE match_shifted_square(task.summand))
    \o (IF task.c.kind = "none" THEN <<>> ELSE parse_rational_parameter(task.c))
    \o << <<task.summand.kind = "polynomial" /\ task.c.kind = "rational" => Implied(task.summand) = task.c.value, "E_DOMAIN">>,
          <<task.premise = "none", "E_INPUT">> >>
ParameterOf(task) == IF task.c.kind = "rational" THEN task.c.value ELSE Implied(task.summand)

\* A mutant of GeneralStatus: the identity is not checked for every c.
GeneralStatusSkipped(saved, run) == "checked"

\* The identity as polynomials in k and c.
GeneralStatus(saved, run) ==
    IF ~run.answers THEN "unknown"
    ELSE IF \A j \in 1..3 : UAdd(Shifted(saved[j]), UScale(Whole(-1), saved[j])) = GeneralSummand[j] THEN "checked" ELSE "falsified"

\* The instance of the saved G, whose own identity is checked again.
ApplyInstance(g, p, task, run) ==
    LET instance == IdentityStatus(g, p, run.answersAgain)
    IN IF instance = "checked" THEN Combined(g, p, task.lower, task.upper, task.compare) ELSE [status |-> instance]
apply_shifted_square_pack(task, pack, run) ==
    LET failure == FirstFailure(parse_param_task(task))
        general == GeneralStatus(pack.saved, run)
        c == ParameterOf(task)
    IN IF failure # "ok" THEN Refused(failure)
       ELSE IF general # "checked" THEN [status |-> general]
       ELSE ApplyInstance(instantiate_univariate(pack.saved, c), instance_summand_terms(c), task, run)

-----------------------------------------------------------------------------
(* apply.py                                                                *)

\* _parse_task and _conditional_premises of the Gosper pack, which knows no parameterC.
parse_task(task) ==
    << <<~task.unknownField /\ task.c.kind = "none", "E_INPUT">>, <<task.summand.kind # "none", "E_INPUT">>, <<task.variable # "", "E_INPUT">>,
       <<task.summand.kind # "blank", "E_INPUT">>, <<task.premise \in {"none", "conditional"}, "E_INPUT">> >>

\* Whether a task is the one its pack was extracted from.
InputsMatch(task, pack) ==
    IF pack.id = Param
    THEN ParameterOf(task) = Whole(1) /\ task.lower = 0 /\ task.upper = 4 /\ task.variable = "k"
    ELSE task.summand.terms = Square /\ task.lower = 1 /\ task.upper = 10

is_extraction_task(task, pack) == task.taskId = pack.extractionTaskId \/ InputsMatch(task, pack)

\* _adoption_record
adoption_record(task, pack, outcome) ==
    [used |-> outcome.status = "ok",
     lifecycleEvidence |-> IF outcome.status = "ok" /\ ~is_extraction_task(task, pack) THEN "cross" ELSE pack.status,
     notReused |-> task.taskId # "" /\ ~is_extraction_task(task, pack)]

Adopted(task, pack, outcome) ==
    IF outcome.status = "error" THEN outcome
    ELSE [status |-> outcome.status, value |-> IF outcome.status = "ok" THEN outcome.result ELSE Whole(0),
          adoption |-> adoption_record(task, pack, outcome),
          premises |-> IF task.premise = "none" THEN "none" ELSE "conditional"]

\* apply_method_pack: the version that is asked for, the Gosper pack's by default,
\* means the pack of shifted squares' own there.
apply_method_pack(task, pack, version, run) ==
    LET loading == validate_pack(pack) \o require_executable(pack) \o << <<(version = "none" /\ pack.id = Gosper) \/ pack.version = "current", "E_INPUT">> >>
        parsing == IF pack.id = Gosper THEN parse_task(task) ELSE <<>>
        failure == FirstFailure(loading \o parsing)
    IN IF failure # "ok" THEN Refused(failure)
       ELSE Adopted(task, pack, IF pack.id = Param THEN apply_shifted_square_pack(task, pack, run) ELSE run_polynomial_finite_sum(task, run))

-----------------------------------------------------------------------------
(* run.py: the command and the files it leaves.                            *)

\* The optional outputs of an application, in the order they are written.
OutputOrder == <<"coverage", "receipt", "chain", "adoption", "result">>

\* _write_new_json refuses a path that exists; state.error stops what follows.
\* record_coverage itself may refuse the Gosper pack's result.
write_new_json(state, path, value, possible) ==
    IF state.error \/ path = "none" THEN state
    ELSE IF ~possible \/ path \in DOMAIN state.files THEN [state EXCEPT !.error = TRUE]
    ELSE [state EXCEPT !.files = (path :> value) @@ @]

\* main after parsing: what it wrote and its exit code.  A failure is answered by its
\* own payload and coverage; a payload that cannot be written ends the process, with 1.
main(outcome, asked, recordable, files) ==
    LET opened == [error |-> outcome.status = "error", files |-> files]
        wrote == FoldSeq(LAMBDA label, state : write_new_json(state, asked[label], <<label, outcome.status>>, label = "coverage" => recordable),
                         opened, OutputOrder)
        covered == IF asked["coverage"] \in DOMAIN wrote.files THEN wrote.files
                   ELSE write_new_json([wrote EXCEPT !.error = FALSE], asked["coverage"], <<"coverage", "error">>, TRUE).files
        answered == write_new_json([error |-> FALSE, files |-> covered], asked["result"], <<"result", "error">>, TRUE)
    IN IF wrote.error THEN [exit |-> IF answered.error THEN 1 ELSE 2, raised |-> answered.error, files |-> answered.files]
       ELSE [exit |-> CASE outcome.status = "ok" -> 0 [] outcome.status = "falsified" -> 1 [] OTHER -> 2, raised |-> FALSE, files |-> wrote.files]

-----------------------------------------------------------------------------
None == [kind |-> "none"]
Supplied == {None} \cup {s \in Sources : s.kind \in {"polynomial", "foreign"}}
Plain == [summand : Sources \cup {None}, c : Parameters \cup {None}, variable : {"k"}, lower : Bounds, upper : Bounds, supplied : {None},
                taskId : TaskIds, premise : {"none"}, unknownField : {FALSE}, compare : BOOLEAN]
Odd == [summand : Sources, c : {None} \cup {c \in Parameters : c.kind = "rational"}, variable : {"", "c", "j", "k"}, lower : {0, 1}, upper : {4},
              supplied : Supplied, taskId : {"new"}, premise : {"none", "conditional", "malformed", "verified"}, unknownField : BOOLEAN, compare : {TRUE}]
Runs == [constant : {Whole(0), Q(1, 2)}, answers : BOOLEAN, answersAgain : BOOLEAN]
Answering == [constant |-> Q(1, 2), answers |-> TRUE, answersAgain |-> TRUE]

ApplyCall == \E pack \in Packs :
                \/ FirstFailure(validate_pack(pack) \o require_executable(pack)) = "ok" /\ \E task \in Plain \cup Odd :
                      call' = [op |-> "apply", pack |-> pack, task |-> task, out |-> apply_method_pack(task, pack, "default", Answering)]
                \/ \E run \in Runs, summand \in Sources, version \in {"none", "default"} :
                      LET task == [summand |-> summand, c |-> None, variable |-> "k", lower |-> 1, upper |-> 4, supplied |-> None,
                                   taskId |-> "new", premise |-> "none", unknownField |-> FALSE, compare |-> FALSE]
                      IN call' = [op |-> "apply", pack |-> pack, task |-> task, out |-> apply_method_pack(task, pack, version, run)]

\* The command with its outputs at two paths, one of which may hold an earlier file.
Paths == {"none", "a", "b"}
CommandCall == \E status \in {"ok", "falsified", "unknown", "error"}, asked \in [Range(OutputOrder) -> Paths], recordable, earlier \in BOOLEAN :
                  LET files == IF earlier THEN "a" :> <<"earlier", "ok">> ELSE <<>>
                  IN call' = [op |-> "command", status |-> status, asked |-> asked, before |-> files,
                              out |-> main([status |-> status], asked, recordable, files)]
NextPack == ApplyCall \/ CommandCall

-----------------------------------------------------------------------------
SummandOf(task) == IF task.summand.kind = "none" THEN instance_summand_terms(task.c.value) ELSE task.summand.terms
Settled == call.op = "apply" /\ call.out.status = "ok"

\* Whatever antidifference was constructed, supplied or saved, an application that
\* answers gives the sum of the task's own summand; and the pack of shifted squares
\* answers only from a saved G that is right for every parameter, not just this one.
AppliedSumIsTrue ==
    Settled => /\ call.out.value = sympy_finite_sum(SummandOf(call.task), call.task.lower, call.task.upper)
               /\ call.pack.id = Param => \A c \in {Whole(-1), Whole(1), Whole(2), Whole(5)} :
                      IdentityStatus(instantiate_univariate(call.pack.saved, c), instance_summand_terms(c), TRUE) = "checked"

\* Replaying the task a pack was extracted from, under its name or by its inputs,
\* never counts as evidence of use across tasks, and a failed application neither.
EvidenceIsNew ==
    (call.op = "apply" /\ call.out.status # "error" /\ call.out.adoption.lifecycleEvidence = "cross" /\ call.pack.status # "cross") =>
            /\ call.out.status = "ok"
            /\ call.task.taskId # call.pack.extractionTaskId
            /\ call.pack.id = Gosper => <<SummandOf(call.task), call.task.lower, call.task.upper>> # <<Square, 1, 10>>
            /\ call.pack.id = Param /\ call.task.variable = "k" =>
                   <<SummandOf(call.task), call.task.lower, call.task.upper>> # <<instance_summand_terms(Whole(1)), 0, 4>>

\* An application that exits with 0 has written each output it was asked for, each at a
\* path of its own; no run changes a file that was there, and a refused one that could
\* answer at all leaves the coverage it was asked for, be it of the failure.
OutputsAreWhole ==
    call.op = "command" =>
        LET wanted == {label \in DOMAIN call.asked : call.asked[label] # "none"}
        IN /\ call.out.exit = 0 => \A label \in wanted : call.out.files[call.asked[label]] = <<label, "ok">>
           /\ \A path \in DOMAIN call.before : call.out.files[path] = call.before[path]
           /\ "coverage" \in wanted => call.asked["coverage"] \in DOMAIN call.out.files
           /\ call.status = "error" => \A path \in DOMAIN call.out.files \ DOMAIN call.before : call.out.files[path][2] = "error"
=============================================================================
