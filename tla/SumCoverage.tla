---------------------------- MODULE SumCoverage -----------------------------
(***************************************************************************)
(* research/polynomial_finite_sum_proposal: coverage.py, the record of     *)
(* what a run really established about a finite sum; run.py, the command   *)
(* that leaves it beside the result; mutations.py, the catalog of          *)
(* alterations that the record has to detect.                              *)
(*                                                                         *)
(* A result is a document: any of its fields may be missing, stale or      *)
(* rewritten.  A field that may be missing is a sequence of at most one    *)
(* value, and "none" is a missing string.  A text has a form, by which     *)
(* texts are compared, and the terms that the checker's parser finds in    *)
(* it.  The claim G(k+1) - G(k) = p(k) in a variable is the triple         *)
(* <<G, p, variable>>, and so is its digest.  Wording is left out.         *)
(***************************************************************************)
EXTENDS FiniteSums

CONSTANTS
    Summands,       \* texts of a summand
    Spans,          \* pairs of bounds
    Wrong           \* a rational that a field is rewritten to

VARIABLE call

Absent == <<>>
OrElse(option, other) == IF option # Absent THEN option ELSE other

\* A text that names another symbol is outside the language of a variable.
InVariable(text, variable) ==
    IF text.kind = "polynomial" /\ UDegree(text.terms) > 0 /\ text.in # variable
    THEN [text EXCEPT !.kind = "foreign"] ELSE text
Parsing(text, variable) == parse_summand(InVariable(text, variable))

\* polynomial_source
Canonical(terms, variable) ==
    [kind |-> "polynomial", form |-> <<"canonical", terms>>, in |-> variable, terms |-> terms]

\* _same_summand: the same text, or the same polynomial.
same_summand(left, right, variable) ==
    \/ left.form = right.form
    \/ /\ \A text \in {left, right} : FirstFailure(Parsing(text, variable)) = "ok"
       /\ left.terms = right.terms

-----------------------------------------------------------------------------
(* The task, and what the result says of it.                               *)

TaskFields == {"summand", "variable", "lower", "upper"}
Observed(result, f) == OrElse(result[f], result.params[f])

\* _task_view refuses a result that contradicts its task.
Conflicts(task, result) ==
    LET hint == OrElse(OrElse(task.variable, Observed(result, "variable")), <<"k">>)[1]
    IN \E f \in TaskFields :
          /\ task[f] # Absent /\ Observed(result, f) # Absent
          /\ IF f = "summand" THEN ~same_summand(task[f][1], Observed(result, f)[1], hint)
             ELSE task[f] # Observed(result, f)

\* Otherwise the task's fields win and the result's fill the gaps; the premises are
\* the result's, if it lists any at all.
task_view(task, result) ==
    LET Merged(f) == OrElse(task[f], Observed(result, f))
    IN [summand |-> Merged("summand"), variable |-> OrElse(Merged("variable"), <<"k">>),
        lower |-> Merged("lower"), upper |-> Merged("upper"),
        premises |-> OrElse(OrElse(result.premises, task.premises), <<{}>>)]

\* _infer_source
infer_source(result) ==
    CASE result.kind = "application" -> "method-pack-apply"
      [] result.kind = "runner" -> "polynomial-finite-sum-runner"
      [] result.kind = "baseline" -> "sympy-summation-baseline"
      [] result.kind = "none" -> "unknown"
      [] OTHER -> result.kind

\* _error_code
error_code(result, error) == IF error # Absent THEN error[1].code ELSE result.code

\* _status: of the error that was raised, else the result's own.
status_of(result, error) ==
    CASE error # Absent /\ error[1].rejected -> "inapplicable"
      [] error # Absent /\ ~error[1].rejected ->
            IF error[1].code \in {"E_UNSUPPORTED", "E_DOMAIN"} THEN "unsupported" ELSE "error"
      [] error = Absent /\ result.status = "none" -> "unknown"
      [] error = Absent /\ result.status = "error" ->
            IF \/ error_code(result, error) = "E_UNSUPPORTED"
               \/ error_code(result, error) = "E_DOMAIN" /\ result.reversed
            THEN "unsupported" ELSE "error"
      [] OTHER -> result.status

\* interpret_outcome
InputErrors == {"E_UNSUPPORTED", "E_DOMAIN", "E_LIMIT", "E_INPUT", "E_AST_BLOCK", "E_NAME", "E_SYNTAX"}
interpret_outcome(status, code) ==
    LET unsupported == status \in {"unsupported", "inapplicable", "error"} /\ code \in InputErrors
        outside == status # "falsified" /\ (unsupported \/ status \in {"unsupported", "inapplicable"})
    IN [status |-> IF outside /\ code = "E_UNSUPPORTED" THEN "unsupported" ELSE status,
        propositionFalsified |-> status = "falsified", isCounterexample |-> FALSE,
        unsupportedTreatedAsCounterexample |-> FALSE]

\* _outcome_record
outcome_record(status, error) == interpret_outcome(status, IF error # Absent THEN error[1].code ELSE "none")

-----------------------------------------------------------------------------
(* The steps of the workflow, and which of them ran.                       *)

\* _generated_obligations: those of the receipt, else the compact identity.
generated_obligations(result) ==
    IF result.receipt # <<>>
    THEN [i \in DOMAIN result.receipt |-> [status |-> result.receipt[i].status, claimDigest |-> result.receipt[i].claimDigest]]
    ELSE [i \in DOMAIN result.identity |-> [status |-> result.identity[i].status, claimDigest |-> result.identity[i].claimDigest]]

\* _identity_status_from_generated and _all_obligations_checked.
identity_status(generated) == IF generated # <<>> THEN generated[1].status ELSE "none"
all_obligations_checked(generated) == generated # <<>> /\ \A i \in DOMAIN generated : generated[i].status = "checked"

\* WORKFLOW_STEPS: each step and what covers it.
WorkflowSteps ==
    << <<"claim", "uncovered">>, <<"parse", "fixed-python-rule">>, <<"bounds", "fixed-python-rule">>,
       <<"construct", "untrusted-construction">>, <<"identity", "obligation">>, <<"endpoints", "fixed-python-rule">>,
       <<"combination", "hand-provided-infrastructure">>, <<"binding", "domain-python-binding">>,
       <<"binomial", "uncovered-conditional-premise">>, <<"kernel", "uncovered">>, <<"universal", "uncovered">> >>
StepIds == {step[1] : step \in Range(WorkflowSteps)}
StaticCoverage(id) == (CHOOSE step \in Range(WorkflowSteps) : step[1] = id)[2]

bounds_ok(view) ==
    /\ view.lower # Absent /\ view.upper # Absent
    /\ NotANumber \notin {view.lower[1], view.upper[1]} /\ view.upper[1] >= view.lower[1] - 1

\* _instantiate_steps
instantiate_steps(view, result, generated, status, error) ==
    LET parsed == status \in {"ok", "falsified"}
        domain_failed == status \in {"unsupported", "inapplicable", "error"}
        combination_ran == result.status = "ok" /\ identity_status(generated) = "checked" /\ bounds_ok(view)
        Executed(id) ==
            CASE id = "parse" -> parsed \/ (domain_failed /\ error_code(result, error) = "E_UNSUPPORTED")
              [] id = "bounds" -> bounds_ok(view) /\ parsed
              [] id = "construct" -> result.g # Absent
              [] id = "identity" -> generated # <<>>
              [] id = "endpoints" -> result.endpoints # Absent /\ status = "ok"
              [] id = "combination" -> combination_ran
              [] id = "binding" -> combination_ran /\ result.value # Absent
              [] OTHER -> FALSE
        Status(id) ==
            CASE id = "parse" -> IF parsed THEN "ok" ELSE status
              [] id = "bounds" -> IF bounds_ok(view) /\ parsed THEN "ok" ELSE status
              [] id = "identity" -> identity_status(generated)
              [] id = "binomial" -> IF "binomial" \in view.premises[1] THEN "conditional" ELSE "not_applicable"
              [] id \in {"claim", "kernel", "universal"} -> "uncovered"
              [] OTHER -> "none"
    IN [id \in StepIds |-> [coverage |-> StaticCoverage(id), executed |-> Executed(id), status |-> Status(id),
                            agentExtracted |-> FALSE, formalKernelChecked |-> FALSE]]

\* _procedure_established
procedure_established(status, generated, steps, result) ==
    /\ status = "ok" /\ identity_status(generated) = "checked"
    /\ steps["bounds"].executed /\ steps["combination"].executed
    /\ ~steps["kernel"].formalKernelChecked
    /\ result.value # Absent

-----------------------------------------------------------------------------
(* The binding of the value to the current proposition.                    *)

\* _require_compact_left_names_current_g
require_compact_left_names_current_g(left, g) ==
    << <<left.kind \in {"absent", "blank"} \/ (left.kind = "difference" /\ left.g = g.terms), "E_RUNTIME">> >>

\* _require_right_matches_original_summand
require_right_matches_original_summand(right, summand, rebuilt, variable) ==
    IF right = Absent THEN <<>>
    ELSE << <<right[1].kind # "blank", "E_INPUT">>, <<same_summand(summand, right[1], variable), "E_INPUT">>,
            <<same_summand(rebuilt, right[1], variable), "E_INPUT">> >>

\* One entry of the receipt, against the digest of the current proposition.
ReceiptEntry(entry, digest) ==
    << <<entry.claimDigest = <<digest>>, "E_RUNTIME">>, <<entry.status = "checked", "E_INPUT">>,
       <<entry.certified, "E_RUNTIME">> >>

\* _require_current_proposition_independently_checked: the claim is rebuilt from the
\* current G and the task's summand, checked, and bound to what the result stores.
current_proposition(result, g, summand, variable) ==
    LET digest == <<g.terms, summand.terms, variable>>
        identity == result.identity
        OfIdentity(Checks(_)) == IF identity = Absent THEN <<>> ELSE Checks(identity[1])
    IN Parsing(g, variable) \o Parsing(summand, variable)
       \o OfIdentity(LAMBDA i : require_compact_left_names_current_g(i.left, g))
       \o << <<IdentityStatus(g.terms, summand.terms, TRUE) = "checked", "E_RUNTIME">> >>
       \o OfIdentity(LAMBDA i : require_right_matches_original_summand(i.right, summand, Canonical(summand.terms, variable), variable))
       \o OfIdentity(LAMBDA i : << <<i.claimDigest \in {Absent, <<digest>>}, "E_RUNTIME">> >>)
       \o FlattenSeq([n \in DOMAIN result.receipt |-> ReceiptEntry(result.receipt[n], digest)])

\* A stored rational, in the one canonical form, that should be this value.
Payload(value) == [canonical |-> TRUE, value |-> value]
SameRational(payload, value) == << <<payload.canonical, "E_INPUT">>, <<payload.value = value, "E_RUNTIME">> >>
IfStored(option, value) == IF option = Absent THEN <<>> ELSE SameRational(option[1], value)

\* The value that is recorded, and every copy of it and of the ends.
Copies(result, ends) ==
    LET value == Difference(ends)
        endpoints == result.endpoints
        chain == OrElse(result.chain, <<<<>>>>)[1]
    IN (IF result.value = Absent THEN << <<FALSE, "E_INPUT">> >> ELSE SameRational(result.value[1], value))
       \o (IF endpoints = Absent THEN <<>>
           ELSE IfStored(endpoints[1].gAtUpperPlusOne, ends.upper.value) \o IfStored(endpoints[1].gAtLower, ends.lower.value))
       \o (IF result.downstream = Absent THEN <<>> ELSE IfStored(result.downstream[1], value))
       \o FlattenSeq([i \in DOMAIN chain |-> IF chain[i].combines THEN IfStored(chain[i].entered, value) ELSE <<>>])

\* verify_typed_binding, of the view of the task.
FirstFailureOf(code, rest) == IF code # "ok" THEN code ELSE FirstFailure(rest)
BoundValue(result, view, ends) ==
    current_proposition(result, result.g[1], view.summand[1], view.variable[1])
    \o << <<Fit(ends), "E_LIMIT">> >> \o Copies(result, ends)
TypedBinding(result, conflict, view) ==
    LET stated == IF result.identity # Absent THEN result.identity[1].status ELSE "none"
        identityStatus == IF stated = "none" /\ result.receipt # <<>> THEN result.receipt[1].status ELSE stated
        shape == << <<~conflict, "E_INPUT">>,
                    <<result.status = "ok" /\ identityStatus = "checked", "E_INPUT">>,
                    <<result.g # Absent, "E_INPUT">>, <<bounds_ok(view), "E_DOMAIN">>,
                    <<view.summand # Absent /\ view.summand[1].kind # "blank", "E_INPUT">> >>
    IN FirstFailureOf(FirstFailure(shape),
                      BoundValue(result, view, Telescoped(result.g[1].terms, view.lower[1], view.upper[1])))
verify_typed_binding(result, task) == TypedBinding(result, Conflicts(task, result), task_view(task, result))

\* _typed_binding: the digest that binds the claim, and where the value went.
typed_binding(result, established) ==
    LET ofIdentity == IF result.identity # Absent THEN result.identity[1].claimDigest ELSE Absent
        ofReceipt == IF result.receipt # <<>> THEN result.receipt[1].claimDigest ELSE Absent
        chain == OrElse(result.chain, <<<<>>>>)[1]
        combined == SelectSeq(chain, LAMBDA step : step.combines)
    IN [status |-> IF established THEN "bound" ELSE "not_bound",
        claimDigest |-> OrElse(ofIdentity, ofReceipt),
        currentGBoundToCheckedIdentity |-> established,
        outputs |-> IF ~established THEN <<>>
                    ELSE <<result.value>> \o result.downstream \o [i \in DOMAIN combined |-> combined[i].entered]]

-----------------------------------------------------------------------------
(* The record.                                                             *)

\* _pack_info: what the result says of its method, then what the pack says of itself.
pack_info(result, pack) ==
    LET method == result.method
    IN IF method = Absent /\ pack = Absent THEN Absent
       ELSE << [id |-> IF method # Absent THEN method[1].id ELSE pack[1].id,
                version |-> IF method # Absent THEN method[1].version ELSE pack[1].version,
                novelty |-> IF method # Absent THEN method[1].novelty ELSE pack[1].novelty,
                statusAtApplication |-> IF method # Absent THEN method[1].status ELSE "none",
                status |-> IF pack # Absent THEN pack[1].status ELSE "none"] >>

\* project_surface_feedback: the value for who asked to compute, the failures alone for
\* the check in the background, the method for the index.
project_surface_feedback(result, error, pack) ==
    LET status == status_of(result, error)
        failures == SelectSeq([i \in DOMAIN result.receipt |-> result.receipt[i].status], LAMBDA s : s # "checked")
        all_checked == result.summary # Absent /\ result.summary[1].checked = result.summary[1].total
        identified == result.identity # Absent /\ result.identity[1].status = "checked"
        info == pack_info(result, pack)
    IN [compute |-> IF status = "ok" THEN result.value ELSE Absent,
        background |-> IF status = "ok" /\ (all_checked \/ identified) THEN "checked" ELSE "attention_required",
        obligations |-> CASE failures # <<>> -> [i \in DOMAIN failures |-> <<failures[i], "none">>]
                          [] failures = <<>> /\ status \in {"ok", "checked"} -> <<>>
                          [] OTHER -> << <<status, error_code(result, error)>> >>,
        methods |-> [i \in DOMAIN info |->
                       [id |-> info[i].id, version |-> info[i].version, novelty |-> info[i].novelty,
                        status |-> IF info[i].statusAtApplication # "none" THEN info[i].statusAtApplication ELSE info[i].status]]]

\* _honesty_flags
honesty_flags ==
    [obligationSuccessIsNotClaimCoverage |-> TRUE, hashBindsContentNotAuthorshipOrTruth |-> TRUE, formalKernelChecked |-> FALSE,
     telescopingIsHandProvidedInfrastructure |-> TRUE, instancesAreNotUniversalProof |-> TRUE, unsupportedIsNotACounterexample |-> TRUE,
     structureValidationIsNotMathematicalCorrectness |-> TRUE, packJsonIsNotAnInterpreter |-> TRUE]

\* A check that another one makes: its own error, if any.
Outcome(code) == <<code = "ok", code>>

\* verify_coverage_honesty, of a record with the result it is read with or without.
\* _step raises for a step that is missing.
verify_coverage_honesty(coverage, result) ==
    LET Requires(P) == <<P, "E_INPUT">>
        Steps(ids) == Requires(ids \subseteq DOMAIN coverage.steps)
        Step(id, P(_)) == Requires(id \in DOMAIN coverage.steps => P(coverage.steps[id]))
        honesty == coverage.honesty
        rebound == IF result # Absent /\ result[1].status = "ok" THEN verify_typed_binding(result[1], coverage.taskClaim) ELSE "ok"
    IN << Requires(coverage.kind = "coverage"),
          Requires(~honesty.formalKernelChecked /\ ~coverage.evidenceScope.formalKernelChecked),
          Requires(result # Absent => ~result[1].kernel),
          Requires(~coverage.claimCoverage.coversOriginalTaskClaim),
          Requires(honesty.obligationSuccessIsNotClaimCoverage),
          Requires(honesty.hashBindsContentNotAuthorshipOrTruth),
          Requires(honesty.telescopingIsHandProvidedInfrastructure),
          Requires(~coverage.outcome.unsupportedTreatedAsCounterexample),
          Requires(coverage.outcome.status \in {"unsupported", "inapplicable"} => ~coverage.outcome.propositionFalsified) >>
       \o (IF ~coverage.claimCoverage.established THEN <<>>
           ELSE << Requires(coverage.evidenceScope.identityStatus = "checked"),
                   Requires(coverage.generatedObligations # <<>>),
                   Steps({"bounds", "combination"}),
                   Step("bounds", LAMBDA s : s.executed), Step("combination", LAMBDA s : s.executed),
                   Steps({"kernel"}), Step("kernel", LAMBDA s : s.coverage = "uncovered" /\ ~s.formalKernelChecked),
                   Requires(coverage.typedBinding.status = "bound"),
                   Requires(coverage.typedBinding.currentGBoundToCheckedIdentity),
                   Outcome(rebound) >>)
       \o << Steps({"claim"}), Step("claim", LAMBDA s : s.coverage = "uncovered"),
             Steps({"binomial"}), Step("binomial", LAMBDA s : s.coverage \in {"uncovered-conditional-premise", "uncovered"}),
             Steps({"combination"}), Step("combination", LAMBDA s : ~s.agentExtracted),
             Step("combination", LAMBDA s : s.coverage = "hand-provided-infrastructure") >>

\* The record of what was observed.
RecordWith(view, result, status, generated, steps, error, pack) ==
    LET established == procedure_established(status, generated, steps, result)
        stated == IF result.identity # Absent THEN result.identity[1].status ELSE "none"
    IN [kind |-> "coverage", source |-> infer_source(result), taskClaim |-> view,
        generatedObligations |-> generated, steps |-> steps, typedBinding |-> typed_binding(result, established),
        claimCoverage |-> [allSubmittedObligationsChecked |-> all_obligations_checked(generated),
                           coversOriginalTaskClaim |-> FALSE, established |-> established],
        evidenceScope |-> [identityStatus |-> IF stated # "none" THEN stated ELSE identity_status(generated),
                           formalKernelChecked |-> FALSE],
        feedback |-> project_surface_feedback(result, error, pack), outcome |-> outcome_record(status, error),
        honesty |-> honesty_flags, methodPack |-> pack_info(result, pack)]
RecordOf(task, result, error, pack) ==
    LET view == task_view(task, result)
        status == status_of(result, error)
        generated == generated_obligations(result)
    IN RecordWith(view, result, status, generated, instantiate_steps(view, result, generated, status, error), error, pack)

\* record_coverage: the view, the binding if the value is to be established, the kernel
\* flags, then the record's own honesty, in this order.
Recorded(task, result, pack, record) ==
    LET conflict == Conflicts(task, result)
        binding == IF ~conflict /\ record.claimCoverage.established THEN verify_typed_binding(result, record.taskClaim) ELSE "ok"
        first == << <<~conflict, "E_INPUT">>, Outcome(binding), <<~result.kernel, "E_INPUT">>,
                    <<pack # Absent => ~pack[1].kernel, "E_INPUT">> >>
    IN Handled(first \o (IF conflict THEN <<>> ELSE verify_coverage_honesty(record, <<result>>)), record)
record_coverage(task, result, error, pack) == Recorded(task, result, pack, RecordOf(task, result, error, pack))

NoTask == [summand |-> Absent, variable |-> Absent, lower |-> Absent, upper |-> Absent, premises |-> Absent]
NoResult ==
    [kind |-> "none", status |-> "none", code |-> "none", reversed |-> FALSE, kernel |-> FALSE, premises |-> Absent,
     summand |-> Absent, variable |-> Absent, lower |-> Absent, upper |-> Absent, params |-> NoTask,
     g |-> Absent, value |-> Absent, endpoints |-> Absent, downstream |-> Absent, chain |-> Absent,
     identity |-> Absent, receipt |-> <<>>, summary |-> Absent, method |-> Absent]

\* coverage_from_failure: a result with nothing but the error.
FailurePayload(error) ==
    [NoResult EXCEPT !.status = IF error.calculator /\ error.rejected THEN "inapplicable" ELSE "error",
                     !.code = IF error.code = "none" THEN "E_RUNTIME" ELSE error.code]
coverage_from_failure(task, error, pack) == record_coverage(task, FailurePayload(error), <<error>>, pack)

\* certificate_binds_claim: a certificate that is consistent in itself binds the claim
\* that it states and no other.  verify_polynomial_identity_certificate recomputes the
\* difference of the two sides.
SidesDifference(claim) == UAdd(Shifted(claim[1]), UScale(Whole(-1), UAdd(claim[1], claim[2])))
BindingReason(consistent, statement, claim) ==
    CASE ~consistent -> "certificate_internally_inconsistent"
      [] consistent /\ claim = Absent -> "claim_is_not_a_polynomial_statement"
      [] consistent /\ claim # Absent /\ statement # claim[1] -> "certificate_statement_does_not_match_claim"
      [] OTHER -> "statement_and_internal_digests_match"
certificate_binds_claim(certificate, claim) ==
    LET consistent == certificate.sealed /\ certificate.difference = SidesDifference(certificate.statement)
        reason == BindingReason(consistent, certificate.statement, claim)
    IN [binds |-> reason = "statement_and_internal_digests_match", reason |-> reason,
        establishesFiniteSum |-> FALSE, appliesCombinationRule |-> FALSE, bindsAuthorship |-> FALSE]

-----------------------------------------------------------------------------
(* Result documents, and the command that writes them.                     *)

\* run_polynomial_finite_sum, once the input is parsed: the document of a sum whose
\* identity is checked, or of an antidifference that is none.
Document(summand, variable, lower, upper, g, identity, ends) ==
    LET claim == <<g, summand.terms, variable>>
        checked == identity = "checked"
        IfChecked(value) == IF checked THEN <<value>> ELSE Absent
    IN [NoResult EXCEPT
          !.kind = "runner", !.status = IF checked THEN "ok" ELSE identity,
          !.summand = <<summand>>, !.variable = <<variable>>, !.lower = <<lower>>, !.upper = <<upper>>,
          !.g = <<Canonical(g, variable)>>,
          !.identity = <<[status |-> identity, left |-> [kind |-> "difference", g |-> g],
                          right |-> <<Canonical(summand.terms, variable)>>, claimDigest |-> IfChecked(claim)]>>,
          !.receipt = <<[status |-> identity, claimDigest |-> <<claim>>, certified |-> checked]>>,
          !.summary = <<[checked |-> IF checked THEN 1 ELSE 0, total |-> 1]>>,
          !.endpoints = IfChecked([gAtUpperPlusOne |-> <<Payload(ends.upper.value)>>, gAtLower |-> <<Payload(ends.lower.value)>>]),
          !.value = IfChecked(Payload(Difference(ends)))]
RunResult(summand, variable, lower, upper, g) ==
    Document(summand, variable, lower, upper, g, IdentityStatus(g, summand.terms, TRUE), Telescoped(g, lower, upper))

\* An error that the run raised, as the command sees it.
Failure(code) == [code |-> code, rejected |-> FALSE, calculator |-> TRUE]

\* run_from_task, or the baseline alone: the document, or the failure.
TextOf(task) == InVariable(task.summand[1], OrElse(task.variable, <<"k">>)[1])
Antidifference(text) == construct_antidifference(text.terms, Whole(0))
RunChecks(task) ==
    LET g == Antidifference(task.summand[1])
    IN bounds(task.lower[1], task.upper[1]) \o parse_summand(TextOf(task))
       \o << <<UDegree(g) <= MaxDegree, "E_LIMIT">>, <<Fit(Telescoped(g, task.lower[1], task.upper[1])), "E_LIMIT">> >>
run_from_task(task) ==
    RunResult(task.summand[1], OrElse(task.variable, <<"k">>)[1], task.lower[1], task.upper[1], Antidifference(task.summand[1]))

\* The baseline sums a text of another language to a rational of its own, or does not.
BaselineChecks(task, sums) ==
    require_integer(task.lower[1]) \o require_integer(task.upper[1])
    \o << <<TextOf(task).kind = "polynomial" \/ (TextOf(task).kind = "foreign" /\ sums), "E_UNSUPPORTED">> >>
BaselineResult(task) ==
    LET sum == IF TextOf(task).kind = "foreign" THEN Wrong
               ELSE sympy_finite_sum(task.summand[1].terms, task.lower[1], task.upper[1])
    IN [NoResult EXCEPT !.kind = "baseline", !.status = "ok", !.summand = task.summand, !.variable = task.variable,
                        !.lower = task.lower, !.upper = task.upper, !.value = <<Payload(sum)>>]

\* apply_method_pack's document of a run: the task under params, the copies of the
\* value, the compact identity, and the receipt only if it is asked for.
Packed(backend, include_backend_receipt) ==
    LET other == [combines |-> FALSE, entered |-> Absent]
        combine == [combines |-> TRUE, entered |-> backend.value]
        ok == backend.status = "ok"
    IN [NoResult EXCEPT
          !.kind = "application", !.status = backend.status, !.premises = <<{}>>,
          !.params = [NoTask EXCEPT !.summand = backend.summand, !.variable = backend.variable,
                                    !.lower = backend.lower, !.upper = backend.upper],
          !.method = <<[id |-> "gosper", version |-> "v0", novelty |-> "none", status |-> "verified"]>>,
          !.g = backend.g, !.value = backend.value, !.identity = backend.identity,
          !.downstream = IF ok THEN <<backend.value>> ELSE Absent,
          !.chain = <<IF ok THEN <<other, combine>> ELSE <<other>>>>,
          !.receipt = IF include_backend_receipt THEN backend.receipt ELSE <<>>,
          !.summary = IF include_backend_receipt THEN backend.summary ELSE Absent]

\* _write_new_json: no path, or one that exists and is refused.
write_new_json(state, path, value) ==
    CASE state.failed \/ path = "none" -> state
      [] ~state.failed /\ path \in DOMAIN state.files -> [state EXCEPT !.failed = TRUE]
      [] OTHER -> [state EXCEPT !.files = (path :> value) @@ @]

\* main: the receipt, the coverage and the result are written in turn.  What fails is
\* answered with its own coverage and payload; an answer that cannot be written either
\* ends the process with 1.
Written(state, asked, label, possible, status) ==
    write_new_json(IF asked[label] # "none" /\ ~possible THEN [state EXCEPT !.failed = TRUE] ELSE state,
                   asked[label], <<label, status>>)
ErrorAnswered(written, asked) ==
    Written(Written([written EXCEPT !.failed = FALSE], asked, "coverage", TRUE, "error"), asked, "result", TRUE, "error")
Exit(status, written, answered) ==
    IF written.failed THEN [exit |-> IF answered.failed THEN 1 ELSE 2, files |-> answered.files]
    ELSE [exit |-> CASE status = "ok" -> 0 [] status = "falsified" -> 1 [] OTHER -> 2, files |-> written.files]
Ended(status, written, asked) == Exit(status, written, ErrorAnswered(written, asked))
Outputs(task, result, failed, asked, files) ==
    LET received == Written([failed |-> failed, files |-> files], asked, "receipt", result.receipt # <<>>, result.status)
        covered == Written(received, asked, "coverage",
                           record_coverage(task, result, Absent, Absent).status = "ok", result.status)
    IN Ended(result.status, Written(covered, asked, "result", TRUE, result.status), asked)
main(task, baselineOnly, sums, asked, files) ==
    LET failed == FirstFailure(IF baselineOnly THEN BaselineChecks(task, sums) ELSE RunChecks(task)) # "ok"
        result == IF failed THEN NoResult ELSE IF baselineOnly THEN BaselineResult(task) ELSE run_from_task(task)
    IN Outputs(task, result, failed, asked, files)

-----------------------------------------------------------------------------
(* mutations.py: each alteration of a run on a task, and whether it is     *)
(* detected.  other is the summand of a second run.                        *)

TaskOf(summand, variable, lower, upper) ==
    [NoTask EXCEPT !.summand = <<summand>>, !.variable = <<variable>>, !.lower = <<lower>>, !.upper = <<upper>>]
identity_claim(result) == <<result.g[1].terms, result.summand[1].terms, result.variable[1]>>
identity_certificate(result) ==
    [statement |-> identity_claim(result), difference |-> SidesDifference(identity_claim(result)), sealed |-> TRUE]
Accepted(coverage) == coverage.status = "ok" /\ coverage.result.claimCoverage.established

\* What a mutation has to be answered with: by the record, by the binding of the value,
\* or in a document of its own.
Recording(task, result, error, verdict) ==
    [check |-> "record", task |-> task, result |-> result, error |-> error, verdict |-> verdict]
Binding(result, task, codes) == [check |-> "binding", result |-> result, task |-> task, codes |-> codes]
Fact(holds) == [check |-> "fact", holds |-> holds]
Verdict(coverage) ==
    CASE coverage.status # "ok" -> "refused"
      [] coverage.status = "ok" /\ coverage.result.claimCoverage.established -> "established"
      [] coverage.status = "ok" /\ coverage.result.outcome.propositionFalsified -> "falsified"
      [] OTHER -> IF coverage.result.generatedObligations = <<>> THEN "nothing" ELSE "unestablished"
Answers(asked) ==
    CASE asked.check = "record" -> Verdict(record_coverage(asked.task, asked.result, asked.error, Absent)) = asked.verdict
      [] asked.check = "binding" -> verify_typed_binding(asked.result, asked.task) \in asked.codes
      [] OTHER -> asked.holds

mutation_tampered_coefficients(run) ==
    LET tampered == [identity_certificate(run) EXCEPT !.difference = UPoly(<<Wrong>>)]
    IN << Fact(certificate_binds_claim(tampered, <<identity_claim(run)>>).reason = "certificate_internally_inconsistent") >>

\* A G that is off by k.
WrongG(task, result) ==
    << Fact(result.status = "falsified" /\ result.value = Absent), Recording(task, result, Absent, "falsified") >>
mutation_wrong_g(task) ==
    LET wrong == UAdd(Antidifference(task.summand[1]), UPoly(<<Whole(0), Whole(1)>>))
    IN WrongG(task, RunResult(task.summand[1], "k", task.lower[1], task.upper[1], wrong))

\* A run that refuses is recorded, and the refusal refutes nothing.
RefusedWith(task, code) ==
    << Fact(FirstFailure(RunChecks(task)) = code), Recording(task, FailurePayload(Failure(code)), <<Failure(code)>>, "nothing") >>

\* The bounds exchanged.
Reversed(task) == [task EXCEPT !.lower = task.upper, !.upper = task.lower]
mutation_reversed_bounds(task) == RefusedWith(Reversed(task), "E_DOMAIN")

\* The raw difference between exchanged bounds, beside an identity that is checked.
DeletedBound(task, forged) ==
    << Fact(forged.receipt[1].status = "checked" /\ forged.value[1].value # Whole(0)),
       Binding(forged, NoTask, {"E_INPUT", "E_DOMAIN", "E_RUNTIME", "E_LIMIT"}), Recording(task, forged, Absent, "unestablished") >>
mutation_deleted_bound_step(task) ==
    DeletedBound(Reversed(task), [run_from_task(Reversed(task)) EXCEPT !.endpoints = Absent])

mutation_wrong_variable(task, run) ==
    LET renamed == [identity_claim(run) EXCEPT ![3] = "n"]
    IN RefusedWith([task EXCEPT !.variable = <<"n">>], "E_UNSUPPORTED")
       \o << Fact(~certificate_binds_claim(identity_certificate(run), <<renamed>>).binds) >>

mutation_wrong_domain(task) ==
    LET outcome == interpret_outcome("unsupported", "E_UNSUPPORTED")
    IN RefusedWith([task EXCEPT !.summand[1].kind = "foreign"], "E_UNSUPPORTED")
       \o << Fact(~outcome.propositionFalsified /\ ~outcome.isCounterexample) >>

\* A certificate binds the claim that it states, and that is all.
BindsOnly(binding) ==
    binding.binds /\ ~binding.establishesFiniteSum /\ ~binding.appliesCombinationRule /\ ~binding.bindsAuthorship
OwnBinding(run) == certificate_binds_claim(identity_certificate(run), <<identity_claim(run)>>)
mutation_foreign_certificate(run, second) ==
    LET foreign == certificate_binds_claim(identity_certificate(run), <<identity_claim(second)>>)
    IN << Fact(foreign.reason = "certificate_statement_does_not_match_claim"), Fact(~foreign.establishesFiniteSum),
          Fact(BindsOnly(OwnBinding(run))) >>

mutation_forged_kernel_checked(task, run) ==
    << Fact(~run.kernel), Recording(task, [run EXCEPT !.kernel = TRUE], Absent, "refused") >>

mutation_rewritten_result(run, task, second) ==
    LET tampered == [Packed(second, FALSE) EXCEPT !.chain[1][2].entered = <<Payload(Wrong)>>]
    IN << Binding([run EXCEPT !.value = <<Payload(Wrong)>>], NoTask, {"E_RUNTIME"}), Binding(tampered, task, {"E_RUNTIME"}) >>

\* G, the value and the ends are rewritten together, to something consistent.
mutation_joint_g_and_value_rewrite(task, run) ==
    LET zero == <<Payload(Whole(0))>>
        tampered == [run EXCEPT !.g = <<Canonical(UZero, "k")>>, !.value = zero,
                                !.endpoints = <<[gAtUpperPlusOne |-> zero, gAtLower |-> zero]>>]
    IN << Binding(tampered, NoTask, {"E_RUNTIME"}), Recording(task, tampered, Absent, "refused"),
          Binding([run EXCEPT !.value = zero], NoTask, {"E_RUNTIME"}), Binding(run, NoTask, {"ok"}) >>

mutation_hash_binding_is_not_combination(run) ==
    << Fact(BindsOnly(OwnBinding(run))),
       Fact(run.identity[1].claimDigest # Absent) >>

\* run_mutation_catalog: which mutations of a run went unnoticed; second is the run on
\* another summand.
Undetected(mutations) == {id \in DOMAIN mutations : \E i \in DOMAIN mutations[id] : ~Answers(mutations[id][i])}
Unnoticed(task, run, other, second) ==
    Undetected([tampered_coefficients |-> mutation_tampered_coefficients(run), wrong_g |-> mutation_wrong_g(task),
                reversed_bounds |-> mutation_reversed_bounds(task), deleted_bound_step |-> mutation_deleted_bound_step(task),
                wrong_variable |-> mutation_wrong_variable(task, run), wrong_domain |-> mutation_wrong_domain(task),
                foreign_certificate |-> mutation_foreign_certificate(run, second),
                forged_kernel_checked |-> mutation_forged_kernel_checked(task, run),
                rewritten_result |-> mutation_rewritten_result(run, other, second),
                joint_g_and_value_rewrite |-> mutation_joint_g_and_value_rewrite(task, run),
                hash_binding_is_not_combination |-> mutation_hash_binding_is_not_combination(run)])
run_mutation_catalog(task, other) == [failed |-> Unnoticed(task, run_from_task(task), other, run_from_task(other))]

-----------------------------------------------------------------------------
(* The calls.                                                              *)

Polynomials == {s \in Summands : s.kind = "polynomial"}
Tasks(summand, lower, upper) ==
    {[NoTask EXCEPT !.lower = <<lower>>]} \cup {TaskOf(s, "k", lower, upper) : s \in Summands}

\* What a field of a result may have been rewritten to.
Rewrites(r, f) ==
    LET g == r.g[1].terms
        wrong == <<Payload(Wrong)>>
    IN CASE f = "status" -> {"falsified", "unknown", "error", "none"}
         [] f = "code" -> {"E_DOMAIN", "E_RUNTIME", "E_UNSUPPORTED"}
         [] f \in {"kernel", "reversed"} -> {TRUE}
         [] f = "summand" -> {Absent} \cup {<<s>> : s \in Summands}
         [] f = "variable" -> {Absent, <<"n">>}
         [] f \in {"lower", "upper"} -> {Absent, <<NotANumber>>, <<2>>}
         [] f = "params" -> {[r.params EXCEPT !.upper = <<2>>]} \cup {[r.params EXCEPT !.summand = <<s>>] : s \in Summands}
         [] f = "premises" -> {<<{"binomial"}>>}
         [] f = "g" -> {Absent} \cup {<<Canonical(h, "k")>> : h \in {UZero, UAdd(g, UPoly(<<Whole(1)>>)), UScale(Whole(2), g)}}
         [] f = "value" -> {Absent, wrong, <<Payload(Whole(0))>>, <<[r.value[1] EXCEPT !.canonical = FALSE]>>}
         [] f = "downstream" -> {Absent, <<wrong>>, <<Absent>>}
         [] f = "chain" -> {Absent, <<<<[combines |-> TRUE, entered |-> wrong]>>>>, <<<<[combines |-> FALSE, entered |-> wrong]>>>>}
         [] f = "endpoints" -> {Absent, <<[gAtUpperPlusOne |-> Absent, gAtLower |-> wrong]>>}
         [] f = "identity" -> {Absent} \cup {<<[r.identity[1] EXCEPT !.status = s]>> : s \in {"none", "falsified"}}
                              \cup {<<[r.identity[1] EXCEPT !.left = [kind |-> l], !.claimDigest = Absent]>> : l \in {"absent", "other"}}
         [] f = "summary" -> {Absent, <<[checked |-> 0, total |-> 1]>>}
         [] f = "receipt" /\ r.receipt = <<>> -> {<<[status |-> "checked", claimDigest |-> Absent, certified |-> TRUE]>>}
         [] f = "receipt" /\ r.receipt # <<>> ->
                             {<<>>, <<[r.receipt[1] EXCEPT !.status = "unknown"]>>, <<[r.receipt[1] EXCEPT !.certified = FALSE]>>,
                              <<r.receipt[1], [r.receipt[1] EXCEPT !.claimDigest = <<<<UZero, UZero, "k">>>>]>>}
         [] OTHER -> {}

\* A record of a result two of whose fields may be rewritten, one of them a field that
\* carries the argument.
RecordCall ==
    \E summand \in Polynomials, span \in Spans :
    \E run \in {run_from_task(TaskOf(summand, "k", span[1], span[2]))} :
    \E honest \in {run, Packed(run, TRUE), Packed(run, FALSE)} :
    \E f \in DOMAIN honest, h \in {"g", "value", "identity"} :
    \E x \in Rewrites(honest, f) \cup {honest[f]}, y \in Rewrites(honest, h) \cup {honest[h]} :
    \E task \in Tasks(summand, span[1], span[2]) :
       LET result == [honest EXCEPT ![f] = x, ![h] = y]
       IN call' = [op |-> "record", task |-> task, result |-> result, honest |-> result = honest,
                   out |-> record_coverage(task, result, Absent, Absent)]

FailureCall ==
    \E code \in {"E_UNSUPPORTED", "E_DOMAIN", "E_LIMIT", "none"}, rejected, calculator, kernel \in BOOLEAN, s \in Summands :
    \E pack \in {Absent, <<[kernel |-> kernel, id |-> "gosper", version |-> "v0", status |-> "verified", novelty |-> "none"]>>} :
       LET error == [code |-> code, rejected |-> rejected, calculator |-> calculator]
       IN call' = [op |-> "failure", error |-> error, out |-> coverage_from_failure(TaskOf(s, "k", 0, 1), error, pack)]

\* What a stored record may have been rewritten to.
RewrittenRecords(stored, tasks) ==
    {[stored EXCEPT !.claimCoverage.established = e] : e \in BOOLEAN}
    \cup {[stored EXCEPT !.taskClaim = c] : c \in tasks}
    \cup {[stored EXCEPT !.steps = [i \in StepIds \ {id} |-> stored.steps[i]]] : id \in StepIds}
    \cup {[stored EXCEPT !.steps[id].executed = ~@] : id \in StepIds}
    \cup {[stored EXCEPT !.steps[id].coverage = "obligation"] : id \in StepIds}
    \cup {[stored EXCEPT !.steps[id].formalKernelChecked = TRUE] : id \in {"kernel"}}
    \cup {[stored EXCEPT !.honesty[flag] = ~@] : flag \in DOMAIN stored.honesty}
    \cup {[stored EXCEPT !.claimCoverage.coversOriginalTaskClaim = TRUE], [stored EXCEPT !.evidenceScope.identityStatus = "unknown"],
          [stored EXCEPT !.typedBinding.status = "not_bound"], [stored EXCEPT !.generatedObligations = <<>>]}

\* A stored record is read again with its result, and either may be another by then.
HonestyCall ==
    \E summand \in Polynomials, span \in Spans :
    \E honest \in {run_from_task(TaskOf(summand, "k", span[1], span[2]))} :
    \E task \in Tasks(summand, span[1], span[2]), f \in {"g", "value", "status", "kernel", "receipt"} :
    \E result \in {[honest EXCEPT ![f] = x] : x \in Rewrites(honest, f) \cup {honest[f]}} :
    \E coverage \in RewrittenRecords(RecordOf(task, honest, Absent, Absent), Tasks(summand, span[1], span[2])) :
       call' = [op |-> "honesty", coverage |-> coverage, result |-> result,
                out |-> Handled(verify_coverage_honesty(coverage, <<result>>), coverage)]

\* The catalog on any polynomial and bounds in order, the second run on another.
CatalogCall ==
    \E summand, other \in Polynomials, span \in Spans :
       /\ summand.terms # other.terms /\ span[1] + 1 < span[2]
       /\ call' = [op |-> "catalog", out |-> run_mutation_catalog(TaskOf(summand, "k", span[1], span[2]),
                                                               TaskOf(other, "k", span[1], span[2]))]

\* The command, with outputs at two paths, one of which may hold an earlier file.
CommandCall ==
    \E s \in Summands, span \in Spans, earlier, baselineOnly, sums \in BOOLEAN :
    \E asked \in [{"receipt", "coverage", "result"} -> {"none", "a", "b"}] :
       LET files == IF earlier THEN "a" :> <<"earlier", "ok">> ELSE <<>>
           task == TaskOf(s, "k", span[1], span[2])
       IN call' = [op |-> "coverage_command", asked |-> asked, before |-> files,
                   out |-> main(task, baselineOnly, sums, asked, files)]
NextCoverage == RecordCall \/ FailureCall \/ HonestyCall \/ CatalogCall \/ CommandCall

-----------------------------------------------------------------------------
Established == call.op = "record" /\ Accepted(call.out)

\* The result's value is the sum of the view's own summand between its own bounds, and
\* every stored copy is that value.
ValueIsSum(view, result) ==
    LET sum == sympy_finite_sum(view.summand[1].terms, view.lower[1], view.upper[1])
    IN /\ view.summand[1].kind = "polynomial" /\ view.upper[1] >= view.lower[1] - 1
       /\ result.value = <<Payload(sum)>>
       /\ result.downstream \in {Absent, <<Absent>>, <<<<Payload(sum)>>>>}
       /\ result.chain # Absent =>
             \A step \in Range(result.chain[1]) : step.combines => step.entered \in {Absent, <<Payload(sum)>>}

\* Whatever fields of a result are missing or rewritten, together too, a record says a
\* sum is established only if it is true; so does a stored record that is read again,
\* of its own claim and the result as it is by then.  A failure is never recorded as a
\* refutation or a value (record_coverage, verify_coverage_honesty).
EstablishedSumIsTrue ==
    /\ Established => ValueIsSum(task_view(call.task, call.result), call.result)
    /\ (call.op = "honesty" /\ call.out.status = "ok" /\ call.coverage.claimCoverage.established /\ call.result.status = "ok") =>
          /\ ValueIsSum(task_view(call.coverage.taskClaim, call.result), call.result)
          /\ \A id \in {"bounds", "combination"} : call.coverage.steps[id].executed
    /\ (call.op = "record" /\ call.out.status = "ok" /\ call.out.result.outcome.propositionFalsified) => call.result.status = "falsified"
    /\ (call.op = "failure" /\ call.out.status = "ok") =>
          /\ ~Accepted(call.out) /\ ~call.out.result.outcome.propositionFalsified
          /\ call.out.result.feedback.compute = Absent /\ call.out.result.feedback.obligations # <<>>

\* The result of an undisturbed run is never refused by the record made from its own
\* task, in the text that the caller wrote, and is recorded as established.
UndisturbedIsEstablished ==
    (call.op = "record" /\ call.honest) =>
        LET view == task_view(call.task, call.result)
        IN (/\ view.summand = Observed(call.result, "summand") /\ bounds_ok(view)
            /\ Fit(Telescoped(call.result.g[1].terms, view.lower[1], view.upper[1]))) => Established

\* The catalog, written for the squares on 1..10, leaves no mutation unnoticed on other
\* polynomials and bounds either (run_mutation_catalog).
MutationsDetected == call.op = "catalog" => call.out.failed = {}

\* The command that exits with 0 has written every output it was asked for, each at a
\* path of its own; one that answers an error leaves the coverage of the error where a
\* coverage was asked for; no earlier file is changed (run.py).
SidecarsAreWhole ==
    call.op = "coverage_command" =>
        LET wanted == {label \in DOMAIN call.asked : call.asked[label] # "none"}
        IN /\ call.out.exit = 0 => \A label \in wanted : call.out.files[call.asked[label]] = <<label, "ok">>
           /\ call.out.exit = 2 => \A label \in wanted \ {"receipt"} : call.out.files[call.asked[label]] = <<label, "error">>
           /\ \A path \in DOMAIN call.before : call.out.files[path] = call.before[path]
=============================================================================
