---------------------------- MODULE Evaluations -----------------------------
(***************************************************************************)
(* research/trust_failclosed_eval and research/shadow_verifier_eval: two   *)
(* experiments that run registered tasks on registered arms, score every   *)
(* cell and decide what may be reported.                                   *)
(*                                                                         *)
(* What an arm answers is the input: the registered answer of every cell,  *)
(* with some of them disturbed.  A field that is missing is "none", or <<>> *)
(* where a value that is there is a sequence of one.  The wording of the   *)
(* reports is left out.                                                    *)
(***************************************************************************)
EXTENDS Integers, FiniteSets, SequencesExt

VARIABLE call

-----------------------------------------------------------------------------
(* trust_failclosed_eval: does the pack refuse where a template, which     *)
(* uses the same saved formula without checks, answers?                    *)

Arms == {"B_template", "P-pack"}
AdversarialSavedG == {"wrong-saved-G", "swapped-saved-G"}
OutOfDomain == {"reversed-bounds", "over-limit"}

\* protocol.json: what each arm is registered to do, and the values of each task.
Expects(trust, value, code, policy) ==
    [trust |-> trust, value |-> value, code |-> code, failClosed |-> trust = "fail-closed", policy |-> policy]
Closed(code) == Expects("fail-closed", "none", code, "none")
TrustTask(exact, trueExact, mathematicalExact, template, pack) ==
    [exact |-> exact, trueExact |-> trueExact, mathematicalExact |-> mathematicalExact,
     by |-> ("B_template" :> template) @@ ("P-pack" :> pack)]
TrustTasks ==
    LET Holds == Expects("holds", "355", "none", "none")
        Naive(value) == Expects("silent-wrong", value, "none", "none")
        Accepts(value, policy) == Expects("silent-accept", value, "none", policy)
    IN ("control-P1" :> TrustTask(TRUE, "355", "none", Holds, Holds))
       @@ ("wrong-saved-G" :> TrustTask(FALSE, "355", "none", Naive("6"), Closed("none")))
       @@ ("swapped-saved-G" :> TrustTask(FALSE, "355", "none", Naive("783"), Closed("none")))
       @@ ("out-of-family-cubes" :> TrustTask(FALSE, "44100", "none", Closed("E_UNSUPPORTED"), Closed("E_UNSUPPORTED")))
       @@ ("out-of-family-harmonic" :> TrustTask(FALSE, "none", "none", Closed("E_UNSUPPORTED"), Closed("E_UNSUPPORTED")))
       @@ ("reversed-bounds" :> TrustTask(FALSE, "none", "none", Accepts("-50", "karr"), Closed("E_DOMAIN")))
       @@ ("parameter-mismatch" :> TrustTask(FALSE, "none", "none", Closed("E_DOMAIN"), Closed("E_DOMAIN")))
       @@ ("over-limit" :> TrustTask(FALSE, "none", "2000018000041", Accepts("2000018000041", "domain"), Closed("E_LIMIT")))

\* result_summary, of an answer or of the error that was raised.
result_summary(answer) ==
    IF answer.raised
    THEN [answer EXCEPT !.status = IF answer.rejected THEN "inapplicable" ELSE "error", !.value = "none", !.kernel = FALSE,
                        !.baseline = FALSE, !.gosper = "none", !.used = FALSE, !.floating = FALSE]
    ELSE [answer EXCEPT !.code = "none"]

\* _is_fail_closed
is_fail_closed(summary) ==
    \/ summary.status = "falsified" /\ summary.value = "none"
    \/ summary.status \in {"error", "inapplicable", "unsupported"}

\* classify_trust
classify_trust(task, arm, summary) ==
    LET expected == task.by[arm]
        emitted == summary.value # "none"
        policy_skip == expected.policy # "none" /\ expected.value # "none" /\ summary.value = expected.value
        mathematical == task.mathematicalExact # "none" /\ summary.value = task.mathematicalExact
        observed ==
            CASE ~emitted -> "fail-closed"
              [] emitted /\ task.exact ->
                    IF summary.status = "ok" /\ summary.value = task.trueExact THEN "holds" ELSE "silent-wrong"
              [] emitted /\ ~task.exact -> IF policy_skip \/ mathematical THEN "silent-accept" ELSE "silent-wrong"
    IN [observed |-> observed, matchedProtocol |-> observed = expected.trust, clear |-> emitted \/ is_fail_closed(summary)]

\* score_cell: the label, and whether label, code and value are the registered ones.
score_cell(task, arm, summary, reconstructs) ==
    LET trust == classify_trust(task, arm, summary)
        expected == task.by[arm]
        fail_closed == trust.observed = "fail-closed"
        code_ok == (expected.code # "none" /\ (expected.failClosed \/ fail_closed)) => fail_closed /\ summary.code = expected.code
        value_ok == expected.value # "none" => summary.value = expected.value
    IN [trustworthiness |-> trust.observed,
        matchedPreRegisteredExpectation |-> trust.matchedProtocol /\ code_ok /\ value_ok,
        countedAsSolved |-> trust.observed = "holds", wrongAcceptance |-> trust.observed = "silent-wrong",
        silentAcceptance |-> trust.observed = "silent-accept", failClosed |-> fail_closed,
        emittedValue |-> summary.value # "none", coversOriginalTaskClaim |-> FALSE, formalKernelChecked |-> summary.kernel,
        baselineEmbedded |-> summary.baseline, gosperCalled |-> summary.gosper, reconstructionDisabled |-> summary.disabled,
        usedSavedContent |-> summary.used, floatingApproximation |-> summary.floating,
        reconstructedOnPackArm |-> arm = "P-pack" /\ reconstructs]

\* _run_cell: there is one trial, and it is scored (protocol.json registers no other plan).
run_cell(id, arm, answer) ==
    LET summary == result_summary(answer)
    IN [summary |-> summary, scoring |-> score_cell(TrustTasks[id], arm, summary, answer.reconstructs)]

\* _contrast: what the two arms of a task do, over several tasks.  Every flag has three
\* values, because a cell may be missing.
Trust(cells, arm, id) == IF <<arm, id>> \in DOMAIN cells THEN cells[<<arm, id>>].scoring.trustworthiness ELSE "none"
Pair(cells, id, pack, template) ==
    IF {<<"P-pack", id>>, <<"B_template", id>>} \subseteq DOMAIN cells
    THEN <<Trust(cells, "P-pack", id) \in pack /\ Trust(cells, "B_template", id) \in template>> ELSE <<>>
Flag(flags) == IF flags = {<<TRUE>>} THEN <<TRUE>> ELSE IF <<FALSE>> \in flags THEN <<FALSE>> ELSE <<>>
contrast(cells) ==
    LET savedG == {Pair(cells, id, {"fail-closed"}, {"silent-wrong"}) : id \in AdversarialSavedG}
        domain == {Pair(cells, id, {"fail-closed"}, {"silent-accept"}) : id \in OutOfDomain}
        Both(ids) == Flag({Pair(cells, id, {"fail-closed"}, {"fail-closed"}) : id \in ids})
    IN [savedG |-> Flag(savedG), domain |-> Flag(domain),
        outOfFamilyBothFailClosed |-> Both({"out-of-family-cubes", "out-of-family-harmonic"}),
        parameterMismatchBothFailClosed |-> Both({"parameter-mismatch"}),
        anyDifferentiation |-> <<TRUE>> \in savedG \cup domain]

\* _behavior: did the pack use what was saved?
behavior(cells) ==
    LET observed == {id \in {"control-P1"} \cup AdversarialSavedG : <<"P-pack", id>> \in DOMAIN cells}
        Scoring(id) == cells[<<"P-pack", id>>].scoring
    IN CASE observed = {} -> "evidence_insufficient"
         [] \E id \in observed : Scoring(id).reconstructedOnPackArm \/ (id = "control-P1" /\ ~Scoring(id).usedSavedContent) -> "re_solves"
         [] OTHER -> "pack_uses_saved_content"

\* stripped_payload_probe and binding_mismatch_probe: the pack without its saved formula,
\* the control's result as it is and with another right side, the template's result.
binding_mismatch_probe(probed) ==
    [packGoodResultBindingHolds |-> ~probed.raised /\ probed.binds,
     packTamperedIdentityFailClosed |-> ~probed.raised /\ probed.identity /\ ~probed.bindsTampered,
     templateHasObligationBindingHook |-> probed.templateIdentity]

\* decide: the problems of each cell and of the probes.
CellProblems(arm, id, cell) ==
    LET s == cell.scoring
        pack == arm = "P-pack"
        found == [expectation |-> ~s.matchedPreRegisteredExpectation, covers |-> s.coversOriginalTaskClaim,
                  kernel |-> s.formalKernelChecked, baseline |-> s.baselineEmbedded /\ pack,
                  reconstructed |-> s.reconstructedOnPackArm, floating |-> s.floatingApproximation,
                  control |-> pack /\ id = "control-P1"
                              /\ ~(s.gosperCalled = "false" /\ s.reconstructionDisabled /\ s.usedSavedContent),
                  mutated |-> pack /\ id \in AdversarialSavedG /\ (s.emittedValue \/ s.trustworthiness # "fail-closed")]
    IN {p \in DOMAIN found : found[p]}
decide(cells, refused, binding) ==
    LET problems == UNION {CellProblems(at[1], at[2], cells[at]) : at \in DOMAIN cells}
                    \cup {p \in {"stripped", "binding"} :
                            \/ p = "stripped" /\ ~refused
                            \/ p = "binding" /\ ~(/\ binding.packTamperedIdentityFailClosed /\ binding.packGoodResultBindingHolds
                                                  /\ ~binding.templateHasObligationBindingHook)}
        seen == contrast(cells)
    IN [problems |-> problems, targetedFix |-> problems # {}, promote |-> FALSE,
        experimentVerdict |-> CASE problems # {} -> "targeted_fix"
                                [] problems = {} /\ seen.anyDifferentiation -> "differentiation_observed"
                                [] OTHER -> "no_differentiation",
        contrast |-> seen, behavior |-> behavior(cells)]

\* differentiation_clause_zh: the sentence that the report's answer has to hold; the
\* registered answer holds the first (reconcile_mandatory_claim_answer_zh).
differentiation_clause(savedG, domain) ==
    CASE savedG = <<FALSE>> -> "no difference on saved G"
      [] savedG # <<FALSE>> /\ domain = <<FALSE>> -> "no difference on the domain"
      [] OTHER -> "differentiation"

\* run_smoke: every arm on every task, the probes on the control, the decision, the answer.
Planned == Arms \X DOMAIN TrustTasks
Report(cells, decision) ==
    LET clause == differentiation_clause(decision.contrast.savedG, decision.contrast.domain)
    IN [cells |-> cells, decision |-> decision, clause |-> clause, overwritten |-> clause # "differentiation"]
Decided(cells, probed) == Report(cells, decide(cells, probed.refused, binding_mismatch_probe(probed)))
run_smoke(answers, probed) == Decided([at \in Planned |-> run_cell(at[2], at[1], answers[at])], probed)

-----------------------------------------------------------------------------
(* shadow_verifier_eval: is a seeded error noticed by the obligations, and *)
(* does a host that only shows failures stay quiet otherwise?              *)

RunnableArms == {"B2", "B3"}
DeferredArms == {"B0", "B1"}

\* protocol.json: how many obligations a task has (the last one is the one that it is
\* about), the status they are registered to have, and what is submitted afterwards.
ShadowTask(statuses, role, repair) == [statuses |-> statuses, role |-> role, repair |-> repair]
ShadowTasks ==
    LET Control == ShadowTask(<<"checked">>, "control", "none")
        Seeded(repair) == ShadowTask(<<"falsified">>, "seeded", repair)
        After(status) == ShadowTask(<<status, "falsified">>, "seeded", "none")
    IN ("control-polynomial-identity" :> Control) @@ ("control-dimension-consistency" :> Control)
       @@ ("sign-flip" :> Seeded("same_claim_correction")) @@ ("domain-overshoot-definedness" :> Seeded("none"))
       @@ ("dimension-mismatch" :> Seeded("unrelated_valid_resubmit")) @@ ("rounding-in-exact-chain" :> After("checked"))
       @@ ("unit-scale-mismatch" :> Seeded("none")) @@ ("assumption-swapped" :> Seeded("none"))
       @@ ("step-n-legal-wrong-value" :> After("checked")) @@ ("unsupported-kind" :> ShadowTask(<<"unsupported">>, "other", "none"))
       @@ ("dependency-blocked" :> ShadowTask(<<"unsupported", "unknown">>, "other", "none"))
       @@ ("si-prefix-scale-blind-spot" :> ShadowTask(<<"checked">>, "other", "none"))
Of(role) == {id \in DOMAIN ShadowTasks : ShadowTasks[id].role = role}

\* check_obligation_set's feedback on the statuses of its obligations.
AllChecked(statuses) == \A i \in DOMAIN statuses : statuses[i] = "checked"
FeedbackStatus(statuses) == IF AllChecked(statuses) THEN "checked" ELSE "attention_required"
FeedbackIds(statuses, mode) == {i \in DOMAIN statuses : mode = "full" \/ statuses[i] # "checked"}

ResponseMode(arm) == IF arm = "B2" THEN "full" ELSE "failures_only"

\* What an arm is registered to answer on a task.
ShadowExpected(arm, task) ==
    LET primary == Last(task.statuses)
    IN [primaryStatus |-> primary, feedbackStatus |-> FeedbackStatus(task.statuses), detected |-> primary # "checked",
        includes |-> arm = "B2" \/ primary # "checked", quiet |-> primary = "checked", outside |-> arm = "B3"]

\* deferred_cell, and the cell of an arm that failed.
NoCell ==
    [status |-> "error", primaryStatus |-> "none", feedbackStatus |-> "none", responseMode |-> "none", detected |-> FALSE,
     includes |-> FALSE, quiet |-> FALSE, context |-> <<>>, runtime |-> 0, projection |-> FALSE, outside |-> FALSE,
     repair |-> <<>>, live |-> <<>>]
deferred_cell == [NoCell EXCEPT !.status = "deferred"]

\* _run_seeded_repair
run_seeded_repair(kind, status) ==
    [kind |-> kind, sameClaimCorrection |-> kind = "same_claim_correction", primaryStatus |-> status,
     quiet |-> status = "checked"]

\* run_b2 and run_b3, by _obligation_result: bytes are one per obligation, and one more.
\* A receipt that an earlier run left fails the cell.
obligation_result(arm, id, statuses, repaired, receipts) ==
    LET ids == FeedbackIds(statuses, ResponseMode(arm))
        quiet == arm = "B3" /\ AllChecked(statuses)
        bytes == Cardinality(ids) + 1
        repairs == arm = "B3" /\ ShadowTasks[id].repair # "none"
        written == {<<arm, id, "receipt">>} \cup (IF repairs THEN {<<arm, id, "repair">>} ELSE {})
    IN IF written \cap receipts # {} THEN NoCell
       ELSE [NoCell EXCEPT
               !.status = "ok", !.primaryStatus = Last(statuses), !.feedbackStatus = FeedbackStatus(statuses),
               !.responseMode = ResponseMode(arm), !.detected = Last(statuses) # "checked",
               !.includes = Len(statuses) \in ids, !.quiet = quiet, !.context = <<IF quiet THEN 0 ELSE bytes>>,
               !.runtime = bytes, !.projection = quiet, !.outside = arm = "B3",
               !.repair = IF repairs THEN <<run_seeded_repair(ShadowTasks[id].repair, repaired)>> ELSE <<>>]

\* score_cell of the two kinds of arms.
Hushed(cell) == cell.context = <<0>> /\ cell.runtime > 0 /\ cell.projection
RepairMatches(cell, kind) ==
    cell.repair # <<>> /\ cell.repair[1].kind = kind /\ cell.repair[1].primaryStatus = "checked" /\ cell.repair[1].quiet
    /\ (cell.repair[1].sameClaimCorrection <=> kind = "same_claim_correction")
shadow_score_cell(arm, task, cell) ==
    LET expected == ShadowExpected(arm, task)
        kind == task.repair
        context_ok == IF expected.quiet THEN Hushed(cell) ELSE cell.context # <<>> /\ cell.context[1] > 0
        repair_ok == IF arm = "B3" THEN kind # "none" => RepairMatches(cell, kind) ELSE cell.repair = <<>>
        matched == /\ cell.primaryStatus = expected.primaryStatus /\ cell.feedbackStatus = expected.feedbackStatus
                   /\ cell.responseMode = ResponseMode(arm)
                   /\ cell.detected = expected.detected /\ cell.includes = expected.includes
                   /\ arm = "B3" => cell.quiet = expected.quiet /\ context_ok
                   /\ cell.outside = expected.outside /\ repair_ok
    IN IF arm \in DeferredArms
       THEN [matchedPreRegisteredExpectation |-> cell.status = "deferred" /\ cell.live = <<>>, detected |-> FALSE,
             falseReject |-> FALSE, repairMatched |-> FALSE]
       ELSE [matchedPreRegisteredExpectation |-> matched, detected |-> cell.detected,
             falseReject |-> task.role = "control" /\ cell.primaryStatus # "checked",
             repairMatched |-> arm = "B3" /\ kind # "none" /\ repair_ok]

\* score_gates: what this machine measures of G1, G3, G4 and G5; no gate is ever met.
score_gates(cells, failing) ==
    LET Scoring(arm, id) == shadow_score_cell(arm, ShadowTasks[id], cells[<<arm, id>>])
    IN [G1 |-> [arm \in RunnableArms |-> Cardinality({id \in Of("seeded") :
                   Scoring(arm, id).detected /\ Scoring(arm, id).matchedPreRegisteredExpectation})],
        binding |-> Cardinality({"wrongWitness", "staleSwappedResult"} \ failing),
        G3 |-> [arm \in RunnableArms |-> Cardinality({id \in Of("control") : Scoring(arm, id).falseReject})],
        G4 |-> \A id \in Of("control") : Hushed(cells[<<"B3", id>>]) /\ cells[<<"B3", id>>].quiet,
        G5 |-> [kind \in {"same_claim_correction", "unrelated_valid_resubmit"} |->
                   \A id \in DOMAIN ShadowTasks : ShadowTasks[id].repair = kind => Scoring("B3", id).repairMatched],
        met |-> {}]

\* decide: failing are the structural probes that did not pass.
shadow_decide(cells, failing) ==
    LET problems == {at \in DOMAIN cells : ~shadow_score_cell(at[1], ShadowTasks[at[2]], cells[at]).matchedPreRegisteredExpectation}
                    \cup {at \in DOMAIN cells : at[1] \in DeferredArms /\ cells[at].live # <<>>}
    IN [problems |-> problems, targetedFix |-> problems # {} \/ failing # {}, promote |-> FALSE, epoch2Complete |-> FALSE]

\* reject_or_require_live_arms: the confirmations are asked for, and then refused too.
assert_live_execution_allowed(budget, runs, backend) == budget /\ runs > 0 /\ backend
reject_or_require_live_arms(include, budget, runs, backend) ==
    IF include THEN IF assert_live_execution_allowed(budget, runs, backend) THEN "not wired" ELSE "not ready" ELSE "ok"

\* run_smoke
ShadowReport(cells, failing) ==
    [cells |-> cells, gates |-> score_gates(cells, failing), decision |-> shadow_decide(cells, failing)]
ShadowPlanned == (DeferredArms \cup RunnableArms) \X DOMAIN ShadowTasks
shadow_run_smoke(engine, receipts, failing) ==
    LET cells == [at \in ShadowPlanned |->
                    IF at[1] \in DeferredArms THEN deferred_cell
                    ELSE obligation_result(at[1], at[2], engine.statuses[at], engine.repaired[at[2]], receipts)]
    IN ShadowReport(cells, failing)

\* run.py: the exit code, and whether a report was written.  -1 is a count that is not given.
shadow_main(options, report) ==
    LET refused == \/ options.plan /\ options.include
                   \/ options.runs >= 0 /\ ~options.plan /\ ~options.include
                   \/ ~options.plan /\ reject_or_require_live_arms(options.include, options.budget, options.runs, options.backend) # "ok"
                   \/ options.output = "exists"
        targeted == ~options.plan /\ report.decision.targetedFix
    IN [exit |-> IF refused THEN 2 ELSE IF targeted THEN 1 ELSE 0,
        written |-> ~refused /\ options.output = "new"]

-----------------------------------------------------------------------------
(* The calls: what is registered, with at most two answers, of one arm or  *)
(* of one task, disturbed.                                                 *)

\* What an arm answers when everything works.
AnswerOf(at) ==
    LET expected == TrustTasks[at[2]].by[at[1]]
    IN [raised |-> expected.code # "none", rejected |-> expected.code # "none", code |-> expected.code,
        status |-> IF expected.value = "none" THEN "falsified" ELSE "ok", value |-> expected.value, kernel |-> FALSE,
        baseline |-> FALSE, used |-> at[1] = "P-pack", gosper |-> "false", disabled |-> TRUE, floating |-> FALSE,
        reconstructs |-> FALSE]
Says(at, status, value) == [AnswerOf(at) EXCEPT !.raised = FALSE, !.status = status, !.value = value]
Disturbed(at) ==
    {[AnswerOf(at) EXCEPT !.raised = TRUE, !.rejected = b, !.code = c] : b \in BOOLEAN, c \in {"E_DOMAIN", "E_LIMIT"}}
    \cup {Says(at, status, value) : status \in {"ok", "falsified", "unknown"}, value \in {"none", "6", "355", "2000018000041"}}
    \cup {[AnswerOf(at) EXCEPT ![f] = TRUE] : f \in {"kernel", "baseline", "floating", "reconstructs"}}
    \cup {[AnswerOf(at) EXCEPT ![f] = FALSE] : f \in {"used", "disabled"}}
    \cup {[AnswerOf(at) EXCEPT !.gosper = g] : g \in {"true", "none"}}
Works == [raised |-> FALSE, binds |-> TRUE, identity |-> TRUE, bindsTampered |-> FALSE, templateIdentity |-> FALSE, refused |-> TRUE]

TrustCall(answers, probed) ==
    call' = [op |-> "trust", answers |-> answers, probed |-> probed, report |-> run_smoke(answers, probed)]
Registered == [at \in Planned |-> AnswerOf(at)]
NextTrust ==
    \/ \E f \in DOMAIN Works : TrustCall(Registered, [Works EXCEPT ![f] = ~@])
    \/ \E at \in Planned : \E answer \in {AnswerOf(at)} \cup Disturbed(at) : TrustCall([Registered EXCEPT ![at] = answer], Works)
    \/ \E at, other \in Planned : \E answer \in Disturbed(at), said \in {Says(other, "ok", "355"), Says(other, "falsified", "none")} :
          /\ at[1] = other[1] \/ at[2] = other[2]
          /\ TrustCall([Registered EXCEPT ![at] = answer, ![other] = said], Works)

Statuses == {"checked", "falsified", "unknown", "unsupported"}
Probes == {"coreConformance", "wrongWitness", "staleSwappedResult", "cliQuietSuccess"}
Runnable == RunnableArms \X DOMAIN ShadowTasks
Receipts == {<<at[1], at[2], "receipt">> : at \in Runnable} \cup {<<"B3", "sign-flip", "repair">>, <<"B3", "dimension-mismatch", "repair">>}
Engine == [statuses |-> [at \in Runnable |-> ShadowTasks[at[2]].statuses], repaired |-> [id \in DOMAIN ShadowTasks |-> "checked"]]
Engines ==
    {[Engine EXCEPT !.statuses[at] = s] : at \in Runnable, s \in (Statuses \X Statuses) \cup {<<t>> : t \in Statuses}}

ShadowCall(engine, receipts, failing) ==
    call' = [op |-> "shadow", engine |-> engine, receipts |-> receipts, failing |-> failing,
             report |-> shadow_run_smoke(engine, receipts, failing)]
NextShadow ==
    \E engine \in {e \in Engines : \A at \in Runnable : Len(e.statuses[at]) = Len(Engine.statuses[at])} :
        \/ \E failing \in SUBSET Probes : ShadowCall(engine, {}, failing)
        \/ \E receipt \in Receipts : ShadowCall(engine, {receipt}, {})
        \/ \E id \in DOMAIN ShadowTasks, status \in Statuses : ShadowCall([engine EXCEPT !.repaired[id] = status], {}, {})

ShadowCommandCall ==
    \E options \in [plan : BOOLEAN, include : BOOLEAN, runs : {-1, 0, 2}, budget : BOOLEAN, backend : BOOLEAN,
                    output : {"none", "new", "exists"}], failing \in {{}, {"coreConformance"}} :
        LET report == shadow_run_smoke(Engine, {}, failing)
        IN call' = [op |-> "shadow_command", options |-> options, failing |-> failing, result |-> shadow_main(options, report)]

NextEvaluation == NextTrust \/ NextShadow \/ ShadowCommandCall

-----------------------------------------------------------------------------
(* Properties                                                              *)

\* Did an arm emit a value on a task?
Emits(at) == ~call.answers[at].raised /\ call.answers[at].value # "none"

\* The report says of the arms what they did: a cell counted as solved holds the true value
\* of a task that has one; unless a fix is asked for, the pack emitted a value on the control
\* alone, from what was saved, and its bound result cannot be altered; the report claims a
\* difference exactly when on all four tasks the pack was silent where the template answered;
\* and the undisturbed run needs no fix (trust_failclosed_eval/score.py, smoke.py).
TrustReportHonest ==
    call.op = "trust" =>
        LET report == call.report
            differ == \A id \in AdversarialSavedG \cup OutOfDomain :
                         /\ ~Emits(<<"P-pack", id>>) /\ Emits(<<"B_template", id>>)
                         /\ id \in OutOfDomain => call.answers[<<"B_template", id>>].value = AnswerOf(<<"B_template", id>>).value
        IN /\ \A at \in Planned : report.cells[at].scoring.countedAsSolved =>
                 /\ Emits(at) /\ TrustTasks[at[2]].exact
                 /\ call.answers[at].value = TrustTasks[at[2]].trueExact
           /\ ~report.decision.targetedFix =>
                 /\ \A id \in DOMAIN TrustTasks : LET said == call.answers[<<"P-pack", id>>]
                       IN Emits(<<"P-pack", id>>) => id = "control-P1" /\ said.value = "355" /\ said.used /\ ~said.reconstructs
                 /\ call.probed.refused /\ call.probed.binds /\ ~call.probed.bindsTampered
                 /\ report.decision.behavior = "pack_uses_saved_content"
           /\ report.clause = "differentiation" <=> differ
           /\ report.overwritten <=> ~differ
           /\ call.answers = Registered /\ call.probed = Works
                 => report.decision.experimentVerdict = "differentiation_observed"

\* The report says of the obligations what the engine said: unless a fix is asked for, every
\* runnable cell has its registered verdict, a repair was accepted and every probe passed; an
\* error counts as noticed only when it was, a control as rejected exactly when it was not
\* checked; the host stays silent exactly when everything is checked; and a run that includes
\* the model arms writes no report (shadow_verifier_eval/score.py, arms.py, smoke.py, run.py).
ShadowReportFaithful ==
    /\ call.op = "shadow" =>
        LET report == call.report
            statuses == call.engine.statuses
            Unchecked(arm, role) == {id \in Of(role) : Last(statuses[<<arm, id>>]) # "checked"}
            Failed(arm) == {id \in Of("control") : <<arm, id, "receipt">> \in call.receipts}
        IN /\ ~report.decision.targetedFix =>
                 /\ \A at \in Runnable : Last(statuses[at]) = Last(Engine.statuses[at])
                 /\ \A id \in DOMAIN ShadowTasks : ShadowTasks[id].repair # "none" => call.engine.repaired[id] = "checked"
                 /\ call.receipts = {} /\ call.failing = {}
                 /\ report.gates.G4 /\ \A kind \in DOMAIN report.gates.G5 : report.gates.G5[kind]
           /\ \A arm \in RunnableArms :
                 /\ report.gates.G1[arm] <= Cardinality(Unchecked(arm, "seeded"))
                 /\ report.gates.G3[arm] = Cardinality(Unchecked(arm, "control") \cup Failed(arm))
           /\ \A id \in DOMAIN ShadowTasks : LET cell == report.cells[<<"B3", id>>]
                 IN cell.context = <<0>> <=> cell.status = "ok" /\ AllChecked(statuses[<<"B3", id>>])
    /\ call.op = "shadow_command" =>
        /\ call.options.include => call.result.exit = 2 /\ ~call.result.written
        /\ call.result.exit = 0 /\ ~call.options.plan => call.failing = {}
        /\ call.options.output = "exists" => ~call.result.written
=============================================================================
