----------------------------- MODULE Obligations -----------------------------
(***************************************************************************)
(* src/src/math_anchor/obligations.py: one bounded obligation set is       *)
(* validated, peeled into dependency layers, gated, run layer by layer     *)
(* against the registered providers, and sealed in a receipt; a replay     *)
(* runs it again and compares the receipts.                                *)
(*                                                                         *)
(* A claim is represented by whether it is true, false or outside the      *)
(* domain of its provider, which the code never reads.  A provider         *)
(* answers, rejects a claim outside its domain, or runs out of some        *)
(* resource.  The polynomial provider may even hand back a certificate of  *)
(* another statement: the independent checker stands between it and the    *)
(* receipt.  The other providers are trusted, as the code trusts them.  A  *)
(* digest stands for its content.  A batch that fails as a whole gives     *)
(* every obligation of the layer the same error, which is one of the       *)
(* outcomes counted here.                                                  *)
(***************************************************************************)
EXTENDS Integers, FiniteSets

CONSTANTS
    Ids,                 \* the ids of the obligations of the request
    Assignments,         \* the kinds they may have: functions from ids to kinds
    Versions,            \* of runtime and backends
    MaxReplays           \* bound on the number of replays

Registered == {"polynomial_identity", "expression_equivalence",
               "dimension_consistency", "local_almost_complex_integrability"}

ASSUME ObligationsAssumption ==
    /\ IsFiniteSet(Ids)
    /\ Assignments \subseteq [Ids -> Registered \cup {"unregistered"}]
    /\ Versions # {}
    /\ MaxReplays \in Nat

VARIABLES
    deps, kind, claim,   \* the request: dependsOn, kind and claim of each obligation
    well_formed,         \* it passes the checks that do not concern dependencies
    stage, pending, completed,
    runnable,            \* the obligations of this layer that need a provider
    entries,             \* entries_by_id
    late,                \* less than 100 ms of the cumulative deadline remain
    version,             \* the runtime this check runs on
    feedback, receipt,
    previous,            \* previous_receipt, of a replay
    replays

request == <<deps, kind, claim, well_formed>>
layering == <<pending, completed>>
vars == <<request, stage, layering, runnable, entries, late, version, feedback,
          receipt, previous, replays>>

Claims == {"true", "false", "outside"}
Statuses == {"checked", "falsified", "unknown", "unsupported"}
Entry(status, via, blocked_by) ==
    [status |-> status, via |-> via, blockedBy |-> blocked_by]
NoEntry == Entry("none", "none", {})
Entries == [status : Statuses \cup {"none"},
            via : {"none", "blocked", "unregistered", "deadline", "provider"},
            blockedBy : SUBSET Ids]
NoReceipt == [obligations |-> [o \in Ids |-> NoEntry], runtime |-> "none"]
NoFeedback == [status |-> "none", obligations |-> {}, detailOmitted |-> FALSE]
Final == {"rejected", "cyclic", "over_limit", "done"}

Init ==
    /\ deps \in [Ids -> SUBSET Ids]
    /\ kind \in Assignments
    /\ claim \in [Ids -> Claims]
    /\ well_formed \in BOOLEAN
    /\ stage = "request"
    /\ pending = Ids
    /\ completed = {}
    /\ runnable = {}
    /\ entries = [o \in Ids |-> NoEntry]
    /\ late = FALSE
    /\ version \in Versions
    /\ feedback = NoFeedback
    /\ receipt = NoReceipt
    /\ previous = NoReceipt
    /\ replays = 0

----------------------------------------------------------------------------
(* _validate_request() and _dependency_layers()                            *)

\* Shape, sizes, unique ids, known assumption sets, arguments, dependencies that
\* are ids of the request; and that none is the obligation itself.
Acceptable == well_formed /\ \A o \in Ids : o \notin deps[o]

Validate ==
    /\ stage = "request"
    /\ stage' = IF Acceptable THEN "validate" ELSE "rejected"
    /\ UNCHANGED <<request, layering, runnable, entries, late, version, feedback,
                   receipt, previous, replays>>

\* Mutant: one completed dependency is enough.
ReadyAfterOne(o) == deps[o] = {} \/ deps[o] \cap completed # {}

Ready(o) == deps[o] \subseteq completed

Layer == {o \in pending : Ready(o)}

\* Mutant: an empty layer goes unnoticed.
NoLayerNeeded == pending = {}

NoLayer == Layer = {}

\* One turn of the loop.
PeelLayer ==
    /\ pending # {}
    /\ ~NoLayer
    /\ pending' = pending \ Layer
    /\ completed' = completed \cup Layer

ValidateLayer ==
    /\ stage = "validate"
    /\ PeelLayer
    /\ UNCHANGED <<request, stage, runnable, entries, late, version, feedback, receipt,
                   previous, replays>>

ValidateCycle ==
    /\ stage = "validate"
    /\ pending # {}
    /\ NoLayer
    /\ stage' = "cyclic"
    /\ UNCHANGED <<request, layering, runnable, entries, late, version, feedback,
                   receipt, previous, replays>>

\* check_obligation_set() goes through the same layers again.
Validated ==
    /\ stage = "validate"
    /\ pending = {}
    /\ stage' = "layers"
    /\ pending' = Ids
    /\ completed' = {}
    /\ UNCHANGED <<request, runnable, entries, late, version, feedback, receipt,
                   previous, replays>>

----------------------------------------------------------------------------
(* What becomes of a provider's result                                     *)

\* What a certificate may be about: the claim, another identity, or polynomials
\* that differ.
Statements == {"claimed", "identity", "difference"}

\* What its statement is found to be when its coefficients are recomputed;
\* "outside" when the checker cannot parse it.
Recomputed(o, statement) ==
    CASE statement = "claimed" -> claim[o]
      [] statement = "identity" -> "true"
      [] statement = "difference" -> "false"

OkResults(o) ==
    CASE kind[o] = "polynomial_identity" ->
            [status : {"ok"}, statement : Statements, identity : BOOLEAN]
      [] kind[o] = "expression_equivalence" ->
            {r \in [status : {"ok"}, proven : BOOLEAN,
                    equivalence : {"equivalent", "not_equivalent", "unknown"}] :
                r.proven => /\ r.equivalence = "equivalent" => claim[o] = "true"
                            /\ r.equivalence = "not_equivalent" => claim[o] = "false"}
      [] kind[o] = "dimension_consistency" ->
            {r \in [status : {"ok"}, dimensionallyConsistent : BOOLEAN] :
                claim[o] = IF r.dimensionallyConsistent THEN "true" ELSE "false"}
      [] kind[o] = "local_almost_complex_integrability" ->
            {r \in [status : {"ok"}, square : BOOLEAN, nijenhuis : BOOLEAN] :
                claim[o] = IF r.square /\ r.nijenhuis THEN "true" ELSE "false"}
      [] OTHER -> {}

\* Codes of _UNSUPPORTED_PROVIDER_ERRORS concern the claim; all others do not.
ErrorResults(o) ==
    {r \in [status : {"error"}, unsupported : BOOLEAN] :
        r.unsupported => claim[o] = "outside"}

\* Mutant: every provider error counts as a verdict on the claim.
ErrorStatusAlways(r) == "unsupported"

ErrorStatus(r) == IF r.unsupported THEN "unsupported" ELSE "unknown"

\* Mutant: the certificate is not compared with the claim.
CertificateAcceptedForAny(o, r) ==
    Recomputed(o, r.statement) = IF r.identity THEN "true" ELSE "false"

\* verify_polynomial_identity_certificate recomputes the difference of the
\* certificate's own statement; the statement must then be the claimed one.
CertificateAccepted(o, r) ==
    /\ Recomputed(o, r.statement) = IF r.identity THEN "true" ELSE "false"
    /\ r.statement = "claimed"

PolynomialStatus(o, r) ==
    IF ~CertificateAccepted(o, r) THEN "unknown"
    ELSE IF r.identity THEN "checked" ELSE "falsified"

EquivalenceStatus(r) ==
    IF r.proven /\ r.equivalence = "equivalent" THEN "checked"
    ELSE IF r.proven /\ r.equivalence = "not_equivalent" THEN "falsified"
    ELSE "unknown"

DimensionStatus(r) == IF r.dimensionallyConsistent THEN "checked" ELSE "falsified"

GeometryStatus(r) == IF r.square /\ r.nijenhuis THEN "checked" ELSE "falsified"

MapProviderResult(o, r) ==
    IF r.status # "ok" THEN ErrorStatus(r)
    ELSE CASE kind[o] = "polynomial_identity" -> PolynomialStatus(o, r)
           [] kind[o] = "expression_equivalence" -> EquivalenceStatus(r)
           [] kind[o] = "dimension_consistency" -> DimensionStatus(r)
           [] OTHER -> GeometryStatus(r)

----------------------------------------------------------------------------
(* check_obligation_set()                                                  *)

IsChecked(o) == entries[o].status = "checked"

BlockedBy(o) == {d \in deps[o] : ~IsChecked(d)}

\* The entries that no provider is asked for.
BlockedEntry(o) == Entry("unknown", "blocked", BlockedBy(o))
UnsupportedEntry == Entry("unsupported", "unregistered", {})

\* Blocked and unregistered obligations are answered without a provider.
EnterLayer ==
    LET blocked == {o \in Layer : BlockedBy(o) # {}}
        foreign == {o \in Layer \ blocked : kind[o] \notin Registered}
    IN  /\ stage = "layers"
        /\ PeelLayer
        /\ entries' = [o \in Ids |->
              IF o \in blocked THEN BlockedEntry(o)
              ELSE IF o \in foreign THEN UnsupportedEntry
              ELSE entries[o]]
        /\ runnable' = Layer \ (blocked \cup foreign)
        /\ stage' = IF runnable' = {} THEN "layers" ELSE "run"
        /\ UNCHANGED <<request, late, version, feedback, receipt, previous, replays>>

\* What remains of the deadline only shrinks.
DeadlinePasses ==
    /\ stage \in {"layers", "run"}
    /\ ~late
    /\ late' = TRUE
    /\ UNCHANGED <<request, stage, layering, runnable, entries, version, feedback,
                   receipt, previous, replays>>

Answer(status) ==
    /\ entries' = [o \in Ids |->
          IF o \in runnable THEN Entry(status[o], IF late THEN "deadline" ELSE "provider", {})
          ELSE entries[o]]
    /\ runnable' = {}
    /\ stage' = "layers"
    /\ UNCHANGED <<request, layering, late, version, feedback, receipt, previous,
                   replays>>

RunTooLate ==
    /\ stage = "run"
    /\ late
    /\ Answer([o \in runnable |-> "unknown"])

RunProviders ==
    /\ stage = "run"
    /\ ~late
    /\ \E status \in [runnable -> Statuses] :
          /\ \A o \in runnable : \E r \in OkResults(o) \cup ErrorResults(o) :
                status[o] = MapProviderResult(o, r)
          /\ Answer(status)

----------------------------------------------------------------------------
(* Receipt and feedback                                                    *)

Checked == {o \in Ids : IsChecked(o)}

\* Mutant: only falsified obligations ask for attention.
NoneFalsified == \A o \in Ids : entries[o].status # "falsified"

AllChecked == Checked = Ids

Selected(response_mode) == IF response_mode = "full" THEN Ids ELSE Ids \ Checked

\* _fit_feedback(): details are dropped before the feedback is refused.
Assemble(response_mode, omitted) ==
    /\ stage = "layers"
    /\ pending = {}
    /\ receipt' = [obligations |-> entries, runtime |-> version]
    /\ feedback' = [status |-> IF AllChecked THEN "checked" ELSE "attention_required",
                    obligations |-> Selected(response_mode),
                    detailOmitted |-> omitted]
    /\ stage' = "done"
    /\ UNCHANGED <<request, layering, runnable, entries, late, version, previous,
                   replays>>

\* The receipt, or the feedback without its details, is too large.
AssembleRefused ==
    /\ stage = "layers"
    /\ pending = {}
    /\ stage' = "over_limit"
    /\ UNCHANGED <<request, layering, runnable, entries, late, version, feedback,
                   receipt, previous, replays>>

\* replay_obligation_set() with the receipt just written, later and perhaps on
\* another runtime; the request is validated again, with the same answer.
Replay ==
    /\ stage = "done"
    /\ replays < MaxReplays
    /\ replays' = replays + 1
    /\ previous' = receipt
    /\ receipt' = NoReceipt
    /\ feedback' = NoFeedback
    /\ version' \in Versions
    /\ stage' = "layers"
    /\ pending' = Ids
    /\ completed' = {}
    /\ entries' = [o \in Ids |-> NoEntry]
    /\ late' = FALSE
    /\ UNCHANGED <<request, runnable>>

\* An altered receipt, or one of another request, is refused before anything runs.
ReplayRefused ==
    /\ stage = "done"
    /\ stage' = "rejected"
    /\ UNCHANGED <<request, layering, runnable, entries, late, version, feedback,
                   receipt, previous, replays>>

ReplayStatus ==
    IF previous = receipt THEN "matched"
    ELSE IF previous.obligations = receipt.obligations THEN "runtime_drift"
    ELSE "outcome_drift"

Advance ==
    \/ Validate
    \/ ValidateLayer
    \/ ValidateCycle
    \/ Validated
    \/ EnterLayer
    \/ RunTooLate
    \/ RunProviders
    \/ \E response_mode \in {"failures_only", "full"}, omitted \in BOOLEAN :
          Assemble(response_mode, omitted)
    \/ AssembleRefused

Next == Advance \/ DeadlinePasses \/ Replay \/ ReplayRefused

Spec == Init /\ [][Next]_vars

\* The call runs on; a provider answers or is cut off by its own timeout.
FairSpec == Spec /\ WF_vars(Advance)

----------------------------------------------------------------------------
(* Properties                                                              *)

\* One type invariant.  Every obligation of a finished layer has its entry, which
\* the gate of the next layer and the receipt look up without asking.
TypeOK ==
    /\ deps \in [Ids -> SUBSET Ids]
    /\ kind \in Assignments
    /\ claim \in [Ids -> Claims]
    /\ stage \in {"request", "validate", "layers", "run"} \cup Final
    /\ pending \subseteq Ids
    /\ completed = Ids \ pending
    /\ runnable \subseteq completed
    /\ entries \in [Ids -> Entries]
    /\ stage \in {"layers", "run", "done"} =>
          \A o \in Ids : (entries[o] # NoEntry) <=> (o \in completed \ runnable)

\* A set of obligations each of which depends on another member: the graph has a
\* cycle exactly when there is one.
Knot(S) == S # {} /\ \A o \in S : deps[o] \cap S # {}

\* Peeling layers decides acyclicity: no request with a cycle gets past validation,
\* and none without one is refused as cyclic.
LayeringDecides ==
    /\ stage \in {"layers", "run", "done", "over_limit"} =>
          \A S \in SUBSET Ids : ~Knot(S)
    /\ stage = "cyclic" => \E S \in SUBSET Ids : Knot(S)

\* "An obligation runs only after all dependencies are checked", so the checked
\* obligations are closed under dependencies; and one is reported as blocked only
\* because of dependencies that really are not checked.
Gated ==
    \A o \in Ids :
        /\ entries[o].via = "provider" => \A d \in deps[o] : IsChecked(d)
        /\ entries[o].via = "blocked" =>
              /\ entries[o].blockedBy # {}
              /\ \A d \in entries[o].blockedBy : d \in deps[o] /\ ~IsChecked(d)
        /\ IsChecked(o) => entries[o].via = "provider"

\* A certificate of another statement, an unproven equivalence, an error or a
\* deadline never becomes a verdict: checked claims are true and falsified ones
\* false.
VerdictsSound ==
    \A o \in Ids :
        /\ entries[o].status = "checked" => claim[o] = "true"
        /\ entries[o].status = "falsified" => claim[o] = "false"

\* Feedback that reports success, or reports nothing, means that every claim of
\* the request is true: compact feedback hides no failure.
SilenceMeansProved ==
    stage = "done" /\ (feedback.status = "checked" \/ feedback.obligations = {})
        => \A o \in Ids : claim[o] = "true"

\* A replay that drifts has lost or gained a verdict, never turned one over: where
\* two checks of one request disagree, one of them ran out of time or resources,
\* on this obligation or on one before it.
ReplaysAgree ==
    stage = "done" /\ replays > 0 /\ ReplayStatus = "outcome_drift" =>
        \A o \in Ids :
            \/ previous.obligations[o].status = receipt.obligations[o].status
            \/ "unknown" \in {previous.obligations[o].status,
                              receipt.obligations[o].status}

\* What the proofs add to make these inductive: no member of a knot is ever peeled
\* off; whatever is peeled off depends only on obligations with a final entry; and
\* what waits for a provider has passed the gate.
Settled ==
    /\ \A S \in SUBSET Ids : Knot(S) => S \cap completed = {}
    /\ \A o \in completed : deps[o] \subseteq completed \ runnable
    /\ \A o \in runnable : \A d \in deps[o] : IsChecked(d)
    /\ stage # "run" => runnable = {}
    /\ stage \in {"request", "validate"} => \A o \in Ids : entries[o] = NoEntry
    /\ stage = "done" =>
          /\ feedback.status = "checked" => AllChecked
          /\ Ids \ Checked \subseteq feedback.obligations

\* The inductive invariant of the proofs.
InductiveInvariant == TypeOK /\ LayeringDecides /\ Gated /\ VerdictsSound /\ Settled

\* What a status says about the claim and the kind of its obligation, which do not
\* change from one check of a request to the next.
Grounded(table) ==
    \A o \in Ids :
        /\ table[o].status = "checked" => claim[o] = "true" /\ kind[o] \in Registered
        /\ table[o].status = "falsified" => claim[o] = "false" /\ kind[o] \in Registered
        /\ table[o].status = "unsupported" =>
              claim[o] = "outside" \/ kind[o] \notin Registered

Answered(table) == \A o \in Ids : table[o].status \in Statuses

Written == \A o \in Ids : entries[o] = NoEntry \/ entries[o].status \in Statuses

\* Inductive, for replays: what is written down in either check is grounded in the
\* request, and a receipt that is compared answers every obligation.
ReplayInvariant ==
    /\ InductiveInvariant
    /\ Written
    /\ Grounded(entries)
    /\ Grounded(receipt.obligations)
    /\ Grounded(previous.obligations)
    /\ \A o \in runnable : kind[o] \in Registered
    /\ stage = "done" => Answered(receipt.obligations)
    /\ replays > 0 => Answered(previous.obligations)

\* Every request is answered or refused.
EveryRequestEnds == []<>(stage \in Final)
=============================================================================
