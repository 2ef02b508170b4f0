-------------------------- MODULE ObligationsProofs --------------------------
(***************************************************************************)
(* Obligations for every set of ids, every dependency graph and every      *)
(* assignment of kinds and claims, and the command line that publishes     *)
(* their receipts for any number of processes that share a name.           *)
(***************************************************************************)
EXTENDS Obligations, CommandLine, TLAPS

\* What mapping a provider's result to a status promises: a status of the contract,
\* and a verdict only when the claim really is true or false.
LEMMA MappingSound ==
    ASSUME NEW o \in Ids, NEW r \in OkResults(o) \cup ErrorResults(o)
    PROVE  LET status == MapProviderResult(o, r)
           IN  /\ status = "checked" => claim[o] = "true"
               /\ status = "falsified" => claim[o] = "false"
<1> DEFINE status == MapProviderResult(o, r)
<1>1. CASE r \in ErrorResults(o)
  BY <1>1 DEF ErrorResults, MapProviderResult, ErrorStatus
<1>2. CASE r \in OkResults(o) /\ kind[o] = "polynomial_identity"
  BY <1>2 DEF OkResults, MapProviderResult, PolynomialStatus, CertificateAccepted,
              Recomputed, Statements
<1>3. CASE r \in OkResults(o) /\ kind[o] = "expression_equivalence"
  BY <1>3 DEF OkResults, MapProviderResult, EquivalenceStatus
<1>4. CASE r \in OkResults(o) /\ kind[o] = "dimension_consistency"
  BY <1>4 DEF OkResults, MapProviderResult, DimensionStatus
<1>5. CASE r \in OkResults(o) /\ kind[o] = "local_almost_complex_integrability"
  BY <1>5 DEF OkResults, MapProviderResult, GeometryStatus
<1>6. CASE r \in OkResults(o) /\ kind[o] \notin Registered
  BY <1>6 DEF OkResults, Registered
<1> QED
  BY <1>1, <1>2, <1>3, <1>4, <1>5, <1>6 DEF Registered

\* The fields of an entry.
LEMMA EntryFields ==
    ASSUME NEW status, NEW via, NEW blocked_by
    PROVE  /\ Entry(status, via, blocked_by).status = status
           /\ Entry(status, via, blocked_by).via = via
           /\ Entry(status, via, blocked_by).blockedBy = blocked_by
           /\ NoEntry.status = "none" /\ NoEntry.via = "none"
BY DEF Entry, NoEntry

\* An entry with a status of the contract is an entry.
LEMMA EntryType ==
    ASSUME NEW status \in Statuses,
           NEW via \in {"blocked", "unregistered", "deadline", "provider"},
           NEW blocked_by \in SUBSET Ids
    PROVE  Entry(status, via, blocked_by) \in Entries /\ Entry(status, via, blocked_by) # NoEntry
<1>1. Entry(status, via, blocked_by) \in Entries
  BY DEF Entry, Entries
<1>2. status # "none"
  BY DEF Statuses
<1> QED
  BY <1>1, <1>2, EntryFields

LEMMA InitInvariant == Init => InductiveInvariant
<1> SUFFICES ASSUME Init PROVE InductiveInvariant
  OBVIOUS
<1> USE DEF Init, NoEntry, Entry
<1>1. TypeOK
  BY DEF TypeOK, Final, Entries
<1>2. LayeringDecides
  BY DEF LayeringDecides
<1>3. Gated /\ VerdictsSound
  BY DEF Gated, VerdictsSound, IsChecked
<1>4. Settled
  BY DEF Settled
<1> QED
  BY <1>1, <1>2, <1>3, <1>4 DEF InductiveInvariant

----------------------------------------------------------------------------
(* Peeling layers                                                          *)

\* A peeled layer leaves the shape of the layering intact, and takes no member of
\* a knot with it.
LEMMA PeelKeepsShape ==
    ASSUME TypeOK, Settled, runnable = {}, PeelLayer, UNCHANGED deps
    PROVE  /\ pending' \subseteq Ids
           /\ completed' = Ids \ pending'
           /\ Layer \cap completed = {}
           /\ \A o \in completed' : deps[o] \subseteq completed
           /\ \A S \in SUBSET Ids : Knot(S) => S \cap completed' = {}
<1> USE DEF PeelLayer, Layer, Ready, TypeOK
<1>1. Layer \cap completed = {} /\ pending' \subseteq Ids /\ completed' = Ids \ pending'
  OBVIOUS
<1>2. \A o \in completed' : deps[o] \subseteq completed
  BY DEF Settled
<1>3. ASSUME NEW S \in SUBSET Ids, Knot(S), NEW o \in S, o \in completed'
      PROVE  FALSE
  BY <1>2, <1>3 DEF Settled, Knot
<1> QED
  BY <1>1, <1>2, <1>3

----------------------------------------------------------------------------
(* Every action preserves the invariant                                    *)

\* What the untouched parts of a state say, they say of the next state.
LEMMA StutterInvariant ==
    InductiveInvariant /\ UNCHANGED vars => InductiveInvariant'
BY DEF InductiveInvariant, TypeOK, LayeringDecides, Gated, VerdictsSound, Settled, Knot,
       IsChecked, Checked, AllChecked, vars, request, layering

\* Validation, the deadline and the refusals leave entries and layers alone.
LEMMA QuietSteps ==
    ASSUME InductiveInvariant,
           Validate \/ ValidateCycle \/ DeadlinePasses \/ AssembleRefused \/ ReplayRefused
    PROVE  InductiveInvariant'
<1> USE DEF InductiveInvariant, request, layering
<1>1. CASE Validate
  BY <1>1 DEF Validate, Acceptable, TypeOK, LayeringDecides, Gated, VerdictsSound,
              Settled, Knot, IsChecked, Checked, AllChecked, Final
<1>2. CASE ValidateCycle
  <2>1. Knot(pending)
    BY <1>2 DEF ValidateCycle, NoLayer, Layer, Ready, TypeOK, Settled, Knot
  <2> QED
    BY <1>2, <2>1 DEF ValidateCycle, TypeOK, LayeringDecides, Gated, VerdictsSound,
                Settled, Knot, IsChecked, Checked, AllChecked, Final
<1>3. CASE DeadlinePasses
  BY <1>3 DEF DeadlinePasses, TypeOK, LayeringDecides, Gated, VerdictsSound,
              Settled, Knot, IsChecked, Checked, AllChecked, Final
<1>4. CASE AssembleRefused
  BY <1>4 DEF AssembleRefused, TypeOK, LayeringDecides, Gated, VerdictsSound,
              Settled, Knot, IsChecked, Checked, AllChecked, Final
<1>5. CASE ReplayRefused
  BY <1>5 DEF ReplayRefused, TypeOK, LayeringDecides, Gated, VerdictsSound,
              Settled, Knot, IsChecked, Checked, AllChecked, Final
<1> QED
  BY <1>1, <1>2, <1>3, <1>4, <1>5

\* A layer peeled off during validation.
LEMMA ValidateLayerStep ==
    ASSUME InductiveInvariant, ValidateLayer
    PROVE  InductiveInvariant'
<1> USE DEF InductiveInvariant, ValidateLayer, request
<1>1. /\ pending' \subseteq Ids
      /\ completed' = Ids \ pending'
      /\ \A o \in completed' : deps[o] \subseteq completed
      /\ \A S \in SUBSET Ids : Knot(S) => S \cap completed' = {}
  BY PeelKeepsShape DEF Settled
<1>2. completed \subseteq completed'
  BY DEF PeelLayer
<1>3. TypeOK'
  BY <1>1 DEF TypeOK, Settled, Final
<1>4. Settled'
  BY <1>1, <1>2 DEF Settled, Knot, IsChecked, Checked, AllChecked
<1> QED
  BY <1>3, <1>4 DEF LayeringDecides, Gated, VerdictsSound, IsChecked, Knot

\* With nothing left to peel there is no knot, and checking starts over.
LEMMA ValidatedStep ==
    ASSUME InductiveInvariant, Validated
    PROVE  InductiveInvariant'
<1> USE DEF InductiveInvariant, Validated, request
<1>1. \A S \in SUBSET Ids : ~Knot(S)
  BY DEF TypeOK, Settled, Knot
<1>2. TypeOK'
  BY DEF TypeOK, Settled, Final
<1>3. Settled'
  BY DEF Settled, Knot, IsChecked, Checked, AllChecked
<1> QED
  BY <1>1, <1>2, <1>3 DEF LayeringDecides, Gated, VerdictsSound, IsChecked, Knot

\* Entering a layer: the gate reads entries that are final, and writes only where
\* there were none.
LEMMA EnterLayerStep ==
    ASSUME InductiveInvariant, EnterLayer
    PROVE  InductiveInvariant'
<1> DEFINE blocked == {o \in Layer : BlockedBy(o) # {}}
           foreign == {o \in Layer \ blocked : kind[o] \notin Registered}
<1> USE DEF InductiveInvariant, request
<1>1. /\ stage = "layers" /\ PeelLayer /\ UNCHANGED <<deps, kind, claim>>
      /\ runnable = {} /\ Layer \subseteq Ids
      /\ stage' \in {"layers", "run"}
  BY DEF EnterLayer, Settled, Layer, TypeOK
<1>2. /\ pending' \subseteq Ids
      /\ completed' = Ids \ pending'
      /\ Layer \cap completed = {}
      /\ completed' = completed \cup Layer
      /\ \A o \in completed' : deps[o] \subseteq completed
      /\ \A S \in SUBSET Ids : Knot(S) => S \cap completed' = {}
  BY <1>1, PeelKeepsShape DEF PeelLayer
<1>3. runnable' = Layer \ (blocked \cup foreign)
      /\ (stage' = "layers" <=> runnable' = {})
  BY DEF EnterLayer
<1>4. \A o \in Ids : entries'[o] =
          IF o \in blocked THEN Entry("unknown", "blocked", BlockedBy(o))
          ELSE IF o \in foreign THEN Entry("unsupported", "unregistered", {})
          ELSE entries[o]
  BY DEF EnterLayer, BlockedEntry, UnsupportedEntry
<1>5. \A o \in Layer : entries[o] = NoEntry
  BY <1>1, <1>2 DEF TypeOK
<1>6. \A o \in Layer : deps[o] \subseteq completed /\ BlockedBy(o) \subseteq Ids
  BY <1>1, <1>2 DEF BlockedBy, Settled
<1>7. \A o \in completed : entries'[o] = entries[o]
  BY <1>2, <1>4 DEF TypeOK
<1>8. \A o \in Ids \ Layer : entries'[o] = entries[o]
  BY <1>4
<1>9. \A o \in Ids : IsChecked(o)' <=> IsChecked(o)
  <2> SUFFICES ASSUME NEW o \in Ids PROVE IsChecked(o)' <=> IsChecked(o)
    OBVIOUS
  <2>1. CASE o \in blocked
    BY <2>1, <1>4, <1>5, EntryFields DEF IsChecked
  <2>2. CASE o \in foreign
    BY <2>2, <1>4, <1>5, EntryFields DEF IsChecked
  <2>3. CASE o \notin blocked \cup foreign
    BY <2>3, <1>4 DEF IsChecked
  <2> QED
    BY <2>1, <2>2, <2>3
<1>10. TypeOK'
  <2>1. entries' \in [Ids -> Entries]
    <3>1. \A o \in Ids : entries'[o] \in Entries
      <4> SUFFICES ASSUME NEW o \in Ids PROVE entries'[o] \in Entries
        OBVIOUS
      <4>1. CASE o \in blocked
        BY <4>1, <1>4, <1>6, EntryType DEF Statuses
      <4>2. CASE o \in foreign
        BY <4>2, <1>4, EntryType DEF Statuses
      <4>3. CASE o \notin blocked \cup foreign
        BY <4>3, <1>4 DEF TypeOK
      <4> QED
        BY <4>1, <4>2, <4>3
    <3> QED
      BY <3>1 DEF EnterLayer
  <2>2. \A o \in Ids : (entries'[o] # NoEntry) <=> (o \in completed' \ runnable')
    <3> SUFFICES ASSUME NEW o \in Ids
                 PROVE  (entries'[o] # NoEntry) <=> (o \in completed' \ runnable')
      OBVIOUS
    <3>1. CASE o \in blocked
      BY <3>1, <1>2, <1>3, <1>4, <1>6, EntryType DEF Statuses
    <3>2. CASE o \in foreign
      BY <3>2, <1>2, <1>3, <1>4, EntryType DEF Statuses
    <3>3. CASE o \in Layer \ (blocked \cup foreign)
      BY <3>3, <1>3, <1>4, <1>5
    <3>4. CASE o \notin Layer
      BY <3>4, <1>1, <1>2, <1>3, <1>8 DEF TypeOK
    <3> QED
      BY <3>1, <3>2, <3>3, <3>4
  <2> QED
    BY <1>1, <1>2, <1>3, <2>1, <2>2 DEF TypeOK, Final
<1>11. Gated'
  <2> SUFFICES ASSUME NEW o \in Ids
               PROVE  /\ entries'[o].via = "provider" => \A d \in deps[o] : IsChecked(d)'
                      /\ entries'[o].via = "blocked" =>
                            /\ entries'[o].blockedBy # {}
                            /\ \A d \in entries'[o].blockedBy : d \in deps[o] /\ ~IsChecked(d)'
                      /\ IsChecked(o)' => entries'[o].via = "provider"
    BY <1>1 DEF Gated, IsChecked
  <2>1. deps[o] \subseteq Ids
    BY <1>1 DEF TypeOK
  <2>2. CASE o \in blocked
    <3>1. entries'[o] = Entry("unknown", "blocked", BlockedBy(o)) /\ BlockedBy(o) # {}
      BY <1>4, <2>2
    <3>2. \A d \in BlockedBy(o) : d \in deps[o] /\ ~IsChecked(d)'
      BY <1>9, <2>1 DEF BlockedBy
    <3> QED
      BY <3>1, <3>2 DEF Entry, IsChecked
  <2>3. CASE o \in foreign
    <3>1. entries'[o] = Entry("unsupported", "unregistered", {})
      BY <1>4, <2>3
    <3> QED
      BY <3>1 DEF Entry, IsChecked
  <2>4. CASE o \notin blocked \cup foreign
    <3>1. entries'[o] = entries[o]
      BY <1>4, <2>4
    <3> QED
      BY <3>1, <1>9, <2>1 DEF Gated, IsChecked
  <2> QED
    BY <2>2, <2>3, <2>4
<1>12. VerdictsSound'
  <2> SUFFICES ASSUME NEW o \in Ids
               PROVE  /\ entries'[o].status = "checked" => claim[o] = "true"
                      /\ entries'[o].status = "falsified" => claim[o] = "false"
    BY <1>1 DEF VerdictsSound
  <2>1. CASE o \in blocked
    BY <2>1, <1>4, EntryFields
  <2>2. CASE o \in foreign
    BY <2>2, <1>4, EntryFields
  <2>3. CASE o \notin blocked \cup foreign
    BY <2>3, <1>4 DEF VerdictsSound
  <2> QED
    BY <2>1, <2>2, <2>3
<1>13. LayeringDecides'
  BY <1>1 DEF LayeringDecides, Knot
<1>14. Settled'
  <2>1. \A S \in SUBSET Ids : Knot(S)' => S \cap completed' = {}
    BY <1>1, <1>2 DEF Knot
  <2>2. \A o \in completed' : deps'[o] \subseteq completed' \ runnable'
    BY <1>1, <1>2, <1>3
  <2>3. \A o \in runnable' : \A d \in deps'[o] : IsChecked(d)'
    <3> SUFFICES ASSUME NEW o \in runnable', NEW d \in deps[o] PROVE IsChecked(d)'
      BY <1>1
    <3>1. o \in Layer /\ BlockedBy(o) = {}
      BY <1>3
    <3>2. IsChecked(d) /\ d \in Ids
      BY <3>1, <1>6, <1>1 DEF BlockedBy, Layer, TypeOK
    <3> QED
      BY <3>2, <1>9
  <2>4. stage' # "run" => runnable' = {}
    BY <1>1, <1>3
  <2> QED
    BY <1>1, <2>1, <2>2, <2>3, <2>4 DEF Settled
<1> QED
  BY <1>10, <1>11, <1>12, <1>13, <1>14

\* A layer's runnable obligations are answered, by providers or by the deadline.
LEMMA AnswerStep ==
    ASSUME InductiveInvariant, NEW status \in [runnable -> Statuses], stage = "run",
           Answer(status),
           \A o \in runnable :
              /\ status[o] = "checked" => claim[o] = "true" /\ ~late
              /\ status[o] = "falsified" => claim[o] = "false"
    PROVE  InductiveInvariant'
<1> DEFINE via == IF late THEN "deadline" ELSE "provider"
<1> USE DEF InductiveInvariant, request, layering
<1>1. /\ UNCHANGED <<deps, kind, claim, pending, completed>>
      /\ runnable' = {} /\ stage' = "layers"
      /\ runnable \subseteq Ids /\ runnable \subseteq completed
  BY DEF Answer, TypeOK
<1>2. \A o \in Ids : entries'[o] =
          IF o \in runnable THEN Entry(status[o], via, {}) ELSE entries[o]
  BY DEF Answer
<1>3. \A o \in Ids \ runnable : entries'[o] = entries[o] /\ (IsChecked(o)' <=> IsChecked(o))
  BY <1>2 DEF IsChecked
<1>4. \A o \in completed : deps[o] \subseteq Ids \ runnable
  BY DEF Settled, TypeOK
<1>5. TypeOK'
  <2>1. entries' \in [Ids -> Entries]
    <3>1. \A o \in Ids : entries'[o] \in Entries
      BY <1>2, EntryType DEF TypeOK
    <3> QED
      BY <3>1 DEF Answer
  <2>2. \A o \in Ids : (entries'[o] # NoEntry) <=> (o \in completed' \ runnable')
    BY <1>1, <1>2, EntryType DEF TypeOK
  <2> QED
    BY <1>1, <2>1, <2>2 DEF TypeOK, Final
<1>6. Gated'
  <2> SUFFICES ASSUME NEW o \in Ids
               PROVE  /\ entries'[o].via = "provider" => \A d \in deps[o] : IsChecked(d)'
                      /\ entries'[o].via = "blocked" =>
                            /\ entries'[o].blockedBy # {}
                            /\ \A d \in entries'[o].blockedBy : d \in deps[o] /\ ~IsChecked(d)'
                      /\ IsChecked(o)' => entries'[o].via = "provider"
    BY <1>1 DEF Gated, IsChecked
  <2>1. CASE o \in runnable
    <3>1. entries'[o] = Entry(status[o], via, {})
      BY <1>2, <2>1
    <3>2. \A d \in deps[o] : IsChecked(d)'
      BY <1>1, <1>3, <1>4, <2>1 DEF Settled
    <3>3. IsChecked(o)' => via = "provider"
      BY <3>1, <2>1 DEF IsChecked, Entry
    <3> QED
      BY <3>1, <3>2, <3>3 DEF Entry
  <2>2. CASE o \notin runnable
    <3>1. entries'[o] = entries[o]
      BY <1>3, <2>2
    <3>2. CASE entries[o] = NoEntry
      BY <3>1, <3>2 DEF NoEntry, Entry, IsChecked
    <3>3. CASE o \in completed
      BY <3>1, <3>3, <1>3, <1>4 DEF Gated, IsChecked
    <3> QED
      BY <3>2, <3>3 DEF TypeOK
  <2> QED
    BY <2>1, <2>2
<1>7. VerdictsSound'
  BY <1>1, <1>2, EntryFields DEF VerdictsSound
<1>8. LayeringDecides'
  BY <1>1 DEF LayeringDecides, Knot
<1>9. Settled'
  BY <1>1 DEF Settled, Knot
<1> QED
  BY <1>5, <1>6, <1>7, <1>8, <1>9

\* Both ways of running a layer answer soundly.
LEMMA RunStep ==
    ASSUME InductiveInvariant, RunTooLate \/ RunProviders
    PROVE  InductiveInvariant'
<1>1. CASE RunTooLate
  <2> DEFINE status == [o \in runnable |-> "unknown"]
  <2>1. status \in [runnable -> Statuses] /\ stage = "run" /\ Answer(status)
    BY <1>1 DEF RunTooLate, Statuses
  <2>2. \A o \in runnable : status[o] = "unknown"
    OBVIOUS
  <2> HIDE DEF status
  <2> QED
    BY <2>1, <2>2, AnswerStep
<1>2. CASE RunProviders
  <2>1. PICK status \in [runnable -> Statuses] :
          /\ \A o \in runnable : \E r \in OkResults(o) \cup ErrorResults(o) :
                status[o] = MapProviderResult(o, r)
          /\ Answer(status)
    BY <1>2 DEF RunProviders
  <2>2. \A o \in runnable : /\ status[o] = "checked" => claim[o] = "true"
                            /\ status[o] = "falsified" => claim[o] = "false"
    BY <2>1, MappingSound DEF InductiveInvariant, TypeOK
  <2>3. stage = "run" /\ ~late
    BY <1>2 DEF RunProviders
  <2> QED
    BY <2>1, <2>2, <2>3, AnswerStep
<1> QED
  BY <1>1, <1>2

\* The feedback leaves out checked obligations only.
LEMMA AssembleStep ==
    ASSUME InductiveInvariant, NEW response_mode, NEW omitted,
           Assemble(response_mode, omitted)
    PROVE  InductiveInvariant'
<1> USE DEF InductiveInvariant, Assemble, request, layering
<1>1. TypeOK' /\ LayeringDecides' /\ Gated' /\ VerdictsSound'
  BY DEF TypeOK, LayeringDecides, Gated, VerdictsSound, IsChecked, Knot, Final
<1>2. /\ feedback'.status = "checked" => AllChecked
      /\ Ids \ Checked \subseteq feedback'.obligations
  BY DEF Selected, Checked
<1>3. Settled'
  BY <1>2 DEF Settled, Knot, IsChecked, Checked, AllChecked
<1> QED
  BY <1>1, <1>3

\* A replay starts from the layers of a request that has been accepted.
LEMMA ReplayStep ==
    ASSUME InductiveInvariant, Replay
    PROVE  InductiveInvariant'
<1> USE DEF InductiveInvariant, Replay, request, NoEntry, Entry
<1>1. TypeOK'
  BY DEF TypeOK, Settled, Entries, Final
<1>2. Settled'
  BY DEF Settled, Knot, IsChecked
<1> QED
  BY <1>1, <1>2 DEF LayeringDecides, Gated, VerdictsSound, IsChecked, Knot

LEMMA NextInvariant == InductiveInvariant /\ [Next]_vars => InductiveInvariant'
<1> SUFFICES ASSUME InductiveInvariant, [Next]_vars PROVE InductiveInvariant'
  OBVIOUS
<1> QED
  BY QuietSteps, ValidateLayerStep, ValidatedStep, EnterLayerStep, RunStep, AssembleStep,
     ReplayStep, StutterInvariant DEF Next, Advance

----------------------------------------------------------------------------
(* The theorems                                                            *)

\* The inductive invariant holds throughout, whatever the graph.
THEOREM ObligationsInvariant == Spec => []InductiveInvariant
BY InitInvariant, NextInvariant, PTL DEF Spec

\* check_obligation_set never misses an entry it looks up.
THEOREM TypeCorrect == Spec => []TypeOK
BY ObligationsInvariant, PTL DEF InductiveInvariant

\* _dependency_layers refuses the requests that have a cycle, and only those.
THEOREM CyclesAreRefused == Spec => []LayeringDecides
BY ObligationsInvariant, PTL DEF InductiveInvariant

\* Providers run behind checked dependencies only.
THEOREM DependenciesGate == Spec => []Gated
BY ObligationsInvariant, PTL DEF InductiveInvariant

\* No verdict without a proof, whatever the polynomial provider returns.
THEOREM VerdictsAreSound == Spec => []VerdictsSound
BY ObligationsInvariant, PTL DEF InductiveInvariant

\* Silent or successful feedback covers the whole request.
THEOREM SilenceIsSound == Spec => []SilenceMeansProved
<1>1. InductiveInvariant => SilenceMeansProved
  BY DEF InductiveInvariant, Settled, VerdictsSound, SilenceMeansProved, AllChecked,
         Checked, IsChecked
<1> QED
  BY <1>1, ObligationsInvariant, PTL

----------------------------------------------------------------------------
(* Replays                                                                 *)

\* "unsupported" is said of claims outside the provider's domain only.
LEMMA MappingGrounded ==
    ASSUME NEW o \in Ids, NEW r \in OkResults(o) \cup ErrorResults(o),
           MapProviderResult(o, r) = "unsupported"
    PROVE  claim[o] = "outside"
<1>1. CASE r \in ErrorResults(o)
  BY <1>1 DEF ErrorResults, MapProviderResult, ErrorStatus
<1>2. CASE r \in OkResults(o) /\ kind[o] = "polynomial_identity"
  BY <1>2 DEF OkResults, MapProviderResult, PolynomialStatus
<1>3. CASE r \in OkResults(o) /\ kind[o] = "expression_equivalence"
  BY <1>3 DEF OkResults, MapProviderResult, EquivalenceStatus
<1>4. CASE r \in OkResults(o) /\ kind[o] = "dimension_consistency"
  BY <1>4 DEF OkResults, MapProviderResult, DimensionStatus
<1>5. CASE r \in OkResults(o) /\ kind[o] = "local_almost_complex_integrability"
  BY <1>5 DEF OkResults, MapProviderResult, GeometryStatus
<1>6. CASE r \in OkResults(o) /\ kind[o] \notin Registered
  BY <1>6 DEF OkResults, Registered
<1> QED
  BY <1>1, <1>2, <1>3, <1>4, <1>5, <1>6 DEF Registered

\* At first nothing is said.
LEMMA InitReplay == Init => ReplayInvariant
<1> SUFFICES ASSUME Init PROVE ReplayInvariant
  OBVIOUS
<1>1. InductiveInvariant
  BY InitInvariant
<1>2. \A o \in Ids : /\ entries[o].status = "none"
                     /\ receipt.obligations[o].status = "none"
                     /\ previous.obligations[o].status = "none"
  BY DEF Init, NoReceipt, NoEntry, Entry
<1>3. runnable = {} /\ stage # "done" /\ ~(replays > 0) /\ Written
  BY DEF Init, Written
<1> QED
  BY <1>1, <1>2, <1>3 DEF ReplayInvariant, Grounded

\* Steps that write neither entries nor receipts.
LEMMA QuietReplay ==
    ASSUME ReplayInvariant, UNCHANGED <<claim, kind, entries, receipt, previous, replays>>,
           runnable' \subseteq runnable, stage' # "done" \/ stage' = stage
    PROVE  /\ Grounded(entries)' /\ Grounded(receipt.obligations)'
           /\ Grounded(previous.obligations)'
           /\ \A o \in runnable' : kind'[o] \in Registered
           /\ stage' = "done" => Answered(receipt.obligations)'
           /\ replays' > 0 => Answered(previous.obligations)'
           /\ Written'
BY DEF ReplayInvariant, Grounded, Answered, Written

\* Every step keeps what has been written down grounded.
LEMMA NextReplay ==
    ASSUME ReplayInvariant, [Next]_vars
    PROVE  ReplayInvariant'
<1>0. InductiveInvariant /\ InductiveInvariant'
  BY NextInvariant DEF ReplayInvariant
<1> USE DEF request, layering
<1>1. CASE \/ Validate \/ ValidateLayer \/ ValidateCycle \/ Validated \/ DeadlinePasses
           \/ AssembleRefused \/ ReplayRefused \/ UNCHANGED vars
  <2>1. /\ UNCHANGED <<claim, kind, entries, receipt, previous, replays>>
        /\ runnable' \subseteq runnable
        /\ stage' # "done" \/ stage' = stage
    BY <1>1 DEF Validate, ValidateLayer, ValidateCycle, Validated, DeadlinePasses,
                AssembleRefused, ReplayRefused, vars
  <2> QED
    BY <1>0, <2>1, QuietReplay DEF ReplayInvariant
<1>2. CASE EnterLayer
  <2> DEFINE blocked == {o \in Layer : BlockedBy(o) # {}}
             foreign == {o \in Layer \ blocked : kind[o] \notin Registered}
  <2>1. /\ UNCHANGED <<claim, kind, receipt, previous, replays>>
        /\ stage' # "done"
        /\ runnable' = Layer \ (blocked \cup foreign)
    BY <1>2 DEF EnterLayer
  <2>2. \A o \in Ids : entries'[o] =
            IF o \in blocked THEN Entry("unknown", "blocked", BlockedBy(o))
            ELSE IF o \in foreign THEN Entry("unsupported", "unregistered", {})
            ELSE entries[o]
    BY <1>2 DEF EnterLayer, BlockedEntry, UnsupportedEntry
  <2>3. Grounded(entries)'
    <3> SUFFICES ASSUME NEW o \in Ids
                 PROVE  /\ entries'[o].status = "checked" =>
                              claim[o] = "true" /\ kind[o] \in Registered
                        /\ entries'[o].status = "falsified" =>
                              claim[o] = "false" /\ kind[o] \in Registered
                        /\ entries'[o].status = "unsupported" =>
                              claim[o] = "outside" \/ kind[o] \notin Registered
      BY <2>1 DEF Grounded
    <3>1. CASE o \in blocked
      BY <2>2, <3>1, EntryFields
    <3>2. CASE o \in foreign
      BY <2>2, <3>2, EntryFields
    <3>3. CASE o \notin blocked \cup foreign
      BY <2>2, <3>3 DEF ReplayInvariant, Grounded
    <3> QED
      BY <3>1, <3>2, <3>3
  <2>4. \A o \in runnable' : kind'[o] \in Registered
    BY <2>1
  <2>5. Written'
    <3> SUFFICES ASSUME NEW o \in Ids
                 PROVE  entries'[o] = NoEntry \/ entries'[o].status \in Statuses
      BY DEF Written
    <3>1. CASE o \in blocked
      BY <2>2, <3>1, EntryFields DEF Statuses
    <3>2. CASE o \in foreign
      BY <2>2, <3>2, EntryFields DEF Statuses
    <3>3. CASE o \notin blocked \cup foreign
      BY <2>2, <3>3 DEF ReplayInvariant, Written
    <3> QED
      BY <3>1, <3>2, <3>3
  <2> QED
    BY <1>0, <2>1, <2>3, <2>4, <2>5 DEF ReplayInvariant, Grounded, Answered
<1>3. ASSUME NEW status \in [runnable -> Statuses], Answer(status),
             \A o \in runnable :
                /\ status[o] = "checked" => claim[o] = "true"
                /\ status[o] = "falsified" => claim[o] = "false"
                /\ status[o] = "unsupported" => claim[o] = "outside"
      PROVE  ReplayInvariant'
  <2>1. /\ UNCHANGED <<claim, kind, receipt, previous, replays>>
        /\ stage' # "done"
        /\ runnable' = {}
    BY <1>3 DEF Answer
  <2>2. \A o \in Ids : entries'[o].status =
            IF o \in runnable THEN status[o] ELSE entries[o].status
    BY <1>3, EntryFields DEF Answer
  <2>3. Grounded(entries)'
    BY <1>3, <2>1, <2>2 DEF ReplayInvariant, Grounded
  <2>4. \A o \in Ids \ runnable : entries'[o] = entries[o]
    BY <1>3 DEF Answer
  <2>5. Written'
    BY <2>2, <2>4 DEF ReplayInvariant, Written
  <2> QED
    BY <1>0, <2>1, <2>3, <2>5 DEF ReplayInvariant, Grounded, Answered
<1>4. CASE RunTooLate
  <2> DEFINE status == [o \in runnable |-> "unknown"]
  <2>1. status \in [runnable -> Statuses] /\ Answer(status)
    BY <1>4 DEF RunTooLate, Statuses
  <2>2. \A o \in runnable : status[o] = "unknown"
    OBVIOUS
  <2> HIDE DEF status
  <2> QED
    BY <1>3, <2>1, <2>2
<1>5. CASE RunProviders
  <2>1. PICK status \in [runnable -> Statuses] :
          /\ \A o \in runnable : \E r \in OkResults(o) \cup ErrorResults(o) :
                status[o] = MapProviderResult(o, r)
          /\ Answer(status)
    BY <1>5 DEF RunProviders
  <2>2. runnable \subseteq Ids
    BY <1>0 DEF InductiveInvariant, TypeOK
  <2>3. \A o \in runnable : /\ status[o] = "checked" => claim[o] = "true"
                            /\ status[o] = "falsified" => claim[o] = "false"
    BY <2>1, <2>2, MappingSound
  <2>4. \A o \in runnable : status[o] = "unsupported" => claim[o] = "outside"
    BY <2>1, <2>2, MappingGrounded
  <2> QED
    BY <1>3, <2>1, <2>3, <2>4
<1>6. ASSUME NEW response_mode, NEW omitted, Assemble(response_mode, omitted)
      PROVE  ReplayInvariant'
  <2>1. /\ UNCHANGED <<claim, kind, entries, runnable, previous, replays>>
        /\ receipt'.obligations = entries
    BY <1>6 DEF Assemble
  <2>2. Answered(entries)
    <3> SUFFICES ASSUME NEW o \in Ids PROVE entries[o].status \in Statuses
      BY DEF Answered
    <3>1. entries[o] # NoEntry
      BY <1>0, <1>6 DEF Assemble, InductiveInvariant, TypeOK, Settled
    <3> QED
      BY <3>1 DEF ReplayInvariant, Written
  <2> QED
    BY <1>0, <2>1, <2>2 DEF ReplayInvariant, Grounded, Answered, Written
<1>7. CASE Replay
  <2>1. /\ UNCHANGED <<claim, kind, runnable>>
        /\ previous' = receipt /\ stage = "done" /\ stage' # "done"
        /\ receipt' = NoReceipt
        /\ entries' = [o \in Ids |-> NoEntry]
    BY <1>7 DEF Replay
  <2>2. \A o \in Ids : entries'[o].status = "none" /\ receipt'.obligations[o].status = "none"
    BY <2>1, EntryFields DEF NoReceipt
  <2> QED
    BY <1>0, <2>1, <2>2 DEF ReplayInvariant, Grounded, Answered, Written
<1> QED
  BY <1>1, <1>2, <1>4, <1>5, <1>6, <1>7 DEF Next, Advance

\* Two checks of one request that disagree about an obligation disagree because
\* one of them says unknown there: no verdict is ever turned over by a replay.
THEOREM ReplaysNeverContradict == Spec => []ReplaysAgree
<1>1. Spec => []ReplayInvariant
  BY InitReplay, NextReplay, PTL DEF Spec
<1>2. ReplayInvariant => ReplaysAgree
  <2> SUFFICES ASSUME ReplayInvariant, stage = "done", replays > 0, NEW o \in Ids
               PROVE  \/ previous.obligations[o].status = receipt.obligations[o].status
                      \/ "unknown" \in {previous.obligations[o].status,
                                        receipt.obligations[o].status}
    BY DEF ReplaysAgree
  <2>1. /\ previous.obligations[o].status \in Statuses
        /\ receipt.obligations[o].status \in Statuses
    BY DEF ReplayInvariant, Answered
  <2> QED
    BY <2>1 DEF ReplayInvariant, Grounded, Statuses
<1> QED
  BY <1>1, <1>2, PTL

-----------------------------------------------------------------------------
(* The command line.                                                       *)

\* Processes start with no document read, nothing written and no receipt.
LEMMA CommandStarts == CommandInit => CommandInvariant
<1> SUFFICES ASSUME CommandInit PROVE CommandInvariant
  OBVIOUS
<1>1. CommandTypeOK
  BY DEF CommandInit, CommandTypeOK
<1>2. \A p \in Processes : ProcessInPlace(p)
  BY ProcessAssumption DEF CommandInit, ProcessInPlace, Nobody
<1> QED
  BY <1>1, <1>2 DEF CommandInvariant

\* What command returned fixes the exit code: only a result that is no success
\* has one other than 0, and only an error has 2.
LEMMA ExitCodes ==
    ASSUME NEW c \in Commands \cup {""}, NEW s \in CommandStatuses(c)
    PROVE  /\ ExitCode(c, s) \in {0, 1, 2}
           /\ s # "error" => ExitCode(c, s) \in {0, 1}
           /\ s = "error" => ExitCode(c, s) = 2
           /\ ExitCode(c, s) # 0 => s \notin {"checked", "matched"}
           /\ s \in {"none", "ok", "uncertain", "partial", "checked",
                     "attention_required", "matched", "mismatch", "error"}
<1> DEFINE x == ExitCode(c, s)
<1>1. CASE s = "error"
  <2>1. x = 2
    BY <1>1, Zenon DEF ExitCode
  <2> QED
    BY <1>1, <2>1
<1>2. CASE c = "check-obligations" /\ s # "error"
  <2>1. s \in {"checked", "attention_required"}
    BY <1>2, Zenon DEF CommandStatuses
  <2>2. s = "attention_required" => x = 1
    BY <1>2, Zenon DEF ExitCode
  <2>3. s = "checked" => x = 0
    BY <1>2, Zenon DEF ExitCode
  <2> QED
    BY <1>2, <2>1, <2>2, <2>3
<1>3. CASE c = "replay-obligations" /\ s # "error"
  <2>1. s \in {"matched", "mismatch"}
    BY <1>3, Zenon DEF CommandStatuses
  <2>2. s = "mismatch" => x = 1
    BY <1>3, Zenon DEF ExitCode
  <2>3. s = "matched" => x = 0
    BY <1>3, Zenon DEF ExitCode
  <2> QED
    BY <1>3, <2>1, <2>2, <2>3
<1>4. CASE c \notin {"check-obligations", "replay-obligations"} /\ s # "error"
  <2>1. s \in {"none", "ok", "uncertain", "partial", "error"}
    BY <1>4, Zenon DEF CommandStatuses
  <2>2. x = 0
    BY <1>4, Zenon DEF ExitCode
  <2> QED
    BY <1>4, <2>1, <2>2
<1> QED
  BY <1>1, <1>2, <1>3, <1>4

\* A process no step touches stays in place.
LEMMA OtherInPlace ==
    ASSUME NEW q \in Processes, ProcessInPlace(q),
           step'[q] = step[q], options'[q] = options[q],
           code'[q] = code[q], result'[q] = result[q],
           q \in temporary' <=> q \in temporary, target' = q <=> target = q
    PROVE  ProcessInPlace(q)'
BY DEF ProcessInPlace

\* A step of one process keeps every process in place: it moves only its own
\* step, and takes the shared name only when nobody has it.
LEMMA CommandStep == CommandInvariant /\ [CommandNext]_cliVars => CommandInvariant'
<1> SUFFICES ASSUME CommandInvariant, [CommandNext]_cliVars PROVE CommandInvariant'
  OBVIOUS
<1>0. CommandTypeOK /\ \A q \in Processes : ProcessInPlace(q)
  BY DEF CommandInvariant
<1>1. CASE UNCHANGED cliVars
  BY <1>0, <1>1 DEF CommandInvariant, CommandTypeOK, ProcessInPlace, cliVars
<1>2. ASSUME NEW p \in Processes, Parse(p) PROVE CommandInvariant'
  <2>1. PICK c \in Commands, o \in SUBSET {"receipt", "quiet"} :
          /\ command' = [command EXCEPT ![p] = c]
          /\ options' = [options EXCEPT ![p] = o]
    BY <1>2 DEF Parse
  <2>2. /\ step[p] = "parse" /\ step' = [step EXCEPT ![p] = "read"]
        /\ UNCHANGED <<result, code, temporary, target, printed>>
    BY <1>2 DEF Parse
  <2>3. CommandTypeOK'
    BY <1>0, <2>1, <2>2 DEF CommandTypeOK
  <2>4. ASSUME NEW q \in Processes PROVE ProcessInPlace(q)'
    BY <1>0, <2>1, <2>2 DEF CommandTypeOK, ProcessInPlace
  <2> QED
    BY <2>3, <2>4 DEF CommandInvariant
<1>3. ASSUME NEW p \in Processes, ParseFails(p) \/ ReadFails(p) PROVE CommandInvariant'
  <2>1. /\ step[p] \in {"parse", "read"} /\ step' = [step EXCEPT ![p] = "exit"]
        /\ Raise(p)
        /\ UNCHANGED <<command, options, temporary, target, printed>>
    BY <1>3 DEF ParseFails, ReadFails
  <2>2. CommandTypeOK'
    BY <1>0, <2>1 DEF CommandTypeOK, Raise
  <2>3. ASSUME NEW q \in Processes PROVE ProcessInPlace(q)'
    <3>1. CASE q = p
      <4>1. /\ step'[p] = "exit" /\ code'[p] = 2 /\ result'[p] = "error"
            /\ target # p /\ p \notin temporary
        BY <1>0, <2>1 DEF CommandTypeOK, ProcessInPlace, Raise
      <4> QED
        BY <2>1, <3>1, <4>1 DEF ProcessInPlace
    <3>2. CASE q # p
      BY <1>0, <2>1, <2>3, <3>2, OtherInPlace DEF CommandTypeOK, Raise
    <3> QED
      BY <3>1, <3>2
  <2> QED
    BY <2>2, <2>3 DEF CommandInvariant
<1>4. ASSUME NEW p \in Processes, Read(p) PROVE CommandInvariant'
  BY <1>0, <1>4 DEF CommandInvariant, CommandTypeOK, ProcessInPlace, Read
<1>5. ASSUME NEW p \in Processes, Execute(p) PROVE CommandInvariant'
  <2>1. PICK s \in CommandStatuses(command[p]) :
          /\ result' = [result EXCEPT ![p] = s]
          /\ code' = [code EXCEPT ![p] = ExitCode(command[p], s)]
          /\ step' = [step EXCEPT ![p] = IF "receipt" \in options[p] /\ s # "error"
                                         THEN "write" ELSE "exit"]
    BY <1>5 DEF Execute
  <2>2. command[p] \in Commands \cup {""}
    BY <1>0 DEF CommandTypeOK
  <2> DEFINE x == ExitCode(command[p], s)
  <2>3. /\ x \in {0, 1, 2}
        /\ s # "error" => x \in {0, 1}
        /\ x # 0 => s \notin {"checked", "matched"}
        /\ s \in {"none", "ok", "uncertain", "partial", "checked",
                  "attention_required", "matched", "mismatch", "error"}
    BY <2>2, ExitCodes
  <2>4. s = "error" => x = 2
    BY <2>2, ExitCodes
  <2>5. step[p] = "execute" /\ UNCHANGED <<command, options, temporary, target, printed>>
    BY <1>5 DEF Execute
  <2>6. code' = [code EXCEPT ![p] = x]
    BY <2>1
  <2> HIDE DEF x
  <2>7. CommandTypeOK'
    BY <1>0, <2>1, <2>3, <2>5, <2>6 DEF CommandTypeOK
  <2>8. ASSUME NEW q \in Processes PROVE ProcessInPlace(q)'
    <3>1. CASE q = p
      <4>1. /\ step'[p] = IF "receipt" \in options[p] /\ s # "error" THEN "write" ELSE "exit"
            /\ code'[p] = x /\ result'[p] = s
            /\ target # p /\ p \notin temporary
        BY <1>0, <2>1, <2>5, <2>6 DEF CommandTypeOK, ProcessInPlace
      <4> QED
        BY <2>3, <2>4, <2>5, <3>1, <4>1 DEF ProcessInPlace
    <3>2. CASE q # p
      BY <1>0, <2>1, <2>5, <2>6, <2>8, <3>2, OtherInPlace DEF CommandTypeOK
    <3> QED
      BY <3>1, <3>2
  <2> QED
    BY <2>7, <2>8 DEF CommandInvariant
<1>6. ASSUME NEW p \in Processes, WriteTemporary(p) PROVE CommandInvariant'
  <2>1. CommandTypeOK'
    <3>1. /\ step' \in {[step EXCEPT ![p] = "link"], [step EXCEPT ![p] = "unlink"]}
          /\ temporary' \in {temporary, temporary \cup {p}}
          /\ UNCHANGED <<result, code>> \/ Raise(p)
          /\ UNCHANGED <<command, options, target, printed>>
      BY <1>6 DEF WriteTemporary
    <3>2. /\ result' \in [Processes -> {"none", "ok", "uncertain", "partial", "checked",
                               "attention_required", "matched", "mismatch", "error"}]
          /\ code' \in [Processes -> {0, 1, 2}]
      BY <1>0, <3>1 DEF CommandTypeOK, Raise
    <3>3. step' \in [Processes -> {"parse", "read", "execute", "write", "link", "unlink",
                                   "exit", "killed"}]
      BY <1>0, <3>1 DEF CommandTypeOK
    <3> QED
      BY <1>0, <3>1, <3>2, <3>3 DEF CommandTypeOK
  <2>2. ASSUME NEW q \in Processes PROVE ProcessInPlace(q)'
    <3>1. CASE /\ temporary' = temporary \cup {p}
               /\ step' = [step EXCEPT ![p] = "link"]
               /\ UNCHANGED <<result, code>>
      BY <1>0, <1>6, <3>1 DEF CommandTypeOK, ProcessInPlace, WriteTemporary
    <3>2. CASE /\ temporary' \in {temporary, temporary \cup {p}}
               /\ step' = [step EXCEPT ![p] = "unlink"]
               /\ Raise(p)
      <4>1. step[p] = "write" /\ UNCHANGED <<command, options, target, printed>>
        BY <1>6 DEF WriteTemporary
      <4>2. CASE q = p
        <5>1. /\ step'[p] = "unlink" /\ code'[p] = 2 /\ result'[p] = "error"
              /\ target # p
          BY <1>0, <3>2, <4>1 DEF CommandTypeOK, ProcessInPlace, Raise
        <5> QED
          BY <4>1, <4>2, <5>1 DEF ProcessInPlace
      <4>3. CASE q # p
        BY <1>0, <2>2, <3>2, <4>1, <4>3, OtherInPlace DEF CommandTypeOK, Raise
      <4> QED
        BY <4>2, <4>3
    <3> QED
      BY <1>6, <3>1, <3>2 DEF WriteTemporary
  <2> QED
    BY <2>1, <2>2 DEF CommandInvariant
<1>7. ASSUME NEW p \in Processes, Link(p) PROVE CommandInvariant'
  <2>1. CommandTypeOK'
    BY <1>0, <1>7 DEF CommandTypeOK, Link, Raise
  <2>2. ASSUME NEW q \in Processes PROVE ProcessInPlace(q)'
    <3>1. CASE target = Nobody
      BY <1>0, <1>7, <3>1, ProcessAssumption DEF CommandTypeOK, ProcessInPlace, Link, Nobody
    <3>2. CASE target # Nobody
      <4>1. /\ step[p] = "link" /\ step' = [step EXCEPT ![p] = "unlink"]
            /\ UNCHANGED <<command, options, temporary, target, printed>> /\ Raise(p)
        BY <1>7, <3>2 DEF Link
      <4>2. CASE q = p
        <5>1. /\ step'[p] = "unlink" /\ code'[p] = 2 /\ result'[p] = "error"
              /\ target # p
          BY <1>0, <4>1 DEF CommandTypeOK, ProcessInPlace, Raise
        <5> QED
          BY <4>1, <4>2, <5>1 DEF ProcessInPlace
      <4>3. CASE q # p
        BY <1>0, <2>2, <4>1, <4>3, OtherInPlace DEF CommandTypeOK, Raise
      <4> QED
        BY <4>2, <4>3
    <3> QED
      BY <3>1, <3>2
  <2> QED
    BY <2>1, <2>2 DEF CommandInvariant
<1>8. ASSUME NEW p \in Processes, Unlink(p) PROVE CommandInvariant'
  BY <1>0, <1>8 DEF CommandInvariant, CommandTypeOK, ProcessInPlace, Unlink
<1>9. ASSUME NEW p \in Processes, Exit(p) PROVE CommandInvariant'
  BY <1>0, <1>9 DEF CommandInvariant, CommandTypeOK, ProcessInPlace, Exit
<1>10. ASSUME NEW p \in Processes, Kill(p) PROVE CommandInvariant'
  BY <1>0, <1>10 DEF CommandInvariant, CommandTypeOK, ProcessInPlace, Kill
<1> QED
  BY <1>1, <1>2, <1>3, <1>4, <1>5, <1>6, <1>7, <1>8, <1>9, <1>10 DEF CommandNext

\* However many processes publish under one name and whichever of them are killed:
\* a process that ends with exit code 0 or 1 and was asked for a receipt left its own
\* there, one that ends with 2 did not, and none that ends leaves a temporary file.
THEOREM ReceiptsAreTheirOwners == CommandSpec => []ReceiptIsOwn
<1>1. CommandInvariant => ReceiptIsOwn
  BY DEF CommandInvariant, ProcessInPlace, ReceiptIsOwn
<1> QED
  BY <1>1, CommandStarts, CommandStep, PTL DEF CommandSpec
=============================================================================
