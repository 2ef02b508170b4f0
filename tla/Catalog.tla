------------------------------ MODULE Catalog -------------------------------
(***************************************************************************)
(* The operation catalog: catalog_search.py and catalog.py, the selection  *)
(* of a schema variant in contracts.py, and the assurance envelope of      *)
(* research_contract.py.                                                   *)
(*                                                                         *)
(* A spec is the tokens of its texts and its aliases; a query is its       *)
(* substantive tokens, with what its raw text contains.  A schema is a     *)
(* oneOf of variants, told apart by kind and action; the rest of a variant *)
(* is the set of payloads it accepts.                                      *)
(***************************************************************************)
EXTENDS Handlers

CONSTANTS
    Latin, Cjk,     \* tokens: words, and bigrams of ideographs
    MaxVariants     \* bound: variants of a schema

VARIABLE call

Tokens == Latin \cup Cjk

-----------------------------------------------------------------------------
(* catalog_search.py                                                       *)

\* A keyword's tokens stand in the haystack as well.
Specs == {s \in [haystack : SUBSET Tokens, alias : SUBSET Tokens, category : {"c1", "c2"}] :
            s.alias \subseteq s.haystack}
isCjkTerm(s) == s.alias # {} /\ s.alias \subseteq Cjk

\* phrase: the spec's haystack contains the query literally; term: the query
\* contains the alias literally, so that it has the alias's tokens; native:
\* obligations and receipts have a route of their own.
Queries == [tokens : SUBSET Tokens, phrase : BOOLEAN, term : BOOLEAN, route : {"text", "native", "empty"},
            category : {"c1", "any"}, tooLong : BOOLEAN]

strong_alias(q, s) ==
    \/ isCjkTerm(s) /\ q.term /\ s.alias \subseteq q.tokens
    \/ ~(isCjkTerm(s) /\ q.term) /\ Cardinality(s.alias) > 1 /\ s.alias \subseteq q.tokens
single_alias(q, s) ==
    ~(isCjkTerm(s) /\ q.term) /\ Cardinality(s.alias) = 1 /\ s.alias \subseteq q.tokens

\* Two thirds of the ideographs are covered, and every word.
cjk_alias_covers_query(q, s) ==
    /\ isCjkTerm(s) /\ q.term /\ s.alias \subseteq q.tokens /\ Cardinality(s.alias) >= 2
    /\ 3 * Cardinality(q.tokens \cap Cjk \cap s.haystack) >= 2 * Cardinality(q.tokens \cap Cjk)
    /\ q.tokens \cap Latin \subseteq s.haystack

eligible(q, s) ==
    IF Cardinality(q.tokens) <= 1
    THEN q.phrase \/ strong_alias(q, s) \/ q.tokens \cap s.haystack # {}
    ELSE \/ q.phrase
         \/ cjk_alias_covers_query(q, s)
         \/ q.tokens \subseteq s.haystack /\ (strong_alias(q, s) \/ single_alias(q, s))

Score(q, s) ==
    (IF q.phrase THEN 8 ELSE 0) + (IF strong_alias(q, s) THEN 6 ELSE 0)
    + (2 * Cardinality(q.tokens \cap s.haystack))

\* A single spec's place in the answer: 0 when it is no candidate.
search_operations(q, s) ==
    Handled(<< <<~q.tooLong, "E_LIMIT">> >>,
            IF q.category # "any" /\ q.category # s.category THEN 0
            ELSE CASE q.route = "native" -> 0
                   [] q.route = "empty" -> 1
                   [] q.route = "text" /\ q.tokens = {} -> 0
                   [] OTHER -> IF eligible(q, s) THEN Score(q, s) ELSE 0)

\* describe_operation: an id of admissible length that is registered.
describe_operation(length, registered) ==
    Handled(<< <<length > 0, "E_INPUT">>, <<length <= 1, "E_LIMIT">>, <<registered, "E_OPERATION">> >>, "spec")

-----------------------------------------------------------------------------
(* contracts.py.  A variant with no action property accepts any action;    *)
(* the error variant has no kind.                                          *)

Kinds == {"k1", "k2"}
Actions == {"a", "b"}
Payloads == {1, 2}
Variants == [kind : Kinds, actions : {{"a"}, {"a", "b"}, {}}, payloads : {{1}, {1, 2}}]
Results == [status : {"ok", "error"}, kind : Kinds \cup {"other"}, action : Actions \cup {"none"}, payload : Payloads]
\* Variants of one kind are told apart by their actions.
Schemas == {schema \in UNION {kSubset(n, Variants) : n \in 1..MaxVariants} :
              \A v, w \in schema : v # w /\ v.kind = w.kind => v.actions # {}}

Accepts(v, r) ==
    r.kind = v.kind /\ (v.actions # {} => r.action \in v.actions) /\ r.payload \in v.payloads /\ r.status = "ok"
ErrorAccepts(r) == r.status = "error" /\ r.payload = 1

\* oneOf, the error variant being one of them.
UnionAccepts(schema, r) ==
    Cardinality({v \in schema : Accepts(v, r)}) + (IF ErrorAccepts(r) THEN 1 ELSE 0) = 1

\* _result_validator and the validation by what it selected.
result_validator(schema, r) ==
    LET candidates == {v \in schema : v.kind = r.kind}
        matching == {v \in candidates : r.action \in v.actions}
    IN CASE r.status = "error" -> ErrorAccepts(r)
         [] r.status # "error" /\ Cardinality(candidates) = 1 -> \E v \in candidates : Accepts(v, r)
         [] r.status # "error" /\ Cardinality(candidates) # 1 /\ Cardinality(matching) = 1 ->
              \E v \in matching : Accepts(v, r)
         [] OTHER -> UnionAccepts(schema, r)

\* _select_discriminated_schema, of an operation's arguments: by action alone.
InputAccepts(v, r) == (v.actions # {} => r.action \in v.actions) /\ r.payload \in v.payloads
select_discriminated_schema(schema, r) ==
    LET matching == {v \in schema : r.action \in v.actions}
    IN IF Cardinality(matching) = 1 THEN \E v \in matching : InputAccepts(v, r)
       ELSE Cardinality({v \in schema : InputAccepts(v, r)}) = 1

-----------------------------------------------------------------------------
(* research_contract.py                                                    *)

Assurances == {"heuristic", "deterministic", "diagnostic", "certified", "kernel_checked"}
Annotations == [status : {"ok", "uncertain", "error"}, registered : Assurances, equivalent : BOOLEAN,
                proven : BOOLEAN, claimed : Assurances \cup {"none"}, certificate : BOOLEAN, checkedBy : BOOLEAN,
                backends : {"absent", "registered", "foreign", "empty"}]

result_assurance(a) == IF a.equivalent /\ ~a.proven THEN "heuristic" ELSE a.registered

\* The registry's label replaces whatever the handler claimed.
apply_research_contract(a) ==
    IF a.status \notin {"ok", "uncertain"} THEN Answered("none")
    ELSE Handled(<< <<a.backends \in {"absent", "registered"}, "E_RUNTIME">>,
                    <<result_assurance(a) = "certified" => a.certificate, "E_RUNTIME">>,
                    <<result_assurance(a) = "kernel_checked" => a.checkedBy, "E_RUNTIME">> >>,
                 result_assurance(a))

-----------------------------------------------------------------------------
SearchCall == \E q \in Queries, s \in Specs :
    call' = [op |-> "search", q |-> q, s |-> s, out |-> search_operations(q, s)]
DescribeCall == \E length \in 0..2, registered \in BOOLEAN :
    call' = [op |-> "describe", out |-> describe_operation(length, registered)]
ValidateCall == \E schema \in Schemas, r \in Results :
    call' = [op |-> "validate", schema |-> schema, r |-> r,
             out |-> <<result_validator(schema, r), select_discriminated_schema(schema, r)>>]
AnnotateCall == \E a \in Annotations :
    call' = [op |-> "annotate", a |-> a, out |-> apply_research_contract(a)]

Next == SearchCall \/ DescribeCall \/ ValidateCall \/ AnnotateCall

-----------------------------------------------------------------------------
(* Properties.                                                             *)

\* A query whose words the catalog does not have is not answered with a near
\* match: only a literal phrase makes up for a word the operation lacks, and no
\* label above the registered one leaves the assurance envelope.
NoNearMatch ==
    /\ call.op = "search" /\ call.out.status = "ok" /\ call.q.route # "empty" =>
         (call.out.result > 0 /\ ~call.q.phrase => call.q.tokens \cap Latin \subseteq call.s.haystack)
    /\ call.op = "annotate" /\ call.out.status = "ok" /\ call.a.status # "error" =>
         /\ call.out.result \in {call.a.registered, "heuristic"}
         /\ call.out.result = "certified" => call.a.certificate

\* The shortcut to one variant accepts nothing that the complete union would
\* reject.
SelectionNeverWeakens ==
    call.op = "validate" => (call.out[1] => UnionAccepts(call.schema, call.r))
=============================================================================
