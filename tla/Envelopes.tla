----------------------------- MODULE Envelopes ------------------------------
(***************************************************************************)
(* The envelopes around an operation: output_policy.py, the bounded line   *)
(* readers of mcp_server.py and app_runtime.py with the encoder of         *)
(* transport_budget.py, the responses of app_runtime.py, the MCP outcome   *)
(* declared by mcp_server.py, and the interval timer of runtime.py.        *)
(*                                                                         *)
(* A result is a sequence of nodes with an exact and an approximate text,  *)
(* each Absent, Null or of some positive length; sizes are bytes, scaled.  *)
(***************************************************************************)
EXTENDS Handlers, Functions

CONSTANTS
    Lengths,        \* lengths of a text in a result
    OutputLimits,   \* values of maxOutputBytes
    MessageLimits,  \* the decreasing prefixes tried for an error message
    MaxLine,        \* byte limit of a line
    MaxNodes,       \* MAX_REQUEST_NODES
    MaxDepth,       \* MAX_REQUEST_DEPTH
    MaxText,        \* MAX_REQUEST_BYTES, of the texts of a request
    Requests,       \* documents, as functions from places to values
    MaxStream,      \* bound: bytes of an input stream
    MaxTicks        \* bound: ticks of an interval timer

VARIABLE call

-----------------------------------------------------------------------------
(* output_policy.py                                                        *)

Absent == 0 - 2
Null == 0 - 1
NullSize == 2       \* "null" is longer than the shortest texts
Texts == {Absent, Null} \cup Lengths
ResultModes == {"auto", "exact", "approx", "both"}

TextSize(t) == CASE t = Absent -> 0 [] t = Null -> NullSize [] OTHER -> t

encoded_size(nodes) ==
    FoldFunction(+, 0, [i \in DOMAIN nodes |-> TextSize(nodes[i].exact) + TextSize(nodes[i].approx)])

\* The approximation goes where an exact value stands beside it.
drop_redundant(nodes) ==
    [i \in DOMAIN nodes |->
        IF nodes[i].approx # Absent /\ nodes[i].exact \notin {Absent, Null}
        THEN [nodes[i] EXCEPT !.approx = Null] ELSE nodes[i]]

drop_all(nodes) ==
    [i \in DOMAIN nodes |->
        IF nodes[i].exact # Absent THEN [nodes[i] EXCEPT !.exact = Null] ELSE nodes[i]]

\* For an error envelope: drop the details, then shorten the message.
trim_error_envelope(r) ==
    LET fits == {i \in DOMAIN MessageLimits :
                   Min({MessageLimits[i], r.message}) + Sign(MessageLimits[i]) <= r.limit}
    IN CASE r.message <= r.limit -> [code |-> r.code, message |-> r.message]
         [] r.message > r.limit /\ fits # {} ->
              [code |-> r.code,
               message |-> Min({MessageLimits[Min(fits)], r.message}) + Sign(MessageLimits[Min(fits)])]
         [] OTHER -> [code |-> "E_OUTPUT_LIMIT", message |-> 0]

\* The representations that remain, by result mode and size.
Selected(r) ==
    CASE r.mode = "exact" -> drop_redundant(r.nodes)
      [] r.mode = "approx" -> drop_all(r.nodes)
      [] r.mode = "auto" /\ encoded_size(r.nodes) > r.limit -> drop_redundant(r.nodes)
      [] OTHER -> r.nodes

apply_output_policy(r) ==
    CASE r.status = "error" ->
           IF r.details + r.message <= r.limit
           THEN [code |-> r.code, message |-> r.message] ELSE trim_error_envelope(r)
      [] r.status # "error" /\ encoded_size(Selected(r)) <= r.limit ->
           [code |-> "none", nodes |-> Selected(r)]
      [] OTHER -> [code |-> "E_OUTPUT_LIMIT", message |-> 0]

-----------------------------------------------------------------------------
(* Lines.  A stream is a sequence of bytes, "n" ending a line.             *)

\* stream.readline(limit + 1): up to a newline, the limit or the end.
readline(s) ==
    LET stop == {i \in DOMAIN s : s[i] = "n"} \cup {MaxLine + 1, Len(s)}
    IN SubSeq(s, 1, Min(stop))

Rest(s) == SubSeq(s, Len(readline(s)) + 1, Len(s))
EndsLine(line) == line # <<>> /\ Last(line) = "n"

\* A reader that drops one more piece and goes on from there.
drainOnce(s) == Rest(s)

\* The rest of an oversized line, dropped.
RECURSIVE drain(_)
drain(s) ==
    IF readline(s) = <<>> \/ EndsLine(readline(s)) THEN Rest(s) ELSE drain(Rest(s))

\* _BoundedMCPInput.__anext__ and _read_app_line: an oversized line becomes
\* one refusal, and the next message starts after its newline.
RECURSIVE messages(_)
messages(s) ==
    LET line == readline(s) IN
    IF line = <<>> THEN <<>>
    ELSE IF Len(line) > MaxLine
         THEN <<"oversized">> \o messages(IF EndsLine(line) THEN Rest(s) ELSE drain(Rest(s)))
         ELSE <<line>> \o messages(Rest(s))

\* encode_json_line counts the newline it will add.
encode_json_line(bytes) ==
    IF 1 + bytes > MaxLine THEN Refused("E_LIMIT")
    ELSE Answered([i \in 1..(bytes + 1) |-> IF i = bytes + 1 THEN "n" ELSE "b"])

-----------------------------------------------------------------------------
(* transport_budget._validate_shape.  A request is a Python value whose    *)
(* parts may be shared, or contain themselves: a function from places, the *)
(* root being 1, to [kind, size, parts], where parts are places.  A stack  *)
(* entry is <<place, depth, exiting>>; place 0 is a key, one byte long.    *)

Containers == {"object", "array"}
Key == [kind |-> "text", size |-> 1, parts |-> <<>>]

\* What a container pushes: its exit first, then its parts, so that a list is met in
\* order and an object from its last key.
Pushed(value, place, depth) ==
    <<<<place, depth, TRUE>>>>
    \o (IF value.kind = "array" THEN [i \in DOMAIN value.parts |-> <<Reverse(value.parts)[i], depth + 1, FALSE>>]
        ELSE FlattenSeq([i \in DOMAIN value.parts |-> <<<<value.parts[i], depth + 1, FALSE>>, <<0, depth + 1, FALSE>>>>]))

RECURSIVE Visit(_, _, _, _, _)
Visit(doc, stack, nodes, text, active) ==
    IF stack = <<>> THEN "ok" ELSE
    LET place == Last(stack)[1]
        depth == Last(stack)[2]
        value == IF place = 0 THEN Key ELSE doc[place]
    IN IF Last(stack)[3] THEN Visit(doc, Front(stack), nodes, text, active \ {place})
       ELSE CASE nodes + 1 > MaxNodes -> "maxRequestNodes"
              [] nodes + 1 <= MaxNodes /\ depth > MaxDepth -> "maxRequestDepth"
              [] OTHER ->
                   CASE value.kind = "text" /\ text + value.size > MaxText -> "maxRequestBytes"
                     [] value.kind \in Containers /\ place \in active -> "circular"
                     [] value.kind \in {"bad key", "not finite", "not JSON"} -> value.kind
                     [] value.kind \in Containers /\ place \notin active ->
                          Visit(doc, Front(stack) \o Pushed(value, place, depth), nodes + 1, text, active \cup {place})
                     [] OTHER -> Visit(doc, Front(stack), nodes + 1, text + value.size, active)

validate_shape(doc) == Visit(doc, <<<<1, 0, FALSE>>>>, 0, 0, {})

\* _bounded_request, _bounded_receipt and the callers in sandbox.py.
bounded_request(doc) ==
    LET rule == validate_shape(doc)
    IN CASE rule = "ok" -> Answered(doc)
         [] rule \in {"maxRequestNodes", "maxRequestDepth", "maxRequestBytes"} -> Refused("E_LIMIT")
         [] OTHER -> Refused("E_INPUT")

-----------------------------------------------------------------------------
(* app_runtime._handle: what a request line is answered with.              *)

AppRequests == [shape : {"object", "other"}, id : {"", "r1"},
                operation : {"expression.evaluate", "units.convert", "currency.convert", "else"},
                ends : {"result", "calculator_error", "exception"}]

handle(q) ==
    LET named(status, code) == [id |-> q.id, status |-> status, code |-> code] IN
    CASE q.shape = "other" \/ q.id = "" -> [id |-> "", status |-> "error", code |-> "E_INPUT"]
      [] q.shape = "object" /\ q.id # "" /\ q.operation = "else" -> named("error", "E_OPERATION")
      [] q.ends = "exception" -> named("error", "E_RUNTIME")
      [] q.ends = "calculator_error" -> named("error", "E_DOMAIN")
      [] OTHER -> named("ok", "none")

-----------------------------------------------------------------------------
(* mcp_server._execution_outcome, of a batch's items.                      *)

ItemStates == {"ok", "E_CANCELLED", "E_TIMEOUT", "uncertain", "not an object"}
Category(item) ==
    CASE item = "ok" -> "completed"
      [] item = "E_CANCELLED" -> "cancelled"
      [] item = "E_TIMEOUT" -> "errors"
      [] OTHER -> "unknown"

execution_outcome(items) ==
    [total |-> Len(items),
     counts |-> [c \in {"completed", "cancelled", "errors", "unknown"} |->
                   Cardinality({i \in DOMAIN items : Category(items[i]) = c})],
     errorCodes |-> [code \in {"E_CANCELLED", "E_TIMEOUT"} |->
                       Cardinality({i \in DOMAIN items : items[i] = code})]]

-----------------------------------------------------------------------------
(* runtime.in_process_evaluation_timeout around an already armed timer:    *)
(* first expiry after `remaining` ticks (0: none), then every `interval`.  *)

OuterIsEarlier(g) == 0 < g.remaining /\ g.remaining <= g.timeout

\* The guard is left after g.elapsed ticks: what the timer is set to.
restored(g) ==
    CASE g.elapsed < g.remaining -> g.remaining - g.elapsed
      [] g.remaining > 0 /\ g.elapsed >= g.remaining /\ g.interval > 0 ->
           g.interval - ((g.elapsed - g.remaining) % g.interval)
      [] OTHER -> 0

\* The guard's alarm ends the evaluation; the outer timer's own may not.
Guards == {g \in [remaining : 0..MaxTicks, interval : 0..2, timeout : 1..2, elapsed : 0..MaxTicks] :
             /\ g.remaining = 0 => g.interval = 0
             /\ ~OuterIsEarlier(g) => g.elapsed <= g.timeout}

-----------------------------------------------------------------------------
PolicyCall ==
    \E limit \in OutputLimits :
        \/ \E mode \in ResultModes, status \in {"ok", "uncertain"},
              nodes \in SeqOf([exact : Texts, approx : Texts], 2) :
             LET r == [status |-> status, mode |-> mode, limit |-> limit, nodes |-> nodes]
             IN call' = [op |-> "policy", r |-> r, out |-> apply_output_policy(r)]
        \/ \E details \in {0, 4}, message \in 0..10 :
             LET r == [status |-> "error", code |-> "E_DOMAIN", limit |-> limit,
                       details |-> details, message |-> message]
             IN call' = [op |-> "policy_error", r |-> r, out |-> apply_output_policy(r)]
ReadCall ==
    \/ \E s \in SeqOf({"b", "n"}, MaxStream) : call' = [op |-> "read", s |-> s, out |-> messages(s)]
    \/ \E bytes \in 0..(MaxLine + 1) :
         call' = [op |-> "encode", bytes |-> bytes, sent |-> encode_json_line(bytes)]
HandleCall == \E q \in AppRequests : call' = [op |-> "handle", q |-> q, out |-> handle(q)]
OutcomeCall == \E items \in SeqOf(ItemStates, 3) :
    call' = [op |-> "outcome", items |-> items, out |-> execution_outcome(items)]
ShapeCall == \E doc \in Requests : call' = [op |-> "shape", doc |-> doc, out |-> bounded_request(doc)]
GuardCall == \E g \in Guards : call' = [op |-> "guard", g |-> g, out |-> restored(g)]

Next == PolicyCall \/ ReadCall \/ HandleCall \/ OutcomeCall \/ ShapeCall \/ GuardCall

-----------------------------------------------------------------------------
(* Properties.                                                             *)

\* An envelope stays within its limit, keeps an error's own code for as long
\* as any part of its message fits, and "exact" and "auto" never lose a value
\* that has no other representation.
EnvelopesKeepMeaning ==
    /\ call.op = "policy" =>
         /\ call.out.code = "none" => encoded_size(call.out.nodes) <= call.r.limit
         /\ call.out.code = "none" /\ call.r.mode # "approx" =>
              \A i \in DOMAIN call.r.nodes :
                 LET before == call.r.nodes[i] after == call.out.nodes[i] IN
                 /\ after.exact = before.exact
                 /\ after.approx # before.approx => after.exact > 0
    /\ call.op = "policy_error" =>
         /\ call.out.message <= call.r.limit
         /\ call.out.code = call.r.code
    /\ call.op = "handle" => (call.out.id # "" <=> call.q.shape = "object" /\ call.q.id # "")
    /\ call.op = "outcome" =>
         call.out.total = FoldFunction(+, 0, call.out.counts)

\* A reference reader: the lines of a stream, split at every newline.
Lines(s) ==
    LET ends == {i \in DOMAIN s : s[i] = "n"} \cup (IF s = <<>> THEN {} ELSE {Len(s)})
        from(e) == Max({0} \cup {i \in ends : i < e}) + 1
        end(k) == CHOOSE e \in ends : Cardinality({x \in ends : x <= e}) = k
    IN [k \in 1..Cardinality(ends) |-> SubSeq(s, from(end(k)), end(k))]

\* However long a line is, the next message is the next line: nothing of an
\* oversized one is taken for a message of its own; and a line that the
\* encoder let pass is never refused by the reader for its length.
LinesStayAligned ==
    /\ call.op = "read" =>
         /\ Len(call.out) = Len(Lines(call.s))
         /\ \A i \in DOMAIN call.out :
              call.out[i] = IF Len(Lines(call.s)[i]) <= MaxLine THEN Lines(call.s)[i] ELSE "oversized"
    /\ call.op = "encode" /\ call.sent.status = "ok" =>
         messages(call.sent.result) = <<call.sent.result>>

\* The parts met under a place, and what a finite value of them amounts to.
Parts(doc, place) == {doc[place].parts[i] : i \in DOMAIN doc[place].parts}
RECURSIVE Under(_, _, _)
Under(doc, places, steps) ==
    IF steps = 0 THEN places ELSE Under(doc, places \cup UNION {Parts(doc, q) : q \in places}, steps - 1)
Met(doc) == Under(doc, {1}, Cardinality(DOMAIN doc))
Circular(doc) == \E q \in Met(doc) : q \in Under(doc, Parts(doc, q), Cardinality(DOMAIN doc))
RECURSIVE Amount(_, _, _)
Amount(doc, place, what) ==
    LET value == doc[place]
        keys == IF value.kind = "object" THEN Len(value.parts) ELSE 0
        under == [i \in DOMAIN value.parts |-> Amount(doc, value.parts[i], what)]
    IN CASE what = "nodes" -> 1 + keys + FoldFunction(+, 0, under)
         [] what = "text" -> value.size + keys + FoldFunction(+, 0, under)
         [] what = "depth" -> IF under = <<>> THEN 0 ELSE 1 + Max(Range(under))

\* A request passes exactly if it is finite JSON within the three limits, a part that
\* occurs in several places counted in each of them; one that is within them is refused
\* as unserialisable only if it is.
RequestsJudgedWhole ==
    call.op = "shape" =>
      LET finite == ~Circular(call.doc)
          json == \A q \in Met(call.doc) : call.doc[q].kind \notin {"bad key", "not finite", "not JSON"}
          small == /\ Amount(call.doc, 1, "nodes") <= MaxNodes
                   /\ Amount(call.doc, 1, "depth") <= MaxDepth
                   /\ Amount(call.doc, 1, "text") <= MaxText
      IN /\ call.out.status = "ok" <=> (finite /\ json /\ small)
         /\ (finite /\ json /\ ~small) => call.out.code = "E_LIMIT"
         /\ (finite /\ ~json /\ small) => call.out.code = "E_INPUT"

\* The next expiry of an outer timer without the guard in between.
Undisturbed(g) ==
    IF g.elapsed < g.remaining THEN g.remaining - g.elapsed
    ELSE CHOOSE n \in 1..g.interval : \E k \in 0..MaxTicks :
           g.remaining + (k * g.interval) = g.elapsed + n

\* A guard neither postpones nor advances the timer it found armed.
OuterTimerKept ==
    call.op = "guard" =>
      call.out = IF call.g.remaining > call.g.elapsed \/ call.g.interval > 0 THEN Undisturbed(call.g) ELSE 0

\* docs/REVIEW_CONTRACT.md: resultMode "may remove redundant representations
\* but cannot change mathematical meaning".  It does not hold in mode approx for a
\* value that has no approximation (README, deviations).
OnlyRedundantDropped ==
    call.op = "policy" /\ call.out.code = "none" =>
      \A i \in DOMAIN call.r.nodes :
         (call.r.nodes[i].exact > 0 \/ call.r.nodes[i].approx > 0)
           => (call.out.nodes[i].exact > 0 \/ call.out.nodes[i].approx > 0)
=============================================================================
