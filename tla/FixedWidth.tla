----------------------------- MODULE FixedWidth -----------------------------
(***************************************************************************)
(* integer.represent, integer.bitwise and integer.machine_arithmetic:      *)
(* src/math_anchor/operations/programmer.py.                               *)
(*                                                                         *)
(* A word is a number below 2^width.  Literals are the numbers they denote *)
(* (the notation does not matter), NotANumber one that does not parse.     *)
(* Bytes and words are scaled with the widths.                             *)
(***************************************************************************)
EXTENDS Handlers, TLC

CONSTANTS
    BitWidths,          \* _BIT_WIDTHS
    OtherWidth,         \* a number that is no width
    ByteWidth,          \* the chunk of reverse_bytes, reverse_words takes two
    Literals,           \* literals a request may hold
    Counts, Alignments, \* shift counts, alignments a request may hold
    MaxCount            \* the largest count integer_arg lets through

VARIABLE call           \* the request served and what it was answered

Signedness == {"unsigned", "twos_complement"}
InputModes == {"value", "bits"}
BinaryActions == {"and", "or", "xor", "nor"}
UnaryActions == {"not", "negate", "count_ones", "leading_zeros", "trailing_zeros",
                 "reverse_bits"}
ShiftActions == {"shift_left", "logical_shift_right", "arithmetic_shift_right",
                 "rotate_left", "rotate_right"}
DivisionModes == {"truncating", "floor", "euclidean"}

Bit(raw, i) == (raw \div 2^i) % 2
Ones(raw, width) == {i \in 0..(width - 1) : Bit(raw, i) = 1}
\* The word whose bits are those i that Is(i) holds of.
Word(width, Is(_)) == MapThenSumSet(LAMBDA i : IF Is(i) THEN 2^i ELSE 0, 0..(width - 1))

selected_range(width, sign) ==
    IF sign = "unsigned" THEN 0..(2^width - 1) ELSE -(2^(width - 1))..(2^(width - 1) - 1)
signed_value(raw, width) == IF Bit(raw, width - 1) = 1 THEN raw - 2^width ELSE raw
selected_value(raw, width, sign) ==
    IF sign = "twos_complement" THEN signed_value(raw, width) ELSE raw

common(r) == << <<r.width \in BitWidths, "E_INPUT">> >>

\* The checks of decode_literal, and the word it returns.
decode_checks(literal, r) ==
    << <<literal # NotANumber, "E_INPUT">>,
       <<r.mode = "bits" => literal >= 0, "E_INPUT">>,
       <<literal \in IF r.mode = "bits" THEN 0..(2^r.width - 1)
                     ELSE selected_range(r.width, r.sign), "E_LIMIT">> >>
decode_literal(literal, r) == literal % 2^r.width

\* The outcome's representation: the word in both readings, and the one chosen.
representation(raw, r) ==
    [unsigned |-> raw, signed |-> signed_value(raw, r.width),
     decimal |-> selected_value(raw, r.width, r.sign)]

Represent(r) ==
    Handled(common(r) \o decode_checks(r.value, r),
            representation(decode_literal(r.value, r), r))

-----------------------------------------------------------------------------
(* integer.bitwise, one operator for each group of its actions.  What they *)
(* compute is [raw, overflow, discarded], discarded a set of bits.         *)

Plain(raw) == [raw |-> raw, overflow |-> FALSE, discarded |-> {}]

BinaryAction(r) ==
    LET left == decode_literal(r.left, r)  right == decode_literal(r.right, r) IN
    Plain(Word(r.width, LAMBDA i :
        CASE r.action = "and" -> Bit(left, i) = 1 /\ Bit(right, i) = 1
          [] r.action = "or" -> Bit(left, i) = 1 \/ Bit(right, i) = 1
          [] r.action = "xor" -> Bit(left, i) # Bit(right, i)
          [] r.action = "nor" -> Bit(left, i) = 0 /\ Bit(right, i) = 0))

UnaryAction(r) ==
    LET raw == decode_literal(r.value, r)
        ones == Ones(raw, r.width)
    IN CASE r.action = "not" -> Plain(2^r.width - 1 - raw)
         [] r.action = "negate" ->
              [Plain((-raw) % 2^r.width) EXCEPT !.overflow =
                 -selected_value(raw, r.width, r.sign) \notin selected_range(r.width, r.sign)]
         [] r.action = "count_ones" -> Plain(Cardinality(ones))
         [] r.action = "leading_zeros" ->
              Plain(IF ones = {} THEN r.width ELSE r.width - 1 - Max(ones))
         [] r.action = "trailing_zeros" -> Plain(IF ones = {} THEN r.width ELSE Min(ones))
         [] r.action = "reverse_bits" ->
              Plain(Word(r.width, LAMBDA i : (r.width - 1 - i) \in ones))

\* A rotation left by a count below the width.
Rotated(raw, width, count) == ((raw * 2^count) % 2^width) + raw \div 2^(width - count)

EffectiveCount(r) ==
    IF r.action \in {"rotate_left", "rotate_right"} THEN r.count % r.width
    ELSE Min({r.count, r.width})

ShiftAction(r) ==
    LET raw == decode_literal(r.value, r)
        selected == selected_value(raw, r.width, r.sign)
        count == EffectiveCount(r)
        ones == Ones(raw, r.width)
    IN CASE r.action = "shift_left" ->
              [raw |-> (raw * 2^count) % 2^r.width,
               overflow |-> selected * 2^r.count \notin selected_range(r.width, r.sign),
               discarded |-> {i \in ones : i >= r.width - count}]
         [] r.action = "logical_shift_right" ->
              [Plain(raw \div 2^count) EXCEPT !.discarded = {i \in ones : i < count}]
         [] r.action = "arithmetic_shift_right" ->
              [Plain((signed_value(raw, r.width) \div 2^r.count) % 2^r.width)
                 EXCEPT !.discarded = {i \in ones : i < count}]
         [] r.action = "rotate_left" -> Plain(Rotated(raw, r.width, count))
         [] r.action = "rotate_right" -> Plain(Rotated(raw, r.width, (r.width - count) % r.width))

\* reverse_chunks
ReversalAction(r, chunk) ==
    LET raw == decode_literal(r.value, r)
        last == r.width \div chunk - 1
    IN Plain(MapThenSumSet(LAMBDA k : ((raw \div 2^(k * chunk)) % 2^chunk) * 2^((last - k) * chunk),
                           0..last))

\* extract and insert of the field at r.offset.
FieldAction(r) ==
    LET raw == decode_literal(r.value, r)
        field == (raw \div 2^r.offset) % 2^r.fieldWidth
    IN IF r.action = "extract" THEN Plain(field)
       ELSE Plain(raw + (r.field - field) * 2^r.offset)

PowersOfTwo == {2^i : i \in 0..16}

AlignAction(r) ==
    LET value == decode_literal(r.value, r)
        down == value - (value % r.alignment)
        up == (value + r.alignment - 1) - ((value + r.alignment - 1) % r.alignment)
    IN IF r.action = "align_down" THEN Plain(down)
       ELSE [Plain(up % 2^r.width) EXCEPT !.overflow = up \notin selected_range(r.width, r.sign)]

\* The checks of the group an action belongs to, and what it computes.
BitwiseChecks(r) ==
    CASE r.action \in BinaryActions -> decode_checks(r.left, r) \o decode_checks(r.right, r)
      [] r.action \in UnaryActions \cup {"reverse_bytes"} -> decode_checks(r.value, r)
      [] r.action \in ShiftActions ->
           decode_checks(r.value, r) \o integer_arg(r.count, 0, MaxCount)
           \o << <<r.action = "arithmetic_shift_right" => r.sign = "twos_complement", "E_INPUT">> >>
      [] r.action = "reverse_words" ->
           decode_checks(r.value, r) \o << <<r.width % (2 * ByteWidth) = 0, "E_INPUT">> >>
      [] r.action \in {"extract", "insert"} ->
           decode_checks(r.value, r)
           \o << <<r.offset + r.fieldWidth <= r.width, "E_INPUT">>,
                 <<r.action = "insert" => r.field # NotANumber /\ r.field >= 0, "E_INPUT">>,
                 <<r.action = "insert" => r.field < 2^r.fieldWidth, "E_LIMIT">> >>
      [] OTHER ->
           decode_checks(r.value, r)
           \o << <<r.sign = "unsigned", "E_INPUT">>, <<r.mode = "value", "E_INPUT">>,
                 <<r.alignment \in PowersOfTwo, "E_INPUT">> >>

BitwiseValue(r) ==
    CASE r.action \in BinaryActions -> BinaryAction(r)
      [] r.action \in UnaryActions -> UnaryAction(r)
      [] r.action \in ShiftActions -> ShiftAction(r)
      [] r.action = "reverse_bytes" -> ReversalAction(r, ByteWidth)
      [] r.action = "reverse_words" -> ReversalAction(r, 2 * ByteWidth)
      [] r.action \in {"extract", "insert"} -> FieldAction(r)
      [] OTHER -> AlignAction(r)

bitwise(r) ==
    LET value == BitwiseValue(r) IN
    Handled(common(r) \o BitwiseChecks(r),
            [word |-> representation(value.raw, r), overflow |-> value.overflow,
             truncated |-> value.discarded # {}])

-----------------------------------------------------------------------------
(* integer.machine_arithmetic                                              *)

divide(dividend, divisor, mode) ==
    CASE mode = "floor" -> IF divisor > 0 THEN dividend \div divisor ELSE (-dividend) \div (-divisor)
      [] mode = "euclidean" -> IF divisor > 0 THEN dividend \div divisor ELSE -(dividend \div (-divisor))
      [] mode = "truncating" ->
           IF (dividend < 0) # (divisor < 0) THEN -(Abs(dividend) \div Abs(divisor))
           ELSE Abs(dividend) \div Abs(divisor)

Mathematical(r, left, right) ==
    CASE r.action = "add" -> left + right
      [] r.action = "subtract" -> left - right
      [] r.action = "multiply" -> left * right
      [] r.action = "divide" -> divide(left, right, r.division)
      [] r.action = "remainder" -> left - right * divide(left, right, r.division)

\* checked gives no value on overflow, saturating the nearest bound.
machine_arithmetic(r) ==
    LET left == selected_value(decode_literal(r.left, r), r.width, r.sign)
        right == selected_value(decode_literal(r.right, r), r.width, r.sign)
        value == Mathematical(r, left, right)
        range == selected_range(r.width, r.sign)
        selected == IF r.overflow = "saturating" THEN Min({Max({value, Min(range)}), Max(range)})
                    ELSE value
    IN Handled(common(r) \o decode_checks(r.left, r) \o decode_checks(r.right, r)
               \o << <<r.action \in {"divide", "remainder"} => right # 0, "E_DOMAIN">> >>,
               [mathematical |-> value, overflow |-> value \notin range,
                outcome |-> IF value \notin range /\ r.overflow = "checked" THEN "overflow" ELSE "value",
                word |-> representation(selected % 2^r.width, r)])

-----------------------------------------------------------------------------
Formats == [width : BitWidths \cup {OtherWidth}, sign : Signedness, mode : InputModes]

RepresentCall ==
    \E f \in Formats, v \in Literals :
        LET r == f @@ [value |-> v] IN call' = [op |-> "represent", r |-> r, out |-> Represent(r)]

BitwiseCall(r) == call' = [op |-> "bitwise", r |-> r, out |-> bitwise(r)]

BinaryCall ==
    \E f \in Formats, a \in BinaryActions, x, y \in Literals :
        BitwiseCall(f @@ [action |-> a, left |-> x, right |-> y])
UnaryCall ==
    \E f \in Formats, a \in UnaryActions \cup {"reverse_bytes", "reverse_words"}, v \in Literals :
        BitwiseCall(f @@ [action |-> a, value |-> v])
ShiftCall ==
    \E f \in Formats, a \in ShiftActions, v \in Literals, n \in Counts :
        BitwiseCall(f @@ [action |-> a, value |-> v, count |-> n])
FieldCall ==
    \E f \in Formats, a \in {"extract", "insert"}, v, x \in Literals, o \in 0..3, n \in {1, 2} :
        /\ a = "extract" => x = v
        /\ BitwiseCall(f @@ [action |-> a, value |-> v, offset |-> o, fieldWidth |-> n, field |-> x])
AlignCall ==
    \E f \in Formats, a \in {"align_up", "align_down"}, v \in Literals, n \in Alignments :
        BitwiseCall(f @@ [action |-> a, value |-> v, alignment |-> n])
ArithmeticCall ==
    \E f \in Formats, a \in {"add", "subtract", "multiply", "divide", "remainder"},
       x, y \in Literals, o \in {"checked", "wrapping", "saturating"}, d \in DivisionModes :
        /\ a \in {"divide", "remainder"} \/ d = "truncating"
        /\ LET r == [width |-> f.width, sign |-> f.sign, mode |-> f.mode, action |-> a,
                     left |-> x, right |-> y, overflow |-> o, division |-> d]
           IN call' = [op |-> "machine_arithmetic", r |-> r, out |-> machine_arithmetic(r)]

Next == RepresentCall \/ BinaryCall \/ UnaryCall \/ ShiftCall \/ FieldCall \/ AlignCall
        \/ ArithmeticCall

-----------------------------------------------------------------------------
(* Reference definitions: what the results mean as numbers.                *)

Accepted(op) == call.op = op /\ call.out.status = "ok"

\* represent and bitwise, against arithmetic on the numbers the words stand
\* for: overflow is flagged exactly when the selected reading is not the
\* mathematical result, a shift is flagged as truncating exactly when it loses
\* value, a rotation is a multiplication modulo 2^w - 1 that the opposite one
\* undoes, reversals are involutions, an inserted field is read back.
BitwiseFaithful ==
    /\ Accepted("represent") =>
         LET r == call.r  word == call.out.result
         IN r.value = IF r.mode = "bits" THEN word.unsigned ELSE word.decimal
    /\ Accepted("bitwise") =>
         LET r == call.r
             res == call.out.result
             word == res.word
             raw == decode_literal(r.value, r)
             value == selected_value(raw, r.width, r.sign)
             Of(action) == BinaryAction([r EXCEPT !.action = action]).raw
             Again(action, x) == BitwiseValue([r EXCEPT !.action = action, !.value = x]).raw
         IN CASE r.action \in BinaryActions ->
                   LET left == decode_literal(r.left, r)  right == decode_literal(r.right, r) IN
                   /\ Of("and") + Of("or") = left + right
                   /\ Of("xor") = Of("or") - Of("and") /\ Of("nor") = 2^r.width - 1 - Of("or")
                   /\ word.unsigned = Of(r.action)
              [] r.action = "not" -> word.signed = -signed_value(raw, r.width) - 1
              [] r.action = "negate" -> res.overflow <=> word.decimal # -value
              [] r.action = "count_ones" ->
                   word.unsigned + Cardinality({i \in 0..(r.width - 1) : Bit(raw, i) = 0}) = r.width
              [] r.action = "leading_zeros" ->
                   raw < 2^(r.width - word.unsigned) /\ (raw > 0 => 2 * raw >= 2^(r.width - word.unsigned))
              [] r.action = "trailing_zeros" ->
                   raw % 2^word.unsigned = 0 /\ (raw > 0 => raw % 2^(word.unsigned + 1) # 0)
              [] r.action \in {"reverse_bits", "reverse_bytes", "reverse_words"} ->
                   /\ Again(r.action, word.unsigned) = raw
                   /\ Cardinality(Ones(word.unsigned, r.width)) = Cardinality(Ones(raw, r.width))
              [] r.action = "shift_left" ->
                   /\ res.overflow <=> word.decimal # value * 2^r.count
                   /\ res.truncated <=> word.unsigned # raw * 2^r.count
              [] r.action \in {"logical_shift_right", "arithmetic_shift_right"} ->
                   LET start == IF r.action = "logical_shift_right" THEN raw ELSE value
                       end == IF r.action = "logical_shift_right" THEN word.unsigned ELSE word.signed
                   IN /\ end * 2^r.count <= start /\ start < (end + 1) * 2^r.count
                      /\ res.truncated <=> end * 2^r.count # start
              [] r.action = "rotate_left" ->
                   /\ (word.unsigned - raw * 2^(r.count % r.width)) % (2^r.width - 1) = 0
                   /\ Again("rotate_right", word.unsigned) = raw
              [] r.action = "rotate_right" -> Again("rotate_left", word.unsigned) = raw
              [] r.action = "extract" -> Again("insert", raw) = raw \/ r.field # word.unsigned
              [] r.action = "insert" ->
                   /\ Again("extract", word.unsigned) = r.field
                   /\ \A i \in 0..(r.width - 1) \ r.offset..(r.offset + r.fieldWidth - 1) :
                        Bit(word.unsigned, i) = Bit(raw, i)
              [] r.action = "align_down" ->
                   word.unsigned % r.alignment = 0 /\ value - word.unsigned \in 0..(r.alignment - 1)
              [] r.action = "align_up" ->
                   LET up == IF res.overflow THEN word.unsigned + 2^r.width ELSE word.unsigned
                   IN r.alignment <= 2^r.width =>
                        up % r.alignment = 0 /\ up - value \in 0..(r.alignment - 1)

\* machine_arithmetic: the overflow flag tells whether the word reads as the
\* mathematical result; a wrapped word is congruent to it, a saturated one the
\* nearest there is; each division mode gives the remainder its sign.
ArithmeticFaithful ==
    Accepted("machine_arithmetic") =>
      LET r == call.r
          res == call.out.result
          value == res.mathematical
          left == selected_value(decode_literal(r.left, r), r.width, r.sign)
          right == selected_value(decode_literal(r.right, r), r.width, r.sign)
          remainder == IF r.action = "divide" THEN left - right * value ELSE value
      IN /\ res.overflow <=> res.word.decimal # value
         /\ r.overflow # "saturating" => (res.word.unsigned - value) % 2^r.width = 0
         /\ r.overflow = "saturating" =>
              \A x \in selected_range(r.width, r.sign) :
                 Abs(res.word.decimal - value) <= Abs(x - value)
         /\ r.action \in {"divide", "remainder"} =>
              /\ Abs(remainder) < Abs(right) /\ (left - remainder) % Abs(right) = 0
              /\ CASE r.division = "truncating" -> Sign(remainder) \in {0, Sign(left)}
                   [] r.division = "floor" -> Sign(remainder) \in {0, Sign(right)}
                   [] r.division = "euclidean" -> remainder >= 0
=============================================================================
