--------------------------- MODULE CalculatorStore ---------------------------
(***************************************************************************)
(* The calculator's model object:                                          *)
(* Sources/MathAnchorCore/Stores/CalculatorStore.swift, with the draft of  *)
(* CalculatorExpression.swift and the persistence of HistoryStore.swift.   *)
(*                                                                         *)
(* All of it runs on the main actor, so an action is one user operation or *)
(* the continuation of an evaluation task after its await.  A result is    *)
(* represented by the submission it was computed from.                     *)
(***************************************************************************)
EXTENDS Naturals, Sequences, FiniteSets, SequencesExt, FiniteSetsExt

CONSTANTS
    Keys,                   \* the tokens of the keypad in use
    maximumOperandDigits,   \* 18 in the code
    HistoryLimit,           \* 100 in the code
    MaxLength,              \* bound: tokens of the entry
    MaxOpened,              \* bound: tokens of an entry with an exponent in it
    MaxEvaluated,           \* bound: the same once anything was evaluated or stored
    MaxEvaluations,               \* bound: evaluation tasks in flight
    MaxUndo                 \* bound: remembered transformations

-----------------------------------------------------------------------------
(* Editing and translation of the entered notation:                        *)
(* Support/ExpressionEditing.swift and the lexical helpers of the store.   *)
(*                                                                         *)
(* An expression is a sequence of tokens: the digits "0" and "d" (any      *)
(* other), ".", the operators, the parentheses, "%", and the words "v"     *)
(* (a bound value or a constant), "e", "sin", "asin" and "log".            *)
(* "/100", "*pi/180" and "*180/pi" occur in executable forms only.         *)

Digits == {"0", "d"}
Operators == {"+", "-", "*", "/", "^"}
Words == {"v", "e", "sin", "asin", "log"}

Tokens == Digits \cup Operators \cup Words \cup {".", "(", ")", "%"}

NoEdit == <<"no", "edit">>     \* nil of an optional edit

endsWithOperatorOrOpeningParenthesis(s) ==
    s = <<>> \/ Last(s) \in Operators \cup {"("}
endsNonNumericValue(s) == s # <<>> /\ Last(s) \in Words \cup {")", "%"}
endsValue(s) == endsNonNumericValue(s) \/ (s # <<>> /\ Last(s) \in Digits)

unmatchedOpeningParentheses(s) ==
    FoldLeft(LAMBDA d, t : CASE t = "(" -> d + 1
                             [] t = ")" /\ d > 0 -> d - 1
                             [] OTHER -> d, 0, s)

\* What evaluate submits: the entry with its open groups closed.
Closed(s) == s \o [i \in 1..unmatchedOpeningParentheses(s) |-> ")"]

\* Where the number being entered starts, 0 for nil: no digit at the end, or the
\* digits just after the "e" of an exponent or of an entry that starts with it (a
\* sign in between makes the digits a number of their own).
trailingNumberStart(s) ==
    LET start == Min({i \in 1..(Len(s) + 1) :
                        \A j \in i..Len(s) : s[j] \in Digits \cup {"."}})
        exponent == /\ start > 1 /\ s[start - 1] = "e"
                    /\ start = 2 \/ s[start - 2] \in Digits \cup {"."}
    IN IF s = <<>> \/ Last(s) \notin Digits \/ exponent THEN 0 ELSE start

trailingNumberDigitCount(s) ==
    LET start == trailingNumberStart(s) IN
    IF start = 0 THEN 0 ELSE Cardinality({i \in start..Len(s) : s[i] \in Digits})

\* Mutant: only a point that was just typed is seen.
endsWithDecimal(s) == s # <<>> /\ Last(s) = "."

currentNumberContainsDecimal(s) ==
    \E i \in DOMAIN s : /\ s[i] = "."
                        /\ \A j \in i..Len(s) : s[j] \in Digits \cup {".", "e"}

-----------------------------------------------------------------------------
\* Index just past the last "(" that nothing closes, scanning backward.
innermostGroupStart(s) ==
    LET closers[i \in 1..(Len(s) + 1)] ==
          IF i > Len(s) THEN 0
          ELSE CASE s[i] = ")" -> closers[i + 1] + 1
                 [] s[i] = "(" /\ closers[i + 1] > 0 -> closers[i + 1] - 1
                 [] OTHER -> closers[i + 1]
        open == {i \in DOMAIN s : s[i] = "(" /\ closers[i + 1] = 0}
    IN IF open = {} THEN 1 ELSE Max(open) + 1

isBinaryOperator(s, i) ==
    /\ s[i] \in Operators
    /\ i > 1 /\ i < Len(s)
    /\ s[i - 1] \notin Operators \cup {"("}
    /\ ~(/\ s[i] \in {"+", "-"} /\ s[i - 1] = "e"
         /\ i > 2 /\ s[i - 2] \in Digits \cup {"."})

NoOperand == [operand |-> <<>>]

\* The operand an edit addresses, what is left of it inside its group, and
\* the operator between them ("none" without one).
trailingOperand(s) ==
    LET start == innermostGroupStart(s)
        depth[i \in (start - 1)..Len(s)] ==
          IF i < start THEN 0
          ELSE CASE s[i] = "(" -> depth[i - 1] + 1
                 [] s[i] = ")" /\ depth[i - 1] > 0 -> depth[i - 1] - 1
                 [] OTHER -> depth[i - 1]
        ops == {i \in start..Len(s) : depth[i] = 0 /\ isBinaryOperator(s, i)}
        prefix == SubSeq(s, 1, start - 1)
    IN IF start > Len(s) THEN NoOperand
       ELSE IF ops = {}
       THEN [prefix |-> prefix, left |-> <<>>, op |-> "none",
             operand |-> SubSeq(s, start, Len(s))]
       ELSE [prefix |-> prefix, left |-> SubSeq(s, start, Max(ops) - 1),
             op |-> s[Max(ops)], operand |-> SubSeq(s, Max(ops) + 1, Len(s))]

replacingTrailingOperand(s, new) ==
    LET split == trailingOperand(s) IN
    IF split = NoOperand THEN NoEdit
    ELSE IF split.op = "none" THEN split.prefix \o new
    ELSE split.prefix \o split.left \o <<split.op>> \o new

\* "-(x)" and "-x" both become x.
removingUnaryMinus(operand) ==
    IF Len(operand) > 2 /\ operand[1] = "-" /\ operand[2] = "(" /\ Last(operand) = ")"
    THEN SubSeq(operand, 3, Len(operand) - 1)
    ELSE Tail(operand)

togglingSign(s) ==
    LET split == trailingOperand(s)
        flipped == CASE split.op = "+" -> "-" [] split.op = "-" -> "+"
    IN IF split = NoOperand THEN NoEdit
       ELSE IF split.op \in {"+", "-"}
       THEN split.prefix \o split.left \o <<flipped>> \o split.operand
       ELSE replacingTrailingOperand(s,
              IF Head(split.operand) = "-" THEN removingUnaryMinus(split.operand)
              ELSE <<"-">> \o split.operand)

-----------------------------------------------------------------------------
(* The executable form.                                                    *)

\* Every "(" of s is closed before its end, and only the one at i there.
closesAtEnd(s, i) ==
    /\ i < Len(s) /\ s[i] = "(" /\ Last(s) = ")"
    /\ \A j \in i..(Len(s) - 1) : unmatchedOpeningParentheses(SubSeq(s, i, j)) > 0

closedGroupInner(s) == closesAtEnd(s, 1)
namedCall(s) == Len(s) > 2 /\ s[1] \in Words /\ closesAtEnd(s, 2)

Paren(s) == <<"(">> \o s \o <<")">>

\* evaluationExpression and translatedOperand call each other: form names the one.
ExecutableForm(unit) ==
    LET Translated[form \in {"expression", "operand"}, s \in Seq(Tokens)] ==
          LET isPercent == s # <<>> /\ Last(s) = "%"
              body == IF isPercent THEN Front(s) ELSE s
              split == trailingOperand(body)
              left == Translated["expression", split.left]
              operand == Translated["expression", split.operand]
              argument == Translated["expression", SubSeq(s, 3, Len(s) - 1)]
              named == namedCall(s)
          IN CASE s = <<>> -> <<>>
               [] form = "expression" /\ isPercent /\ split = NoOperand -> body \o <<"/100">>
               [] form = "expression" /\ isPercent /\ split.op = "none" ->
                    split.prefix \o Paren(operand) \o <<"/100">>
               [] form = "expression" /\ isPercent /\ split.op \in {"+", "-"} ->
                    split.prefix \o left \o <<split.op>>
                    \o Paren(Paren(left) \o <<"*">> \o Paren(operand) \o <<"/100">>)
               [] form = "expression" /\ isPercent /\ split.op \notin {"none", "+", "-"} ->
                    split.prefix \o left \o <<split.op>> \o Paren(Paren(operand) \o <<"/100">>)
               [] form = "expression" /\ ~isPercent /\ (split = NoOperand \/ split.op = "none") ->
                    Translated["operand", s]
               [] form = "expression" /\ ~isPercent /\ split # NoOperand /\ split.op # "none" ->
                    left \o <<split.op>> \o operand
               [] form = "operand" /\ s # <<>> /\ s[1] \in {"-", "+"} ->
                    <<s[1]>> \o Translated["operand", Tail(s)]
               [] form = "operand" /\ s # <<>> /\ closedGroupInner(s) ->
                    Paren(Translated["expression", SubSeq(s, 2, Len(s) - 1)])
               [] form = "operand" /\ named /\ s[1] = "sin" /\ unit = "degrees" ->
                    <<"sin">> \o Paren(Paren(argument) \o <<"*pi/180">>)
               [] form = "operand" /\ named /\ s[1] = "asin" /\ unit = "degrees" ->
                    Paren(<<"asin">> \o Paren(argument) \o <<"*180/pi">>)
               [] form = "operand" /\ named /\ ~(s[1] \in {"sin", "asin"} /\ unit = "degrees") ->
                    <<s[1]>> \o Paren(argument)
               [] OTHER -> s
    IN Translated
evaluationExpression(s, unit) == ExecutableForm(unit)["expression", s]

-----------------------------------------------------------------------------
(* The store.                                                              *)

ASSUME StoreAssumption ==
    /\ Keys \subseteq Tokens
    /\ {maximumOperandDigits, HistoryLimit, MaxLength, MaxOpened, MaxEvaluated, MaxEvaluations,
      MaxUndo}
         \subseteq Nat \ {0}

VARIABLES
    expression,         \* draft.source
    angleUnit,
    showing,        \* showingResult
    shown,          \* the expression whose result the display shows
    failed,         \* errorMessage is set
    activeEvaluationID,         \* activeEvaluationID, 0 for nil
    evaluations,          \* evaluations in flight: id, submission, revision unchanged
    undo,           \* semanticUndo
    memory,         \* memory and memoryEvaluation: "none" or "set"
    history,        \* newest first
    saved           \* what UserDefaults holds

calculatorEntry == <<expression, showing, shown, failed, undo>>
calculatorVars == <<expression, angleUnit, showing, shown, failed, activeEvaluationID, evaluations, undo,
                    memory, history, saved>>

NoUndo == [s \in {} |-> <<>>]
Submission == [src |-> Closed(expression), unit |-> angleUnit]

\* AngleUnit.applies: the expression calls a trigonometric function.
applies(s) == \E i \in 1..(Len(s) - 1) : s[i] \in {"sin", "asin"} /\ s[i + 1] = "("

\* A row of the history: the unit is kept only where it matters.
HistoryEntry(of) == [src |-> of.src, unit |-> IF applies(of.src) THEN of.unit ELSE "none"]

prefix(rows) == SubSeq(rows, 1, Min({Len(rows), HistoryLimit}))

\* HistoryStore.load: rows from before angle units were radians; a store that
\* cannot be decoded counts as empty.
Unreadable == <<[src |-> <<>>, unit |-> "undecodable"]>>
migratingLegacyExpression(row) ==
    IF row.unit = "none" THEN HistoryEntry([row EXCEPT !.unit = "radians"]) ELSE row
load(stored) ==
    IF stored = Unreadable THEN <<>>
    ELSE [i \in DOMAIN stored |-> migratingLegacyExpression(stored[i])]
LegacyRow == [src |-> <<"sin", "(", "d", ")">>, unit |-> "none"]

CalculatorInit ==
    /\ expression = <<>> /\ angleUnit = "radians"
    /\ showing = FALSE /\ shown = <<>> /\ failed = FALSE
    /\ activeEvaluationID = 0 /\ evaluations = {}
    /\ undo = NoUndo /\ memory = "none"
    /\ \E stored \in {<<>>, Unreadable, <<LegacyRow>>} :
         /\ history = load(stored)
         /\ saved = IF stored = Unreadable THEN stored ELSE prefix(history)

-----------------------------------------------------------------------------
\* Mutant: the evaluation under way is left alone.
evaluationLeftPending == UNCHANGED <<activeEvaluationID, evaluations>>

\* Cancels the task, the runtime's pending evaluation, and bumps the revision.
invalidatePendingEvaluation ==
    /\ activeEvaluationID' = 0
    /\ evaluations' = {[t EXCEPT !.unchanged = FALSE] : t \in evaluations}

Short == Len(expression) <= MaxEvaluated /\ \A s \in DOMAIN undo : Len(s) <= MaxEvaluated
Unused == evaluations = {} /\ history = <<>> /\ memory = "none" /\ angleUnit = "radians"

\* A new draft replaces the entry: updateEntryDisplay clears what was shown.
Enter(s) ==
    /\ Len(s) <= CASE ~Unused -> MaxEvaluated
                  [] Unused /\ "e" \in Range(s) -> MaxOpened
                  [] OTHER -> MaxLength
    /\ expression' = s
    /\ showing' = FALSE /\ shown' = <<>> /\ failed' = FALSE
    /\ invalidatePendingEvaluation
    /\ UNCHANGED <<angleUnit, memory, history, saved>>

\* prepareResultForEditing: the shown result becomes one bound operand.
Prepared == IF showing THEN <<"v">> ELSE expression
KeptUndo == IF showing THEN NoUndo ELSE undo

normalizedAppend(s, t) ==
    LET token == IF t \in {"sin", "asin", "log"} THEN <<t, "(">> ELSE <<t>>
        number == trailingNumberStart(s)
    IN CASE t \in Operators /\ s = <<>> -> IF t = "-" THEN <<"-">> ELSE NoEdit
         [] t \in Operators /\ s # <<>> /\ Last(s) = "(" ->
              IF t = "-" THEN Append(s, "-") ELSE NoEdit
         [] t \in Operators /\ s # <<>> /\ Last(s) \in Operators -> Append(Front(s), t)
         [] t = "." /\ currentNumberContainsDecimal(s) -> NoEdit
         [] t = "." /\ endsWithOperatorOrOpeningParenthesis(s) -> s \o <<"0", ".">>
         [] t = "." /\ endsNonNumericValue(s) -> s \o <<"*", "0", ".">>
         [] t = ")" /\ (\/ unmatchedOpeningParentheses(s) = 0
                        \/ endsWithOperatorOrOpeningParenthesis(s)) -> NoEdit
         [] t \in Digits /\ number > 0 /\ SubSeq(s, number, Len(s)) = <<"0">> ->
              Append(Front(s), t)
         [] t \in Digits /\ trailingNumberDigitCount(s) >= maximumOperandDigits -> NoEdit
         [] (t \in Words \cup {"("} /\ endsValue(s))
              \/ (t \in Digits /\ endsNonNumericValue(s)) -> s \o <<"*">> \o token
         [] OTHER -> s \o token

\* A key after a result continues it with an operator or starts afresh.
append(t) ==
    LET s == IF ~showing THEN expression ELSE IF t \in Operators THEN <<"v">> ELSE <<>>
        edit == normalizedAppend(s, t)
    IN /\ ~(showing /\ t = ")")
       /\ edit # NoEdit
       /\ Enter(edit)
       /\ undo' = KeptUndo

\* transformExpression: the edit can be undone by one Delete.
transformExpression(edited) ==
    /\ Cardinality(DOMAIN undo) < MaxUndo
    /\ Enter(edited)
    /\ undo' = [s \in DOMAIN KeptUndo \cup {edited} |->
                  IF s = edited THEN Prepared ELSE KeptUndo[s]]

\* toggleSign, applyFunction and reciprocal edit the trailing operand, or
\* open the group when there is none to edit.
calculatorToggleSign ==
    \/ expression = <<>> /\ append("-")
    \/ /\ expression # <<>>
       /\ LET edited == togglingSign(Prepared) IN
          edited # NoEdit /\ transformExpression(edited)

applyFunction(name) ==
    \/ endsWithOperatorOrOpeningParenthesis(expression) /\ append(name)
    \/ /\ ~endsWithOperatorOrOpeningParenthesis(expression)
       /\ transformExpression(replacingTrailingOperand(Prepared,
            <<name>> \o Paren(trailingOperand(Prepared).operand)))

reciprocal ==
    IF endsWithOperatorOrOpeningParenthesis(expression)
    THEN Enter((IF showing THEN <<>> ELSE expression) \o <<"d", "/", "(">>) /\ undo' = KeptUndo
    ELSE transformExpression(replacingTrailingOperand(Prepared,
           <<"d", "/">> \o Paren(trailingOperand(Prepared).operand)))

raiseCurrentExpression ==
    /\ expression # <<>>
    /\ transformExpression(Paren(Prepared) \o <<"^", "d">>)

percent ==
    /\ expression # <<>> /\ ~endsWithOperatorOrOpeningParenthesis(expression)
    /\ Last(Prepared) # "%"
    /\ transformExpression(Append(Prepared, "%"))

\* How a real value is displayed.
DisplayTexts ==
    {<<"0">>, <<"d">>, <<"-", "d">>, <<"d", ".", "d">>, <<"d", ".", "d", "e", "-", "d">>}

\* removeLast: the text of a bound value becomes ordinary input, and a name may
\* leave a shorter one, which no function has.
removeLast(s) ==
    CASE Last(s) = "v" -> {Front(s) \o Front(text) : text \in DisplayTexts} \cup {s}
      [] Last(s) \in {"sin", "asin", "log"} -> {Append(Front(s), "v")}
      [] OTHER -> {Front(s)}

\* Delete: open the displayed value, undo a transformation, or remove a character.
calculatorBackspace ==
    /\ expression # <<>>
    /\ CASE showing -> (\E text \in DisplayTexts : Enter(text)) /\ undo' = NoUndo
         [] ~showing /\ expression \in DOMAIN undo ->
              /\ Enter(undo[expression])
              /\ undo' = [s \in DOMAIN undo \ {expression} |-> undo[s]]
         [] OTHER ->
              /\ \E s \in removeLast(expression) : Enter(s)
              /\ UNCHANGED undo

\* clear, and replaceExpression in general.
calculatorClear == Enter(<<>>) /\ undo' = NoUndo

selectAngleUnit(unit) ==
    /\ unit # angleUnit /\ Short
    /\ angleUnit' = unit
    /\ invalidatePendingEvaluation
    /\ UNCHANGED <<calculatorEntry, memory, history, saved>>

\* selectMode invalidates too: nothing of the entry changes.
selectMode ==
    /\ activeEvaluationID # 0
    /\ invalidatePendingEvaluation
    /\ UNCHANGED <<calculatorEntry, angleUnit, memory, history, saved>>

-----------------------------------------------------------------------------
evaluate ==
    /\ activeEvaluationID = 0 /\ expression # <<>> /\ ~showing
    /\ Cardinality(evaluations) < MaxEvaluations /\ Short
    /\ \E id \in 1..MaxEvaluations :
         /\ \A t \in evaluations : t.id # id
         /\ activeEvaluationID' = id
         /\ evaluations' = evaluations \cup {[id |-> id, of |-> Submission, unchanged |-> TRUE]}
    /\ failed' = FALSE
    /\ UNCHANGED <<expression, angleUnit, showing, shown, undo, memory, history, saved>>

isCurrentEvaluation(t) == activeEvaluationID = t.id /\ t.unchanged

\* The await returned a result.
Evaluated(t) ==
    /\ t \in evaluations
    /\ IF isCurrentEvaluation(t)
       THEN /\ activeEvaluationID' = 0
            /\ expression' = t.of.src
            /\ showing' = TRUE /\ shown' = t.of.src
            /\ history' = prefix(<<HistoryEntry(t.of)>> \o history)
            /\ saved' = prefix(history')
       ELSE UNCHANGED <<activeEvaluationID, expression, showing, shown, history, saved>>
    /\ evaluations' = evaluations \ {t}
    /\ UNCHANGED <<angleUnit, failed, undo, memory>>

\* The await threw.
EvaluationFailed(t) ==
    /\ t \in evaluations
    /\ IF isCurrentEvaluation(t)
       THEN activeEvaluationID' = 0 /\ failed' = TRUE
       ELSE UNCHANGED <<activeEvaluationID, failed>>
    /\ evaluations' = evaluations \ {t}
    /\ UNCHANGED <<expression, angleUnit, showing, shown, undo, memory, history, saved>>

-----------------------------------------------------------------------------
\* A history row is put back with its result and its angle unit.
restore(i) ==
    /\ i \in DOMAIN history
    /\ expression' = history[i].src
    /\ angleUnit' = IF history[i].unit = "none" THEN angleUnit ELSE history[i].unit
    /\ showing' = TRUE /\ shown' = history[i].src /\ failed' = FALSE
    /\ invalidatePendingEvaluation
    /\ undo' = NoUndo
    /\ UNCHANGED <<memory, history, saved>>

clearHistory ==
    /\ history' = <<>> /\ saved' = <<>>
    /\ UNCHANGED <<calculatorEntry, angleUnit, activeEvaluationID, evaluations, memory>>

canStoreMemory ==
    /\ activeEvaluationID = 0 /\ ~failed
    /\ expression = <<>> \/ ~endsWithOperatorOrOpeningParenthesis(expression)

updateMemory ==
    /\ canStoreMemory /\ Short
    /\ memory' = "set"
    /\ UNCHANGED <<calculatorEntry, angleUnit, activeEvaluationID, evaluations, history, saved>>

memoryClear ==
    /\ memory' = "none"
    /\ UNCHANGED <<calculatorEntry, angleUnit, activeEvaluationID, evaluations, history, saved>>

memoryRecall ==
    /\ memory = "set"
    /\ Enter(IF showing \/ expression = <<>> THEN <<"v">>
             ELSE expression \o (IF endsValue(expression) THEN <<"*">> ELSE <<>>) \o Paren(<<"v">>))
    /\ UNCHANGED undo

-----------------------------------------------------------------------------
Edit ==
    \/ \E t \in Keys \ {"%"} : append(t)
    \/ \E f \in Keys \cap {"sin", "asin", "log"} : applyFunction(f)
    \/ calculatorToggleSign \/ reciprocal \/ raiseCurrentExpression \/ calculatorBackspace \/ calculatorClear
    \/ "%" \in Keys /\ percent

Evaluation ==
    \/ evaluate
    \/ \E t \in evaluations : Evaluated(t) \/ EvaluationFailed(t)
    \/ \E unit \in {"radians", "degrees"} : selectAngleUnit(unit)
    \/ selectMode
    \/ \E i \in DOMAIN history : restore(i)
    \/ clearHistory \/ updateMemory \/ memoryClear \/ memoryRecall

CalculatorNext == Edit \/ Evaluation
CalculatorSpec == CalculatorInit /\ [][CalculatorNext]_calculatorVars

-----------------------------------------------------------------------------
\* Whatever is edited, recalled, restored or cancelled while evaluations are
\* in flight, the one whose result will be accepted is that of the entry and
\* the angle unit on screen, a result on display is that of the expression
\* above it, and the rows of the history are the ones saved
\* (isCurrentEvaluation, restore, HistoryStore).
ResultBelongsToEntry ==
    /\ \A t \in evaluations : isCurrentEvaluation(t) => t.of = Submission
    /\ showing => shown = expression /\ activeEvaluationID = 0
    /\ saved # Unreadable => saved = history
    /\ Len(history) <= HistoryLimit

\* An entry typed on the keypad never closes a group that is not open, and no
\* run of digits and points in it has two points or a leading zero, which the
\* core would reject (normalizedAppend, backspace, togglingSign).  After the sign
\* of an exponent a run of its own starts: a result opened by Delete may be
\* extended to 1.5e-7., which the core rejects and nothing here forbids.
EntryIsLexical ==
    /\ \A i \in DOMAIN expression :
         Cardinality({j \in 1..i : expression[j] = ")"}) <= Cardinality({j \in 1..i : expression[j] = "("})
    /\ \A i, j \in DOMAIN expression :
         (i < j /\ \A k \in i..j : expression[k] \in Digits \cup {"."}) =>
           /\ ~(expression[i] = "." /\ expression[j] = ".")
           /\ ~(/\ expression[i] = "0" /\ j = i + 1 /\ expression[j] \in Digits
                /\ (i = 1 \/ expression[i - 1] \notin Digits \cup {"."}))

\* Every operator of s has its operands, and no bare point meets a value: the
\* core's parser rejects anything else.
Complete(s) ==
    /\ ~endsWithOperatorOrOpeningParenthesis(s)
    /\ \A i \in DOMAIN s :
         (i = 1 \/ s[i - 1] \in Operators \cup {"("}) => s[i] \notin {"+", "*", "/", "^", ")"}
    /\ \A i \in 2..Len(s) : s[i - 1] = "." => s[i] \notin Words \cup {"("}

\* The percent sign never reaches the core, where it would mean remainder:
\* the executable form of a complete entry has none, wherever in groups,
\* calls and chains it was typed (evaluationExpression).
PercentIsExpanded ==
    Complete(Closed(expression)) =>
        "%" \notin Range(evaluationExpression(Closed(expression), angleUnit))

\* What the core rejects of an entry the keypad does not produce, exponents of
\* opened results aside.
EntryIsExecutable == EntryIsLexical /\ PercentIsExpanded
=============================================================================
