--------------------------- MODULE ConversionStore ---------------------------
(***************************************************************************)
(* The unit converter and the switch between calculator modes:             *)
(* Sources/MathAnchorCore/Stores/UnitConversionStore.swift,                *)
(* Support/CalculatorModeTransition.swift and the conversion half of       *)
(* CalculatorKeyboardMonitor.swift.                                        *)
(*                                                                         *)
(* All of it runs on the main actor.  An input is "0", "x" (any other that *)
(* was typed), or a result that was swapped back into the input: "r", or   *)
(* "s" for one that is displayed with an exponent.  An output is the pair  *)
(* of units of the conversion it came from.                                *)
(***************************************************************************)
EXTENDS Naturals, FiniteSets

CONSTANTS
    Units, Category,    \* [Units -> categories], "currency" among them
    Results,            \* which of "r" and "s" conversions yield
    MaxTasks            \* bound: conversion tasks in flight

ASSUME ConversionAssumption ==
    /\ "none" \notin Units
    /\ \A u \in Units : \E v \in Units \ {u} : Category[u] = Category[v]
    /\ Results \subseteq {"r", "s"} /\ Results # {}
    /\ MaxTasks \in Nat \ {0}

VARIABLES
    input, fromResult,      \* the input, and inputComesFromResult
    exactInput,             \* inputExecutionValue is set
    source, target,         \* the chosen units
    output,                 \* the conversion shown, or Blank
    exactOutput,            \* exactOutput (and distinctExactResult) is set
    converting,             \* isConverting
    error,                  \* errorMessage is set
    completed,              \* completedSourceUnit and completedTargetUnit
    active, tasks,          \* activeRequestID and the requests in flight
    slow,                   \* isShowingDelayedProgress
    popover, settling,      \* activePopover, and its dismissal still settling
    mode, modePopover,      \* of the calculator store
    deferred                \* CalculatorModeTransition.pendingAction

entry == <<input, fromResult, exactInput, source, target>>
answer == <<output, exactOutput, converting, error, completed, active, tasks, slow>>
panels == <<popover, settling, mode, modePopover, deferred>>
conversionVars == <<entry, answer, panels>>

NoUnits == <<"none", "none">>
Blank == NoUnits
isCurrency(u) == Category[u] = "currency"
alternate(u) == CHOOSE v \in Units \ {u} : Category[v] = Category[u]

ConversionInit ==
    /\ input = "x" /\ fromResult = FALSE /\ exactInput = FALSE
    /\ source \in {u \in Units : ~isCurrency(u)} /\ target = alternate(source)
    /\ output = Blank /\ exactOutput = FALSE /\ converting = FALSE /\ error = FALSE
    /\ completed = NoUnits /\ active = 0 /\ tasks = {} /\ slow = FALSE
    /\ popover = "none" /\ settling = FALSE
    /\ mode = "basic" /\ modePopover = FALSE /\ deferred = "none"

-----------------------------------------------------------------------------
\* scheduleConversion(immediate:forceCurrencyRefresh:), reading the entry as
\* the caller left it.  A value-only edit keeps the last result on display.
scheduleConversion(force) ==
    /\ Cardinality(tasks) < MaxTasks
    /\ \E id \in 1..MaxTasks :
         /\ \A t \in tasks : t.id # id
         /\ active' = id
         /\ tasks' = {[t EXCEPT !.unchanged = FALSE] : t \in tasks}
                     \cup {[id |-> id, unchanged |-> TRUE, units |-> <<source', target'>>]}
    /\ converting' = TRUE /\ error' = FALSE /\ exactOutput' = FALSE /\ slow' = FALSE
    /\ output' = IF completed = <<source', target'>> /\ ~force THEN output ELSE Blank
    /\ UNCHANGED completed

\* Edits of the entry happen on the conversion pad.
OnPad == mode = "conversion"

\* A digit or the point after a swapped-in result starts a new value.
appendDigit ==
    /\ OnPad
    /\ input' = "x"
    /\ fromResult' = FALSE
    /\ exactInput' = (exactInput /\ ~fromResult)
    /\ UNCHANGED <<source, target, panels>>
    /\ scheduleConversion(FALSE)

appendDecimal == appendDigit

\* The sign of the visible input and of its exact value change together;
\* zero has none.
toggleSign ==
    /\ OnPad /\ input # "0"
    /\ UNCHANGED <<entry, panels>>
    /\ scheduleConversion(FALSE)

\* prepareInputForEditing turns an exponent form into "0", and a "0" is not
\* shortened further: nothing is scheduled then.
backspace ==
    /\ OnPad
    /\ fromResult' = FALSE
    /\ exactInput' = (exactInput /\ ~fromResult)
    /\ UNCHANGED <<source, target, panels>>
    /\ IF input = "0" \/ (fromResult /\ input = "s")
       THEN input' = "0" /\ UNCHANGED answer
       ELSE input' \in {"0", "x"} /\ scheduleConversion(FALSE)

clear ==
    /\ OnPad
    /\ input' = "0" /\ fromResult' = FALSE /\ exactInput' = FALSE
    /\ UNCHANGED <<source, target, panels>>
    /\ scheduleConversion(FALSE)

\* Assigning nil to a presented popover starts its dismissal.
Dismissed ==
    /\ popover' = "none"
    /\ settling' = (settling \/ popover # "none")

selectSource(u) ==
    /\ OnPad /\ u # source
    /\ Dismissed
    /\ source' = u
    /\ target' = IF Category[target] # Category[u] \/ target = u THEN alternate(u) ELSE target
    /\ exactInput' = (exactInput /\ ~isCurrency(u))
    /\ UNCHANGED <<input, fromResult, mode, modePopover, deferred>>
    /\ scheduleConversion(FALSE)

selectTarget(u) ==
    /\ OnPad /\ Category[u] = Category[source] /\ u # target
    /\ Dismissed
    /\ target' = u
    /\ UNCHANGED <<input, fromResult, exactInput, source, mode, modePopover, deferred>>
    /\ scheduleConversion(FALSE)

hasCurrentResult == ~converting /\ output # Blank /\ ~error

\* A current result becomes the new input, with its exact value.
swapUnits ==
    /\ OnPad
    /\ source' = target /\ target' = source
    /\ IF hasCurrentResult
       THEN /\ input' \in Results
            /\ fromResult' = TRUE
            /\ exactInput' = exactOutput
       ELSE UNCHANGED <<input, fromResult, exactInput>>
    /\ UNCHANGED panels
    /\ scheduleConversion(FALSE)

refreshNow ==
    /\ OnPad
    /\ UNCHANGED <<entry, panels>>
    /\ scheduleConversion(FALSE)

refreshRates ==
    /\ OnPad /\ isCurrency(source)
    /\ Dismissed
    /\ UNCHANGED <<entry, mode, modePopover, deferred>>
    /\ scheduleConversion(TRUE)

-----------------------------------------------------------------------------
isCurrent(t) == active = t.id /\ t.unchanged

\* The await of a request returned: physical units carry an exact value.
Converted(t) ==
    /\ t \in tasks
    /\ tasks' = tasks \ {t}
    /\ IF isCurrent(t)
       THEN /\ active' = 0 /\ converting' = FALSE /\ slow' = FALSE
            /\ output' = t.units
            /\ exactOutput' \in IF isCurrency(t.units[1]) THEN {exactOutput} ELSE BOOLEAN
            /\ completed' = t.units
       ELSE UNCHANGED <<active, converting, slow, output, exactOutput, completed>>
    /\ UNCHANGED <<entry, error, panels>>

\* It threw.  A request is cancelled only when it is superseded, so the error
\* of the current one is never .cancelled and always reported.
ConversionFailed(t) ==
    /\ t \in tasks
    /\ tasks' = tasks \ {t}
    /\ IF isCurrent(t)
       THEN /\ active' = 0 /\ converting' = FALSE /\ slow' = FALSE
            /\ output' = Blank /\ exactOutput' = FALSE /\ completed' = NoUnits
            /\ error' = TRUE
       ELSE UNCHANGED <<active, converting, slow, output, exactOutput, completed, error>>
    /\ UNCHANGED <<entry, panels>>

\* The progress task of a kept result wakes after 180 ms.
DelayedProgress ==
    /\ \E t \in tasks : isCurrent(t)
    /\ output # Blank /\ ~slow
    /\ slow' = TRUE
    /\ UNCHANGED <<entry, output, exactOutput, converting, error, completed, active,
                   tasks, panels>>

-----------------------------------------------------------------------------
(* Popovers and modes.                                                     *)

setPopover(p, presented) ==
    /\ OnPad
    /\ IF presented
       THEN popover' = p /\ UNCHANGED settling
       ELSE popover = p /\ Dismissed
    /\ UNCHANGED <<entry, answer, mode, modePopover, deferred>>

\* The settle delay since the last dismissal has passed.
Settled ==
    /\ settling /\ popover = "none"
    /\ settling' = FALSE
    /\ UNCHANGED <<entry, answer, popover, mode, modePopover, deferred>>

MustWait == popover # "none" \/ settling \/ deferred # "none"

toggleModeMenu ==
    /\ UNCHANGED <<entry, answer, mode>>
    /\ IF modePopover
       THEN modePopover' = FALSE /\ deferred' = "none" /\ UNCHANGED <<popover, settling>>
       ELSE /\ Dismissed
            /\ modePopover' = ~MustWait
            /\ deferred' = IF MustWait THEN "menu" ELSE "none"

\* Mutant: the request survives the mode it was made in.
deactivateKeepsRequest ==
    /\ slow' = FALSE
    /\ output' = IF converting THEN Blank ELSE output
    /\ exactOutput' = (exactOutput /\ ~converting)
    /\ converting' = FALSE
    /\ UNCHANGED <<error, completed, active, tasks>>

deactivate ==
    /\ active' = 0
    /\ tasks' = {[t EXCEPT !.unchanged = FALSE] : t \in tasks}
    /\ slow' = FALSE
    /\ output' = IF converting THEN Blank ELSE output
    /\ exactOutput' = (exactOutput /\ ~converting)
    /\ converting' = FALSE
    /\ UNCHANGED <<error, completed>>

\* apply(mode): leaving conversion abandons its request, entering it asks for
\* a first result.
apply(m) ==
    /\ mode' = m
    /\ UNCHANGED entry
    /\ CASE mode = "conversion" /\ m # "conversion" -> deactivate
         [] m = "conversion" /\ output = Blank /\ ~converting -> scheduleConversion(FALSE)
         [] OTHER -> UNCHANGED answer

select(m) ==
    LET wait == mode = "conversion" /\ m # "conversion" /\ MustWait IN
    /\ Dismissed
    /\ modePopover' = FALSE
    /\ IF wait
       THEN deferred' = m /\ UNCHANGED <<entry, answer, mode>>
       ELSE deferred' = "none" /\ apply(m)

\* The deferred action runs after the settle delay.
Deferred ==
    /\ deferred # "none" /\ ~settling
    /\ deferred' = "none"
    /\ IF deferred = "menu"
       THEN modePopover' = TRUE /\ UNCHANGED <<entry, answer, mode, popover, settling>>
       ELSE /\ apply(deferred)
            /\ Dismissed
            /\ modePopover' = FALSE

\* Escape closes the mode menu, else a unit popover, else clears the entry.
KeyEscape ==
    CASE modePopover ->
           modePopover' = FALSE /\ UNCHANGED <<entry, answer, popover, settling, mode, deferred>>
      [] ~modePopover /\ popover # "none" ->
           Dismissed /\ UNCHANGED <<entry, answer, mode, modePopover, deferred>>
      [] OTHER -> clear

-----------------------------------------------------------------------------
ConversionNext ==
    \/ appendDigit \/ appendDecimal \/ toggleSign \/ backspace \/ clear
    \/ \E u \in Units : selectSource(u) \/ selectTarget(u)
    \/ swapUnits \/ refreshNow \/ refreshRates
    \/ \E t \in tasks : Converted(t) \/ ConversionFailed(t)
    \/ DelayedProgress
    \/ \E p \in {"sourceUnit", "rateDetails"}, b \in BOOLEAN : setPopover(p, b)
    \/ Settled \/ toggleModeMenu \/ Deferred \/ KeyEscape
    \/ \E m \in {"basic", "conversion"} : select(m)

ConversionSpec == ConversionInit /\ [][ConversionNext]_conversionVars

-----------------------------------------------------------------------------
\* A converter that says it is converting has a request whose answer it will
\* accept; what it shows meanwhile is for the units on screen; it never sits
\* blank in conversion mode with nothing under way, and has nothing under way
\* in another mode (scheduleConversion, deactivate, activate, isCurrent).
ConversionIsLive ==
    /\ converting <=> \E t \in tasks : isCurrent(t)
    /\ output # Blank => output = <<source, target>>
    /\ mode = "conversion" => converting \/ output # Blank \/ error
    /\ mode # "conversion" => ~converting /\ popover = "none"

\* An exact value is only ever submitted for the visible input it belongs to
\* (inputExecutionValue: swapUnits, prepareInputForEditing, selectSource).
ExactBelongsToInput ==
    exactInput => fromResult /\ input \in Results /\ ~isCurrency(source)

\* What the converter shows, and what it submits, are up to date.
ConverterConsistent == ConversionIsLive /\ ExactBelongsToInput

\* Which units and requests there can be.
ConversionTyped ==
    /\ source \in Units /\ target \in Units /\ Category[source] = Category[target]
    /\ tasks \subseteq [id : 1..MaxTasks, unchanged : BOOLEAN, units : Units \X Units]
    /\ mode \in {"basic", "conversion"}
    /\ deferred \in {"none", "menu", "basic", "conversion"}

\* Only the newest request is unchanged, and it is for the units on screen.
RequestsInPlace ==
    /\ \A t, u \in tasks : t.id = u.id => t = u
    /\ \A t \in tasks : t.unchanged => active = t.id /\ t.units = <<source, target>>

\* What is shown is what was completed last, and an exact result is of units that
\* have one.
OutputInPlace ==
    /\ output # Blank => output = completed
    /\ exactOutput => ~converting /\ ~isCurrency(source)

\* Inductive: why the converter never keeps a result of other units.
ConversionInvariant ==
    /\ ConversionTyped /\ RequestsInPlace /\ OutputInPlace
    /\ ConversionIsLive /\ ExactBelongsToInput
=============================================================================
