----------------------------- MODULE DeskProofs -----------------------------
(***************************************************************************)
(* Proofs about the desktop application: the unit converter of             *)
(* ConversionStore for any units, any categories and any number of         *)
(* requests in flight, the runtime client of RuntimeService for any        *)
(* callers, any kinds of request and any number of faults, and the         *)
(* calculator of CalculatorStore for any keypad, any limits and any number *)
(* of evaluations in flight.                                               *)
(***************************************************************************)
EXTENDS RuntimeService, ConversionStore, CalculatorStore, FiniteSetTheorems,
        SequenceTheorems, TLAPS

----------------------------------------------------------------------------
(* The unit converter.                                                     *)

\* Every unit has another one of its category (selectSource).
LEMMA Alternates ==
    ASSUME NEW u \in Units
    PROVE  alternate(u) \in Units /\ Category[alternate(u)] = Category[u]
<1>1. \E v \in Units \ {u} : Category[v] = Category[u]
  BY ConversionAssumption
<1> QED
  BY <1>1 DEF alternate

\* A new request is the only unchanged one, whatever was under way, and nothing
\* that belongs to other units stays on display.
LEMMA ScheduleStep ==
    ASSUME ConversionInvariant,
           NEW force \in BOOLEAN, scheduleConversion(force),
           source' \in Units, target' \in Units
    PROVE  /\ tasks' \subseteq [id : 1..MaxTasks, unchanged : BOOLEAN, units : Units \X Units]
           /\ RequestsInPlace'
           /\ OutputInPlace'
           /\ converting'
           /\ \E t \in tasks' : active' = t.id /\ t.unchanged
           /\ output' # Blank => output' = <<source', target'>>
<1> DEFINE units == <<source', target'>>
           old == {[t EXCEPT !.unchanged = FALSE] : t \in tasks}
           Record == [id : 1..MaxTasks, unchanged : BOOLEAN, units : Units \X Units]
<1>1. PICK id \in 1..MaxTasks :
        /\ \A t \in tasks : t.id # id
        /\ active' = id
        /\ tasks' = old \cup {[id |-> id, unchanged |-> TRUE, units |-> units]}
  BY DEF scheduleConversion
<1> DEFINE new == [id |-> id, unchanged |-> TRUE, units |-> units]
<1>2. tasks \subseteq Record /\ \A t, u \in tasks : t.id = u.id => t = u
  BY DEF ConversionInvariant, ConversionTyped, RequestsInPlace
<1>3. new \in Record /\ new.id = id /\ new.unchanged /\ new.units = units
  OBVIOUS
<1>4. \A o \in old : /\ o \in Record /\ ~o.unchanged
                     /\ \E t \in tasks : o = [t EXCEPT !.unchanged = FALSE] /\ o.id = t.id
  BY <1>2
<1> HIDE DEF Record, new, old
<1>5. tasks' = old \cup {new}
  BY <1>1 DEF new
<1>6. \A t, u \in tasks' : t.id = u.id => t = u
  <2> SUFFICES ASSUME NEW t \in tasks', NEW u \in tasks', t.id = u.id PROVE t = u
    OBVIOUS
  <2>1. CASE t \in old /\ u \in old
    <3>1. PICK a \in tasks : t = [a EXCEPT !.unchanged = FALSE] /\ t.id = a.id
      BY <1>4, <2>1
    <3>2. PICK b \in tasks : u = [b EXCEPT !.unchanged = FALSE] /\ u.id = b.id
      BY <1>4, <2>1
    <3>3. a = b
      BY <1>2, <3>1, <3>2
    <3> QED
      BY <3>1, <3>2, <3>3
  <2>2. CASE t = new /\ u = new
    BY <2>2
  <2>3. CASE t \in old /\ u = new
    BY <1>1, <1>3, <1>4, <2>3
  <2>4. CASE t = new /\ u \in old
    BY <1>1, <1>3, <1>4, <2>4
  <2> QED
    BY <1>5, <2>1, <2>2, <2>3, <2>4
<1>7. \A t \in tasks' : t.unchanged => t = new
  BY <1>4, <1>5
<1>8. RequestsInPlace'
  BY <1>1, <1>3, <1>6, <1>7 DEF RequestsInPlace
<1>9. converting' = TRUE /\ exactOutput' = FALSE /\ completed' = completed
  BY DEF scheduleConversion
<1>10. output' # Blank => output' = completed /\ completed = <<source', target'>>
  BY DEF scheduleConversion, ConversionInvariant, OutputInPlace
<1>11. OutputInPlace'
  BY <1>9, <1>10 DEF OutputInPlace
<1>12. tasks' \subseteq Record
  BY <1>3, <1>4, <1>5
<1> QED
  BY <1>1, <1>3, <1>5, <1>8, <1>9, <1>10, <1>11, <1>12 DEF Record

\* A step on the pad that schedules a conversion keeps the invariant when it
\* leaves units of one category and an exact value that belongs to the input.
LEMMA PadStep ==
    ASSUME ConversionInvariant,
           NEW force \in BOOLEAN, scheduleConversion(force),
           source' \in Units, target' \in Units, Category[source'] = Category[target'],
           mode' = "conversion",
           deferred' \in {"none", "menu", "basic", "conversion"},
           ExactBelongsToInput'
    PROVE  ConversionInvariant'
<1>1. ConversionTyped'
  BY ScheduleStep DEF ConversionTyped
<1>2. ConversionIsLive'
  <2>1. converting' /\ \E t \in tasks' : active' = t.id /\ t.unchanged
    BY ScheduleStep
  <2>2. converting' <=> \E t \in tasks' : active' = t.id /\ t.unchanged
    BY <2>1
  <2>3. output' # Blank => output' = <<source', target'>>
    BY ScheduleStep
  <2> QED
    BY <2>1, <2>2, <2>3 DEF ConversionIsLive, isCurrent, Blank, NoUnits
<1> QED
  BY <1>1, <1>2, ScheduleStep DEF ConversionInvariant

\* Digits, the sign, deletion and clearing never leave an exact value with an input
\* it does not belong to.
LEMMA EditStep ==
    ASSUME ConversionInvariant,
           appendDigit \/ toggleSign \/ backspace \/ clear \/ refreshNow \/ refreshRates
    PROVE  ConversionInvariant'
<1> USE DEF OnPad
<1>1. /\ source \in Units /\ target \in Units /\ Category[source] = Category[target]
      /\ deferred \in {"none", "menu", "basic", "conversion"}
  BY DEF ConversionInvariant, ConversionTyped
<1>2. exactInput => fromResult /\ input \in Results /\ ~isCurrency(source)
  BY DEF ConversionInvariant, ExactBelongsToInput
<1>3. ASSUME NEW force \in BOOLEAN, scheduleConversion(force), mode' = "conversion",
             UNCHANGED <<source, target, deferred>>, ExactBelongsToInput'
      PROVE  ConversionInvariant'
  BY <1>1, <1>3, PadStep
<1>4. CASE appendDigit \/ clear
  <2>1. ~exactInput'
    BY <1>2, <1>4 DEF appendDigit, clear
  <2> QED
    BY <1>3, <1>4, <2>1 DEF appendDigit, clear, panels, ExactBelongsToInput
<1>5. CASE toggleSign \/ refreshNow
  <2>1. UNCHANGED <<input, fromResult, exactInput, source, target, deferred>>
    BY <1>5 DEF toggleSign, refreshNow, entry, panels
  <2>2. mode' = "conversion" /\ scheduleConversion(FALSE)
    BY <1>5 DEF toggleSign, refreshNow, panels
  <2>3. ExactBelongsToInput'
    BY <1>2, <2>1 DEF ExactBelongsToInput, isCurrency
  <2> QED
    BY <1>3, <2>1, <2>2, <2>3
<1>6. CASE refreshRates
  <2>1. UNCHANGED <<input, fromResult, exactInput, source, target, deferred>>
    BY <1>6 DEF refreshRates, entry
  <2>2. mode' = "conversion" /\ scheduleConversion(TRUE)
    BY <1>6 DEF refreshRates
  <2>3. ExactBelongsToInput'
    BY <1>2, <2>1 DEF ExactBelongsToInput, isCurrency
  <2> QED
    BY <1>3, <2>1, <2>2, <2>3
<1>7. CASE backspace
  <2>1. ~exactInput' /\ mode = "conversion" /\ UNCHANGED <<source, target, panels>>
    BY <1>2, <1>7 DEF backspace
  <2>2. ExactBelongsToInput'
    BY <2>1 DEF ExactBelongsToInput
  <2>3. CASE UNCHANGED answer
    <3>1. UNCHANGED <<output, exactOutput, converting, error, completed, active, tasks>>
      BY <2>3 DEF answer
    <3>2. ConversionTyped' /\ RequestsInPlace' /\ OutputInPlace' /\ ConversionIsLive'
      BY <2>1, <3>1 DEF ConversionInvariant, ConversionTyped, RequestsInPlace,
                        OutputInPlace, ConversionIsLive, isCurrent, isCurrency, panels
    <3> QED
      BY <2>2, <3>2 DEF ConversionInvariant
  <2>4. CASE scheduleConversion(FALSE)
    BY <1>3, <2>1, <2>2, <2>4 DEF panels
  <2> QED
    BY <1>7, <2>3, <2>4 DEF backspace
<1> QED
  BY <1>4, <1>5, <1>6, <1>7

\* Choosing or swapping units keeps the two in one category, and an exact value
\* away from currencies.
LEMMA UnitStep ==
    ASSUME ConversionInvariant,
           \/ \E u \in Units : selectSource(u) \/ selectTarget(u)
           \/ swapUnits
    PROVE  ConversionInvariant'
<1> USE DEF OnPad
<1>1. /\ source \in Units /\ target \in Units /\ Category[source] = Category[target]
      /\ deferred \in {"none", "menu", "basic", "conversion"}
  BY DEF ConversionInvariant, ConversionTyped
<1>2. exactInput => fromResult /\ input \in Results /\ ~isCurrency(source)
  BY DEF ConversionInvariant, ExactBelongsToInput
<1>3. ASSUME NEW u \in Units, selectSource(u) PROVE ConversionInvariant'
  <2>1. /\ source' = u
        /\ target' \in {alternate(u), target}
        /\ target' = target => Category[target] = Category[u] \/ target' = alternate(u)
        /\ mode' = "conversion" /\ deferred' = deferred
        /\ scheduleConversion(FALSE)
    BY <1>3 DEF selectSource
  <2>2. target' \in Units /\ Category[source'] = Category[target']
    BY <1>1, <2>1, Alternates
  <2>3. ExactBelongsToInput'
    BY <1>2, <1>3 DEF selectSource, ExactBelongsToInput, isCurrency
  <2> QED
    BY <1>1, <2>1, <2>2, <2>3, PadStep
<1>4. ASSUME NEW u \in Units, selectTarget(u) PROVE ConversionInvariant'
  <2>1. /\ source' = source /\ target' = u /\ Category[u] = Category[source]
        /\ mode' = "conversion" /\ deferred' = deferred
        /\ scheduleConversion(FALSE)
    BY <1>4 DEF selectTarget
  <2>2. ExactBelongsToInput'
    BY <1>2, <1>4 DEF selectTarget, ExactBelongsToInput, isCurrency
  <2> QED
    BY <1>1, <2>1, <2>2, PadStep
<1>5. CASE swapUnits
  <2>1. /\ source' = target /\ target' = source
        /\ mode' = "conversion" /\ deferred' = deferred
        /\ scheduleConversion(FALSE)
    BY <1>5 DEF swapUnits, panels
  <2>2. exactOutput => ~isCurrency(source)
    BY DEF ConversionInvariant, OutputInPlace
  <2>3. ExactBelongsToInput'
    <3>1. CASE hasCurrentResult
      BY <1>1, <1>5, <2>1, <2>2, <3>1 DEF swapUnits, ExactBelongsToInput, isCurrency
    <3>2. CASE ~hasCurrentResult
      BY <1>1, <1>2, <1>5, <2>1, <3>2 DEF swapUnits, ExactBelongsToInput, isCurrency
    <3> QED
      BY <3>1, <3>2
  <2> QED
    BY <1>1, <2>1, <2>3, PadStep
<1> QED
  BY <1>3, <1>4, <1>5

\* An answer or an error of a request is taken only from the one that is current,
\* and its units are those on screen.
LEMMA AnswerStep ==
    ASSUME ConversionInvariant, NEW t \in tasks,
           Converted(t) \/ ConversionFailed(t)
    PROVE  ConversionInvariant'
<1>1. /\ source \in Units /\ target \in Units /\ Category[source] = Category[target]
      /\ tasks \subseteq [id : 1..MaxTasks, unchanged : BOOLEAN, units : Units \X Units]
  BY DEF ConversionInvariant, ConversionTyped
<1>2. /\ tasks' = tasks \ {t}
      /\ UNCHANGED <<entry, panels>>
  BY DEF Converted, ConversionFailed
<1>3. /\ \A u, v \in tasks : u.id = v.id => u = v
      /\ \A u \in tasks : u.unchanged => active = u.id /\ u.units = <<source, target>>
  BY DEF ConversionInvariant, RequestsInPlace
<1>4. ConversionTyped' /\ ExactBelongsToInput'
  BY <1>2 DEF ConversionInvariant, ConversionTyped, ExactBelongsToInput, entry, panels, isCurrency
<1>5. CASE ~isCurrent(t)
  <2>1. UNCHANGED <<active, converting, output, exactOutput, completed, error>>
    BY <1>5 DEF Converted, ConversionFailed
  <2>2. (\E u \in tasks' : isCurrent(u)) <=> (\E u \in tasks : isCurrent(u))
    BY <1>2, <1>5
  <2>3. RequestsInPlace' /\ OutputInPlace'
    BY <1>2, <1>3, <2>1 DEF ConversionInvariant, RequestsInPlace, OutputInPlace, entry, isCurrency
  <2>4. ConversionIsLive'
    BY <1>2, <2>1, <2>2 DEF ConversionInvariant, ConversionIsLive, isCurrent, entry, panels
  <2> QED
    BY <1>4, <2>3, <2>4 DEF ConversionInvariant
<1>6. CASE isCurrent(t)
  <2>1. t.units = <<source, target>>
    BY <1>3, <1>6 DEF isCurrent
  <2>2. \A u \in tasks' : ~u.unchanged
    BY <1>2, <1>3, <1>6 DEF isCurrent
  <2>3. converting' = FALSE
    BY <1>6 DEF Converted, ConversionFailed
  <2>4. RequestsInPlace'
    BY <1>2, <1>3, <2>2 DEF RequestsInPlace
  <2>5. mode = "conversion"
    BY <1>6 DEF ConversionInvariant, ConversionIsLive
  <2>6. ~exactOutput
    BY <1>6 DEF ConversionInvariant, ConversionIsLive, OutputInPlace
  <2>7. CASE Converted(t)
    <3>1. output' = <<source, target>> /\ completed' = output'
      BY <1>6, <2>1, <2>7 DEF Converted
    <3>2. exactOutput' => ~isCurrency(source)
      <4>1. t.units[1] = source
        BY <2>1
      <4>2. isCurrency(source) => exactOutput' = exactOutput
        BY <1>6, <2>7, <4>1 DEF Converted, isCurrency
      <4> QED
        BY <2>6, <4>2
    <3>3. output' # Blank
      BY <1>1, <3>1, ConversionAssumption DEF Blank, NoUnits
    <3> QED
      BY <1>2, <1>4, <2>2, <2>3, <2>4, <2>5, <3>1, <3>2, <3>3
      DEF ConversionInvariant, OutputInPlace, ConversionIsLive, isCurrent, isCurrency,
          entry, panels
  <2>8. CASE ConversionFailed(t)
    <3>1. output' = Blank /\ exactOutput' = FALSE /\ error' = TRUE
      BY <1>6, <2>8 DEF ConversionFailed
    <3> QED
      BY <1>2, <1>4, <2>2, <2>3, <2>4, <2>5, <3>1
      DEF ConversionInvariant, OutputInPlace, ConversionIsLive, isCurrent, Blank, NoUnits,
          entry, panels
  <2> QED
    BY <2>7, <2>8
<1> QED
  BY <1>5, <1>6

\* Leaving the conversion mode abandons its request and what it had not answered.
LEMMA DeactivateStep ==
    ASSUME ConversionInvariant, deactivate, UNCHANGED entry,
           mode' \in {"basic", "conversion"}, mode' # "conversion", popover' = "none",
           deferred' \in {"none", "menu", "basic", "conversion"}
    PROVE  ConversionInvariant'
<1> DEFINE Record == [id : 1..MaxTasks, unchanged : BOOLEAN, units : Units \X Units]
           left == {[t EXCEPT !.unchanged = FALSE] : t \in tasks}
<1>1. /\ source \in Units /\ target \in Units /\ Category[source] = Category[target]
      /\ tasks \subseteq Record
      /\ \A t, u \in tasks : t.id = u.id => t = u
  BY DEF ConversionInvariant, ConversionTyped, RequestsInPlace
<1>2. \A o \in left : /\ o \in Record /\ ~o.unchanged
                      /\ \E t \in tasks : o = [t EXCEPT !.unchanged = FALSE] /\ o.id = t.id
  BY <1>1
<1> HIDE DEF Record, left
<1>3. /\ tasks' = left /\ converting' = FALSE
      /\ output' \in {Blank, output} /\ completed' = completed
      /\ exactOutput' => exactOutput
  BY DEF deactivate, left
<1>4. \A t, u \in tasks' : t.id = u.id => t = u
  <2> SUFFICES ASSUME NEW t \in left, NEW u \in left, t.id = u.id PROVE t = u
    BY <1>3
  <2>1. PICK a \in tasks : t = [a EXCEPT !.unchanged = FALSE] /\ t.id = a.id
    BY <1>2
  <2>2. PICK b \in tasks : u = [b EXCEPT !.unchanged = FALSE] /\ u.id = b.id
    BY <1>2
  <2>3. a = b
    BY <1>1, <2>1, <2>2
  <2> QED
    BY <2>1, <2>2, <2>3
<1>5. ConversionTyped'
  <2>1. tasks' \subseteq Record
    BY <1>2, <1>3
  <2> QED
    BY <1>1, <2>1 DEF ConversionTyped, entry, Record
<1>6. RequestsInPlace' /\ OutputInPlace' /\ ExactBelongsToInput'
  BY <1>2, <1>3, <1>4 DEF ConversionInvariant, RequestsInPlace, OutputInPlace,
                           ExactBelongsToInput, entry, isCurrency, Blank, NoUnits
<1>7. ConversionIsLive'
  BY <1>2, <1>3 DEF ConversionInvariant, ConversionIsLive, isCurrent, entry, Blank, NoUnits
<1> QED
  BY <1>5, <1>6, <1>7 DEF ConversionInvariant

\* Whatever the popovers do, nothing of the entry or the answer changes with them.
LEMMA PanelStep ==
    ASSUME ConversionInvariant, UNCHANGED <<entry, answer, mode>>,
           deferred' \in {"none", "menu", "basic", "conversion"},
           mode # "conversion" => popover' = "none"
    PROVE  ConversionInvariant'
<1>1. UNCHANGED <<input, fromResult, exactInput, source, target, output, exactOutput,
                  converting, error, completed, active, tasks, mode>>
  BY DEF entry, answer
<1>2. ConversionTyped' /\ RequestsInPlace' /\ OutputInPlace' /\ ExactBelongsToInput'
  BY <1>1 DEF ConversionInvariant, ConversionTyped, RequestsInPlace, OutputInPlace,
              ExactBelongsToInput, isCurrency
<1>3. ConversionIsLive'
  BY <1>1 DEF ConversionInvariant, ConversionIsLive, isCurrent
<1> QED
  BY <1>2, <1>3 DEF ConversionInvariant

\* A change of mode that is carried out: deactivate, a first request, or nothing.
LEMMA ApplyStep ==
    ASSUME ConversionInvariant,
           NEW m \in {"basic", "conversion"}, apply(m), popover' = "none",
           deferred' \in {"none", "menu", "basic", "conversion"}
    PROVE  ConversionInvariant'
<1>1. mode' = m /\ UNCHANGED entry
  BY DEF apply
<1>2. /\ source \in Units /\ target \in Units /\ Category[source] = Category[target]
      /\ mode \in {"basic", "conversion"}
  BY DEF ConversionInvariant, ConversionTyped
<1>3. CASE mode = "conversion" /\ m # "conversion"
  <2>1. deactivate
    BY <1>3, Zenon DEF apply
  <2> QED
    BY <1>1, <1>3, <2>1, DeactivateStep
<1>4. CASE m = "conversion" /\ output = Blank /\ ~converting
  <2>1. scheduleConversion(FALSE)
    BY <1>4, Zenon DEF apply
  <2>2. ExactBelongsToInput'
    BY <1>1 DEF ConversionInvariant, ExactBelongsToInput, entry, isCurrency
  <2> QED
    BY <1>1, <1>2, <1>4, <2>1, <2>2, PadStep DEF entry
<1>5. CASE /\ ~(mode = "conversion" /\ m # "conversion")
           /\ ~(m = "conversion" /\ output = Blank /\ ~converting)
  <2>1. UNCHANGED answer
    BY <1>5, Zenon DEF apply
  <2>2. UNCHANGED <<input, fromResult, exactInput, source, target, output, exactOutput,
                    converting, error, completed, active, tasks>>
    BY <1>1, <2>1 DEF entry, answer
  <2>3. ConversionTyped' /\ RequestsInPlace' /\ OutputInPlace' /\ ExactBelongsToInput'
    BY <1>1, <2>2 DEF ConversionInvariant, ConversionTyped, RequestsInPlace, OutputInPlace,
                      ExactBelongsToInput, isCurrency
  <2>4. ConversionIsLive'
    BY <1>1, <1>2, <1>5, <2>2 DEF ConversionInvariant, ConversionIsLive, isCurrent
  <2> QED
    BY <2>3, <2>4 DEF ConversionInvariant
<1> QED
  BY <1>3, <1>4, <1>5

\* The invariant holds at first and every step keeps it.
LEMMA ConversionInductive ==
    /\ ConversionInit => ConversionInvariant
    /\ ConversionInvariant /\ [ConversionNext]_conversionVars => ConversionInvariant'
<1>1. ASSUME ConversionInit PROVE ConversionInvariant
  <2>1. source \in Units /\ target \in Units /\ Category[source] = Category[target]
    BY <1>1, Alternates DEF ConversionInit
  <2> QED
    BY <1>1, <2>1 DEF ConversionInit, ConversionInvariant, ConversionTyped, RequestsInPlace,
       OutputInPlace, ConversionIsLive, ExactBelongsToInput, isCurrent
<1>2. ASSUME ConversionInvariant, [ConversionNext]_conversionVars PROVE ConversionInvariant'
  <2>0. /\ deferred \in {"none", "menu", "basic", "conversion"}
        /\ mode # "conversion" => popover = "none"
    BY <1>2 DEF ConversionInvariant, ConversionTyped, ConversionIsLive
  <2>1. CASE DelayedProgress \/ Settled \/ UNCHANGED conversionVars
    <3>1. CASE Settled \/ UNCHANGED conversionVars
      BY <1>2, <2>0, <3>1, PanelStep DEF Settled, conversionVars, panels
    <3>2. CASE DelayedProgress
      <4>1. UNCHANGED <<input, fromResult, exactInput, source, target, output, exactOutput,
                        converting, error, completed, active, tasks, mode, popover, deferred>>
        BY <3>2 DEF DelayedProgress, entry, panels
      <4>2. ConversionTyped' /\ RequestsInPlace' /\ OutputInPlace' /\ ExactBelongsToInput'
        BY <1>2, <4>1 DEF ConversionInvariant, ConversionTyped, RequestsInPlace,
                          OutputInPlace, ExactBelongsToInput, isCurrency
      <4>3. ConversionIsLive'
        BY <1>2, <4>1 DEF ConversionInvariant, ConversionIsLive, isCurrent
      <4> QED
        BY <4>2, <4>3 DEF ConversionInvariant
    <3> QED
      BY <2>1, <3>1, <3>2
  <2>2. ASSUME NEW p \in {"sourceUnit", "rateDetails"}, NEW b \in BOOLEAN, setPopover(p, b)
        PROVE  ConversionInvariant'
    BY <1>2, <2>0, <2>2, PanelStep DEF setPopover, OnPad
  <2>3. CASE toggleModeMenu
    <3>1. UNCHANGED <<entry, answer, mode>> /\ popover' \in {"none", popover}
      BY <2>3 DEF toggleModeMenu, Dismissed
    <3>2. deferred' \in {"none", "menu"}
      BY <2>3 DEF toggleModeMenu
    <3> QED
      BY <1>2, <2>0, <3>1, <3>2, PanelStep
  <2>4. CASE Deferred
    <3>1. CASE deferred = "menu"
      BY <1>2, <2>0, <2>4, <3>1, PanelStep DEF Deferred
    <3>2. CASE deferred # "menu"
      <4>1. /\ deferred \in {"basic", "conversion"} /\ deferred' = "none"
            /\ apply(deferred) /\ popover' = "none"
        BY <2>0, <2>4, <3>2 DEF Deferred, Dismissed
      <4> QED
        BY <1>2, <4>1, ApplyStep
    <3> QED
      BY <3>1, <3>2
  <2>5. CASE KeyEscape
    <3>1. CASE modePopover
      <4>1. UNCHANGED <<entry, answer, popover, settling, mode, deferred>>
        BY <2>5, <3>1, Zenon DEF KeyEscape
      <4> QED
        BY <1>2, <2>0, <4>1, PanelStep
    <3>2. CASE ~modePopover /\ popover # "none"
      <4>1. Dismissed /\ UNCHANGED <<entry, answer, mode, modePopover, deferred>>
        BY <2>5, <3>2, Zenon DEF KeyEscape
      <4> QED
        BY <1>2, <2>0, <4>1, PanelStep DEF Dismissed
    <3>3. CASE ~modePopover /\ ~(popover # "none")
      <4>1. clear
        BY <2>5, <3>3, Zenon DEF KeyEscape
      <4> QED
        BY <1>2, <4>1, EditStep
    <3> QED
      BY <3>1, <3>2, <3>3
  <2>6. ASSUME NEW m \in {"basic", "conversion"}, select(m) PROVE ConversionInvariant'
    <3>1. popover' = "none"
      BY <2>6 DEF select, Dismissed
    <3>2. \/ deferred' = m /\ UNCHANGED <<entry, answer, mode>>
          \/ deferred' = "none" /\ apply(m)
      BY <2>6 DEF select
    <3> QED
      BY <1>2, <3>1, <3>2, PanelStep, ApplyStep
  <2> QED
    BY <1>2, <2>1, <2>2, <2>3, <2>4, <2>5, <2>6, EditStep, UnitStep, AnswerStep
    DEF ConversionNext, appendDecimal
<1> QED
  BY <1>1, <1>2

\* However edits, changes of units and modes, popovers and late answers interleave:
\* the converter converts only what it will show, shows only conversions of the
\* units on screen, is never blank with nothing under way, and submits an exact value
\* only for the input it belongs to (UnitConversionStore, CalculatorModeTransition).
THEOREM ConverterStaysConsistent == ConversionSpec => []ConverterConsistent
<1>1. ConversionInvariant => ConverterConsistent
  BY DEF ConversionInvariant, ConverterConsistent
<1> QED
  BY <1>1, ConversionInductive, PTL DEF ConversionSpec

----------------------------------------------------------------------------
(* The client of the runtime.                                              *)

\* A job holds a caller only if it starts, launches for, or parks it.
LEMMA JobShapes ==
    ASSUME NEW j \in QueueJobs
    PROVE  /\ j.op \in {"launch", "start", "park", "stop", "write", "run"}
           /\ j.op \in {"start", "park"} => j.c \in Callers
           /\ j.op = "run" => \/ j.then = <<>>
                              \/ \E c \in Callers : j.then = <<[op |-> "park", c |-> c]>>
           /\ j.op = "write" => j.r \in Requests
           /\ j.op \in {"launch", "stop", "write"} => \A c \in Callers : ~Holds(j, c)
  BY DEF QueueJobs, Holds

\* A job put at the end of the queue.
LEMMA AppendedJob ==
    ASSUME NEW q \in Seq(QueueJobs), NEW j \in QueueJobs, NEW c \in Callers
    PROVE  /\ Append(q, j) \in Seq(QueueJobs)
           /\ ~Holds(j, c) => /\ Free(q, c) => Free(Append(q, j), c)
                              /\ Once(q, c) => Once(Append(q, j), c)
           /\ Holds(j, c) /\ Free(q, c) => Once(Append(q, j), c)
<1> DEFINE n == Len(q)
           p == Append(q, j)
<1>1. /\ n \in Nat /\ DOMAIN q = 1..n /\ p \in Seq(QueueJobs)
      /\ DOMAIN p = 1..(n + 1) /\ p[n + 1] = j
      /\ \A i \in 1..n : p[i] = q[i]
  OBVIOUS
<1> HIDE DEF n, p
<1>2. Append(q, j) = p
  BY DEF p
<1>3. ~Holds(j, c) /\ Free(q, c) => Free(p, c)
  <2>1. \A i \in 1..(n + 1) : i \in 1..n \/ i = n + 1
    BY <1>1
  <2> QED
    BY <1>1, <2>1 DEF Free
<1>4. ~Holds(j, c) /\ Once(q, c) => Once(p, c)
  <2> SUFFICES ASSUME ~Holds(j, c), Once(q, c) PROVE Once(p, c)
    OBVIOUS
  <2>1. PICK i \in 1..n : Holds(q[i], c) /\ \A k \in 1..n : Holds(q[k], c) => k = i
    BY <1>1 DEF Once
  <2>2. i \in 1..(n + 1) /\ \A k \in 1..(n + 1) : k \in 1..n \/ k = n + 1
    BY <1>1
  <2> QED
    BY <1>1, <2>1, <2>2 DEF Once
<1>5. Holds(j, c) /\ Free(q, c) => Once(p, c)
  <2>1. n + 1 \in 1..(n + 1) /\ \A k \in 1..(n + 1) : k \in 1..n \/ k = n + 1
    BY <1>1
  <2> QED
    BY <1>1, <2>1 DEF Once, Free
<1> QED
  BY <1>1, <1>2, <1>3, <1>4, <1>5

\* The job at the head leaves the queue.
LEMMA TakenJob ==
    ASSUME NEW q \in Seq(QueueJobs), q # <<>>, NEW c \in Callers
    PROVE  /\ Tail(q) \in Seq(QueueJobs)
           /\ Head(q) \in QueueJobs
           /\ ~Holds(Head(q), c) => /\ Free(q, c) => Free(Tail(q), c)
                                    /\ Once(q, c) => Once(Tail(q), c)
           /\ Holds(Head(q), c) /\ Once(q, c) => Free(Tail(q), c)
           /\ Holds(Head(q), c) => ~Free(q, c)
<1> DEFINE n == Len(q)
           p == Tail(q)
           h == Head(q)
<1>1. /\ n \in Nat /\ n > 0 /\ DOMAIN q = 1..n /\ p \in Seq(QueueJobs)
      /\ DOMAIN p = 1..(n - 1) /\ h = q[1] /\ h \in QueueJobs
      /\ \A i \in 1..(n - 1) : p[i] = q[i + 1]
  OBVIOUS
<1> HIDE DEF n, p, h
<1>2. \A i \in 1..(n - 1) : i + 1 \in 1..n /\ i + 1 # 1
  BY <1>1
<1>3. \A i \in 1..n : i = 1 \/ (i - 1 \in 1..(n - 1) /\ p[i - 1] = q[i])
  BY <1>1
<1>4. Free(q, c) => Free(p, c)
  BY <1>1, <1>2 DEF Free
<1>5. ~Holds(h, c) /\ Once(q, c) => Once(p, c)
  <2> SUFFICES ASSUME ~Holds(h, c), Once(q, c) PROVE Once(p, c)
    OBVIOUS
  <2>1. PICK i \in 1..n : Holds(q[i], c) /\ \A k \in 1..n : Holds(q[k], c) => k = i
    BY <1>1 DEF Once
  <2>2. i - 1 \in 1..(n - 1) /\ p[i - 1] = q[i]
    BY <1>1, <1>3, <2>1
  <2>3. \A k \in 1..(n - 1) : Holds(p[k], c) => k = i - 1
    <3> SUFFICES ASSUME NEW k \in 1..(n - 1), Holds(p[k], c) PROVE k = i - 1
      OBVIOUS
    <3>1. k + 1 = i
      BY <1>1, <1>2, <2>1
    <3> QED
      BY <3>1
  <2> QED
    BY <1>1, <2>1, <2>2, <2>3 DEF Once
<1>6. Holds(h, c) /\ Once(q, c) => Free(p, c)
  <2>1. 1 \in 1..n
    BY <1>1
  <2> QED
    BY <1>1, <1>2, <2>1 DEF Once, Free
<1>7. Holds(h, c) => ~Free(q, c)
  <2>1. 1 \in 1..n
    BY <1>1
  <2> QED
    BY <1>1, <2>1 DEF Free
<1> QED
  BY <1>1, <1>4, <1>5, <1>6, <1>7 DEF p, h

\* The job at the head is replaced by the rest of it, which holds the same caller.
LEMMA ReplacedJob ==
    ASSUME NEW q \in Seq(QueueJobs), q # <<>>, NEW j \in QueueJobs, NEW c \in Callers
    PROVE  /\ <<j>> \o Tail(q) \in Seq(QueueJobs)
           /\ (Holds(j, c) <=> Holds(Head(q), c)) =>
                 /\ Free(q, c) => Free(<<j>> \o Tail(q), c)
                 /\ Once(q, c) => Once(<<j>> \o Tail(q), c)
<1> DEFINE n == Len(q)
           p == <<j>> \o Tail(q)
           h == Head(q)
<1>1. /\ n \in Nat /\ n > 0 /\ DOMAIN q = 1..n /\ p \in Seq(QueueJobs)
      /\ DOMAIN p = 1..n /\ h = q[1] /\ p[1] = j
      /\ \A i \in 1..n : i # 1 => p[i] = q[i]
  OBVIOUS
<1> HIDE DEF n, p, h
<1>2. (Holds(j, c) <=> Holds(h, c)) => \A i \in 1..n : Holds(p[i], c) <=> Holds(q[i], c)
  BY <1>1
<1>3. (Holds(j, c) <=> Holds(h, c)) => (Free(q, c) => Free(p, c)) /\ (Once(q, c) => Once(p, c))
  BY <1>1, <1>2 DEF Free, Once
<1> QED
  BY <1>1, <1>3 DEF p, h

\* Queue p holds every caller as often as q does.
Keeps(q, p) ==
    \A c \in Callers : (Free(q, c) => Free(p, c)) /\ (Once(q, c) => Once(p, c))

\* A step that resumes just those it takes out of startWaiters and
\* pendingRequests loses nobody and resumes nobody twice.
LEMMA Resumption ==
    ASSUME ServiceTyped, HeldInPlace, Keeps(queue, queue'),
           waiters' \subseteq waiters, pending' \subseteq pending, NEW S,
           S = (waiters \ waiters') \cup OwnersOf(pending \ pending'),
           pc' = [c \in Callers |-> IF c \in S THEN "resumed" ELSE pc[c]],
           attempt' = attempt
    PROVE  HeldInPlace'
<1>1. /\ pc \in [Callers -> {"idle", "call", "start", "sent", "resumed", "done"}]
      /\ waiters \subseteq Callers /\ pending \subseteq Requests
  BY DEF ServiceTyped
<1>2. \A r \in pending : r[1] \in Callers
  BY <1>1 DEF Requests
<1>3. \A c \in Callers : c \in OwnersOf(pending \ pending')
        <=> \E r \in pending \ pending' : r[1] = c
  BY DEF OwnersOf
<1>4. \A c \in Callers : Id(c)' = Id(c)
  BY DEF Id
<1>5. ASSUME NEW c \in Callers
      PROVE  \/ pc'[c] = "start" /\ c \in waiters' /\ Free(queue', c)
             \/ pc'[c] = "start" /\ c \notin waiters' /\ Once(queue', c)
             \/ pc'[c] # "start" /\ c \notin waiters' /\ Free(queue', c)
  <2>1. \/ pc[c] = "start" /\ c \in waiters /\ Free(queue, c)
        \/ pc[c] = "start" /\ c \notin waiters /\ Once(queue, c)
        \/ pc[c] # "start" /\ c \notin waiters /\ Free(queue, c)
    BY DEF HeldInPlace
  <2>2. c \in OwnersOf(pending \ pending') => pc[c] = "sent"
    BY <1>3 DEF HeldInPlace
  <2>3. (Free(queue, c) => Free(queue', c)) /\ (Once(queue, c) => Once(queue', c))
    BY DEF Keeps
  <2>4. pc'[c] = IF c \in S THEN "resumed" ELSE pc[c]
    OBVIOUS
  <2>5. CASE c \in S
    BY <2>1, <2>2, <2>3, <2>4, <2>5
  <2>6. CASE c \notin S
    BY <2>1, <2>3, <2>4, <2>6
  <2> QED
    BY <2>5, <2>6
<1>6. ASSUME NEW c \in Callers, pc'[c] = "sent" PROVE Id(c)' \in pending'
  <2>1. c \notin S /\ pc[c] = "sent"
    BY <1>6
  <2>2. Id(c) \in pending /\ Id(c)[1] = c
    BY <2>1 DEF HeldInPlace, Id
  <2> QED
    BY <1>3, <1>4, <2>1, <2>2
<1>7. ASSUME NEW r \in pending' PROVE pc'[r[1]] = "sent" /\ r = Id(r[1])'
  <2>1. r \in pending /\ r[1] \in Callers
    BY <1>2
  <2>2. pc[r[1]] = "sent" /\ r = Id(r[1])
    BY <2>1 DEF HeldInPlace
  <2>3. r[1] \notin waiters
    BY <2>1, <2>2 DEF HeldInPlace
  <2>4. \A s \in pending : s[1] = r[1] => s = r
    BY <2>2 DEF HeldInPlace
  <2>5. r[1] \notin S
    BY <1>3, <2>1, <2>3, <2>4
  <2>6. pc'[r[1]] = pc[r[1]]
    BY <2>1, <2>5
  <2> QED
    BY <1>4, <2>1, <2>2, <2>6
<1> QED
  BY <1>5, <1>6, <1>7 DEF HeldInPlace

\* Jobs that hold nobody come and go without touching those that do.
LEMMA KeptQueues ==
    ASSUME queue \in Seq(QueueJobs)
    PROVE  /\ Keeps(queue, queue)
           /\ \A j \in QueueJobs : j.op \in {"stop", "write"} =>
                 Keeps(queue, Append(queue, j)) /\ Append(queue, j) \in Seq(QueueJobs)
           /\ queue # <<>> /\ Head(queue).op \in {"launch", "stop", "write"} =>
                 Keeps(queue, Tail(queue)) /\ Tail(queue) \in Seq(QueueJobs)
           /\ \A j \in QueueJobs :
                 /\ queue # <<>>
                 /\ \A c \in Callers : Holds(j, c) <=> Holds(Head(queue), c)
                 => Keeps(queue, <<j>> \o Tail(queue)) /\ <<j>> \o Tail(queue) \in Seq(QueueJobs)
<1>1. Keeps(queue, queue)
  BY DEF Keeps
<1>2. ASSUME NEW j \in QueueJobs, j.op \in {"stop", "write"}
      PROVE  Keeps(queue, Append(queue, j)) /\ Append(queue, j) \in Seq(QueueJobs)
  <2>1. \A c \in Callers : ~Holds(j, c)
    BY <1>2, JobShapes
  <2> QED
    BY <2>1, AppendedJob DEF Keeps
<1>3. ASSUME queue # <<>>, Head(queue).op \in {"launch", "stop", "write"}
      PROVE  Keeps(queue, Tail(queue)) /\ Tail(queue) \in Seq(QueueJobs)
  <2>1. Head(queue) \in QueueJobs
    BY <1>3
  <2>2. \A c \in Callers : ~Holds(Head(queue), c)
    BY <1>3, <2>1, JobShapes
  <2>3. Tail(queue) \in Seq(QueueJobs)
    BY <1>3
  <2> QED
    BY <1>3, <2>2, <2>3, TakenJob DEF Keeps
<1>4. ASSUME NEW j \in QueueJobs, queue # <<>>,
             \A c \in Callers : Holds(j, c) <=> Holds(Head(queue), c)
      PROVE  Keeps(queue, <<j>> \o Tail(queue)) /\ <<j>> \o Tail(queue) \in Seq(QueueJobs)
  <2>1. <<j>> \o Tail(queue) \in Seq(QueueJobs)
    BY <1>4
  <2> QED
    BY <1>4, <2>1, ReplacedJob DEF Keeps
<1> QED
  BY <1>1, <1>2, <1>3, <1>4

\* The steps that resume the owners of the requests R and waiters, and no one else.
LEMMA CollectionStep ==
    ASSUME ServiceTyped, HeldInPlace, Keeps(queue, queue'), queue' \in Seq(QueueJobs),
           waiters' \subseteq waiters, NEW R, R \subseteq pending, pending' = pending \ R,
           timed' \subseteq pending',
           NEW S, S = (waiters \ waiters') \cup OwnersOf(R),
           pc' = [c \in Callers |-> IF c \in S THEN "resumed" ELSE pc[c]],
           attempt' = attempt, proc' \in Nat, cur' \in Nat, readers' \in Seq(Nat)
    PROVE  ServiceTyped' /\ HeldInPlace'
<1>1. pending \ pending' = R /\ pending' \subseteq pending
  OBVIOUS
<1>2. HeldInPlace'
  BY <1>1, Resumption
<1>3. pc' \in [Callers -> {"idle", "call", "start", "sent", "resumed", "done"}]
  BY DEF ServiceTyped
<1>4. ServiceTyped'
  BY <1>1, <1>3 DEF ServiceTyped
<1> QED
  BY <1>2, <1>4

\* The steps that resume no one.
LEMMA QuietStep ==
    ASSUME ServiceTyped, HeldInPlace, Keeps(queue, queue'), queue' \in Seq(QueueJobs),
           UNCHANGED <<pc, attempt, waiters, pending>>, timed' \subseteq pending,
           proc' \in Nat, cur' \in Nat, readers' \in Seq(Nat)
    PROVE  ServiceTyped' /\ HeldInPlace'
<1>1. pc' = [c \in Callers |-> IF c \in {} THEN "resumed" ELSE pc[c]]
  BY DEF ServiceTyped
<1>2. (waiters \ waiters') \cup OwnersOf({}) = {}
  BY DEF OwnersOf
<1>3. pending' = pending \ {} /\ {} \subseteq pending /\ waiters' \subseteq waiters
  OBVIOUS
<1> QED
  BY <1>1, <1>2, <1>3, CollectionStep

\* stopProcessOnQueue fails everybody who waits.
LEMMA StopStep ==
    ASSUME ServiceTyped, HeldInPlace, Keeps(queue, queue'), queue' \in Seq(QueueJobs),
           stopProcessOnQueue, UNCHANGED <<cur, readers>>
    PROVE  ServiceTyped' /\ HeldInPlace'
<1>1. /\ waiters' = {} /\ pending' = pending \ pending /\ timed' = timed \ pending
      /\ proc' = 0 /\ attempt' = attempt
      /\ pc' = [c \in Callers |-> IF c \in waiters \cup OwnersOf(pending) THEN "resumed"
                                  ELSE pc[c]]
  BY DEF stopProcessOnQueue, Resumed, Forget
<1>2. timed' \subseteq pending' /\ proc' \in Nat /\ cur' \in Nat /\ readers' \in Seq(Nat)
  BY <1>1 DEF ServiceTyped
<1>3. waiters \cup OwnersOf(pending) = (waiters \ waiters') \cup OwnersOf(pending)
  BY <1>1
<1> QED
  BY <1>1, <1>2, <1>3, CollectionStep

\* A start job goes on as a park job, itself or behind a launch, for its caller.
LEMMA ParkJobs ==
    ASSUME NEW h \in QueueJobs, h.op = "start"
    PROVE  LET park == [h EXCEPT !.op = "park"]
               run == [op |-> "run", then |-> <<park>>]
           IN  /\ park \in QueueJobs /\ park.op = "park"
               /\ run \in QueueJobs /\ run.op = "run"
               /\ \A c \in Callers : /\ Holds(park, c) <=> Holds(h, c)
                                     /\ Holds(run, c) <=> Holds(h, c)
<1> DEFINE park == [op |-> "park", c |-> h.c]
           run == [op |-> "run", then |-> <<park>>]
<1>1. h = [op |-> "start", c |-> h.c] /\ h.c \in Callers
  BY DEF QueueJobs
<1>2. [h EXCEPT !.op = "park"] = park
  BY <1>1
<1>3. park \in QueueJobs /\ run \in QueueJobs
  BY <1>1 DEF QueueJobs
<1>4. run.then # <<>> /\ run.then[1].c = h.c
  OBVIOUS
<1>5. \A c \in Callers : /\ Holds(park, c) <=> h.c = c
                         /\ Holds(run, c) <=> h.c = c
                         /\ Holds(h, c) <=> h.c = c
  BY <1>4 DEF Holds
<1> QED
  BY <1>2, <1>3, <1>5

\* The jobs of the writeQueue that resume whole collections.
LEMMA JobStep ==
    ASSUME ServiceInvariant, RunStop \/ RunStart \/ RunLaunch \/ Spawn
    PROVE  ServiceTyped' /\ HeldInPlace'
<1>0. /\ ServiceTyped /\ HeldInPlace /\ queue \in Seq(QueueJobs) /\ timed \subseteq pending
      /\ proc \in Nat /\ cur \in Nat /\ readers \in Seq(Nat)
  BY DEF ServiceInvariant, ServiceTyped
<1>1. CASE RunStop
  <2>1. /\ queue # <<>> /\ Head(queue).op = "stop" /\ queue' = Tail(queue)
        /\ stopProcessOnQueue /\ UNCHANGED <<cur, readers>>
    BY <1>1 DEF RunStop, Job, reading
  <2> QED
    BY <1>0, <2>1, KeptQueues, StopStep
<1>2. CASE RunLaunch
  <2> DEFINE run == [op |-> "run", then |-> <<>>]
  <2>1. /\ queue # <<>> /\ Head(queue).op = "launch" /\ queue' = <<run>> \o Tail(queue)
        /\ stopProcessOnQueue /\ UNCHANGED <<cur, readers>>
    BY <1>2 DEF RunLaunch, Job, reading
  <2>2. run \in QueueJobs /\ \A c \in Callers : ~Holds(run, c)
    BY DEF QueueJobs, Holds
  <2>3. Head(queue) \in QueueJobs
    BY <1>0, <2>1
  <2>4. \A c \in Callers : ~Holds(Head(queue), c)
    BY <2>1, <2>3, JobShapes
  <2> HIDE DEF run
  <2> QED
    BY <1>0, <2>1, <2>2, <2>4, KeptQueues, StopStep
<1>3. CASE RunStart
  <2> DEFINE park == [Head(queue) EXCEPT !.op = "park"]
             run == [op |-> "run", then |-> <<park>>]
  <2>1. /\ queue # <<>> /\ Head(queue).op = "start" /\ UNCHANGED <<cur, readers>>
    BY <1>3 DEF RunStart, Job, reading
  <2>2. Head(queue) \in QueueJobs
    BY <1>0, <2>1
  <2>3. /\ park \in QueueJobs /\ run \in QueueJobs
        /\ \A c \in Callers : /\ Holds(park, c) <=> Holds(Head(queue), c)
                              /\ Holds(run, c) <=> Holds(Head(queue), c)
    BY <2>1, <2>2, ParkJobs
  <2>4. CASE proc # 0 /\ proc \in alive
    <3>1. /\ queue' = <<park>> \o Tail(queue)
          /\ UNCHANGED <<pc, attempt, proc, waiters, pending, timed>>
      BY <1>3, <2>4 DEF RunStart, client
    <3> HIDE DEF park, run
    <3> QED
      BY <1>0, <2>1, <2>3, <3>1, KeptQueues, QuietStep
  <2>5. CASE ~(proc # 0 /\ proc \in alive)
    <3>1. stopProcessOnQueue /\ queue' = <<run>> \o Tail(queue)
      BY <1>3, <2>5 DEF RunStart
    <3> HIDE DEF park, run
    <3> QED
      BY <1>0, <2>1, <2>3, <3>1, KeptQueues, StopStep
  <2> QED
    BY <2>4, <2>5
<1>4. CASE Spawn
  <2> DEFINE h == Head(queue)
  <2>1. /\ queue # <<>> /\ h.op = "run" /\ queue' = h.then \o Tail(queue)
        /\ UNCHANGED <<pc, attempt, waiters, pending, timed>>
        /\ cur' = cur + 1 /\ proc' = cur + 1 /\ readers' = Append(readers, cur + 1)
    BY <1>4 DEF Spawn, Job, client
  <2>2. h \in QueueJobs
    BY <1>0, <2>1
  <2>3. proc' \in Nat /\ cur' \in Nat /\ readers' \in Seq(Nat)
    BY <1>0, <2>1
  <2>4. CASE h.then = <<>>
    <3>1. queue' = Tail(queue) /\ Tail(queue) \in Seq(QueueJobs)
      BY <1>0, <2>1, <2>4
    <3>2. \A c \in Callers : ~Holds(h, c)
      BY <2>1, <2>4 DEF Holds
    <3>3. Keeps(queue, queue')
      BY <1>0, <2>1, <3>1, <3>2, TakenJob DEF Keeps
    <3> QED
      BY <1>0, <2>1, <2>3, <3>1, <3>3, QuietStep
  <2>5. ASSUME NEW d \in Callers, h.then = <<[op |-> "park", c |-> d]>>
        PROVE  ServiceTyped' /\ HeldInPlace'
    <3> DEFINE park == [op |-> "park", c |-> d]
    <3>1. queue' = <<park>> \o Tail(queue)
      BY <2>1, <2>5
    <3>2. park \in QueueJobs
      BY DEF QueueJobs
    <3>3. \A c \in Callers : Holds(park, c) <=> d = c
      BY DEF Holds
    <3>4. h.then # <<>> /\ h.then[1].c = d
      BY <2>5
    <3>5. \A c \in Callers : Holds(h, c) <=> d = c
      BY <2>1, <3>4 DEF Holds
    <3> HIDE DEF park
    <3>6. Keeps(queue, queue') /\ queue' \in Seq(QueueJobs)
      BY <1>0, <2>1, <3>1, <3>2, <3>3, <3>5, KeptQueues
    <3> QED
      BY <1>0, <2>1, <2>3, <3>6, QuietStep
  <2> QED
    BY <2>1, <2>2, <2>4, <2>5, JobShapes
<1> QED
  BY <1>1, <1>2, <1>3, <1>4

\* The jobs that end one caller's wait, or begin the wait for a process or an answer.
LEMMA CallerJobStep ==
    ASSUME ServiceInvariant, SpawnFails \/ Park \/ Write
    PROVE  ServiceTyped' /\ HeldInPlace'
<1> DEFINE h == Head(queue)
<1>0. /\ ServiceTyped /\ HeldInPlace /\ queue \in Seq(QueueJobs) /\ timed \subseteq pending
      /\ proc \in Nat /\ cur \in Nat /\ readers \in Seq(Nat)
      /\ pc \in [Callers -> {"idle", "call", "start", "sent", "resumed", "done"}]
      /\ waiters \subseteq Callers /\ pending \subseteq Requests
  BY DEF ServiceInvariant, ServiceTyped
<1>1. /\ queue # <<>> /\ h.op \in {"run", "park", "write"} /\ queue' = Tail(queue)
      /\ UNCHANGED <<attempt, proc, cur, readers>>
  BY DEF SpawnFails, Park, Write, Job, reading, child, client, Resumed
<1>2. h \in QueueJobs /\ queue' \in Seq(QueueJobs)
  BY <1>0, <1>1
<1>3. \A c \in Callers :
        /\ ~Holds(h, c) => /\ Free(queue, c) => Free(queue', c)
                           /\ Once(queue, c) => Once(queue', c)
        /\ Holds(h, c) /\ Once(queue, c) => Free(queue', c)
        /\ Holds(h, c) => ~Free(queue, c)
  BY <1>0, <1>1, TakenJob
<1>4. \A c \in Callers : /\ pc[c] = "sent" => Id(c) \in pending
                         /\ \/ pc[c] = "start" /\ c \in waiters /\ Free(queue, c)
                            \/ pc[c] = "start" /\ c \notin waiters /\ Once(queue, c)
                            \/ pc[c] # "start" /\ c \notin waiters /\ Free(queue, c)
  BY <1>0 DEF HeldInPlace
<1>5. \A r \in pending : pc[r[1]] = "sent" /\ r = Id(r[1]) /\ r[1] \in Callers
  BY <1>0 DEF HeldInPlace, Requests
\* One caller d, held by the job, is resumed or joins the waiters.
<1>6. ASSUME NEW d \in Callers, \A c \in Callers : Holds(h, c) <=> c = d,
             UNCHANGED <<pending, timed>>,
             \/ /\ pc' = [c \in Callers |-> IF c \in {d} THEN "resumed" ELSE pc[c]]
                /\ waiters' = waiters
             \/ pc' = pc /\ waiters' = waiters \cup {d}
      PROVE  ServiceTyped' /\ HeldInPlace'
  <2>1. pc[d] = "start" /\ d \notin waiters /\ Once(queue, d) /\ Free(queue', d)
    BY <1>3, <1>4, <1>6
  <2>2. \A c \in Callers : c # d => /\ pc'[c] = pc[c]
                                    /\ c \in waiters' <=> c \in waiters
                                    /\ Free(queue, c) => Free(queue', c)
                                    /\ Once(queue, c) => Once(queue', c)
    BY <1>0, <1>3, <1>6
  <2>3. /\ pc' \in [Callers -> {"idle", "call", "start", "sent", "resumed", "done"}]
        /\ waiters' \subseteq Callers
        /\ \/ pc'[d] = "resumed" /\ d \notin waiters'
           \/ pc'[d] = "start" /\ d \in waiters'
    BY <1>0, <1>6, <2>1
  <2>4. ServiceTyped'
    BY <1>0, <1>1, <1>2, <1>6, <2>3 DEF ServiceTyped
  <2>5. ASSUME NEW c \in Callers
        PROVE  /\ pc'[c] = "sent" => Id(c)' \in pending'
               /\ \/ pc'[c] = "start" /\ c \in waiters' /\ Free(queue', c)
                  \/ pc'[c] = "start" /\ c \notin waiters' /\ Once(queue', c)
                  \/ pc'[c] # "start" /\ c \notin waiters' /\ Free(queue', c)
    <3>1. CASE c = d
      BY <2>1, <2>3, <3>1
    <3>2. CASE c # d
      BY <1>1, <1>4, <1>6, <2>2, <3>2 DEF Id
    <3> QED
      BY <3>1, <3>2
  <2>6. ASSUME NEW r \in pending' PROVE pc'[r[1]] = "sent" /\ r = Id(r[1])'
    <3>1. r[1] \in Callers /\ pc[r[1]] = "sent" /\ r = Id(r[1])
      BY <1>5, <1>6
    <3>2. r[1] # d
      BY <2>1, <3>1
    <3> QED
      BY <1>1, <2>2, <3>1, <3>2 DEF Id
  <2> QED
    BY <2>4, <2>5, <2>6 DEF HeldInPlace
<1>7. CASE Park
  <2>1. h.op = "park" /\ h.c \in Callers
    BY <1>2, <1>7, JobShapes DEF Park, Job
  <2>2. \A c \in Callers : Holds(h, c) <=> c = h.c
    BY <2>1 DEF Holds
  <2>3. /\ UNCHANGED <<pending, timed>>
        /\ \/ /\ pc' = [c \in Callers |-> IF c \in {h.c} THEN "resumed" ELSE pc[c]]
              /\ waiters' = waiters
           \/ pc' = pc /\ waiters' = waiters \cup {h.c}
    BY <1>7 DEF Park, Resumed, client, timers
  <2> HIDE DEF h
  <2> QED
    BY <1>6, <2>1, <2>2, <2>3
<1>8. CASE SpawnFails
  <2>1. h.op = "run"
    BY <1>8 DEF SpawnFails, Job
  <2>2. /\ UNCHANGED <<waiters, pending, timed>>
        /\ pc' = [c \in Callers |-> IF c \in {j.c : j \in Range(h.then)} THEN "resumed"
                                    ELSE pc[c]]
    BY <1>8 DEF SpawnFails, Resumed, timers
  <2>3. CASE h.then = <<>>
    <3>1. Range(h.then) = {}
      BY <2>3 DEF Range
    <3>2. pc' = pc
      BY <1>0, <2>2, <3>1
    <3>3. \A c \in Callers : ~Holds(h, c)
      BY <2>1, <2>3 DEF Holds
    <3>4. Keeps(queue, queue')
      BY <1>3, <3>3 DEF Keeps
    <3> QED
      BY <1>0, <1>1, <1>2, <2>2, <3>2, <3>4, QuietStep
  <2>4. ASSUME NEW d \in Callers, h.then = <<[op |-> "park", c |-> d]>>
        PROVE  ServiceTyped' /\ HeldInPlace'
    <3>1. Range(h.then) = {[op |-> "park", c |-> d]}
      <4>1. DOMAIN h.then = {1} /\ h.then[1] = [op |-> "park", c |-> d]
        BY <2>4
      <4> QED
        BY <4>1 DEF Range
    <3>2. {j.c : j \in Range(h.then)} = {d}
      <4>1. [op |-> "park", c |-> d].c = d
        OBVIOUS
      <4> QED
        BY <3>1, <4>1
    <3>3. h.then # <<>> /\ h.then[1].c = d
      BY <2>4
    <3>4. \A c \in Callers : Holds(h, c) <=> c = d
      BY <2>1, <3>3 DEF Holds
    <3> HIDE DEF h
    <3> QED
      BY <1>6, <2>2, <3>2, <3>4
  <2> QED
    BY <1>2, <2>1, <2>3, <2>4, JobShapes
<1>9. CASE Write
  <2>1. h.op = "write" /\ UNCHANGED waiters
    BY <1>9 DEF Write, Job
  <2>2. Keeps(queue, queue')
    BY <1>0, <1>1, <2>1, KeptQueues
  <2>3. \/ /\ UNCHANGED <<pc, attempt, pending>>
           /\ timed' = timed \cup (pending \cap {h.r})
        \/ /\ pc' = [c \in Callers |-> IF c \in OwnersOf(pending \cap {h.r}) THEN "resumed"
                                       ELSE pc[c]]
           /\ pending' = pending \ {h.r} /\ timed' = timed \ {h.r}
    BY <1>9 DEF Write, client, Resumed, Forget
  <2> HIDE DEF h
  <2>4. CASE UNCHANGED <<pc, attempt, pending>> /\ timed' = timed \cup (pending \cap {h.r})
    BY <1>0, <1>1, <1>2, <2>1, <2>2, <2>4, QuietStep
  <2>5. CASE /\ pc' = [c \in Callers |-> IF c \in OwnersOf(pending \cap {h.r}) THEN "resumed"
                                         ELSE pc[c]]
             /\ pending' = pending \ {h.r} /\ timed' = timed \ {h.r}
    <3> DEFINE R == pending \cap {h.r}
    <3>1. R \subseteq pending /\ pending' = pending \ R /\ timed' \subseteq pending'
      BY <1>0, <2>5
    <3>2. OwnersOf(R) = (waiters \ waiters') \cup OwnersOf(R)
      BY <2>1
    <3>3. pc' = [c \in Callers |-> IF c \in OwnersOf(R) THEN "resumed" ELSE pc[c]]
      BY <2>5
    <3>4. waiters' \subseteq waiters /\ proc' \in Nat /\ cur' \in Nat /\ readers' \in Seq(Nat)
      BY <1>0, <1>1, <2>1
    <3> HIDE DEF R
    <3> QED
      BY <1>0, <1>1, <1>2, <2>2, <3>1, <3>2, <3>3, <3>4, CollectionStep
  <2> QED
    BY <2>3, <2>4, <2>5
<1> QED
  BY <1>7, <1>8, <1>9

\* Timers and cancellation resume the owners of what they take out.
LEMMA TimerStep ==
    ASSUME ServiceInvariant,
           \/ scheduleStartupTimeout
           \/ \E r \in Requests : scheduleRequestTimeout(r)
           \/ \E c \in Callers : CancelTask(c)
           \/ cancelPendingEvaluation
    PROVE  ServiceTyped' /\ HeldInPlace'
<1>0. /\ ServiceTyped /\ HeldInPlace /\ queue \in Seq(QueueJobs) /\ timed \subseteq pending
      /\ proc \in Nat /\ cur \in Nat /\ readers \in Seq(Nat)
  BY DEF ServiceInvariant, ServiceTyped
<1>1. Stop \in QueueJobs /\ Stop.op = "stop"
  BY DEF Stop, StopBy, QueueJobs
<1>2. /\ Keeps(queue, queue)
      /\ Keeps(queue, Append(queue, Stop)) /\ Append(queue, Stop) \in Seq(QueueJobs)
  BY <1>0, <1>1, KeptQueues
<1>3. CASE scheduleStartupTimeout
  <2>1. /\ waiters' = {} /\ queue' = Append(queue, Stop)
        /\ UNCHANGED <<attempt, proc, cur, readers, pending, timed>>
        /\ pc' = [c \in Callers |-> IF c \in waiters THEN "resumed" ELSE pc[c]]
    BY <1>3 DEF scheduleStartupTimeout, Resumed, reading
  <2>2. waiters = (waiters \ waiters') \cup OwnersOf({})
    BY <2>1 DEF OwnersOf
  <2>3. {} \subseteq pending /\ pending' = pending \ {}
    BY <2>1
  <2> QED
    BY <1>0, <1>2, <2>1, <2>2, <2>3, CollectionStep
\* The requests R leave pendingRequests and their owners are resumed.
<1>4. ASSUME NEW R, R \subseteq pending, Forget(R),
             pc' = [c \in Callers |-> IF c \in OwnersOf(R) THEN "resumed" ELSE pc[c]],
             queue' \in {queue, Append(queue, Stop)},
             UNCHANGED <<attempt, proc, cur, readers, waiters>>
      PROVE  ServiceTyped' /\ HeldInPlace'
  <2>1. pending' = pending \ R /\ timed' \subseteq pending'
    BY <1>0, <1>4 DEF Forget
  <2>2. OwnersOf(R) = (waiters \ waiters') \cup OwnersOf(R) /\ waiters' \subseteq waiters
    BY <1>4
  <2>3. Keeps(queue, queue') /\ queue' \in Seq(QueueJobs)
    BY <1>0, <1>2, <1>4
  <2>4. proc' \in Nat /\ cur' \in Nat /\ readers' \in Seq(Nat) /\ attempt' = attempt
    BY <1>0, <1>4
  <2> QED
    BY <1>0, <1>4, <2>1, <2>2, <2>3, <2>4, CollectionStep
<1>5. ASSUME NEW r \in Requests, scheduleRequestTimeout(r) PROVE ServiceTyped' /\ HeldInPlace'
  <2>1. {r} \subseteq pending /\ OwnersOf({r}) = {r[1]}
    BY <1>0, <1>5 DEF scheduleRequestTimeout, OwnersOf
  <2>2. /\ Forget({r}) /\ queue' \in {queue, Append(queue, Stop)}
        /\ pc' = [c \in Callers |-> IF c \in {r[1]} THEN "resumed" ELSE pc[c]]
        /\ UNCHANGED <<attempt, proc, cur, readers, waiters>>
    BY <1>5 DEF scheduleRequestTimeout, Resumed, reading
  <2> QED
    BY <1>4, <2>1, <2>2
<1>6. ASSUME NEW R, R \subseteq pending, CancelRequests(R) PROVE ServiceTyped' /\ HeldInPlace'
  BY <1>4, <1>6 DEF CancelRequests, reading
<1>7. ASSUME NEW c \in Callers, CancelTask(c) PROVE ServiceTyped' /\ HeldInPlace'
  BY <1>6, <1>7 DEF CancelTask
<1>8. CASE cancelPendingEvaluation
  BY <1>6, <1>8 DEF cancelPendingEvaluation
<1> QED
  BY <1>3, <1>5, <1>7, <1>8

\* The reader resumes those whose handshake or answer it has, or fails them.
LEMMA ReaderStep ==
    ASSUME ServiceInvariant, Reader
    PROVE  ServiceTyped' /\ HeldInPlace'
<1>0. /\ ServiceTyped /\ HeldInPlace /\ queue \in Seq(QueueJobs) /\ timed \subseteq pending
      /\ proc \in Nat /\ cur \in Nat /\ readers \in Seq(Nat)
      /\ readers = <<>> => line = None
  BY DEF ServiceInvariant, ServiceTyped, LaunchInPlace
<1>1. Stop \in QueueJobs /\ Stop.op = "stop"
  BY DEF Stop, StopBy, QueueJobs
<1>2. /\ Keeps(queue, queue)
      /\ Keeps(queue, Append(queue, Stop)) /\ Append(queue, Stop) \in Seq(QueueJobs)
  BY <1>0, <1>1, KeptQueues
<1>3. readers' \in Seq(Nat) /\ UNCHANGED <<proc, cur, attempt>>
  <2>1. CASE ReadLine \/ resolveReady \/ dispatch
    BY <1>0, <2>1 DEF ReadLine, resolveReady, dispatch, Resumed, client
  <2>2. CASE ReaderTerminated \/ handleStartupProtocolFailure \/ handleRuntimeProtocolFailure
    <3>1. readers # <<>> /\ readers' = Tail(readers)
      BY <1>0, <2>2 DEF ReaderTerminated, handleStartupProtocolFailure,
                        handleRuntimeProtocolFailure, NextReader, None
    <3>2. UNCHANGED <<proc, cur, attempt>>
      BY <2>2 DEF ReaderTerminated, handleStartupProtocolFailure,
                  handleRuntimeProtocolFailure, Resumed, client
    <3> QED
      BY <1>0, <3>1, <3>2
  <2> QED
    BY <2>1, <2>2 DEF Reader
\* The waiters W stay, the requests R leave, and the others are resumed.
<1>4. ASSUME NEW W, W \subseteq waiters, waiters' = W, NEW R, R \subseteq pending,
             pending' = pending \ R, timed' \subseteq pending',
             pc' = [c \in Callers |-> IF c \in (waiters \ W) \cup OwnersOf(R) THEN "resumed"
                                     ELSE pc[c]],
             queue' \in {queue, Append(queue, Stop)}
      PROVE  ServiceTyped' /\ HeldInPlace'
  <2>1. Keeps(queue, queue') /\ queue' \in Seq(QueueJobs)
    BY <1>0, <1>2, <1>4
  <2>2. proc' \in Nat /\ cur' \in Nat /\ attempt' = attempt
    BY <1>0, <1>3
  <2>3. (waiters \ W) \cup OwnersOf(R) = (waiters \ waiters') \cup OwnersOf(R)
    BY <1>4
  <2> QED
    BY <1>0, <1>3, <1>4, <2>1, <2>2, <2>3, CollectionStep
<1>5. ASSUME UNCHANGED <<pc, waiters, pending, timed, queue>> PROVE ServiceTyped' /\ HeldInPlace'
  BY <1>0, <1>2, <1>3, <1>5, QuietStep
<1>6. waiters \ waiters = {} /\ OwnersOf({}) = {} /\ waiters \ {} = waiters
  BY DEF OwnersOf
<1>7. CASE ReaderTerminated
  <2>1. CASE cur = Gen
    <3>1. /\ waiters' = {} /\ Forget(pending) /\ queue' = Append(queue, Stop)
          /\ pc' = [c \in Callers |-> IF c \in waiters \cup OwnersOf(pending) THEN "resumed"
                                      ELSE pc[c]]
      BY <1>7, <2>1 DEF ReaderTerminated, Resumed
    <3>2. pending' = pending \ pending /\ timed' \subseteq pending'
      BY <1>0, <3>1 DEF Forget
    <3> QED
      BY <1>4, <1>6, <3>1, <3>2
  <2>2. CASE cur # Gen
    BY <1>5, <1>7, <2>2 DEF ReaderTerminated, client
  <2> QED
    BY <2>1, <2>2
<1>8. CASE ReadLine
  BY <1>5, <1>8 DEF ReadLine, client
<1>9. CASE resolveReady
  <2>1. UNCHANGED <<queue, pending, timed>>
    BY <1>9 DEF resolveReady
  <2>2. CASE cur = Gen
    <3>1. /\ waiters' = {}
          /\ pc' = [c \in Callers |-> IF c \in waiters THEN "resumed" ELSE pc[c]]
      BY <1>9, <2>2 DEF resolveReady, Resumed
    <3>2. pending' = pending \ {} /\ timed' \subseteq pending'
      BY <1>0, <2>1
    <3>3. (waiters \ {}) \cup OwnersOf({}) = waiters
      BY <1>6
    <3> QED
      BY <1>4, <2>1, <3>1, <3>2, <3>3
  <2>3. CASE cur # Gen
    BY <1>5, <1>9, <2>1, <2>3 DEF resolveReady, client
  <2> QED
    BY <2>2, <2>3
<1>10. CASE dispatch
  <2>1. PICK R \in {{}, pending \cap {line.r}} : Resumed(OwnersOf(R), "answered") /\ Forget(R)
    BY <1>10 DEF dispatch
  <2>2. UNCHANGED <<queue, waiters>> /\ R \subseteq pending
    BY <1>10, <2>1 DEF dispatch
  <2>3. pending' = pending \ R /\ timed' \subseteq pending'
    BY <1>0, <2>1 DEF Forget
  <2>4. pc' = [c \in Callers |-> IF c \in OwnersOf(R) THEN "resumed" ELSE pc[c]]
    BY <2>1 DEF Resumed
  <2>5. (waiters \ waiters) \cup OwnersOf(R) = OwnersOf(R)
    OBVIOUS
  <2> QED
    BY <1>4, <2>2, <2>3, <2>4, <2>5
<1>11. CASE handleStartupProtocolFailure
  <2>1. UNCHANGED <<pending, timed>>
    BY <1>11 DEF handleStartupProtocolFailure, timers
  <2>2. CASE cur = Gen
    <3>1. /\ waiters' = {} /\ queue' = Append(queue, Stop)
          /\ pc' = [c \in Callers |-> IF c \in waiters THEN "resumed" ELSE pc[c]]
      BY <1>11, <2>2 DEF handleStartupProtocolFailure, Resumed
    <3>2. waiters = (waiters \ waiters') \cup OwnersOf({})
      BY <1>6, <3>1
    <3>3. {} \subseteq pending /\ pending' = pending \ {}
      BY <2>1
    <3> QED
      BY <1>0, <1>2, <1>3, <2>1, <3>1, <3>2, <3>3, CollectionStep
  <2>3. CASE cur # Gen
    BY <1>5, <1>11, <2>1, <2>3 DEF handleStartupProtocolFailure, client
  <2> QED
    BY <2>2, <2>3
<1>12. CASE handleRuntimeProtocolFailure
  <2>1. CASE cur = Gen
    <3>1. /\ waiters' = waiters /\ Forget(pending) /\ queue' = Append(queue, Stop)
          /\ pc' = [c \in Callers |-> IF c \in OwnersOf(pending) THEN "resumed" ELSE pc[c]]
      BY <1>12, <2>1 DEF handleRuntimeProtocolFailure, Resumed
    <3>2. pending' = pending \ pending /\ timed' \subseteq pending'
      BY <1>0, <3>1 DEF Forget
    <3>3. (waiters \ waiters) \cup OwnersOf(pending) = OwnersOf(pending)
      OBVIOUS
    <3> QED
      BY <1>4, <3>1, <3>2, <3>3
  <2>2. CASE cur # Gen
    BY <1>5, <1>12, <2>2 DEF handleRuntimeProtocolFailure, client
  <2> QED
    BY <2>1, <2>2
<1> QED
  BY <1>7, <1>8, <1>9, <1>10, <1>11, <1>12 DEF Reader

\* A caller's own steps: it hands itself to the queue, to pendingRequests, or leaves.
LEMMA TaskStep ==
    ASSUME ServiceInvariant, NEW d \in Callers, Task(d)
    PROVE  ServiceTyped' /\ HeldInPlace'
<1>0. /\ ServiceTyped /\ HeldInPlace /\ queue \in Seq(QueueJobs) /\ timed \subseteq pending
      /\ pc \in [Callers -> {"idle", "call", "start", "sent", "resumed", "done"}]
      /\ attempt \in [Callers -> {1, 2}]
      /\ waiters \subseteq Callers /\ pending \subseteq Requests
      /\ proc \in Nat /\ cur \in Nat /\ readers \in Seq(Nat)
  BY DEF ServiceInvariant, ServiceTyped
<1>1. UNCHANGED <<proc, cur, readers, waiters, timed>>
  BY DEF Task, EnsureStarted, Send, Rebuild, Return, reading, timers
<1>2. /\ pc[d] \in {"idle", "call", "resumed"}
      /\ pc' \in [Callers -> {"idle", "call", "start", "sent", "resumed", "done"}]
      /\ attempt' \in [Callers -> {1, 2}]
      /\ \A c \in Callers : c # d => pc'[c] = pc[c] /\ attempt'[c] = attempt[c]
      /\ pc'[d] = "sent" => attempt'[d] = attempt[d]
  BY <1>0 DEF Task, EnsureStarted, Send, Rebuild, Return, Resumed
<1>3. /\ d \notin waiters /\ Free(queue, d)
      /\ \A r \in pending : r[1] # d
  BY <1>0, <1>2 DEF HeldInPlace
<1>4. /\ pc'[d] # "sent" => pending' = pending
      /\ pc'[d] = "sent" => pending' = pending \cup {<<d, attempt[d]>>}
  BY <1>0, <1>2 DEF Task, EnsureStarted, Send, Rebuild, Return, Resumed, Id
<1>5. /\ queue' \in Seq(QueueJobs)
      /\ \A c \in Callers : c # d => /\ Free(queue, c) => Free(queue', c)
                                     /\ Once(queue, c) => Once(queue', c)
      /\ pc'[d] = "start" => Once(queue', d)
      /\ pc'[d] # "start" => Free(queue', d)
  <2>1. CASE EnsureStarted(d)
    <3> DEFINE j == [op |-> "start", c |-> d]
    <3>1. queue' = Append(queue, j) /\ pc'[d] = "start"
      BY <1>0, <2>1 DEF EnsureStarted
    <3>2. j \in QueueJobs
      BY DEF QueueJobs
    <3>3. \A c \in Callers : Holds(j, c) <=> c = d
      BY DEF Holds
    <3> HIDE DEF j
    <3> QED
      BY <1>0, <1>3, <3>1, <3>2, <3>3, AppendedJob
  <2>2. ASSUME NEW j \in QueueJobs, j.op \in {"stop", "write"}, queue' = Append(queue, j),
               pc'[d] # "start"
        PROVE  /\ queue' \in Seq(QueueJobs)
               /\ \A c \in Callers : c # d => /\ Free(queue, c) => Free(queue', c)
                                              /\ Once(queue, c) => Once(queue', c)
               /\ pc'[d] = "start" => Once(queue', d)
               /\ pc'[d] # "start" => Free(queue', d)
    <3>1. Keeps(queue, queue') /\ queue' \in Seq(QueueJobs)
      BY <1>0, <2>2, KeptQueues
    <3> QED
      BY <1>3, <2>2, <3>1 DEF Keeps
  <2>3. CASE Send(d)
    <3>1. CASE d \in cancelled
      <4>1. queue' = queue /\ pc'[d] = "resumed"
        BY <2>3, <3>1 DEF Send, Resumed
      <4> QED
        BY <1>0, <1>3, <4>1
    <3>2. CASE d \notin cancelled
      <4> DEFINE j == [op |-> "write", r |-> Id(d), handle |-> proc]
      <4>1. queue' = Append(queue, j) /\ pc'[d] = "sent"
        BY <1>0, <2>3, <3>2 DEF Send
      <4>2. Id(d) \in Requests
        BY <1>0 DEF Id, Requests
      <4>3. j \in QueueJobs /\ j.op = "write"
        BY <1>0, <4>2 DEF QueueJobs
      <4> HIDE DEF j
      <4> QED
        BY <2>2, <4>1, <4>3
    <3> QED
      BY <3>1, <3>2
  <2>4. CASE Rebuild(d)
    <3>1. queue' = Append(queue, StopBy("retry")) /\ pc'[d] = "call"
      BY <1>0, <2>4 DEF Rebuild
    <3>2. StopBy("retry") \in QueueJobs /\ StopBy("retry").op = "stop"
      BY DEF StopBy, QueueJobs
    <3> QED
      BY <2>2, <3>1, <3>2
  <2>5. CASE Return(d)
    <3>1. queue' = queue /\ pc'[d] = "done"
      BY <1>0, <2>5 DEF Return
    <3> QED
      BY <1>0, <1>3, <3>1
  <2> QED
    BY <2>1, <2>3, <2>4, <2>5 DEF Task
<1>6. ServiceTyped'
  <2>1. <<d, attempt[d]>> \in Requests
    BY <1>0 DEF Requests
  <2> QED
    BY <1>0, <1>1, <1>2, <1>4, <1>5, <2>1 DEF ServiceTyped
<1>7. ASSUME NEW c \in Callers
      PROVE  /\ pc'[c] = "sent" => Id(c)' \in pending'
             /\ \/ pc'[c] = "start" /\ c \in waiters' /\ Free(queue', c)
                \/ pc'[c] = "start" /\ c \notin waiters' /\ Once(queue', c)
                \/ pc'[c] # "start" /\ c \notin waiters' /\ Free(queue', c)
  <2>1. CASE c = d
    BY <1>1, <1>2, <1>3, <1>4, <1>5, <2>1 DEF Id
  <2>2. CASE c # d
    <3>1. /\ pc[c] = "sent" => <<c, attempt[c]>> \in pending
          /\ \/ pc[c] = "start" /\ c \in waiters /\ Free(queue, c)
             \/ pc[c] = "start" /\ c \notin waiters /\ Once(queue, c)
             \/ pc[c] # "start" /\ c \notin waiters /\ Free(queue, c)
      BY <1>0 DEF HeldInPlace, Id
    <3> QED
      BY <1>1, <1>2, <1>4, <1>5, <2>2, <3>1 DEF Id
  <2> QED
    BY <2>1, <2>2
<1>8. ASSUME NEW r \in pending' PROVE pc'[r[1]] = "sent" /\ r = Id(r[1])'
  <2>1. CASE r \in pending
    <3>1. pc[r[1]] = "sent" /\ r = <<r[1], attempt[r[1]]>> /\ r[1] \in Callers /\ r[1] # d
      BY <1>0, <1>3, <2>1 DEF HeldInPlace, Id, Requests
    <3> QED
      BY <1>2, <3>1 DEF Id
  <2>2. CASE r \notin pending
    <3>1. pc'[d] = "sent" /\ r = <<d, attempt[d]>>
      BY <1>4, <1>8, <2>2
    <3> QED
      BY <1>2, <3>1 DEF Id
  <2> QED
    BY <2>1, <2>2
<1> QED
  BY <1>6, <1>7, <1>8 DEF HeldInPlace

\* No step loses a caller or keeps one twice.
LEMMA CallersKept ==
    ASSUME ServiceInvariant, [Next]_vars
    PROVE  ServiceTyped' /\ HeldInPlace'
<1>0. /\ ServiceTyped /\ HeldInPlace /\ queue \in Seq(QueueJobs) /\ timed \subseteq pending
      /\ proc \in Nat /\ cur \in Nat /\ readers \in Seq(Nat)
  BY DEF ServiceInvariant, ServiceTyped
<1>1. ASSUME UNCHANGED <<pc, attempt, queue, proc, cur, waiters, pending, timed, readers>>
      PROVE  ServiceTyped' /\ HeldInPlace'
  BY <1>0, <1>1, KeptQueues, QuietStep
<1>2. CASE Child \/ UNCHANGED vars
  <2>1. UNCHANGED <<pc, attempt, queue, proc, cur, waiters, pending, timed, readers>>
    BY <1>2 DEF Child, Greet, Babble, Crash, Answer, childOnly, client, timers, reading, vars
  <2> QED
    BY <1>1, <2>1
<1> QED
  BY <1>2, TaskStep, TimerStep, JobStep, CallerJobStep, ReaderStep
  DEF Next, WriteQueue, Timers

\* The queue launches a process next; it will stop or launch one.
Launching(q) == \E i \in DOMAIN q : q[i].op = "run"
Ending(q) == \E i \in DOMAIN q : q[i].op \in {"stop", "run"}
LaunchesFirst(q) == \A i \in DOMAIN q : q[i].op = "run" => i = 1

\* What becomes of launches and stops when the queue moves on.
LEMMA QueueMoves ==
    ASSUME NEW q \in Seq(QueueJobs), LaunchesFirst(q)
    PROVE  /\ \A j \in QueueJobs : j.op # "run" =>
                 /\ LaunchesFirst(Append(q, j))
                 /\ Launching(Append(q, j)) => Launching(q)
                 /\ Ending(q) \/ j.op = "stop" => Ending(Append(q, j))
           /\ q # <<>> =>
                 /\ LaunchesFirst(Tail(q)) /\ ~Launching(Tail(q))
                 /\ Head(q).op = "run" => Launching(q)
                 /\ Head(q).op \notin {"stop", "run"} /\ Ending(q) => Ending(Tail(q))
                 /\ \A j \in QueueJobs :
                       /\ LaunchesFirst(<<j>> \o Tail(q))
                       /\ Launching(<<j>> \o Tail(q)) => j.op = "run"
                       /\ Head(q).op \notin {"stop", "run"} /\ Ending(q)
                          => Ending(<<j>> \o Tail(q))
<1> DEFINE n == Len(q)
<1>1. n \in Nat /\ DOMAIN q = 1..n
  OBVIOUS
<1>2. ASSUME NEW j \in QueueJobs, j.op # "run"
      PROVE  /\ LaunchesFirst(Append(q, j))
             /\ Launching(Append(q, j)) => Launching(q)
             /\ Ending(q) \/ j.op = "stop" => Ending(Append(q, j))
  <2> DEFINE p == Append(q, j)
  <2>1. /\ DOMAIN p = 1..(n + 1) /\ p[n + 1] = j
        /\ \A i \in 1..n : p[i] = q[i]
    OBVIOUS
  <2> HIDE DEF n, p
  <2>2. /\ n + 1 \in 1..(n + 1)
        /\ \A i \in 1..(n + 1) : i \in 1..n \/ i = n + 1
        /\ \A i \in 1..n : i \in 1..(n + 1)
    BY <1>1
  <2>3. LaunchesFirst(p) /\ (Launching(p) => Launching(q))
    BY <1>1, <1>2, <2>1, <2>2 DEF LaunchesFirst, Launching
  <2>4. Ending(q) \/ j.op = "stop" => Ending(p)
    BY <1>1, <2>1, <2>2 DEF Ending
  <2> QED
    BY <2>3, <2>4 DEF p
<1>3. ASSUME q # <<>>
      PROVE  /\ LaunchesFirst(Tail(q)) /\ ~Launching(Tail(q))
             /\ Head(q).op = "run" => Launching(q)
             /\ Head(q).op \notin {"stop", "run"} /\ Ending(q) => Ending(Tail(q))
  <2> DEFINE p == Tail(q)
             h == Head(q)
  <2>1. /\ n > 0 /\ DOMAIN p = 1..(n - 1) /\ h = q[1]
        /\ \A i \in 1..(n - 1) : p[i] = q[i + 1]
    BY <1>3
  <2> HIDE DEF n, p, h
  <2>2. /\ 1 \in 1..n
        /\ \A i \in 1..(n - 1) : i + 1 \in 1..n /\ i + 1 # 1
        /\ \A i \in 1..n : i = 1 \/ (i - 1 \in 1..(n - 1) /\ p[i - 1] = q[i])
    BY <1>1, <2>1
  <2>3. \A i \in 1..(n - 1) : p[i].op # "run"
    BY <1>1, <2>1, <2>2 DEF LaunchesFirst
  <2>4. h.op = "run" => Launching(q)
    BY <1>1, <2>1, <2>2 DEF Launching
  <2>5. h.op \notin {"stop", "run"} /\ Ending(q) => Ending(p)
    BY <1>1, <2>1, <2>2 DEF Ending
  <2>6. LaunchesFirst(p) /\ ~Launching(p)
    BY <2>1, <2>3 DEF LaunchesFirst, Launching
  <2> QED
    BY <2>4, <2>5, <2>6 DEF p, h
<1>4. ASSUME q # <<>>, NEW j \in QueueJobs
      PROVE  /\ LaunchesFirst(<<j>> \o Tail(q))
             /\ Launching(<<j>> \o Tail(q)) => j.op = "run"
             /\ Head(q).op \notin {"stop", "run"} /\ Ending(q) => Ending(<<j>> \o Tail(q))
  <2> DEFINE p == <<j>> \o Tail(q)
             h == Head(q)
  <2>1. /\ n > 0 /\ DOMAIN p = 1..n /\ h = q[1] /\ p[1] = j
        /\ \A i \in 1..n : i # 1 => p[i] = q[i]
    BY <1>4
  <2> HIDE DEF n, p, h
  <2>2. LaunchesFirst(p) /\ (Launching(p) => j.op = "run")
    BY <1>1, <2>1 DEF LaunchesFirst, Launching
  <2>3. h.op \notin {"stop", "run"} /\ Ending(q) => Ending(p)
    BY <1>1, <2>1 DEF Ending
  <2> QED
    BY <2>2, <2>3 DEF p, h
<1> QED
  BY <1>2, <1>3, <1>4

\* While the process stays, so does its reader or the job that ends it.
LEMMA ProcessStays ==
    ASSUME ServiceInvariant, UNCHANGED <<proc, cur>>, alive' \subseteq alive,
           LaunchesFirst(queue'), Launching(queue') => Launching(queue),
           \/ Ending(queue')
           \/ (Ending(queue) => Ending(queue')) /\ (proc \in Range(readers) => proc \in Range(readers')),
           readers' = <<>> => line' = None
    PROVE  LaunchInPlace' /\ ProcessIsWatched'
<1>1. /\ Launching(queue) => proc = 0
      /\ 0 \notin alive /\ (proc # 0 => proc = cur) /\ alive \subseteq {proc}
      /\ proc # 0 => proc \in Range(readers) \/ Ending(queue)
  BY DEF ServiceInvariant, LaunchInPlace, ProcessIsWatched, Launching, Ending
<1>2. LaunchInPlace'
  BY <1>1 DEF LaunchInPlace, LaunchesFirst, Launching
<1>3. ProcessIsWatched'
  BY <1>1 DEF ProcessIsWatched, Ending
<1> QED
  BY <1>2, <1>3

\* Without a process there is nothing to watch.
LEMMA NoProcess ==
    ASSUME ServiceInvariant, proc' = 0, alive' = alive \ {proc} \/ (proc = 0 /\ alive' = alive),
           LaunchesFirst(queue'), readers' = <<>> => line' = None
    PROVE  LaunchInPlace' /\ ProcessIsWatched'
<1>1. 0 \notin alive /\ alive \subseteq {proc}
  BY DEF ServiceInvariant, LaunchInPlace, ProcessIsWatched
<1>2. alive' = {}
  BY <1>1
<1> QED
  BY <1>2 DEF LaunchInPlace, ProcessIsWatched, LaunchesFirst

\* No step leaves a process without its reader or a job that ends it, or launches
\* a second one.
LEMMA ProcessWatched ==
    ASSUME ServiceInvariant, [Next]_vars
    PROVE  LaunchInPlace' /\ ProcessIsWatched'
<1>0. /\ queue \in Seq(QueueJobs) /\ LaunchesFirst(queue)
      /\ proc \in Nat /\ cur \in Nat /\ readers \in Seq(Nat)
      /\ readers = <<>> => line = None
      /\ Launching(queue) => proc = 0
      /\ proc # 0 => proc = cur
  BY DEF ServiceInvariant, ServiceTyped, LaunchInPlace, LaunchesFirst, Launching
<1>1. Stop \in QueueJobs /\ Stop.op = "stop"
  BY DEF Stop, StopBy, QueueJobs
<1>2. /\ LaunchesFirst(Append(queue, Stop)) /\ Ending(Append(queue, Stop))
      /\ Launching(Append(queue, Stop)) => Launching(queue)
  BY <1>0, <1>1, QueueMoves
<1>3. ASSUME UNCHANGED <<proc, cur, readers>>, alive' \subseteq alive,
             line' = line \/ line' = None \/ readers # <<>>,
             \/ queue' = queue
             \/ queue' = Append(queue, Stop)
             \/ \E j \in QueueJobs : j.op # "run" /\ queue' = Append(queue, j)
      PROVE  LaunchInPlace' /\ ProcessIsWatched'
  <2>1. /\ LaunchesFirst(queue') /\ (Launching(queue') => Launching(queue))
        /\ Ending(queue) => Ending(queue')
    <3>1. CASE queue' = queue
      BY <1>0, <3>1
    <3>2. CASE queue' = Append(queue, Stop)
      BY <1>2, <3>2
    <3>3. ASSUME NEW j \in QueueJobs, j.op # "run", queue' = Append(queue, j)
          PROVE  /\ LaunchesFirst(queue') /\ (Launching(queue') => Launching(queue))
                 /\ Ending(queue) => Ending(queue')
      BY <1>0, <3>3, QueueMoves
    <3> QED
      BY <1>3, <3>1, <3>2, <3>3
  <2>2. readers' = <<>> => line' = None
    BY <1>0, <1>3
  <2>3. UNCHANGED <<proc, cur>> /\ alive' \subseteq alive
    BY <1>3
  <2>4. proc \in Range(readers) => proc \in Range(readers')
    BY <1>3
  <2> QED
    BY <2>1, <2>2, <2>3, <2>4, ProcessStays
<1>4. ASSUME NEW c \in Callers, Task(c) PROVE LaunchInPlace' /\ ProcessIsWatched'
  <2>1. UNCHANGED <<proc, cur, readers, alive, line>>
    BY <1>4 DEF Task, EnsureStarted, Send, Rebuild, Return, reading, child
  <2>2. queue' = queue \/ \E j \in QueueJobs : j.op # "run" /\ queue' = Append(queue, j)
    <3>1. CASE EnsureStarted(c)
      <4>1. queue' = Append(queue, [op |-> "start", c |-> c])
        BY <3>1 DEF EnsureStarted
      <4>2. [op |-> "start", c |-> c] \in QueueJobs /\ [op |-> "start", c |-> c].op # "run"
        BY DEF QueueJobs
      <4> QED
        BY <4>1, <4>2
    <3>2. CASE Send(c)
      <4> DEFINE j == [op |-> "write", r |-> Id(c), handle |-> proc]
      <4>1. queue' = queue \/ queue' = Append(queue, j)
        BY <3>2 DEF Send
      <4>2. Id(c) \in Requests
        BY DEF ServiceInvariant, ServiceTyped, Id, Requests
      <4>3. j \in QueueJobs /\ j.op # "run"
        BY <1>0, <4>2 DEF QueueJobs
      <4> HIDE DEF j
      <4> QED
        BY <4>1, <4>3
    <3>3. CASE Rebuild(c)
      <4>1. queue' = Append(queue, StopBy("retry"))
        BY <3>3 DEF Rebuild
      <4>2. StopBy("retry") \in QueueJobs /\ StopBy("retry").op # "run"
        BY DEF StopBy, QueueJobs
      <4> QED
        BY <4>1, <4>2
    <3>4. CASE Return(c)
      BY <3>4 DEF Return
    <3> QED
      BY <1>4, <3>1, <3>2, <3>3, <3>4 DEF Task
  <2> QED
    BY <1>3, <2>1, <2>2
<1>5. CASE \/ Timers \/ Child \/ cancelPendingEvaluation
           \/ \E c \in Callers : CancelTask(c)
  <2>1. UNCHANGED <<proc, cur, readers, line>>
    BY <1>5 DEF Timers, scheduleStartupTimeout, scheduleRequestTimeout, Child, Greet, Babble,
                Crash, Answer, childOnly, cancelPendingEvaluation, CancelTask, CancelRequests,
                reading
  <2>2. alive' \subseteq alive
    BY <1>5 DEF Timers, scheduleStartupTimeout, scheduleRequestTimeout, Child, Greet, Babble,
                Crash, Answer, childOnly, cancelPendingEvaluation, CancelTask, CancelRequests
  <2>3. queue' = queue \/ queue' = Append(queue, Stop)
    BY <1>5 DEF Timers, scheduleStartupTimeout, scheduleRequestTimeout, Child, Greet, Babble,
                Crash, Answer, childOnly, cancelPendingEvaluation, CancelTask, CancelRequests
  <2> QED
    BY <1>3, <2>1, <2>2, <2>3
<1>6. CASE ReadLine \/ resolveReady \/ dispatch \/ UNCHANGED vars
  <2>1. UNCHANGED <<proc, cur, readers, alive, queue>>
    BY <1>6 DEF ReadLine, resolveReady, dispatch, vars, child, reading
  <2>2. line' = line \/ line' = None \/ readers # <<>>
    BY <1>6 DEF ReadLine, resolveReady, dispatch, vars, reading
  <2> QED
    BY <1>3, <2>1, <2>2
<1>7. CASE ReaderTerminated \/ handleStartupProtocolFailure \/ handleRuntimeProtocolFailure
  <2>1. /\ readers # <<>> /\ readers' = Tail(readers) /\ line' = None
        /\ UNCHANGED <<proc, cur, alive>>
    BY <1>0, <1>7 DEF ReaderTerminated, handleStartupProtocolFailure,
                      handleRuntimeProtocolFailure, NextReader, None, child
  <2>2. CASE cur = Gen
    <3>1. queue' = Append(queue, Stop)
      BY <1>7, <2>2 DEF ReaderTerminated, handleStartupProtocolFailure,
                        handleRuntimeProtocolFailure
    <3> QED
      BY <1>2, <2>1, <3>1, ProcessStays
  <2>3. CASE cur # Gen
    <3>1. queue' = queue
      BY <1>7, <2>3 DEF ReaderTerminated, handleStartupProtocolFailure,
                        handleRuntimeProtocolFailure
    <3>2. proc # 0 /\ proc \in Range(readers) => proc \in Range(readers')
      <4> SUFFICES ASSUME proc # 0, proc \in Range(readers) PROVE proc \in Range(Tail(readers))
        BY <2>1
      <4> DEFINE n == Len(readers)
                 p == Tail(readers)
      <4>1. /\ n \in Nat /\ DOMAIN readers = 1..n /\ DOMAIN p = 1..(n - 1)
            /\ \A k \in 1..(n - 1) : p[k] = readers[k + 1]
        BY <1>0, <2>1
      <4>2. Head(readers) # proc /\ Head(readers) = readers[1]
        BY <1>0, <2>1, <2>3 DEF Gen
      <4> HIDE DEF n, p
      <4>3. PICK i \in 1..n : readers[i] = proc
        BY <4>1 DEF Range
      <4>4. i - 1 \in 1..(n - 1) /\ p[i - 1] = proc
        BY <4>1, <4>2, <4>3
      <4>5. proc \in Range(p)
        BY <4>1, <4>4 DEF Range
      <4> QED
        BY <4>5 DEF p
    <3>3. CASE proc = 0
      BY <1>0, <2>1, <3>1, <3>3, NoProcess
    <3>4. CASE proc # 0
      BY <1>0, <2>1, <3>1, <3>2, <3>4, ProcessStays
    <3> QED
      BY <3>3, <3>4
  <2> QED
    BY <2>2, <2>3
<1>8. CASE Park \/ Write
  <2>1. /\ queue # <<>> /\ Head(queue).op \notin {"stop", "run"} /\ queue' = Tail(queue)
        /\ UNCHANGED <<proc, cur, readers, alive, line>>
    BY <1>8 DEF Park, Write, Job, child, reading
  <2>2. /\ LaunchesFirst(queue') /\ ~Launching(queue')
        /\ Ending(queue) => Ending(queue')
    BY <1>0, <2>1, QueueMoves
  <2> QED
    BY <1>0, <2>1, <2>2, ProcessStays
<1>9. CASE SpawnFails
  <2>1. /\ queue # <<>> /\ Head(queue).op = "run" /\ queue' = Tail(queue)
        /\ UNCHANGED <<proc, readers, alive, line>>
    BY <1>9 DEF SpawnFails, Job, reading
  <2>2. LaunchesFirst(queue') /\ Launching(queue)
    BY <1>0, <2>1, QueueMoves
  <2> QED
    BY <1>0, <2>1, <2>2, NoProcess
<1>10. CASE Spawn
  <2> DEFINE h == Head(queue)
  <2>1. /\ queue # <<>> /\ h.op = "run" /\ queue' = h.then \o Tail(queue)
        /\ cur' = cur + 1 /\ proc' = cur + 1 /\ readers' = Append(readers, cur + 1)
        /\ alive' = alive \cup {cur + 1}
    BY <1>10 DEF Spawn, Job
  <2>2. h \in QueueJobs
    BY <1>0, <2>1
  <2>3. LaunchesFirst(queue') /\ ~Launching(queue')
    <3>1. CASE h.then = <<>>
      <4>1. queue' = Tail(queue)
        BY <1>0, <2>1, <3>1
      <4> QED
        BY <1>0, <2>1, <4>1, QueueMoves
    <3>2. ASSUME NEW d \in Callers, h.then = <<[op |-> "park", c |-> d]>>
          PROVE  LaunchesFirst(queue') /\ ~Launching(queue')
      <4> DEFINE park == [op |-> "park", c |-> d]
      <4>1. queue' = <<park>> \o Tail(queue) /\ park \in QueueJobs /\ park.op # "run"
        BY <2>1, <3>2 DEF QueueJobs
      <4> HIDE DEF park
      <4> QED
        BY <1>0, <2>1, <4>1, QueueMoves
    <3> QED
      BY <2>1, <2>2, <3>1, <3>2, JobShapes
  <2>4. alive' = {cur + 1} /\ cur + 1 # 0
    <3>1. proc = 0
      BY <1>0, <2>1, QueueMoves
    <3>2. alive = {}
      BY <3>1 DEF ServiceInvariant, LaunchInPlace, ProcessIsWatched
    <3> QED
      BY <1>0, <2>1, <3>2
  <2>5. cur + 1 \in Range(readers') /\ readers' # <<>>
    <3> DEFINE n == Len(readers)
               p == Append(readers, cur + 1)
    <3>0. cur + 1 \in Nat /\ readers \in Seq(Nat)
      BY <1>0
    <3>1. n \in Nat /\ DOMAIN p = 1..(n + 1) /\ p[n + 1] = cur + 1 /\ p # <<>>
      BY <3>0
    <3> HIDE DEF n, p
    <3>2. n + 1 \in DOMAIN p
      BY <3>1
    <3>3. cur + 1 \in Range(p)
      BY <3>1, <3>2 DEF Range
    <3> QED
      BY <2>1, <3>1, <3>3 DEF p
  <2> QED
    BY <2>1, <2>3, <2>4, <2>5 DEF LaunchInPlace, ProcessIsWatched, Launching, LaunchesFirst
<1>11. CASE RunStop \/ RunLaunch \/ RunStart
  <2>1. UNCHANGED <<cur, readers, line>> /\ queue # <<>>
    BY <1>11 DEF RunStop, RunLaunch, RunStart, Job, reading
  <2>2. CASE RunStart /\ proc # 0 /\ proc \in alive
    <3> DEFINE park == [Head(queue) EXCEPT !.op = "park"]
    <3>1. /\ Head(queue).op = "start" /\ queue' = <<park>> \o Tail(queue)
          /\ UNCHANGED <<proc, alive>>
      BY <2>2 DEF RunStart, Job
    <3>2. park \in QueueJobs /\ park.op = "park"
      <4>1. Head(queue) \in QueueJobs
        BY <1>0, <2>1
      <4> QED
        BY <3>1, <4>1, ParkJobs
    <3> HIDE DEF park
    <3>3. /\ LaunchesFirst(queue') /\ ~Launching(queue')
          /\ Ending(queue) => Ending(queue')
      BY <1>0, <2>1, <3>1, <3>2, QueueMoves
    <3> QED
      BY <1>0, <2>1, <3>1, <3>3, ProcessStays
  <2>3. CASE ~(RunStart /\ proc # 0 /\ proc \in alive)
    <3>1. stopProcessOnQueue
      BY <1>11, <2>3 DEF RunStop, RunLaunch, RunStart
    <3>2. \/ queue' = Tail(queue)
          \/ \E j \in QueueJobs : queue' = <<j>> \o Tail(queue)
      <4>1. CASE RunStop
        BY <4>1 DEF RunStop
      <4>2. CASE RunLaunch
        BY <4>2 DEF RunLaunch, QueueJobs
      <4>3. CASE RunStart
        <5> DEFINE park == [Head(queue) EXCEPT !.op = "park"]
                   run == [op |-> "run", then |-> <<park>>]
        <5>1. Head(queue).op = "start" /\ queue' = <<run>> \o Tail(queue)
          BY <2>3, <4>3 DEF RunStart, Job
        <5>2. Head(queue) \in QueueJobs
          BY <1>0, <2>1
        <5>3. run \in QueueJobs
          BY <5>1, <5>2, ParkJobs
        <5> HIDE DEF run
        <5> QED
          BY <5>1, <5>3
      <4> QED
        BY <1>11, <4>1, <4>2, <4>3
    <3>3. LaunchesFirst(queue')
      <4>1. CASE queue' = Tail(queue)
        BY <1>0, <2>1, <4>1, QueueMoves
      <4>2. ASSUME NEW j \in QueueJobs, queue' = <<j>> \o Tail(queue)
            PROVE  LaunchesFirst(queue')
        BY <1>0, <2>1, <4>2, QueueMoves
      <4> QED
        BY <3>2, <4>1, <4>2
    <3>4. proc' = 0 /\ alive' = alive \ {proc}
      BY <3>1 DEF stopProcessOnQueue
    <3> QED
      BY <1>0, <2>1, <3>3, <3>4, NoProcess
  <2> QED
    BY <2>2, <2>3
<1> QED
  BY <1>4, <1>5, <1>6, <1>7, <1>8, <1>9, <1>10, <1>11 DEF Next, WriteQueue, Reader

\* Held in its place means held once: the counting form of HeldInPlace.
LEMMA HeldOnce ==
    ASSUME ServiceTyped, HeldInPlace
    PROVE  SuspendedOnce
<1> DEFINE jobs == {i \in DOMAIN queue : queue[i].op \in {"start", "park"}}
           behind == {i \in DOMAIN queue : queue[i].op = "run" /\ queue[i].then # <<>>}
           owners == [i \in jobs \cup behind |->
                        IF i \in jobs THEN queue[i].c ELSE queue[i].then[1].c]
           held(c) == {i \in jobs \cup behind : owners[i] = c}
<1>1. ASSUME NEW c \in Callers
      PROVE  /\ (pc[c] = "start") <=>
                  (Cardinality(held(c)) + Cardinality(waiters \cap {c}) = 1)
             /\ pc[c] # "start" => c \notin waiters
             /\ pending \cap ({c} \X {1, 2}) = IF pc[c] = "sent" THEN {Id(c)} ELSE {}
  <2>1. held(c) = {i \in DOMAIN queue : Holds(queue[i], c)}
    BY DEF Holds
  <2> HIDE DEF held
  <2>2. \/ pc[c] = "start" /\ c \in waiters /\ Free(queue, c)
        \/ pc[c] = "start" /\ c \notin waiters /\ Once(queue, c)
        \/ pc[c] # "start" /\ c \notin waiters /\ Free(queue, c)
    BY DEF HeldInPlace
  <2>3. Free(queue, c) => held(c) = {}
    BY <2>1 DEF Free
  <2>4. Once(queue, c) => \E i \in DOMAIN queue : held(c) = {i}
    BY <2>1 DEF Once
  <2>5. Free(queue, c) => Cardinality(held(c)) = 0
    BY <2>3, FS_EmptySet
  <2>6. Once(queue, c) => Cardinality(held(c)) = 1
    BY <2>4, FS_Singleton
  <2>7. c \in waiters => Cardinality(waiters \cap {c}) = 1
    <3>1. c \in waiters => waiters \cap {c} = {c}
      OBVIOUS
    <3>2. Cardinality({c}) = 1
      BY FS_Singleton
    <3> QED
      BY <3>1, <3>2
  <2>8. c \notin waiters => Cardinality(waiters \cap {c}) = 0
    <3>1. c \notin waiters => waiters \cap {c} = {}
      OBVIOUS
    <3> QED
      BY <3>1, FS_EmptySet
  <2>9. (pc[c] = "start") <=> (Cardinality(held(c)) + Cardinality(waiters \cap {c}) = 1)
    BY <2>2, <2>5, <2>6, <2>7, <2>8
  <2>10. pending \cap ({c} \X {1, 2}) = IF pc[c] = "sent" THEN {Id(c)} ELSE {}
    <3>1. attempt[c] \in {1, 2}
      BY DEF ServiceTyped
    <3>2. Id(c) \in {c} \X {1, 2}
      BY <3>1 DEF Id
    <3>3. ASSUME NEW r \in pending \cap ({c} \X {1, 2})
          PROVE  pc[c] = "sent" /\ r = Id(c)
      <4>1. r[1] = c
        OBVIOUS
      <4> QED
        BY <4>1 DEF HeldInPlace
    <3>4. pc[c] = "sent" => Id(c) \in pending
      BY DEF HeldInPlace
    <3> HIDE DEF Id
    <3> QED
      BY <3>2, <3>3, <3>4
  <2> QED
    BY <2>2, <2>9, <2>10
<1> QED
  BY <1>1 DEF SuspendedOnce

\* At the start there are no callers suspended and no process.
LEMMA ServiceBegins == Init => ServiceInvariant
<1> SUFFICES ASSUME Init PROVE ServiceInvariant
  OBVIOUS
<1> DEFINE launch == [op |-> "launch"]
<1>1. queue = <<launch>> /\ launch \in QueueJobs /\ launch.op = "launch"
  BY DEF Init, QueueJobs
<1>2. DOMAIN queue = {1} /\ queue[1].op = "launch"
  BY <1>1
<1>3. ServiceTyped
  <2>1. queue \in Seq(QueueJobs)
    BY <1>1
  <2> QED
    BY <2>1 DEF Init, ServiceTyped
<1>4. HeldInPlace
  <2>1. ASSUME NEW c \in Callers PROVE Free(queue, c)
    BY <1>2 DEF Free, Holds
  <2> QED
    BY <2>1 DEF Init, HeldInPlace
<1>5. LaunchInPlace
  BY <1>2 DEF Init, LaunchInPlace
<1>6. ProcessIsWatched
  BY DEF Init, ProcessIsWatched
<1> QED
  BY <1>3, <1>4, <1>5, <1>6 DEF ServiceInvariant

\* Every step keeps it.
LEMMA ServiceInductive == ServiceInvariant /\ [Next]_vars => ServiceInvariant'
  BY CallersKept, ProcessWatched DEF ServiceInvariant

\* Whatever the callers, the child, the timers and the cancellations do, every
\* suspended caller is held in exactly one place and no child runs unread
\* (MathRuntimeService.swift).
THEOREM ServiceStaysConsistent == Spec => []ServiceConsistent
<1>1. ServiceInvariant => ServiceConsistent
  BY HeldOnce DEF ServiceInvariant, ServiceConsistent
<1> QED
  BY <1>1, ServiceBegins, ServiceInductive, PTL DEF Spec
----------------------------------------------------------------------------
(* The calculator.  The argument is about ownership and needs nothing of   *)
(* how an entry is written: every edit goes through Enter, which gives up  *)
(* the evaluation under way, and a number is used by one evaluation at a   *)
(* time.                                                                   *)

EvaluationsOf(submissions) == [id : 1..MaxEvaluations, of : submissions, unchanged : BOOLEAN]

\* Evaluations are told apart by their numbers, which are never 0.
EvaluationsApart ==
    /\ evaluations \subseteq EvaluationsOf({t.of : t \in evaluations})
    /\ \A t, u \in evaluations : t.id = u.id => t = u

IsRows(rows) == rows \in Seq({rows[i] : i \in DOMAIN rows})

CalculatorInvariant ==
    /\ EvaluationsApart
    /\ IsRows(history)
    /\ ResultBelongsToEntry

----------------------------------------------------------------------------
(* The rows that are kept.                                                 *)

LEMMA LesserOfTwo ==
    ASSUME NEW m \in Nat, NEW n \in Nat
    PROVE  Min({m, n}) = IF m <= n THEN m ELSE n
  BY DEF Min

\* A sequence over any set is one over its own values.
LEMMA OwnValues ==
    ASSUME NEW S, NEW rows \in Seq(S)
    PROVE  IsRows(rows)
<1>1. Len(rows) \in Nat /\ rows \in [1..Len(rows) -> S] /\ DOMAIN rows = 1..Len(rows)
  BY LenProperties
<1> DEFINE n == Len(rows)
           own == {rows[i] : i \in DOMAIN rows}
<1>2. n \in Nat /\ rows \in [1..n -> S] /\ DOMAIN rows = 1..n
  BY <1>1
<1> HIDE DEF n
<1>3. rows \in [1..n -> own]
  BY <1>2
<1> HIDE DEF own
<1>4. rows \in Seq(own)
  BY <1>2, <1>3
<1> QED
  BY <1>4 DEF IsRows, own

\* The rows kept are a beginning of all rows, all of them when they fit.
LEMMA KeptRows ==
    ASSUME NEW S, NEW rows \in Seq(S)
    PROVE  /\ prefix(rows) \in Seq(S)
           /\ Len(prefix(rows)) <= HistoryLimit
           /\ Len(rows) <= HistoryLimit => prefix(rows) = rows
           /\ rows # <<>> => prefix(rows) # <<>> /\ prefix(rows)[1] = rows[1]
<1>1. HistoryLimit \in Nat /\ HistoryLimit >= 1
  BY StoreAssumption
<1>2. Len(rows) \in Nat /\ \A i \in 1..Len(rows) : rows[i] \in S
  BY ElementOfSeq, LenProperties
<1> DEFINE n == Len(rows)
           k == Min({n, HistoryLimit})
<1>3. n \in Nat
  BY <1>2
<1>4. k = IF n <= HistoryLimit THEN n ELSE HistoryLimit
  BY <1>1, <1>3, LesserOfTwo
<1>5. prefix(rows) = SubSeq(rows, 1, k)
  BY DEF prefix
<1>6. \A i \in 1..n : rows[i] \in S
  BY <1>2
<1>7. n = 0 <=> rows = <<>>
  BY <1>2, EmptySeq
<1>8. SubSeq(rows, 1, n) = rows
  BY SubSeqFull
<1> HIDE DEF n
<1>9. k \in Nat /\ k <= n /\ k <= HistoryLimit
  BY <1>1, <1>3, <1>4
<1>10. n <= HistoryLimit => k = n
  BY <1>4
<1>11. n >= 1 => k >= 1
  BY <1>1, <1>3, <1>4
<1> HIDE DEF k
<1>12. \A i \in 1..k : rows[i] \in S
  BY <1>3, <1>6, <1>9
<1>13. /\ SubSeq(rows, 1, k) \in Seq(S)
       /\ Len(SubSeq(rows, 1, k)) = IF 1 <= k THEN k - 1 + 1 ELSE 0
       /\ \A i \in 1 .. k - 1 + 1 : SubSeq(rows, 1, k)[i] = rows[1 + i - 1]
  BY <1>9, <1>12, SubSeqProperties
<1>14. Len(SubSeq(rows, 1, k)) = k
  BY <1>9, <1>13
<1>15. rows # <<>> => k >= 1
  BY <1>3, <1>7, <1>11
<1>16. k >= 1 => SubSeq(rows, 1, k)[1] = rows[1]
  BY <1>9, <1>13
<1>17. ASSUME k >= 1 PROVE SubSeq(rows, 1, k) # <<>>
  <2>1. Len(<<>>) = 0
    BY EmptySeq
  <2>2. Len(SubSeq(rows, 1, k)) # 0
    BY <1>9, <1>14, <1>17
  <2> QED
    BY <2>1, <2>2
<1> QED
  BY <1>5, <1>8, <1>9, <1>10, <1>13, <1>14, <1>15, <1>16, <1>17 DEF n

----------------------------------------------------------------------------
(* The steps.                                                              *)

\* Giving up the evaluation under way keeps numbers apart and leaves none current.
LEMMA Invalidated ==
    ASSUME EvaluationsApart, invalidatePendingEvaluation
    PROVE  /\ EvaluationsApart'
           /\ activeEvaluationID' = 0
           /\ \A t \in evaluations' : ~isCurrentEvaluation(t)'
<1> DEFINE left == {[t EXCEPT !.unchanged = FALSE] : t \in evaluations}
<1>1. evaluations' = left /\ activeEvaluationID' = 0
  BY DEF invalidatePendingEvaluation
<1> DEFINE of == {t.of : t \in evaluations}
           Record == [id : 1..MaxEvaluations, of : of, unchanged : BOOLEAN]
<1>2. evaluations \subseteq Record
  BY DEF EvaluationsApart, EvaluationsOf
<1> HIDE DEF of
<1>3. \A o \in left : /\ o \in Record /\ ~o.unchanged
                      /\ \E t \in evaluations : o = [t EXCEPT !.unchanged = FALSE] /\ o.id = t.id
  BY <1>2
<1> HIDE DEF left
<1>4. ASSUME NEW o \in left, NEW p \in left, o.id = p.id PROVE o = p
  <2>1. PICK t \in evaluations : o = [t EXCEPT !.unchanged = FALSE] /\ o.id = t.id
    BY <1>3
  <2>2. PICK u \in evaluations : p = [u EXCEPT !.unchanged = FALSE] /\ p.id = u.id
    BY <1>3
  <2>3. t = u
    BY <1>4, <2>1, <2>2 DEF EvaluationsApart
  <2> QED
    BY <2>1, <2>2, <2>3
<1>5. evaluations' \subseteq EvaluationsOf({t.of : t \in evaluations'})
  <2> HIDE DEF Record
  <2>1. ASSUME NEW o \in left PROVE o \in EvaluationsOf({t.of : t \in left})
    <3>1. o \in Record
      BY <1>3
    <3>2. o.of \in {t.of : t \in left}
      OBVIOUS
    <3> QED
      BY <3>1, <3>2 DEF Record, EvaluationsOf
  <2> QED
    BY <1>1, <2>1
<1> QED
  BY <1>1, <1>3, <1>4, <1>5 DEF EvaluationsApart, isCurrentEvaluation

\* A new entry, whatever it is.
LEMMA EnterStep ==
    ASSUME CalculatorInvariant, NEW s, Enter(s)
    PROVE  CalculatorInvariant'
<1>1. EvaluationsApart /\ invalidatePendingEvaluation
  BY DEF CalculatorInvariant, Enter
<1>2. EvaluationsApart' /\ \A t \in evaluations' : ~isCurrentEvaluation(t)'
  BY <1>1, Invalidated
<1>3. showing' = FALSE /\ UNCHANGED <<history, saved>>
  BY DEF Enter
<1>4. IsRows(history)'
  BY <1>3 DEF CalculatorInvariant, IsRows
<1>5. ResultBelongsToEntry'
  BY <1>2, <1>3 DEF CalculatorInvariant, ResultBelongsToEntry
<1> QED
  BY <1>2, <1>4, <1>5 DEF CalculatorInvariant

\* Steps that leave the entry and the evaluations alone.
LEMMA CalculatorQuietStep ==
    ASSUME CalculatorInvariant,
           UNCHANGED <<expression, angleUnit, showing, shown, activeEvaluationID, evaluations>>,
           \/ UNCHANGED <<history, saved>>
           \/ history' = <<>> /\ saved' = <<>>
    PROVE  CalculatorInvariant'
<1>1. EvaluationsApart'
  BY DEF CalculatorInvariant, EvaluationsApart
<1>2. \A t \in evaluations : isCurrentEvaluation(t)' <=> isCurrentEvaluation(t)
  BY DEF isCurrentEvaluation
<1>3. Submission' = Submission
  BY DEF Submission
<1>4. CASE UNCHANGED <<history, saved>>
  <2>1. IsRows(history)'
    BY <1>4 DEF CalculatorInvariant, IsRows
  <2> QED
    BY <1>1, <1>2, <1>3, <1>4, <2>1 DEF CalculatorInvariant, ResultBelongsToEntry
<1>5. CASE history' = <<>> /\ saved' = <<>>
  <2>1. <<>> \in Seq({}) /\ Len(<<>>) = 0
    BY EmptySeq
  <2>2. IsRows(history)'
    BY <1>5, <2>1, OwnValues
  <2>3. Len(history') <= HistoryLimit
    BY <1>5, <2>1, StoreAssumption
  <2> QED
    BY <1>1, <1>2, <1>3, <1>5, <2>2, <2>3 DEF CalculatorInvariant, ResultBelongsToEntry
<1> QED
  BY <1>4, <1>5

\* selectAngleUnit and selectMode: the entry stays, with what it shows.
LEMMA SelectStep ==
    ASSUME CalculatorInvariant, invalidatePendingEvaluation,
           UNCHANGED <<calculatorEntry, history, saved>>
    PROVE  CalculatorInvariant'
<1>1. /\ EvaluationsApart' /\ activeEvaluationID' = 0
      /\ \A t \in evaluations' : ~isCurrentEvaluation(t)'
  BY Invalidated DEF CalculatorInvariant
<1>2. UNCHANGED <<expression, showing, shown, history, saved>>
  BY DEF calculatorEntry
<1>3. IsRows(history)'
  BY <1>2 DEF CalculatorInvariant, IsRows
<1>4. ResultBelongsToEntry'
  BY <1>1, <1>2 DEF CalculatorInvariant, ResultBelongsToEntry
<1> QED
  BY <1>1, <1>3, <1>4 DEF CalculatorInvariant

\* A row of the history that is put back is shown with its own expression.
LEMMA RestoreStep ==
    ASSUME CalculatorInvariant, NEW i, restore(i)
    PROVE  CalculatorInvariant'
<1>1. /\ EvaluationsApart' /\ activeEvaluationID' = 0
      /\ \A t \in evaluations' : ~isCurrentEvaluation(t)'
  BY Invalidated DEF CalculatorInvariant, restore
<1>2. shown' = expression' /\ UNCHANGED <<history, saved>>
  BY DEF restore
<1>3. IsRows(history)'
  BY <1>2 DEF CalculatorInvariant, IsRows
<1>4. ResultBelongsToEntry'
  BY <1>1, <1>2 DEF CalculatorInvariant, ResultBelongsToEntry
<1> QED
  BY <1>1, <1>3, <1>4 DEF CalculatorInvariant

\* An evaluation that starts is the current one, and of the entry on display.
LEMMA EvaluateStep ==
    ASSUME CalculatorInvariant, evaluate
    PROVE  CalculatorInvariant'
<1>1. PICK id \in 1..MaxEvaluations :
        /\ \A t \in evaluations : t.id # id
        /\ activeEvaluationID' = id
        /\ evaluations' = evaluations \cup {[id |-> id, of |-> Submission, unchanged |-> TRUE]}
  BY DEF evaluate
<1> DEFINE new == [id |-> id, of |-> Submission, unchanged |-> TRUE]
<1>2. ~showing /\ UNCHANGED <<expression, angleUnit, showing, shown, history, saved>>
  BY DEF evaluate
<1>3. Submission' = Submission
  BY <1>2 DEF Submission
<1>4. /\ evaluations \subseteq EvaluationsOf({t.of : t \in evaluations})
      /\ \A t, u \in evaluations : t.id = u.id => t = u
  BY DEF CalculatorInvariant, EvaluationsApart
<1>5. new.id = id /\ new.of = Submission
  OBVIOUS
<1>6. evaluations' \subseteq EvaluationsOf({t.of : t \in evaluations'})
  <2>1. ASSUME NEW t \in evaluations PROVE t \in EvaluationsOf({u.of : u \in evaluations'})
    <3>1. t.of \in {u.of : u \in evaluations'}
      BY <1>1
    <3> QED
      BY <1>4, <3>1 DEF EvaluationsOf
  <2>2. new.of \in {u.of : u \in evaluations'}
    BY <1>1
  <2>3. new \in EvaluationsOf({u.of : u \in evaluations'})
    BY <1>5, <2>2 DEF EvaluationsOf
  <2> QED
    BY <1>1, <2>1, <2>3
<1> HIDE DEF new
<1>7. evaluations' = evaluations \cup {new}
  BY <1>1 DEF new
<1>8. \A t, u \in evaluations' : t.id = u.id => t = u
  BY <1>1, <1>4, <1>5, <1>7
<1>9. EvaluationsApart'
  BY <1>6, <1>8 DEF EvaluationsApart
<1>10. \A t \in evaluations' : isCurrentEvaluation(t)' => t.of = Submission'
  BY <1>1, <1>3, <1>5, <1>7 DEF isCurrentEvaluation
<1>11. IsRows(history)'
  BY <1>2 DEF CalculatorInvariant, IsRows
<1>12. ResultBelongsToEntry'
  BY <1>2, <1>10 DEF CalculatorInvariant, ResultBelongsToEntry
<1> QED
  BY <1>9, <1>11, <1>12 DEF CalculatorInvariant

\* What is left when an evaluation has returned.
LEMMA Returned ==
    ASSUME EvaluationsApart, NEW t \in evaluations, evaluations' = evaluations \ {t}
    PROVE  EvaluationsApart'
<1>1. /\ evaluations \subseteq EvaluationsOf({u.of : u \in evaluations})
      /\ \A u, v \in evaluations : u.id = v.id => u = v
  BY DEF EvaluationsApart
<1>2. ASSUME NEW u \in evaluations' PROVE u \in EvaluationsOf({v.of : v \in evaluations'})
  <2>1. u.of \in {v.of : v \in evaluations'}
    OBVIOUS
  <2> QED
    BY <1>1, <2>1 DEF EvaluationsOf
<1> QED
  BY <1>1, <1>2 DEF EvaluationsApart

\* The answer of the current evaluation is shown and recorded, any other is dropped.
LEMMA EvaluatedStep ==
    ASSUME CalculatorInvariant, NEW t \in evaluations, Evaluated(t)
    PROVE  CalculatorInvariant'
<1>1. evaluations' = evaluations \ {t} /\ angleUnit' = angleUnit
  BY DEF Evaluated
<1>2. EvaluationsApart'
  BY <1>1, Returned DEF CalculatorInvariant
<1>3. CASE ~isCurrentEvaluation(t)
  <2>1. UNCHANGED <<activeEvaluationID, expression, showing, shown, history, saved>>
    BY <1>3 DEF Evaluated
  <2>2. Submission' = Submission /\ \A u \in evaluations : isCurrentEvaluation(u)' <=> isCurrentEvaluation(u)
    BY <1>1, <2>1 DEF Submission, isCurrentEvaluation
  <2>3. IsRows(history)'
    BY <2>1 DEF CalculatorInvariant, IsRows
  <2>4. ResultBelongsToEntry'
    BY <1>1, <2>1, <2>2 DEF CalculatorInvariant, ResultBelongsToEntry
  <2> QED
    BY <1>2, <2>3, <2>4 DEF CalculatorInvariant
<1>4. CASE isCurrentEvaluation(t)
  <2>1. /\ activeEvaluationID' = 0 /\ shown' = expression'
        /\ history' = prefix(<<HistoryEntry(t.of)>> \o history)
        /\ saved' = prefix(history')
    BY <1>4 DEF Evaluated
  <2> DEFINE S == {history[i] : i \in DOMAIN history} \cup {HistoryEntry(t.of)}
  <2>2. history \in Seq(S) /\ <<HistoryEntry(t.of)>> \in Seq(S)
    <3>1. history \in Seq({history[i] : i \in DOMAIN history})
      BY DEF CalculatorInvariant, IsRows
    <3> QED
      BY <3>1, SeqMonotonic
  <2> HIDE DEF S
  <2>3. <<HistoryEntry(t.of)>> \o history \in Seq(S)
    BY <2>2, ConcatProperties
  <2>4. history' \in Seq(S) /\ Len(history') <= HistoryLimit
    BY <2>1, <2>3, KeptRows
  <2>5. saved' = history'
    BY <2>1, <2>4, KeptRows
  <2>6. IsRows(history)'
    BY <2>4, OwnValues
  <2>7. \A u \in evaluations' : ~isCurrentEvaluation(u)'
    <3> SUFFICES ASSUME NEW u \in evaluations' PROVE u.id # 0
      BY <2>1 DEF isCurrentEvaluation
    <3> QED
      BY <1>1 DEF CalculatorInvariant, EvaluationsApart, EvaluationsOf
  <2>8. ResultBelongsToEntry'
    BY <2>1, <2>4, <2>5, <2>7 DEF ResultBelongsToEntry
  <2> QED
    BY <1>2, <2>6, <2>8 DEF CalculatorInvariant
<1> QED
  BY <1>3, <1>4

\* So is an error.
LEMMA FailedStep ==
    ASSUME CalculatorInvariant, NEW t \in evaluations, EvaluationFailed(t)
    PROVE  CalculatorInvariant'
<1>1. /\ evaluations' = evaluations \ {t}
      /\ activeEvaluationID' \in {0, activeEvaluationID}
      /\ UNCHANGED <<expression, angleUnit, showing, shown, history, saved>>
  BY DEF EvaluationFailed
<1>2. EvaluationsApart'
  BY <1>1, Returned DEF CalculatorInvariant
<1>3. \A u \in evaluations' : u.id # 0
  BY <1>1 DEF CalculatorInvariant, EvaluationsApart, EvaluationsOf
<1>4. Submission' = Submission
  BY <1>1 DEF Submission
<1>5. \A u \in evaluations' : isCurrentEvaluation(u)' => isCurrentEvaluation(u)
  BY <1>1, <1>3 DEF isCurrentEvaluation
<1>6. IsRows(history)'
  BY <1>1 DEF CalculatorInvariant, IsRows
<1>7. ResultBelongsToEntry'
  BY <1>1, <1>4, <1>5 DEF CalculatorInvariant, ResultBelongsToEntry
<1> QED
  BY <1>2, <1>6, <1>7 DEF CalculatorInvariant

\* Every edit enters a new expression.
LEMMA EditEnters ==
    ASSUME Edit
    PROVE  \E s : Enter(s)
<1>1. ASSUME NEW t, append(t) PROVE \E s : Enter(s)
  BY <1>1, Zenon DEF append
<1>2. ASSUME NEW s, transformExpression(s) PROVE \E r : Enter(r)
  BY <1>2, Zenon DEF transformExpression
<1>3. CASE \E t \in Keys \ {"%"} : append(t)
  BY <1>1, <1>3
<1>4. CASE \E f \in Keys \cap {"sin", "asin", "log"} : applyFunction(f)
  BY <1>1, <1>2, <1>4, Zenon DEF applyFunction
<1>5. CASE calculatorToggleSign
  BY <1>1, <1>2, <1>5, Zenon DEF calculatorToggleSign
<1>6. CASE reciprocal
  <2>1. CASE endsWithOperatorOrOpeningParenthesis(expression)
    BY <1>6, <2>1, Zenon DEF reciprocal
  <2>2. CASE ~endsWithOperatorOrOpeningParenthesis(expression)
    BY <1>2, <1>6, <2>2, Zenon DEF reciprocal
  <2> QED
    BY <2>1, <2>2
<1>7. CASE raiseCurrentExpression \/ ("%" \in Keys /\ percent)
  BY <1>2, <1>7, Zenon DEF raiseCurrentExpression, percent
<1>8. CASE calculatorBackspace
  <2>1. CASE showing
    BY <1>8, <2>1, Zenon DEF calculatorBackspace
  <2>2. CASE ~showing /\ expression \in DOMAIN undo
    BY <1>8, <2>2, Zenon DEF calculatorBackspace
  <2>3. CASE ~showing /\ expression \notin DOMAIN undo
    BY <1>8, <2>3, Zenon DEF calculatorBackspace
  <2> QED
    BY <2>1, <2>2, <2>3
<1>9. CASE calculatorClear
  BY <1>9 DEF calculatorClear
<1> QED
  BY <1>3, <1>4, <1>5, <1>6, <1>7, <1>8, <1>9 DEF Edit

\* The rows read at launch are the rows kept.
LEMMA FirstRows ==
    ASSUME CalculatorInit
    PROVE  /\ IsRows(history)
           /\ Len(history) <= HistoryLimit
           /\ saved # Unreadable => saved = history
<1>1. PICK stored \in {<<>>, Unreadable, <<LegacyRow>>} :
        /\ history = load(stored)
        /\ saved = IF stored = Unreadable THEN stored ELSE prefix(history)
  BY DEF CalculatorInit
<1>2. <<>> \in Seq({}) /\ Len(<<>>) = 0
  BY EmptySeq
<1>3. HistoryLimit \in Nat /\ HistoryLimit >= 1
  BY StoreAssumption
<1>4. CASE stored = Unreadable
  <2>1. history = <<>> /\ saved = Unreadable
    BY <1>1, <1>4 DEF load
  <2>2. IsRows(history)
    BY <1>2, <2>1, OwnValues
  <2>3. Len(history) <= HistoryLimit
    BY <1>2, <1>3, <2>1
  <2> QED
    BY <2>1, <2>2, <2>3
<1>5. CASE stored # Unreadable
  <2>1. stored = <<>> \/ stored = <<LegacyRow>>
    BY <1>1, <1>5
  <2>2. history = [i \in DOMAIN stored |-> migratingLegacyExpression(stored[i])]
    BY <1>1, <1>5 DEF load
  <2> DEFINE S == {migratingLegacyExpression(stored[i]) : i \in DOMAIN stored}
  <2>3. PICK n \in 0..1 : DOMAIN stored = 1..n
    BY <2>1
  <2>4. history \in [1..n -> S]
    BY <2>2, <2>3
  <2> HIDE DEF S
  <2>5. history \in Seq(S) /\ Len(history) = n
    BY <2>3, <2>4
  <2>6. Len(history) <= HistoryLimit
    BY <1>3, <2>3, <2>5
  <2>7. prefix(history) = history
    BY <2>5, <2>6, KeptRows
  <2>8. saved = history
    BY <1>1, <1>5, <2>7
  <2> QED
    BY <2>5, <2>6, <2>8, OwnValues
<1> QED
  BY <1>4, <1>5

\* The invariant holds at first and every step keeps it.
LEMMA CalculatorInductive ==
    /\ CalculatorInit => CalculatorInvariant
    /\ CalculatorInvariant /\ [CalculatorNext]_calculatorVars => CalculatorInvariant'
<1>1. ASSUME CalculatorInit PROVE CalculatorInvariant
  BY <1>1, FirstRows DEF CalculatorInit, CalculatorInvariant, EvaluationsApart, ResultBelongsToEntry
<1>2. ASSUME CalculatorInvariant, [CalculatorNext]_calculatorVars PROVE CalculatorInvariant'
  <2>1. CASE Edit
    BY <1>2, <2>1, EditEnters, EnterStep
  <2>2. CASE evaluate
    BY <1>2, <2>2, EvaluateStep
  <2>3. ASSUME NEW t \in evaluations, Evaluated(t) \/ EvaluationFailed(t) PROVE CalculatorInvariant'
    BY <1>2, <2>3, EvaluatedStep, FailedStep
  <2>4. CASE selectMode \/ \E unit \in {"radians", "degrees"} : selectAngleUnit(unit)
    <3>1. invalidatePendingEvaluation /\ UNCHANGED <<calculatorEntry, history, saved>>
      BY <2>4 DEF selectMode, selectAngleUnit
    <3> QED
      BY <1>2, <3>1, SelectStep
  <2>5. CASE \E i \in DOMAIN history : restore(i)
    BY <1>2, <2>5, RestoreStep
  <2>6. CASE clearHistory \/ updateMemory \/ memoryClear \/ UNCHANGED calculatorVars
    <3>1. /\ UNCHANGED <<expression, angleUnit, showing, shown, activeEvaluationID, evaluations>>
          /\ UNCHANGED <<history, saved>> \/ (history' = <<>> /\ saved' = <<>>)
      BY <2>6 DEF clearHistory, updateMemory, memoryClear, calculatorVars, calculatorEntry
    <3> QED
      BY <1>2, <3>1, CalculatorQuietStep
  <2>7. CASE memoryRecall
    <3>1. \E s : Enter(s)
      BY <2>7, Zenon DEF memoryRecall
    <3> QED
      BY <1>2, <3>1, EnterStep
  <2> QED
    BY <1>2, <2>1, <2>2, <2>3, <2>4, <2>5, <2>6, <2>7 DEF CalculatorNext, Evaluation
<1> QED
  BY <1>1, <1>2

----------------------------------------------------------------------------
(* The theorems.                                                           *)

\* Whatever is edited, recalled, restored or cancelled while evaluations are in
\* flight, the only answer that will be accepted is that of the entry and the angle
\* unit on screen, a result on display is that of the expression above it, and the
\* history is the one saved, for any limits (isCurrentEvaluation, restore, HistoryStore).
THEOREM CalculatorShowsItsEntry == CalculatorSpec => []ResultBelongsToEntry
<1>1. CalculatorInit => CalculatorInvariant
  BY CalculatorInductive
<1>2. CalculatorInvariant /\ [CalculatorNext]_calculatorVars => CalculatorInvariant'
  BY CalculatorInductive
<1>3. CalculatorInvariant => ResultBelongsToEntry
  BY DEF CalculatorInvariant
<1> QED
  BY <1>1, <1>2, <1>3, PTL DEF CalculatorSpec

\* What happens when a result comes on display or the history changes: the answer
\* to what was on screen until then comes in and is both, or a row of the history is
\* put back, or the history is cleared.
AnswerOfEntry ==
    \E t \in evaluations :
        /\ isCurrentEvaluation(t) /\ t.of = Submission
        /\ evaluations' = evaluations \ {t}
        /\ expression' = Closed(expression) /\ shown' = expression'
        /\ history' # <<>> /\ history'[1] = HistoryEntry(Submission)

\* A calculation is recorded, and comes on display, only by the answer to the entry
\* that was on screen when it arrived (CalculatorStore.evaluate).
OnlyAnswersAreRecorded ==
    /\ history' # history => AnswerOfEntry \/ history' = <<>>
    /\ ~showing /\ showing' => AnswerOfEntry \/ \E i \in DOMAIN history : restore(i)

THEOREM CalculatorRecordsAnswers == CalculatorSpec => [][OnlyAnswersAreRecorded]_calculatorVars
<1>1. ASSUME CalculatorInvariant, CalculatorNext PROVE OnlyAnswersAreRecorded
  <2>1. ASSUME NEW s, Enter(s) PROVE showing' = FALSE /\ history' = history
    BY <2>1 DEF Enter
  <2>2. CASE Edit \/ memoryRecall
    <3>1. \E s : Enter(s)
      <4>1. CASE Edit
        BY <4>1, EditEnters
      <4>2. CASE memoryRecall
        BY <4>2, Zenon DEF memoryRecall
      <4> QED
        BY <2>2, <4>1, <4>2
    <3> QED
      BY <2>1, <3>1 DEF OnlyAnswersAreRecorded
  <2>3. ASSUME NEW t \in evaluations, Evaluated(t), isCurrentEvaluation(t) PROVE AnswerOfEntry
    <3>1. t.of = Submission
      BY <1>1, <2>3 DEF CalculatorInvariant, ResultBelongsToEntry
    <3>2. /\ evaluations' = evaluations \ {t} /\ shown' = expression'
          /\ expression' = t.of.src
          /\ history' = prefix(<<HistoryEntry(t.of)>> \o history)
      BY <2>3 DEF Evaluated
    <3>3. expression' = Closed(expression)
      BY <3>1, <3>2 DEF Submission
    <3> DEFINE S == {history[i] : i \in DOMAIN history} \cup {HistoryEntry(t.of)}
               rows == <<HistoryEntry(t.of)>> \o history
    <3>4. history \in Seq(S) /\ <<HistoryEntry(t.of)>> \in Seq(S)
      <4>1. history \in Seq({history[i] : i \in DOMAIN history})
        BY <1>1 DEF CalculatorInvariant, IsRows
      <4> QED
        BY <4>1, SeqMonotonic
    <3> HIDE DEF S
    <3>5. rows \in Seq(S) /\ rows # <<>> /\ rows[1] = HistoryEntry(t.of)
      BY <3>4
    <3> HIDE DEF rows
    <3>6. prefix(rows) # <<>> /\ prefix(rows)[1] = HistoryEntry(t.of)
      BY <3>5, KeptRows
    <3>7. history' # <<>> /\ history'[1] = HistoryEntry(Submission)
      BY <3>1, <3>2, <3>6 DEF rows
    <3> QED
      BY <2>3, <3>1, <3>2, <3>3, <3>7 DEF AnswerOfEntry
  <2>4. ASSUME NEW t \in evaluations, \/ Evaluated(t) /\ ~isCurrentEvaluation(t)
                                      \/ EvaluationFailed(t)
        PROVE  UNCHANGED <<history, showing>>
    BY <2>4 DEF Evaluated, EvaluationFailed
  <2>5. CASE evaluate \/ selectMode \/ (\E unit \in {"radians", "degrees"} : selectAngleUnit(unit))
             \/ updateMemory \/ memoryClear
    <3>1. UNCHANGED <<history, showing>>
      BY <2>5 DEF evaluate, selectMode, selectAngleUnit, updateMemory, memoryClear, calculatorEntry
    <3> QED
      BY <3>1 DEF OnlyAnswersAreRecorded
  <2>6. CASE \E i \in DOMAIN history : restore(i)
    <3>1. history' = history
      BY <2>6 DEF restore
    <3> QED
      BY <2>6, <3>1 DEF OnlyAnswersAreRecorded
  <2>7. CASE clearHistory
    BY <2>7 DEF clearHistory, calculatorEntry, OnlyAnswersAreRecorded
  <2>8. CASE \E t \in evaluations : Evaluated(t) \/ EvaluationFailed(t)
    BY <2>3, <2>4, <2>8 DEF OnlyAnswersAreRecorded
  <2> QED
    BY <1>1, <2>2, <2>5, <2>6, <2>7, <2>8 DEF CalculatorNext, Evaluation
<1>2. CalculatorInit => CalculatorInvariant
  BY CalculatorInductive
<1>3. CalculatorInvariant /\ [CalculatorNext]_calculatorVars => CalculatorInvariant'
  BY CalculatorInductive
<1>4. CalculatorInvariant /\ CalculatorNext => OnlyAnswersAreRecorded
  BY <1>1
<1> QED
  BY <1>2, <1>3, <1>4, PTL DEF CalculatorSpec
=============================================================================
