------------------------------- MODULE MCDesk -------------------------------
(***************************************************************************)
(* The desktop application: the client of the runtime, the calculator and  *)
(* the unit converter.  The two stores see of the client only that an      *)
(* await returns or throws, and share nothing with each other but the main *)
(* actor they run on, so the run looks at one of the three at a time:      *)
(* focus says at which.  The client then rests without a launch to make,   *)
(* where none of its fair actions is enabled.                              *)
(*                                                                         *)
(* A keypad with both kinds of digits, the point, the sign, a product,     *)
(* groups and percent, for entries of up to four tokens; two evaluations   *)
(* in flight.  Two physical and two currency units, two conversions.       *)
(***************************************************************************)
EXTENDS RuntimeService, ConversionStore, CalculatorStore, TLC

CONSTANTS calc, conv

\* Two callers: a calculation, whose cancellation aborts the worker, and a
\* currency conversion, which it answers out of order.
MCKind == calc :> "evaluate" @@ conv :> "currency"

MCUnits == {"m", "ft", "eur", "usd"}
MCCategory == [u \in MCUnits |-> IF u \in {"m", "ft"} THEN "length" ELSE "currency"]

VARIABLE focus

deskVars == <<vars, calculatorVars, conversionVars, focus>>

\* The client has nothing to do.
ClientAtRest ==
    /\ pc = [c \in Callers |-> "idle"]
    /\ attempt = [c \in Callers |-> 1]
    /\ res = [c \in Callers |-> "none"]
    /\ cancelled = {} /\ queue = <<>>
    /\ proc = 0 /\ cur = 0 /\ ready = 0 /\ alive = {}
    /\ waiters = {} /\ pending = {}
    /\ timed = {} /\ heard = {} /\ startTimer = FALSE
    /\ readers = <<>> /\ expecting = TRUE /\ line = None
    /\ inbox = <<>> /\ outbox = <<>> /\ greeted = FALSE /\ faults = 0

\* What the stores hold before anything is typed.
FirstHistory == history = <<>> /\ saved = <<>>
FirstUnit == source = CHOOSE u \in Units : ~isCurrency(u)

DeskInit ==
    /\ focus \in {"client", "calculator", "converter"}
    /\ IF focus = "client" THEN Init ELSE ClientAtRest
    /\ CalculatorInit /\ (focus # "calculator" => FirstHistory)
    /\ ConversionInit /\ (focus # "converter" => FirstUnit)

DeskNext ==
    \/ focus = "client" /\ Next /\ UNCHANGED <<calculatorVars, conversionVars, focus>>
    \/ focus = "calculator" /\ CalculatorNext /\ UNCHANGED <<vars, conversionVars, focus>>
    \/ focus = "converter" /\ ConversionNext /\ UNCHANGED <<vars, calculatorVars, focus>>

DeskSpec == DeskInit /\ [][DeskNext]_deskVars /\ Fairness
=============================================================================
