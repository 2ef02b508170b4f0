----------------------------- MODULE MCServices -----------------------------
(***************************************************************************)
(* Two services a client of the runtime waits for: a batch and a currency  *)
(* conversion.  They share no state, so the run looks at one of them at a  *)
(* time: focus says at which, and the other rests where none of its fair   *)
(* actions is enabled.                                                     *)
(*                                                                         *)
(* Batches of up to three items that ask for one unit of memory, for most  *)
(* of the budget and for more than the budget, and one that is malformed;  *)
(* the two threads of the desktop runtime's executor, three conversions.   *)
(***************************************************************************)
EXTENDS Batch, CurrencyRates

CONSTANTS small, other, large, huge, bad

MCKeys == {small, other, large, huge, bad}
MCMemoryOf == [k \in MCKeys |-> CASE k = large -> 2 [] k = huge -> 4 [] OTHER -> 1]

VARIABLE focus

servicesVars == <<vars, ratesVars, focus>>

\* No batch is being processed.
BatchAtRest ==
    /\ items = <<small>>
    /\ phase = "returned"
    /\ future = [k \in Keys |-> "none"]
    /\ representative = [k \in Keys |-> NoResult]
    /\ results_by_index = <<NoResult>>
    /\ encoded_bytes = 0
    /\ aborted = FALSE /\ cancel_event = FALSE /\ batch_cancel = FALSE /\ late = FALSE
    /\ answer = "none"

ServicesInit ==
    /\ focus \in {"batch", "rates"}
    /\ IF focus = "batch" THEN Init ELSE BatchAtRest
    /\ RatesInit

ServicesNext ==
    \/ focus = "batch" /\ Next /\ UNCHANGED <<ratesVars, focus>>
    \/ focus = "rates" /\ RatesNext /\ UNCHANGED <<vars, focus>>

ServicesSpec ==
    /\ ServicesInit /\ [][ServicesNext]_servicesVars
    /\ BatchFairness
    /\ RatesFairness
=============================================================================
