---------------------------- MODULE MCObligations ----------------------------
(***************************************************************************)
(* The obligation checker and the command line, whose check-obligations    *)
(* and replay-obligations commands publish its receipts.  To a process     *)
(* the checker is one call with a status, so the run looks at one of them  *)
(* at a time; focus says at which, and the checker rests after a request   *)
(* it refused.                                                             *)
(*                                                                         *)
(* All dependency graphs over three ids; between them the two assignments  *)
(* have every kind.  Two processes that share the path of their receipt.   *)
(***************************************************************************)
EXTENDS Obligations, CommandLine, TLC

CONSTANTS o1, o2, o3

KindAssignments ==
    {o1 :> "polynomial_identity" @@ o2 :> "expression_equivalence"
        @@ o3 :> "unregistered",
     o1 :> "dimension_consistency" @@ o2 :> "local_almost_complex_integrability"
        @@ o3 :> "polynomial_identity"}

VARIABLE focus

bothVars == <<vars, cliVars, focus>>

\* One of the requests, refused.
CheckerAtRest ==
    /\ deps = [o \in Ids |-> {}]
    /\ kind = CHOOSE k \in Assignments : TRUE
    /\ claim = [o \in Ids |-> "true"]
    /\ well_formed = FALSE
    /\ stage = "rejected"
    /\ pending = Ids
    /\ completed = {} /\ runnable = {}
    /\ entries = [o \in Ids |-> NoEntry]
    /\ late = FALSE
    /\ version = CHOOSE v \in Versions : TRUE
    /\ feedback = NoFeedback /\ receipt = NoReceipt /\ previous = NoReceipt
    /\ replays = 0

BothInit ==
    /\ focus \in {"checker", "processes"}
    /\ IF focus = "checker" THEN Init ELSE CheckerAtRest
    /\ CommandInit

BothNext ==
    \/ focus = "checker" /\ Next /\ UNCHANGED <<cliVars, focus>>
    \/ focus = "processes" /\ CommandNext /\ UNCHANGED <<vars, focus>>

BothSpec == BothInit /\ [][BothNext]_bothVars /\ WF_vars(Advance)
=============================================================================
