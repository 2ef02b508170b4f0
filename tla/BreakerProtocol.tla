-------------------------- MODULE BreakerProtocol --------------------------
(***************************************************************************)
(* What the circuit breaker of runtime_control.py promises, as the record  *)
(* docstring puts it: service that was cut off comes back only along the   *)
(* open -> half-open -> healthy-probe sequence.  The abstract state is the *)
(* phase of the circuit and its epoch; the epoch separates the healthy     *)
(* probe (same epoch) from an operator's reset (next epoch).               *)
(***************************************************************************)
EXTENDS Naturals

VARIABLES phase, epoch

protocolVars == <<phase, epoch>>

ProtocolInit == phase = "closed" /\ epoch = 0

\* Enough provider failures in a row cut the service off in a new epoch.
Trip == phase = "closed" /\ phase' = "open" /\ epoch' = epoch + 1

\* One call is let through to test the provider.
Reserve == phase = "open" /\ phase' = "half_open" /\ UNCHANGED epoch

\* The test said nothing about the provider (or never ran).
Inconclusive == phase = "half_open" /\ phase' = "open" /\ UNCHANGED epoch

\* The test failed: the circuit opens again, in a new epoch.
Refail == phase = "half_open" /\ phase' = "open" /\ epoch' = epoch + 1

\* The test succeeded: the only way back that keeps the epoch.
Restore == phase = "half_open" /\ phase' = "closed" /\ UNCHANGED epoch

\* Explicit reset.
ForceClosed == phase' = "closed" /\ epoch' = epoch + 1

ProtocolNext ==
    \/ Trip
    \/ Reserve
    \/ Inconclusive
    \/ Refail
    \/ Restore
    \/ ForceClosed

ProtocolSpec == ProtocolInit /\ [][ProtocolNext]_protocolVars
=============================================================================
