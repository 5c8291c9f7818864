--------------------------- MODULE OracleSignals ---------------------------
(***************************************************************************)
(* The branches that BcbOracle.observe takes on one target only, with what *)
(* the campaign does around them: event storms on fisco, stalls of mutated *)
(* validators on aptos, the gasLimit on geth.                              *)
(***************************************************************************)
EXTENDS StormDetector, ControlledStall, GethRounds

VARIABLE target

vars == <<target, stormVars, controlledVars, gethVars>>

\* A branch of another target keeps its first state.
StormUnused == StormInit /\ events = [i \in Normal |-> 0] /\ ~baseline
ControlledUnused == ControlledInit /\ ledger = [n \in Controlled |-> 0]
GethUnused == GethInit

Init ==
  \/ target = "fisco" /\ StormInit /\ ControlledUnused /\ GethUnused
  \/ target = "aptos" /\ ControlledInit /\ StormUnused /\ GethUnused
  \/ target = "geth" /\ GethInit /\ StormUnused /\ ControlledUnused

Next ==
  \/ target = "fisco" /\ StormNext /\ UNCHANGED <<target, controlledVars, gethVars>>
  \/ target = "aptos" /\ ControlledNext /\ UNCHANGED <<target, stormVars, gethVars>>
  \/ target = "geth" /\ GethNext /\ UNCHANGED <<target, stormVars, controlledVars>>

Spec == Init /\ [][Next]_vars
=============================================================================
