-------------------------- MODULE ChainmakerBuilds --------------------------
(***************************************************************************)
(* What ChainMakerNetwork.prepare asks for before a campaign: a capability *)
(* binary, which shares the source tree with the coverage builds, or the   *)
(* 13-org release.  The two hold different locks and touch different       *)
(* directories, so a behaviour follows one of them.                        *)
(***************************************************************************)
EXTENDS BinaryBuilds, ReleaseBuild

VARIABLE artifact

vars == <<artifact, buildVars, releaseVars>>

Init ==
  /\ artifact \in {"binary", "release"}
  /\ BuildInit /\ (artifact = "release" => anchored = {})
  /\ ReleaseInit

Next ==
  \/ artifact = "binary" /\ BuildNext /\ UNCHANGED <<artifact, releaseVars>>
  \/ artifact = "release" /\ ReleaseNext /\ UNCHANGED <<artifact, buildVars>>

\* Every process that builds a binary runs on, and every compiler run ends.
Spec ==
  /\ Init /\ [][Next]_vars
  /\ \A p \in Builders :
       WF_vars(artifact = "binary" /\ Step(p) /\ UNCHANGED <<artifact, releaseVars>>)

-----------------------------------------------------------------------------
(* Properties *)

\* Nobody waits for the lock for ever: every process returns, raises or is
\* killed.
EveryBuildEnds ==
  artifact = "binary" => \A p \in Builders : <>(pc[p] \in {"done", "failed", "killed"})
=============================================================================
