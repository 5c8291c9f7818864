------------------------------- MODULE AptosArm ------------------------------
(***************************************************************************)
(* run_arm of live_node_aptos.py: Forge launches one swarm for the arm,    *)
(* and every round replaces its two validators by instrumented ones.  A    *)
(* validator writes its profile when it is told to by a marker file; the   *)
(* profiles of all rounds are merged after each round.                     *)
(***************************************************************************)
EXTENDS ArmLoop

InAptos == target = "aptos"

\* launch_swarm: Forge is terminated in any case.  On success validator 0 is
\* stopped and validator 1, which has no counters, is running.
Launch ==
  /\ InAptos /\ Goto("launch", "loop")
  /\ proc' = [n \in Nodes |-> [Down EXCEPT !.up = (n # 0)]]
  /\ UNCHANGED <<fixedVars, loopVars, conf, file, ok, foreign, cycle, historyVars>>

\* What a failed attempt left running is killed before the next one; three
\* failures end the arm before it knows a configuration to stop.
LaunchFails ==
  /\ InAptos /\ pc = "launch"
  /\ cycle' = cycle + 1
  /\ pc' = IF cycle' = 3 THEN "failed" ELSE "launch"
  /\ UNCHANGED <<fixedVars, loopVars, proc, conf, file, ok, foreign, historyVars>>

\* An exception inside an attempt (the root key cannot be read) passes by the
\* kill: validators are left running.
LaunchRaises ==
  /\ InAptos /\ Goto("launch", "unstarted")
  /\ \E up \in SUBSET Nodes : proc' = [n \in Nodes |-> [Down EXCEPT !.up = (n \in up)]]
  /\ UNCHANGED <<fixedVars, loopVars, conf, file, ok, foreign, cycle, historyVars>>

\* start_covered_node: the nodes of "up" get as far as running, with counters.
StartCovered(up) == proc' = [n \in Nodes |-> Started(n, n \in up)]

\* The base configuration is restored, overlaid and mutated; both validators
\* are stopped and started instrumented.  A profile of this round's name, from
\* an earlier run, is removed.
AptosStart ==
  /\ InAptos /\ Goto("prepare", "booted")
  /\ conf' = Configured
  /\ \E up \in SUBSET Nodes : StartCovered(up)
  /\ SeeCounters
  /\ \E removed \in SUBSET OldFile : file' = [file EXCEPT !["cumulative"] = @ \ removed]
  /\ UNCHANGED <<fixedVars, loopVars, ok, foreign, cycle, kept, mishaps>>

\* Overlay, mutation, a stop or a start may raise: validators of before may
\* still run, or some of the new ones.
AptosStartFails ==
  /\ InAptos /\ Goto("prepare", "abort")
  /\ conf' \in {"stock", Configured}
  /\ UNCHANGED proc \/ \E up \in SUBSET Nodes : StartCovered(up)
  /\ SeeCounters
  /\ UNCHANGED <<fixedVars, loopVars, file, ok, foreign, cycle, kept, mishaps>>

\* A validator that does not answer keeps the round from any activity.
NotAdmitted ==
  /\ InAptos /\ Goto("booted", "measured")
  /\ UNCHANGED <<fixedVars, loopVars, proc, conf, file, ok, foreign, cycle, historyVars>>

\* The transfers of interact may raise.
AptosMeasure ==
  /\ InAptos /\ pc = "booted" /\ UpNodes = Nodes
  /\ pc' = "measured" \/ (arm = "varied" /\ pc' = "abort")
  /\ proc' = Exercised(IF arm = "varied" THEN "work" ELSE "idle")
  /\ SeeCounters
  /\ UNCHANGED <<fixedVars, loopVars, conf, file, ok, foreign, cycle, kept, mishaps>>

\* flush_and_stop: what the validators write that react to their marker in
\* time; the others are killed, and their counters with them.
Flushed(nodes) == UNION {proc[n].counters : n \in nodes}

\* coverage_metrics merges every profile below the directory, of whichever round.
Merged(written) == file["cumulative"] \cup written

\* Flush, then merge and measure; a coverage tool that fails raises.
FlushAndStop ==
  /\ InAptos /\ pc = "measured"
  /\ \E flushed \in SUBSET UpNodes :
       /\ file' = [file EXCEPT !["cumulative"] = Merged(Flushed(flushed))]
       /\ kept' = kept \cup Flushed(flushed)
       /\ mishaps' = IF flushed = {} THEN mishaps \cup {"unwritten"} ELSE mishaps
  /\ proc' = [n \in Nodes |-> Down]
  /\ \/ pc' = "loop" /\ Record(Covered(file'["cumulative"]))
     \/ pc' = "abort" /\ UNCHANGED window
  /\ UNCHANGED <<fixedVars, left, late, conf, ok, foreign, cycle, seen>>

\* The finally clause stops both validators by the path of their configuration.
Teardown ==
  /\ InAptos /\ pc \in {"teardown", "abort"}
  /\ pc' = IF pc = "teardown" THEN "done" ELSE "failed"
  /\ proc' = [n \in Nodes |-> Down]
  /\ UNCHANGED <<fixedVars, loopVars, conf, file, ok, foreign, cycle, historyVars>>

AptosNext ==
  \/ Launch \/ LaunchFails \/ LaunchRaises \/ AptosStart \/ AptosStartFails \/ NotAdmitted
  \/ AptosMeasure \/ FlushAndStop \/ Teardown
=============================================================================
