------------------------------- MODULE FiscoArm ------------------------------
(***************************************************************************)
(* run_round of live_node_fisco.py: gcov-instrumented nodes, whose         *)
(* counters are added to the .gcda files below the build directory when a  *)
(* node exits on SIGTERM, and are lost when it is killed.  lcov reads all  *)
(* of them after the round.                                                *)
(***************************************************************************)
EXTENDS ArmLoop

InFisco == target = "fisco"

\* run_campaign_arm gives the round a deadline in one case only.
RoundDeadline == opts.deadline /\ ~opts.limited /\ opts.full /\ arm = "varied"

\* Nodes of another experiment with the same --build-dir write to the .gcda
\* files of this one when they exit on SIGTERM.
StrangersWrite == SameBuild /\ foreign /\ mishaps' = mishaps \cup {"strangers"}

\* Nodes of the set exit: those in "graceful" write their counters, and so may
\* the strangers that exit with them.
Exited(nodes, graceful, strange) ==
  LET flushed == UNION {proc[n].counters : n \in nodes \cap graceful}
  IN /\ proc' = [n \in Nodes |-> IF n \in nodes THEN Down ELSE proc[n]]
     /\ file' = [file EXCEPT !["cumulative"] = @ \cup flushed \cup strange]
     /\ kept' = kept \cup flushed

\* Called without a runtime, it ends the nodes of every experiment on the
\* machine, which write their counters or do not.
KillStaleFisco(strange) ==
  /\ foreign' = FALSE
  /\ \/ strange = {} /\ UNCHANGED mishaps
     \/ strange = {"old"} /\ StrangersWrite

\* The stale nodes are ended; then build_network, overlay_case_config,
\* mutate_node_config and start_chain.  All this comes before the try
\* statement: start_all.sh may exceed its timeout with nodes started.
FiscoStart ==
  /\ InFisco /\ pc = "prepare"
  /\ conf' = Configured
  /\ \E strange \in SUBSET {"old"} :
       /\ KillStaleFisco(strange)
       /\ file' = [file EXCEPT !["cumulative"] = @ \cup strange]
  /\ \E up \in SUBSET Nodes : proc' = [n \in Nodes |-> Started(n, n \in up)]
  /\ SeeCounters
  /\ pc' \in {"booted", "unstarted"}
  /\ UNCHANGED <<fixedVars, loopVars, ok, cycle, kept>>

\* Another experiment with the same --build-dir ends nodes of its own, or
\* begins its next arm with reset_gcda.
FiscoShared ==
  /\ InFisco /\ SameBuild /\ pc \notin Ended
  /\ \/ /\ StrangersWrite
        /\ file' = [file EXCEPT !["cumulative"] = @ \cup {"old"}]
        /\ UNCHANGED kept
     \/ /\ file' = [file EXCEPT !["cumulative"] = {}] /\ kept' = {}
        /\ mishaps' = mishaps \cup {"reset"}
  /\ UNCHANGED <<fixedVars, pc, loopVars, proc, conf, ok, foreign, cycle, seen>>

\* The chain did not report a view on every node.
FiscoNotStarted ==
  /\ InFisco /\ Goto("booted", "cleanup")
  /\ UNCHANGED <<fixedVars, loopVars, proc, conf, file, ok, foreign, cycle, historyVars>>

FiscoIdle ==
  /\ InFisco /\ Goto("booted", "cleanup") /\ arm # "varied" /\ UpNodes = Nodes
  /\ proc' = Exercised("idle")
  /\ SeeCounters
  /\ UNCHANGED <<fixedVars, loopVars, conf, file, ok, foreign, cycle, kept, mishaps>>

\* The online waves of interact.
FiscoOnline ==
  /\ InFisco /\ Goto("booted", "working") /\ arm = "varied" /\ UpNodes = Nodes
  /\ proc' = Exercised("work")
  /\ SeeCounters
  /\ UNCHANGED <<fixedVars, loopVars, conf, file, ok, foreign, cycle, kept, mishaps>>

\* offline_cycle, twice: node 0 is stopped, the peers work on ...
FiscoStopFirst ==
  /\ InFisco /\ Goto("working", "offline") /\ cycle < 2
  /\ \E graceful \in SUBSET {0} : Exited({0}, graceful, {})
  /\ UNCHANGED <<fixedVars, loopVars, conf, ok, foreign, cycle, seen, mishaps>>

\* ... and node 0 comes back and catches up.
FiscoStartFirst ==
  /\ InFisco /\ Goto("offline", "working")
  /\ cycle' = cycle + 1
  /\ UNCHANGED conf
  /\ \E up \in BOOLEAN :
       LET q == [proc EXCEPT ![0] = Started(0, up)]
       IN proc' = [q EXCEPT ![0].counters = IF up THEN @ \cup {"sync"} ELSE {}]
  /\ SeeCounters
  /\ UNCHANGED <<fixedVars, loopVars, file, ok, foreign, kept, mishaps>>

\* The sustained waves, which only the deadline of the round ends.
FiscoSustain ==
  /\ InFisco /\ pc = "working" /\ cycle = 2
  /\ proc' = Exercised("work")
  /\ SeeCounters
  /\ UNCHANGED <<fixedVars, pc, loopVars, conf, file, ok, foreign, cycle, kept, mishaps>>

\* interact returns at the first test of the deadline that it fails.
FiscoExpired ==
  /\ InFisco /\ Goto("working", "cleanup") /\ RoundDeadline /\ late
  /\ UNCHANGED <<fixedVars, loopVars, proc, conf, file, ok, foreign, cycle, historyVars>>

\* A reply without a result makes a wave raise.
FiscoRaises ==
  /\ InFisco /\ pc \in {"working", "offline"}
  /\ pc' = "abort"
  /\ UNCHANGED <<fixedVars, loopVars, proc, conf, file, ok, foreign, cycle, historyVars>>

\* The finally clause: stop_chain terminates, then kills; and the stale nodes
\* of all experiments are ended again.  archive_logs, after them, may raise.
FiscoCleanup ==
  /\ InFisco /\ pc \in {"cleanup", "abort"}
  /\ pc' = "failed" \/ (pc = "cleanup" /\ pc' = "capture")
  /\ \E graceful \in SUBSET Nodes, strange \in SUBSET {"old"} :
       Exited(Nodes, graceful, strange) /\ KillStaleFisco(strange)
  /\ UNCHANGED <<fixedVars, loopVars, conf, ok, cycle, seen>>

\* capture_coverage looks at the file lcov should have written, and not at
\* whether lcov succeeded: a file of an earlier run is taken for it.
Captured(captured) == IF captured THEN file["cumulative"] ELSE file["round"]

\* Without any file, or when lcov runs into its timeout, it raises, and the
\* arm ends.
FiscoCapture ==
  /\ InFisco /\ pc = "capture"
  /\ \/ \E captured \in BOOLEAN :
          /\ IF captured THEN file["cumulative"] # {} ELSE file["round"] # {}
          /\ mishaps' = IF captured THEN mishaps ELSE mishaps \cup {"unwritten"}
          /\ pc' = "loop"
          /\ file' = [file EXCEPT !["round"] = Captured(captured)]
          /\ Record(Covered(file'["round"]))
     \/ pc' = "failed" /\ UNCHANGED <<file, window, mishaps>>
  /\ UNCHANGED <<fixedVars, left, late, proc, conf, ok, foreign, cycle, seen, kept>>

FiscoNext ==
  \/ FiscoStart \/ FiscoNotStarted \/ FiscoIdle \/ FiscoOnline \/ FiscoStopFirst
  \/ FiscoStartFirst \/ FiscoExpired \/ FiscoCleanup \/ FiscoCapture
=============================================================================
