---------------------------- MODULE ChainmakerArm ----------------------------
(***************************************************************************)
(* run_round of live_node_chainmaker.py: every org boots with the stock    *)
(* configuration, the counters are cleared, and only org 1 is restarted    *)
(* with the configuration under test.  strong_varied_interact takes one    *)
(* snapshot before it restarts orgs and one after.                         *)
(***************************************************************************)
EXTENDS GocCenter

InChainmaker == target = "chainmaker"

\* prepare_runtime, goc_init, kill_stale_chainmakers below the new runtime
\* directory, and start_all: any org may fail to boot.  All this comes before
\* the try statement: an exception leaves the orgs that were started running.
StartAll ==
  /\ InChainmaker /\ pc = "prepare"
  /\ conf' = "stock"
  /\ pc' \in {"booted", "unstarted"}
  /\ \E up \in SUBSET Nodes : proc' = [n \in Nodes |-> Started(n, n \in up)]
  /\ SeeCounters
  /\ UNCHANGED <<fixedVars, loopVars, file, ok, foreign, cycle, kept, mishaps>>

\* stop_org and start_org: the process is gone with its counters, and the new
\* one reads the files of its org.  start_org only waits for a process.
Restarted(p, n, up) == [p EXCEPT ![n] = Started(n, up)]

\* Defect: the counters of the boot are left in place.
NotCleared == proc

\* The counters with which the measured part of a round begins.
AtConfigure == ClearedCounters

\* With an org running: goc_clear, stop org 1, overlay_case_config and
\* mutate_node_config, start org 1.  start_all has waited ten seconds, no more:
\* an org that is slow to boot goes on doing so after goc_clear.  An exception
\* leads to the finally clause.
Configure ==
  /\ InChainmaker /\ pc = "booted"
  /\ \/ UpNodes = {} /\ pc' = "cleanup" /\ UNCHANGED <<proc, conf, seen, mishaps>>
     \/ UpNodes # {} /\ pc' = "abort" /\ UNCHANGED <<proc, conf, seen, mishaps>>
     \/ /\ UpNodes # {} /\ pc' = "configured"
        /\ conf' = Configured
        /\ \E up \in BOOLEAN, slow \in SUBSET (UpNodes \ {0}) :
             /\ proc' = Restarted([n \in Nodes |-> IF n \in slow THEN proc[n] ELSE AtConfigure[n]],
                                  0, up)
             /\ mishaps' = IF slow = {} THEN mishaps ELSE mishaps \cup {"slow boot"}
        /\ SeeCounters
  /\ UNCHANGED <<fixedVars, loopVars, file, ok, foreign, cycle, kept>>

\* A configuration-only arm waits and takes its profile; goc_profile may time
\* out, which raises.
MeasureIdle ==
  /\ InChainmaker /\ pc = "configured" /\ arm # "varied"
  /\ proc' = Exercised("idle")
  /\ SeeCounters
  /\ \/ /\ pc' = "cleanup"
        /\ \E written \in BOOLEAN :
             /\ file' = IF written THEN [file EXCEPT !["round"] = InCounters(proc')] ELSE file
             /\ ok' = IF written THEN {"round"} ELSE {}
             /\ kept' = IF written THEN kept \cup InCounters(proc') ELSE kept
     \/ pc' = "abort" /\ UNCHANGED <<file, ok, kept>>
  /\ UNCHANGED <<fixedVars, loopVars, conf, foreign, cycle, mishaps>>

\* strong_varied_interact up to its first snapshot.
Work ==
  /\ InChainmaker /\ Goto("configured", "worked") /\ arm = "varied"
  /\ proc' = Exercised("work")
  /\ SeeCounters
  /\ UNCHANGED <<fixedVars, loopVars, conf, file, ok, foreign, cycle, kept, mishaps>>

PreSnapshot ==
  /\ InChainmaker /\ pc = "worked"
  /\ \/ pc' = "snapshot" /\ \E written \in BOOLEAN : GocProfile("pre", written)
     \/ pc' = "abort" /\ UNCHANGED <<file, ok, kept>>
  /\ UNCHANGED <<fixedVars, loopVars, proc, conf, foreign, cycle, seen, mishaps>>

\* Only counters that are in the snapshot are cleared; org 1 goes down, and
\* the other orgs work on without it.
StopFirst ==
  /\ InChainmaker /\ pc = "snapshot"
  /\ \/ /\ pc' = "offline"
        /\ proc' = [n \in Nodes |->
                      IF n = 0 \/ ~proc[n].up THEN Down
                      ELSE [proc[n] EXCEPT !.counters = (IF "pre" \in ok THEN {} ELSE @) \cup {"work"}]]
        /\ SeeCounters
     \/ "pre" \in ok /\ pc' = "abort" /\ UNCHANGED <<proc, seen>>
  /\ UNCHANGED <<fixedVars, loopVars, conf, file, ok, foreign, cycle, kept, mishaps>>

\* Org 1 starts again and catches up.
CatchUp ==
  /\ InChainmaker /\ Goto("offline", "extra")
  /\ cycle' = 1
  /\ UNCHANGED conf
  /\ \E up \in BOOLEAN :
       LET q == Restarted(proc, 0, up)
       IN proc' = [q EXCEPT ![0].counters = IF up THEN @ \cup {"sync"} ELSE {}]
  /\ SeeCounters
  /\ UNCHANGED <<fixedVars, loopVars, file, ok, foreign, kept, mishaps>>

\* Org 2 and org 3.
ExtraOrgs == Nodes \cap {1, 2}

\* extra_restart_cycle of these orgs, one after the other: what an org counted
\* since the last snapshot is lost with its process.
ExtraRestartCycle ==
  /\ InChainmaker /\ pc = "extra" /\ cycle \in ExtraOrgs
  /\ cycle' = cycle + 1
  /\ UNCHANGED <<pc, conf>>
  /\ \E up \in BOOLEAN :
       LET q == Restarted(Exercised("work"), cycle, up)
       IN proc' = [q EXCEPT ![cycle].counters = IF up THEN @ \cup {"sync"} ELSE {}]
  /\ SeeCounters
  /\ UNCHANGED <<fixedVars, loopVars, file, ok, foreign, kept, mishaps>>

\* The second snapshot, and goc_merge of the snapshots that were written.
PostSnapshot ==
  /\ InChainmaker /\ pc = "extra" /\ cycle \notin ExtraOrgs
  /\ \/ /\ pc' = "cleanup"
        /\ \E written \in BOOLEAN :
             LET profiles == IF written THEN ok \cup {"post"} ELSE ok
                 files == IF written THEN [file EXCEPT !["post"] = InCounters(proc)] ELSE file
                 merged == MergedOf(profiles, files)
             IN /\ file' = IF merged = {} THEN files ELSE [files EXCEPT !["round"] = merged]
                /\ ok' = IF merged = {} THEN profiles ELSE profiles \cup {"round"}
                /\ kept' = IF written THEN kept \cup InCounters(proc) ELSE kept
     \/ pc' = "abort" /\ UNCHANGED <<file, ok, kept>>
  /\ UNCHANGED <<fixedVars, loopVars, proc, conf, foreign, cycle, seen, mishaps>>

\* Defect: no finally clause.
CleanupUnlessRaised ==
  /\ InChainmaker /\ pc \in {"cleanup", "abort"}
  /\ pc' = IF pc = "cleanup" THEN "merge" ELSE "failed"
  /\ proc' = IF pc = "cleanup" THEN [n \in Nodes |-> Down] ELSE proc
  /\ UNCHANGED <<fixedVars, loopVars, conf, file, ok, foreign, cycle, historyVars>>

\* Defect: kill_stale_chainmakers without a runtime directory.
CleanupEverywhere ==
  /\ InChainmaker /\ pc \in {"cleanup", "abort"}
  /\ pc' = IF pc = "cleanup" THEN "merge" ELSE "failed"
  /\ proc' = [n \in Nodes |-> Down]
  /\ foreign' = FALSE
  /\ UNCHANGED <<fixedVars, loopVars, conf, file, ok, cycle, historyVars>>

\* The finally clause: stop_all and kill_stale_chainmakers end the processes
\* of this runtime directory only; archive_logs, after them, may raise.
Cleanup ==
  /\ InChainmaker /\ pc \in {"cleanup", "abort"}
  /\ pc' = "failed" \/ (pc = "cleanup" /\ pc' = "merge")
  /\ proc' = [n \in Nodes |-> Down]
  /\ UNCHANGED <<fixedVars, loopVars, conf, file, ok, foreign, cycle, historyVars>>

ChainmakerNext ==
  \/ StartAll \/ Configure \/ MeasureIdle \/ Work \/ PreSnapshot \/ StopFirst
  \/ CatchUp \/ ExtraRestartCycle \/ PostSnapshot \/ Cleanup
=============================================================================
