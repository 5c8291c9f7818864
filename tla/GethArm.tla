------------------------------- MODULE GethArm -------------------------------
(***************************************************************************)
(* run_round of live_node_geth.py: a node under test and a peer, both      *)
(* instrumented and measured from their start.  There is no finally        *)
(* clause, and stale nodes are found by ports and network id.              *)
(***************************************************************************)
EXTENDS GocCenter

InGeth == target = "geth"

\* Any geth node ends that has one of the ports or the network id of this
\* experiment, whoever started it.
KillStaleGeth == foreign' = FALSE

\* make_keys, init_nodes, apply_config, mutate_with_tool, goc_init, then the
\* stale nodes are ended and both nodes are started.  An exception leaves what
\* has been started.
GethStart ==
  /\ InGeth /\ pc = "prepare"
  /\ conf' = Configured
  /\ \/ UNCHANGED <<foreign, proc, seen>> /\ pc' = "unstarted"
     \/ /\ pc' \in {"booted", "unstarted"}
        /\ KillStaleGeth
        /\ \E up \in SUBSET Nodes : proc' = [n \in Nodes |-> Started(n, n \in up)]
        /\ SeeCounters
  /\ UNCHANGED <<fixedVars, loopVars, file, ok, cycle, kept, mishaps>>

\* wait_http for both nodes; a round without them takes no profile.
GethUnreachable ==
  /\ InGeth /\ Goto("booted", "stop")
  /\ UNCHANGED <<fixedVars, loopVars, proc, conf, file, ok, foreign, cycle, historyVars>>

\* Peering, then eight quiet seconds or strong_varied_workload, in which a
\* helper that runs into its timeout raises.
GethMeasure ==
  /\ InGeth /\ pc = "booted" /\ UpNodes = Nodes
  /\ \/ /\ pc' = "measured"
        /\ proc' = Exercised(IF arm = "varied" THEN "work" ELSE "idle")
        /\ SeeCounters
     \/ arm = "varied" /\ pc' = "failed" /\ UNCHANGED <<proc, seen>>
  /\ UNCHANGED <<fixedVars, loopVars, conf, file, ok, foreign, cycle, kept, mishaps>>

GethProfile ==
  /\ InGeth /\ pc = "measured"
  /\ \/ pc' = "stop" /\ \E written \in BOOLEAN : GocProfile("round", written)
     \/ pc' = "failed" /\ UNCHANGED <<file, ok, kept>>
  /\ UNCHANGED <<fixedVars, loopVars, proc, conf, foreign, cycle, seen, mishaps>>

\* Both processes are stopped, and every other geth node with a marker.
GethStop ==
  /\ InGeth /\ Goto("stop", "merge")
  /\ proc' = [n \in Nodes |-> Down]
  /\ KillStaleGeth
  /\ UNCHANGED <<fixedVars, loopVars, conf, file, ok, cycle, historyVars>>

GethNext == GethStart \/ GethUnreachable \/ GethMeasure \/ GethProfile \/ GethStop
=============================================================================
