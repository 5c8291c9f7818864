------------------------------- MODULE ArmLoop -------------------------------
(***************************************************************************)
(* The state of one arm of a live-node coverage experiment, and the loop   *)
(* of run_campaign_arm (run_arm for aptos) around its rounds.  The modules *)
(* of the four targets extend this one with the steps of their rounds.     *)
(*                                                                         *)
(* Covered lines are abstracted to Units, kinds of code a node can run:    *)
(* a process collects units in its counters, which reach a file when they  *)
(* are profiled or flushed and are lost with the process otherwise.        *)
(***************************************************************************)
EXTENDS Integers, Sequences, FiniteSets

CONSTANTS
  Targets,      \* subset of {"chainmaker", "fisco", "geth", "aptos"}
  Nodes,        \* nodes of a network, numbers from 0; 0 is the configured one
  Arms,         \* subset of {"fixed", "baseline", "varied"}
  Converge,     \* --converge-rounds
  MaxLimit,     \* bound: a round limit, where there is one
  Leftovers,    \* whether the output directory may hold an earlier run
  SameBuild     \* whether another fisco experiment has the same --build-dir

ASSUME ArmAssumption ==
  /\ Targets \subseteq {"chainmaker", "fisco", "geth", "aptos"}
  /\ Nodes \subseteq Nat /\ 0 \in Nodes /\ IsFiniteSet(Nodes)
  /\ Arms \subseteq {"fixed", "baseline", "varied"}
  /\ Converge \in Nat \ {0}
  /\ MaxLimit \in Nat \ {0}
  /\ Leftovers \subseteq BOOLEAN /\ SameBuild \in BOOLEAN

VARIABLES
  target, arm, opts,  \* what the command line fixes
  pc,                 \* next step of the loop or of the round
  left,               \* rounds left, when limited
  late,               \* whether the deadline has passed
  window,             \* the last covered_lines of the timeline
  proc,               \* node -> [up, conf, counters]
  conf,               \* config file of node 0: "stock", "case" or "mutant"
  file,               \* profile -> units in it, {} when missing or empty
  ok,                 \* profiles of this round written successfully
  foreign,            \* whether a node of another experiment runs here
  cycle,              \* restart cycle or launch attempt in progress
  seen,               \* history: units run by the processes of this arm
  kept,               \* history: units in a profile written successfully, and
                      \*   not removed by another experiment since
  mishaps             \* history: members of Mishaps that occurred so far

fixedVars == <<target, arm, opts>>
loopVars == <<left, late, window>>
historyVars == <<seen, kept, mishaps>>
vars == <<fixedVars, pc, loopVars, proc, conf, file, ok, foreign, cycle, historyVars>>

\* Code run at startup with the stock config and with another one, without
\* load, under transactions, while catching up; and by another experiment,
\* earlier or at the same time.
Units == {"stock", "config", "idle", "work", "sync", "old"}

\* A round wrote no profile of its own; nodes of another experiment wrote their
\* counters to the files of this one, or it removed them; an org still ran its
\* startup code when the counters were cleared.
Mishaps == {"unwritten", "strangers", "reset", "slow boot"}

\* The phases in which an arm has come to its end: regularly, by an exception,
\* or by one before the try statement of its round or launch.
Ended == {"done", "failed", "unstarted"}

Files == {"pre", "post", "round", "cumulative"}

Confs == {"stock", "case", "mutant"}

Process == [up : BOOLEAN, conf : Confs, counters : SUBSET Units]

Options == [limited : BOOLEAN, deadline : BOOLEAN, full : BOOLEAN, leftover : Leftovers]

Down == [up |-> FALSE, conf |-> "stock", counters |-> {}]

UpNodes == {n \in Nodes : proc[n].up}

\* Files below the output directory are not removed with the timeline.
OldFile == IF opts.leftover THEN {"old"} ELSE {}

\* Defect: the cumulative profile of an earlier run stays.
NothingRemoved == OldFile

\* run_campaign_arm unlinks the cumulative profile, reset_gcda the counters of
\* fisco; the aptos profiles of an earlier run stay where they are.
AtArmStart == IF target = "aptos" THEN OldFile ELSE {}

LoopInit ==
  /\ target \in Targets
  /\ arm \in Arms
  /\ opts \in Options
  /\ pc = IF target = "aptos" THEN "launch" ELSE "loop"
  /\ left = IF opts.limited THEN MaxLimit ELSE 0
  /\ late = FALSE
  /\ window = <<>>
  /\ proc = [n \in Nodes |-> Down]
  /\ conf = "stock"
  /\ file = [f \in Files |-> IF f = "cumulative" THEN AtArmStart ELSE {}]
  /\ ok = {}
  /\ foreign \in BOOLEAN
  /\ cycle = 0
  /\ seen = {}
  /\ kept = {}
  /\ mishaps = {}

\* The last Converge rounds covered the same number of lines.
Converged ==
  /\ Len(window) = Converge
  /\ \A i, j \in DOMAIN window : window[i] = window[j]

OutOfRounds == opts.limited /\ left = 0

\* A round begins with the files an earlier experiment left for it.
BeginRound ==
  /\ pc = "loop"
  /\ ~OutOfRounds /\ ~late /\ (opts.full \/ ~Converged)
  /\ pc' = "prepare"
  /\ left' = IF opts.limited THEN left - 1 ELSE left
  /\ file' = [file EXCEPT !["pre"] = OldFile, !["post"] = OldFile, !["round"] = OldFile]
  /\ ok' = {}
  /\ cycle' = 0
  /\ UNCHANGED <<fixedVars, late, window, proc, conf, foreign, historyVars>>

\* Defect: the deadline is only looked at before a round.
EndArmUnlessLate ==
  /\ pc = "loop"
  /\ \/ OutOfRounds \/ (~opts.full /\ Converged)
     \/ target = "fisco" /\ opts.deadline /\ window # <<>>
  /\ pc' = IF target = "aptos" THEN "teardown" ELSE "done"
  /\ UNCHANGED <<fixedVars, loopVars, proc, conf, file, ok, foreign, cycle, historyVars>>

\* fisco also leaves when the last round took longer than the time left.
EndArm ==
  /\ pc = "loop"
  /\ \/ OutOfRounds \/ late \/ (~opts.full /\ Converged)
     \/ target = "fisco" /\ opts.deadline /\ window # <<>>
  /\ pc' = IF target = "aptos" THEN "teardown" ELSE "done"
  /\ UNCHANGED <<fixedVars, loopVars, proc, conf, file, ok, foreign, cycle, historyVars>>

DeadlinePasses ==
  /\ opts.deadline /\ ~late
  /\ pc \notin Ended
  /\ late' = TRUE
  /\ UNCHANGED <<fixedVars, pc, left, window, proc, conf, file, ok, foreign, cycle, historyVars>>

\* A node may exit at any time.  The goc server loses its counters; gcov and
\* LLVM write them when the process comes to a normal end.
NodeDies(n) ==
  /\ proc[n].up /\ pc \notin Ended
  /\ proc' = [proc EXCEPT ![n] = Down]
  /\ \/ UNCHANGED <<file, kept>>
     \/ /\ target \in {"fisco", "aptos"}
        /\ file' = [file EXCEPT !["cumulative"] = @ \cup proc[n].counters]
        /\ kept' = kept \cup proc[n].counters
  /\ UNCHANGED <<fixedVars, pc, loopVars, conf, ok, foreign, cycle, seen, mishaps>>

\* Another experiment on this machine starts its nodes.
ForeignStarts ==
  /\ ~foreign /\ pc \notin Ended
  /\ foreign' = TRUE
  /\ UNCHANGED <<fixedVars, pc, loopVars, proc, conf, file, ok, cycle, historyVars>>

-----------------------------------------------------------------------------
(* Helpers of the rounds *)

Goto(here, next) == pc = here /\ pc' = next

\* A new process of node n runs the startup code of the config it reads.
Started(n, up) ==
  LET c == IF n = 0 THEN conf' ELSE "stock"
      units == IF c = "stock" THEN {"stock"} ELSE {"config"}
  IN IF up THEN [up |-> TRUE, conf |-> c, counters |-> units] ELSE Down

\* Every running node runs the code of kind u.
Exercised(u) ==
  [n \in Nodes |-> IF proc[n].up THEN [proc[n] EXCEPT !.counters = @ \cup {u}] ELSE proc[n]]

InCounters(p) == UNION {p[n].counters : n \in Nodes}

SeeCounters == seen' = seen \cup InCounters(proc')

\* covered_lines of what a profile holds.
Covered(units) == Cardinality(units)

\* Defect: the window is the whole timeline.
RecordAll(covered) == window' = Append(window, covered)

\* append_timeline: the loop looks back on the last Converge rounds only.
Record(covered) ==
  LET longer == Append(window, covered)
  IN window' = IF Len(longer) > Converge THEN Tail(longer) ELSE longer

\* overlay_case_config, then mutate_node_config for a baseline tool.
Configured == IF arm = "baseline" THEN "mutant" ELSE "case"
=============================================================================
