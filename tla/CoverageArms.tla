----------------------------- MODULE CoverageArms ----------------------------
(***************************************************************************)
(* The coverage experiment of one arm on one of the four targets: the loop *)
(* over rounds, the rounds of the target, nodes that die, the deadline,    *)
(* and another experiment on the same machine.                             *)
(***************************************************************************)
EXTENDS ChainmakerArm, GethArm, FiscoArm, AptosArm

\* What the code does next, as long as nothing disturbs it.
Progress ==
  \/ BeginRound \/ EndArm \/ Merge
  \/ ChainmakerNext \/ GethNext \/ FiscoNext \/ AptosNext

Next ==
  \/ Progress
  \/ DeadlinePasses \/ ForeignStarts \/ FiscoShared \/ FiscoSustain \/ FiscoRaises
  \/ \E n \in Nodes : NodeDies(n)

Spec == LoopInit /\ [][Next]_vars

\* Time passes, and Python runs on: every helper has a timeout.
FairSpec == Spec /\ WF_vars(Progress) /\ WF_vars(DeadlinePasses)

-----------------------------------------------------------------------------
(* Properties *)

Phases ==
  {"launch", "loop", "prepare", "booted", "configured", "worked", "snapshot", "offline",
   "extra", "working", "measured", "stop", "cleanup", "merge", "capture", "teardown",
   "abort"} \cup Ended

TypeOK ==
  /\ target \in Targets /\ arm \in Arms /\ opts \in Options
  /\ pc \in Phases
  /\ left \in 0..MaxLimit
  /\ late \in BOOLEAN
  /\ window \in Seq(Nat) /\ Len(window) <= Converge
  /\ proc \in [Nodes -> Process]
  /\ conf \in Confs
  /\ file \in [Files -> SUBSET Units]
  /\ ok \subseteq Files
  /\ foreign \in BOOLEAN
  /\ cycle \in Nat
  /\ seen \subseteq Units /\ kept \subseteq Units
  /\ mishaps \subseteq Mishaps

\* What the arm reports: its cumulative profile, or for fisco what lcov made of
\* the .gcda files after the round.
Reported == file["cumulative"] \cup (IF pc \in {"loop", "done"} THEN file["round"] ELSE {})

\* Coverage is what the nodes of this arm ran.  What another experiment ran
\* gets in on three ways only: a profile of an earlier one below the output
\* directory, when a round failed to write its own (goc_profile returns False,
\* lcov fails) or with aptos, which merges all it finds; and on fisco, by nodes
\* with the same build directory that exit in between.  The round itself ends
\* these after reset_gcda (live_node_fisco.py:1606, 1671).
CoverageIsExplained ==
  /\ Reported \subseteq seen \cup {"old"}
  /\ "old" \in Reported =>
       \/ opts.leftover /\ ("unwritten" \in mishaps \/ target = "aptos")
       \/ target = "fisco" /\ "strangers" \in mishaps

\* A snapshot that was written is in the coverage of the round and of the arm,
\* whether or not the other snapshot of the round was (goc_merge of the valid
\* ones, merge_into_cumulative, .gcda files, profiles of all rounds); on fisco
\* only what was written after another experiment removed the .gcda files.
SnapshotsAreKept == pc \in {"loop", "done"} => kept \subseteq file["cumulative"]

\* The chainmaker arms compare configurations: what the orgs run while they
\* boot with the stock configuration is cleared before org 1 is restarted, and
\* is not in the coverage of an arm that only changes the configuration, as
\* long as every org has booted within the ten seconds of start_all.
BootIsNotCovered ==
  target = "chainmaker" /\ arm # "varied" /\ "slow boot" \notin mishaps =>
    file["cumulative"] \subseteq {"config", "idle", "old"}

\* No node outlives its round, or the arm that an exception ends.  There are
\* these exceptions: a round or launch that raises before its try statement
\* ("unstarted": start_all of chainmaker, start_chain of fisco, launch_swarm,
\* start_node of geth); a geth round, which has no finally clause; and the
\* swarm of aptos, which is launched running.
NodesEndWithTheRound ==
  pc \in {"loop", "merge", "capture", "done", "failed"} =>
    \/ UpNodes = {}
    \/ pc = "loop" /\ target = "aptos" /\ window = <<>>
    \/ pc = "failed" /\ target = "geth"

LastCovered == IF window = <<>> THEN 0 ELSE window[Len(window)]

\* covered_lines never falls from one round to the next (without the files of
\* an earlier run, or another experiment that resets those of this one), on
\* which the test for convergence relies.
CoverageNeverFalls ==
  [][(/\ ~opts.leftover /\ "reset" \notin mishaps
       /\ window' # window /\ window # <<>>) => LastCovered <= LastCovered']_vars

\* Chainmaker and aptos end the processes of their own directories only; fisco
\* and geth end the nodes of every experiment of their kind on the machine.
OthersAreLeftAlone ==
  [][(target \in {"chainmaker", "aptos"} /\ foreign) => foreign']_vars

\* An arm with a round limit, a deadline or a test for convergence comes to
\* its end.  Coverage that never falls converges; it can fall with the files of
\* an earlier run (fisco falls back to them, aptos removes some), or when another
\* experiment resets the .gcda files.  The varied arm of fisco ends only with a
\* deadline for its rounds, which run_campaign_arm passes when there are
\* --budget-minutes and --full-budget and --rounds is at most one.
Bounded ==
  /\ opts.limited \/ opts.deadline \/ (~opts.full /\ ~opts.leftover)
  /\ target = "fisco" /\ arm = "varied" => RoundDeadline

NeedNotConverge == ~opts.limited /\ ~opts.deadline /\ "reset" \in mishaps

ArmsEnd == Bounded => <>(pc \in Ended \/ NeedNotConverge)

\* The help of --rounds: "number of rounds per arm".
LimitedArmsEnd == opts.limited => <>(pc \in Ended)
=============================================================================
