------------------------------ MODULE Campaign ------------------------------
(***************************************************************************)
(* One campaign of bcfuzzer_campaign.py on a target whose nodes are edited *)
(* in place (fisco, chainmaker, aptos): the rounds, the config files and   *)
(* processes of the controlled nodes, the persisted state, and the end of  *)
(* the campaign process at any point, with a later resume.                 *)
(*                                                                         *)
(* A node's files are abstracted to what differs from the snapshot of the  *)
(* campaign start: item -> the mutation written there, or Stock.           *)
(***************************************************************************)
EXTENDS Scheduler

CONSTANTS
  Targets,        \* subset of {"fisco", "chainmaker", "aptos"}
  Stock,          \* an item as the snapshot has it
  Arming,         \* seeds that restart an org with capability flags
  Disarming,      \* seeds that restart an org with an empty environment
  MaxRounds,      \* bound: rounds of the campaign
  MaxEnds         \* bound: times the campaign process ends early

ASSUME CampaignAssumption ==
  /\ Targets \subseteq {"fisco", "chainmaker", "aptos"}
  /\ Stock \notin Pairs
  /\ Arming \cup Disarming \subseteq Seeds
  /\ Arming \cap Disarming = {}

VARIABLES
  target,     \* the target of the campaign
  output,     \* --output is "resolved", or "relative" or through a link
  stage,      \* what run_round does next
  pending,    \* controlled nodes the stage has still to visit
  files,      \* node -> item -> pair on disk, or Stock
  proc,       \* node -> [up, conf, armed]: its latest process
  env,        \* nodes with capability flags in _capability_env
  baseline,   \* whether the oracle has a baseline
  saved,      \* mei.json, scheduler.json and oracle.json
  ends,       \* times the process ended early
  admittedAs  \* history: pool id -> mutation it was admitted with

nodeVars == <<files, proc, env>>
runVars == <<stage, pending>>
fixedVars == <<target, output, ends, baseline>>
vars == <<meiVars, schedVars, nodeVars, runVars, fixedVars, saved, admittedAs>>

StockFiles == [i \in Items |-> Stock]

\* The snapshot with one mutation written into it.
Mutated(m) == [StockFiles EXCEPT ![m[1]] = m[2]]

Process == [up : BOOLEAN, conf : [Items -> Pairs \cup {Stock}], armed : BOOLEAN]

NothingSaved == [mei |-> Empty, sched |-> SchedEmpty, oracle |-> "absent"]

CampaignTypeOK ==
  /\ MeiTypeOK
  /\ SchedTypeOK
  /\ target \in Targets
  /\ output \in {"resolved", "relative"}
  /\ stage \in {"plan", "apply", "admission", "seeds", "sequences",
                "mei", "scheduler", "oracle", "ended"}
  /\ pending \subseteq Controlled
  /\ files \in [Controlled -> [Items -> Pairs \cup {Stock}]]
  /\ proc \in [Controlled -> Process]
  /\ env \subseteq Controlled
  /\ baseline \in BOOLEAN
  /\ saved.oracle \in {"absent", "bare", "baseline"}

\* The network ensure_ready builds: stock files, every node running.
FreshFiles == [n \in Controlled |-> StockFiles]
FreshProc == [n \in Controlled |-> [up |-> TRUE, conf |-> StockFiles, armed |-> FALSE]]

\* register_baseline may raise; the campaign goes on without a baseline.  The
\* other targets do not go by the path of the output.
Init ==
  /\ MeiInit
  /\ SchedInit
  /\ files = FreshFiles
  /\ proc = FreshProc
  /\ env = {}
  /\ target \in Targets
  /\ output \in IF target = "chainmaker" THEN {"resolved", "relative"} ELSE {"resolved"}
  /\ stage = "plan"
  /\ pending = {}
  /\ baseline \in BOOLEAN
  /\ saved = NothingSaved
  /\ ends = 0
  /\ admittedAs = <<>>

-----------------------------------------------------------------------------
(* Node processes *)

\* matching_chainmaker_pids compares the resolved path of a process with the
\* output as it was given: of a relative one no process is found.
CanStop == target # "chainmaker" \/ output = "resolved"

Stopped(n) == [proc[n] EXCEPT !.up = FALSE]

\* What stop_node or stop_org makes of the node.
Halted(n) == IF CanStop THEN Stopped(n) ELSE proc[n]

\* A process started now reads the files on disk and the capability flags.
Started(n, up) == [up |-> up, conf |-> files[n], armed |-> n \in env]

\* A stop and a start: the stop may raise or find nothing, and a second
\* ChainMaker process does not replace the running one.
Restarted(n, armed) ==
  \/ UNCHANGED proc
  \/ /\ CanStop \/ ~proc[n].up
     /\ \E up \in BOOLEAN :
          proc' = [proc EXCEPT ![n] = [Started(n, up) EXCEPT !.armed = armed]]

\* probe_admission.  Aptos stops the node first.  A FISCO node that still
\* runs is left alone by start.sh, and the fresh log never appears; the running
\* ChainMaker process answers.
Probe(n, admitted) ==
  \/ /\ target = "aptos" \/ ~proc[n].up
     /\ \E up \in BOOLEAN :
          /\ admitted => up
          /\ proc' = [proc EXCEPT ![n] = Started(n, up)]
  \/ /\ target = "fisco" /\ proc[n].up
     /\ ~admitted
     /\ UNCHANGED proc
  \/ /\ target = "chainmaker" /\ proc[n].up
     /\ UNCHANGED proc

\* A node may die whenever it runs, and does when its config is bad.
NodeDies(n) ==
  /\ stage # "ended"
  /\ proc[n].up
  /\ proc' = [proc EXCEPT ![n] = Stopped(n)]
  /\ UNCHANGED <<meiVars, schedVars, files, env, runVars, fixedVars, saved, admittedAs>>

-----------------------------------------------------------------------------
(* The steps of a round *)

\* The loops over plan.placements take the nodes in order.
Foremost(n) == n \in pending /\ \A m \in pending : n <= m

Visit(n, here, next, nodes) ==
  /\ stage = here
  /\ Foremost(n)
  /\ pending' = IF pending = {n} THEN nodes ELSE pending \ {n}
  /\ stage' = IF pending = {n} THEN next ELSE here

PlanRound ==
  /\ stage = "plan"
  /\ round_id < MaxRounds
  /\ NextRound
  /\ stage' = "apply"
  /\ pending' = Controlled
  /\ UNCHANGED <<meiVars, nodeVars, fixedVars, saved, admittedAs>>

\* Defect: the files of the earlier rounds are not restored.
WriteOverLast(n) ==
  /\ files' = [files EXCEPT ![n][plan[n].mutation[1]] = plan[n].mutation[2]]
  /\ proc' = [proc EXCEPT ![n] = Halted(n)]

\* Defect: the node is not stopped.
WriteWhileUp(n) ==
  /\ files' = [files EXCEPT ![n] = Mutated(plan[n].mutation)]
  /\ UNCHANGED proc

\* restore_pristine, stop, apply_mutations with its sanitizing.
Write(n) ==
  /\ files' = [files EXCEPT ![n] = Mutated(plan[n].mutation)]
  /\ proc' = [proc EXCEPT ![n] = Halted(n)]

\* apply_placements: a node without a mutation is skipped altogether.
Apply(n) ==
  /\ Visit(n, "apply", "admission", Controlled)
  /\ IF plan[n].mutation = NoMutation THEN UNCHANGED <<files, proc>> ELSE Write(n)
  /\ UNCHANGED <<meiVars, schedVars, env, fixedVars, saved, admittedAs>>

\* admission_pass: the verdict on a mutation enters the index, and the id of
\* an admitted node the pool, mutated or not.
Judge(n, admitted) ==
  /\ Visit(n, "admission", "seeds", Controlled)
  /\ Probe(n, admitted)
  /\ LET m == plan[n].mutation
         id == ConfigOf(n)
     IN /\ IF m = NoMutation THEN UNCHANGED meiVars
           ELSE RecordAdmission(m[1], m[2], admitted)
        /\ IF admitted
           THEN /\ AdmitConfig(id)
                /\ admittedAs' = [c \in DOMAIN admittedAs \cup {id} |->
                                    IF c = id THEN m ELSE admittedAs[c]]
           ELSE UNCHANGED <<pool, admittedAs>>
  /\ UNCHANGED <<round_id, counts, plan, files, env, fixedVars, saved>>

\* An exception in the restore, the stop or the mutation of a node, in its
\* probe, or in settle_after_restarts before the first seed abandons the
\* round: nothing is persisted and the next round is planned.
SetupFails(n) ==
  /\ Foremost(n)
  /\ \/ /\ stage = "apply" /\ plan[n].mutation # NoMutation
        /\ \/ /\ files' \in {files, [files EXCEPT ![n] = StockFiles]}
              /\ UNCHANGED proc
           \/ /\ files' \in {[files EXCEPT ![n] = f] :
                               f \in {StockFiles, Mutated(plan[n].mutation)}}
              /\ proc' = [proc EXCEPT ![n] = Halted(n)]
     \/ /\ stage = "admission"
        /\ UNCHANGED files
        /\ \/ proc' \in {proc, [proc EXCEPT ![n] = Halted(n)]}
           \/ Probe(n, FALSE)
     \/ /\ stage = "seeds" /\ pending = Controlled
        /\ UNCHANGED <<files, proc>>
  /\ stage' = "plan"
  /\ pending' = {}
  /\ UNCHANGED <<meiVars, schedVars, env, fixedVars, saved, admittedAs>>

\* One iteration of run_seeds.  A chainmaker seed with capability flags, or
\* with an explicitly empty environment, restarts the org from its files.
RunSeeds(n) ==
  /\ Visit(n, "seeds", "sequences", {})
  /\ RunSeed(n)
  /\ \/ /\ target # "chainmaker" \/ Picked(n) \cap (Arming \cup Disarming) = {}
        /\ UNCHANGED <<env, proc>>
     \/ /\ target = "chainmaker" /\ Picked(n) \cap (Arming \cup Disarming) # {}
        /\ env' = IF Picked(n) \cap Arming # {} THEN env \cup {n} ELSE env \ {n}
        /\ Restarted(n, n \in env')
  /\ UNCHANGED <<meiVars, files, fixedVars, saved, admittedAs>>

\* run_sequences: every third round restart_cycle stops and starts the first
\* controlled node on the files it has; then the oracle observes.
RunSequences ==
  /\ stage = "sequences"
  /\ stage' = "mei"
  /\ \/ round_id % 3 # 0 /\ UNCHANGED proc
     \/ round_id % 3 = 0 /\ Restarted(First, First \in env)
  /\ UNCHANGED <<meiVars, schedVars, files, env, pending, fixedVars, saved, admittedAs>>

-----------------------------------------------------------------------------
(* persist: three files one after the other, each replaced atomically *)

\* Defect: the index is not saved.
SaveMeiSkipped ==
  /\ stage = "mei" /\ stage' = "scheduler"
  /\ UNCHANGED <<saved, meiVars, schedVars, nodeVars, pending, fixedVars, admittedAs>>

SaveMei ==
  /\ stage = "mei" /\ stage' = "scheduler"
  /\ saved' = [saved EXCEPT !.mei = Snapshot]
  /\ UNCHANGED <<meiVars, schedVars, nodeVars, pending, fixedVars, admittedAs>>

SaveScheduler ==
  /\ stage = "scheduler" /\ stage' = "oracle"
  /\ saved' = [saved EXCEPT !.sched = SchedSnapshot]
  /\ UNCHANGED <<meiVars, schedVars, nodeVars, pending, fixedVars, admittedAs>>

SaveOracle ==
  /\ stage = "oracle" /\ stage' = "plan"
  /\ saved' = [saved EXCEPT !.oracle = IF baseline THEN "baseline" ELSE "bare"]
  /\ UNCHANGED <<meiVars, schedVars, nodeVars, pending, fixedVars, admittedAs>>

\* The process ends at any point; what it held in memory is gone, and the
\* network is torn down.
End ==
  /\ stage # "ended"
  /\ ends < MaxEnds
  /\ ends' = ends + 1
  /\ stage' = "ended"
  /\ pending' = {}
  /\ Load(Empty)
  /\ SchedLoad(SchedEmpty)
  /\ baseline' = FALSE
  /\ files' = FreshFiles
  /\ proc' = FreshProc
  /\ env' = {}
  /\ admittedAs' = [c \in DOMAIN admittedAs \cap saved.sched.pool |-> admittedAs[c]]
  /\ UNCHANGED <<target, output, saved>>

\* main with --state: the output directory is emptied, which takes the saved
\* state away when --state lies below --output; then the state is read and a
\* new network built.  A baseline in oracle.json was written as
\* text and cannot be read back: the campaign does not start.  Bound: the
\* campaign whose nodes could not be stopped is not resumed among them.
Resume ==
  /\ stage = "ended"
  /\ CanStop
  /\ saved' \in {saved, NothingSaved}
  /\ saved'.oracle # "baseline"
  /\ Load(saved'.mei)
  /\ SchedLoad(saved'.sched)
  /\ baseline' \in BOOLEAN
  /\ stage' = "plan"
  /\ UNCHANGED <<nodeVars, pending, target, output, ends, admittedAs>>

Next ==
  \/ PlanRound
  \/ \E n \in Controlled :
       \/ Apply(n)
       \/ \E admitted \in BOOLEAN : Judge(n, admitted)
       \/ SetupFails(n)
       \/ RunSeeds(n)
       \/ NodeDies(n)
  \/ RunSequences
  \/ SaveMei
  \/ SaveScheduler
  \/ SaveOracle
  \/ End
  \/ Resume

Spec == Init /\ [][Next]_vars

-----------------------------------------------------------------------------
(* Properties *)

MutatedItems(f) == {i \in Items : f[i] # Stock}

\* "without a restore step mutations accumulate across rounds"
\* (bcfuzzer_campaign.py:200-205): the files of a node carry at most one
\* mutation, through abandoned rounds, skipped nodes and restarts.
NoAccumulation ==
  \A n \in Controlled : Cardinality(MutatedItems(files[n])) <= 1

CampaignInv == CampaignTypeOK /\ NoAccumulation

\* A verdict enters the index only on evidence: the process the node was
\* judged by has read exactly the mutation the verdict is about, and runs if
\* the verdict is an admission.  The exception is a ChainMaker campaign whose
\* output is relative: it cannot stop what it is about to judge.
VerdictsAreEvidence ==
  [][stage # "ended" /\ CanStop =>
       \A i \in Items, p \in Pairs :
         /\ p \in valid'[i] \ valid[i] =>
              \E n \in pending :
                Foremost(n) /\ proc'[n].up /\ proc'[n].conf = Mutated(<<i, p>>)
         /\ invalid'[i][p] > invalid[i][p] =>
              \E n \in pending :
                Foremost(n) /\ proc'[n].conf = Mutated(<<i, p>>)]_vars

\* An id is given to one configuration only, across resumes: the ids a round
\* is about to hand out are not in the pool yet, else placement hashes, and
\* with them the seed counts, would merge different configurations.
PlannedIdsAreNew ==
  stage = "apply" => \A n \in Controlled : ConfigOf(n) \notin pool

\* Whatever point persist is cut off at, a pool id on disk has the verdict
\* that admitted it on disk too.
SavedPoolIsJudged ==
  \A id \in saved.sched.pool \cap DOMAIN admittedAs :
    LET m == admittedAs[id]
    IN m # NoMutation => m[2] \in saved.mei.valid[m[1]]
=============================================================================
