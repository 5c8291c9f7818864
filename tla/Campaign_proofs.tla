--------------------------- MODULE Campaign_proofs ---------------------------
(***************************************************************************)
(* For every set of items, pairs, nodes and seeds and every number of      *)
(* rounds and resumes: mutations do not accumulate on a node, a verdict is *)
(* about what the node was started with, an id is given to one             *)
(* configuration only, and a saved pool has its verdicts saved with it.    *)
(***************************************************************************)
EXTENDS Campaign, Scheduler_proofs

Verdicts == [valid    : [Items -> SUBSET Pairs],
             invalid  : [Items -> [Pairs -> Nat]],
             explored : [Items -> SUBSET Pairs]]

\* What the state directory holds has the types of what it is loaded into.
SavedTypeOK ==
  /\ saved = [mei |-> saved.mei, sched |-> saved.sched, oracle |-> saved.oracle]
  /\ saved.mei \in Verdicts
  /\ saved.sched.round_id \in Nat
  /\ saved.sched.pool \subseteq ConfigIds

CampaignTypes == CampaignTypeOK /\ SavedTypeOK

\* The ids of the pool are of past rounds until the admissions of the round
\* add to it, and what is saved is behind what is in memory.
IdsArePast ==
  /\ \A c \in pool : c[1] <= round_id
  /\ stage = "apply" => \A c \in pool : c[1] < round_id
  /\ \A c \in saved.sched.pool : c[1] <= saved.sched.round_id
  /\ stage # "ended" => saved.sched.round_id <= round_id
  /\ stage \in {"apply", "admission"} => saved.sched.round_id < round_id

\* The files of a node are the snapshot with at most one mutation in it.
OneMutation(f) == f = StockFiles \/ \E m \in Mutations : f = Mutated(m)

FilesAreSingle == \A n \in Controlled : OneMutation(files[n])

\* Nodes of the round that have a mutation written and were not probed yet.
Awaiting(n) ==
  /\ plan[n].mutation # NoMutation
  /\ \/ stage = "apply" /\ n \notin pending
     \/ stage = "admission" /\ n \in pending

AwaitingIsDown ==
  \A n \in Controlled :
    Awaiting(n) =>
      files[n] = Mutated(plan[n].mutation) /\ (CanStop => ~proc[n].up)

\* The verdict that admitted an id is in the index.
JudgedIn(admissions, ids) ==
  \A id \in ids \cap DOMAIN admittedAs :
    admittedAs[id] # NoMutation =>
      admittedAs[id][2] \in admissions[admittedAs[id][1]]

HistoryTypeOK ==
  \A id \in DOMAIN admittedAs :
    id[1] >= 1 /\ admittedAs[id] \in Mutations \cup {NoMutation}

PoolIsJudged ==
  /\ HistoryTypeOK
  /\ JudgedIn(valid, IF stage = "ended" THEN {} ELSE pool)
  /\ JudgedIn(saved.mei.valid, saved.sched.pool)
  /\ stage # "ended" => \A i \in Items : saved.mei.valid[i] \subseteq valid[i]
  /\ stage = "scheduler" => saved.mei.valid = valid

CampaignIInv ==
  CampaignTypes /\ IdsArePast /\ FilesAreSingle /\ AwaitingIsDown /\ PoolIsJudged

-----------------------------------------------------------------------------
(* Types *)

LEMMA EmptyTypes ==
  /\ Empty \in Verdicts
  /\ Default \in ConfigIds /\ Default[1] = 0
  /\ Idle \in [Controlled -> [config : ConfigIds, mutation : Mutations \cup {NoMutation}]]
  /\ FreshFiles \in [Controlled -> [Items -> Pairs \cup {Stock}]]
  /\ FreshProc \in [Controlled -> Process]
<1>1. Empty \in Verdicts
  BY DEF Empty, Verdicts
<1>2. Default \in ConfigIds /\ Default[1] = 0
  BY DEF Default, ConfigIds
<1>3. Idle \in [Controlled -> [config : ConfigIds, mutation : Mutations \cup {NoMutation}]]
  BY <1>2 DEF Idle
<1>4. FreshFiles \in [Controlled -> [Items -> Pairs \cup {Stock}]]
  BY DEF FreshFiles, StockFiles
<1>5. FreshProc \in [Controlled -> Process]
  BY DEF FreshProc, StockFiles, Process
<1> QED
  BY <1>1, <1>2, <1>3, <1>4, <1>5

\* The snapshot with a mutation in it is a set of files.
LEMMA MutatedType ==
  ASSUME NEW m \in Mutations
  PROVE  Mutated(m) \in [Items -> Pairs \cup {Stock}]
BY DEF Mutated, StockFiles, Mutations

\* A process, stopped or started, is a process.
LEMMA ProcessType ==
  ASSUME CampaignTypeOK, NEW n \in Controlled, NEW up \in BOOLEAN, NEW armed \in BOOLEAN
  PROVE  /\ Stopped(n) \in Process /\ Halted(n) \in Process
         /\ Started(n, up) \in Process
         /\ [Started(n, up) EXCEPT !.armed = armed] \in Process
<1>1. proc[n] \in Process /\ files[n] \in [Items -> Pairs \cup {Stock}]
  BY DEF CampaignTypeOK
<1>2. Stopped(n) \in Process /\ Halted(n) \in Process
  BY <1>1 DEF Stopped, Halted, Process
<1>3. (n \in env) \in BOOLEAN
  OBVIOUS
<1>4. Started(n, up) \in Process
  BY <1>1, <1>3 DEF Started, Process
<1> QED
  BY <1>2, <1>4 DEF Process

LEMMA RestartedType ==
  ASSUME CampaignTypeOK, NEW n \in Controlled, NEW armed \in BOOLEAN, Restarted(n, armed)
  PROVE  proc' \in [Controlled -> Process]
<1>1. proc \in [Controlled -> Process]
  BY DEF CampaignTypeOK
<1>2. CASE UNCHANGED proc
  BY <1>1, <1>2
<1>3. ASSUME NEW up \in BOOLEAN,
             proc' = [proc EXCEPT ![n] = [Started(n, up) EXCEPT !.armed = armed]]
      PROVE  proc' \in [Controlled -> Process]
  <2>1. [Started(n, up) EXCEPT !.armed = armed] \in Process
    BY ProcessType
  <2> QED
    BY <1>1, <1>3, <2>1
<1> QED
  BY <1>2, <1>3 DEF Restarted

LEMMA ProbeType ==
  ASSUME CampaignTypeOK, NEW n \in Controlled, NEW admitted \in BOOLEAN, Probe(n, admitted)
  PROVE  proc' \in [Controlled -> Process]
<1>1. proc \in [Controlled -> Process]
  BY DEF CampaignTypeOK
<1>2. CASE UNCHANGED proc
  BY <1>1, <1>2
<1>3. ASSUME NEW up \in BOOLEAN, proc' = [proc EXCEPT ![n] = Started(n, up)]
      PROVE  proc' \in [Controlled -> Process]
  BY <1>1, <1>3, ProcessType
<1> QED
  BY <1>2, <1>3 DEF Probe

-----------------------------------------------------------------------------
(* Types: the steps *)

\* The part of the state the index and the scheduler own.
OwnTypes == MeiTypeOK /\ SchedTypeOK

\* The nodes and the stage of the round.
NodeTypes ==
  /\ files \in [Controlled -> [Items -> Pairs \cup {Stock}]]
  /\ proc \in [Controlled -> Process]
  /\ env \subseteq Controlled
  /\ pending \subseteq Controlled
  /\ stage \in {"plan", "apply", "admission", "seeds", "sequences",
                "mei", "scheduler", "oracle", "ended"}
  /\ target \in Targets
  /\ output \in {"resolved", "relative"}

FileTypes ==
  SavedTypeOK /\ saved.oracle \in {"absent", "bare", "baseline"}

LEMMA TypeParts ==
  CampaignTypes <=> OwnTypes /\ NodeTypes /\ FileTypes /\ baseline \in BOOLEAN
BY DEF CampaignTypes, CampaignTypeOK, OwnTypes, NodeTypes, FileTypes

LEMMA CampaignInitial == Init => CampaignIInv
<1> SUFFICES ASSUME Init PROVE CampaignIInv
  OBVIOUS
<1>1. OwnTypes
  <2>1. MeiTypeOK
    BY MeiInvInit DEF Init, MeiInv
  <2>2. SchedTypeOK
    BY EmptyTypes DEF Init, SchedInit, SchedTypeOK
  <2> QED
    BY <2>1, <2>2 DEF OwnTypes
<1>2. NodeTypes
  BY EmptyTypes DEF Init, NodeTypes
<1>3. FileTypes
  BY EmptyTypes DEF Init, FileTypes, SavedTypeOK, NothingSaved, SchedEmpty
<1>4. baseline \in BOOLEAN
  BY DEF Init
<1>5. IdsArePast
  BY EmptyTypes DEF Init, IdsArePast, SchedInit, NothingSaved, SchedEmpty
<1>6. FilesAreSingle /\ AwaitingIsDown
  BY DEF Init, FilesAreSingle, OneMutation, FreshFiles, AwaitingIsDown, Awaiting
<1>7. PoolIsJudged
  <2>1. DOMAIN admittedAs = {}
    BY DEF Init
  <2>2. stage = "plan" /\ saved.mei = Empty /\ valid = Empty.valid
    BY DEF Init, NothingSaved, MeiInit
  <2> QED
    BY <2>1, <2>2 DEF PoolIsJudged, HistoryTypeOK, JudgedIn
<1> QED
  BY <1>1, <1>2, <1>3, <1>4, <1>5, <1>6, <1>7, TypeParts DEF CampaignIInv

\* The index and the scheduler keep their types.
LEMMA OwnTypesStep ==
  ASSUME CampaignTypes, [Next]_vars
  PROVE  OwnTypes'
<1> USE DEF OwnTypes
<1>0. MeiTypeOK /\ SchedTypeOK
  BY DEF CampaignTypes, CampaignTypeOK
<1>1. ASSUME UNCHANGED meiVars, UNCHANGED schedVars PROVE OwnTypes'
  BY <1>0, <1>1 DEF meiVars, MeiTypeOK, schedVars, SchedTypeOK
<1>2. CASE PlanRound
  <2>1. plan' \in [Controlled -> [config : ConfigIds, mutation : Mutations \cup {NoMutation}]]
    BY <1>0, <1>2, PlanIsOffered DEF PlanRound
  <2>2. round_id' \in Nat /\ pool' \subseteq ConfigIds
    BY <1>0, <1>2 DEF PlanRound, NextRound, SchedTypeOK
  <2> QED
    BY <1>0, <1>2, <2>1, <2>2 DEF PlanRound, SchedTypeOK, MeiTypeOK, meiVars
<1>3. ASSUME NEW n \in Controlled, NEW admitted \in BOOLEAN, Judge(n, admitted)
      PROVE  OwnTypes'
  <2>1. plan[n].mutation \in Mutations \cup {NoMutation}
    BY <1>0 DEF SchedTypeOK
  <2>2. MeiTypeOK'
    <3>1. CASE plan[n].mutation = NoMutation
      BY <1>0, <1>3, <3>1 DEF Judge, MeiTypeOK, meiVars
    <3>2. CASE plan[n].mutation # NoMutation
      <4>1. plan[n].mutation[1] \in Items /\ plan[n].mutation[2] \in Pairs
        BY <2>1, <3>2 DEF Mutations
      <4> QED
        BY <1>0, <1>3, <3>2, <4>1, VerdictType DEF Judge
    <3> QED
      BY <3>1, <3>2
  <2>3. ConfigOf(n) \in ConfigIds
    BY <1>0, SchedulerAssumption DEF ConfigOf, ConfigIds, SchedTypeOK
  <2>4. pool' \subseteq ConfigIds
    BY <1>0, <1>3, <2>3 DEF Judge, AdmitConfig, SchedTypeOK
  <2> QED
    BY <1>0, <1>3, <2>2, <2>4 DEF Judge, SchedTypeOK
<1>4. ASSUME NEW n \in Controlled, RunSeeds(n) PROVE OwnTypes'
  BY <1>0, <1>4 DEF RunSeeds, RunSeed, SchedTypeOK, MeiTypeOK, meiVars
<1>5. CASE End
  <2>1. MeiTypeOK'
    BY <1>5, EmptyTypes DEF End, Load, Verdicts, MeiTypeOK
  <2>2. SchedTypeOK'
    BY <1>5, EmptyTypes DEF End, SchedLoad, SchedEmpty, SchedTypeOK
  <2> QED
    BY <2>1, <2>2
<1>6. CASE Resume
  <2>1. /\ saved'.mei \in Verdicts
        /\ saved'.sched.round_id \in Nat
        /\ saved'.sched.pool \subseteq ConfigIds
    BY <1>6, EmptyTypes DEF Resume, CampaignTypes, SavedTypeOK, NothingSaved, SchedEmpty
  <2>2. MeiTypeOK'
    BY <1>6, <2>1 DEF Resume, Load, Verdicts, MeiTypeOK
  <2>3. SchedTypeOK'
    BY <1>6, <2>1, EmptyTypes DEF Resume, SchedLoad, SchedTypeOK
  <2> QED
    BY <2>2, <2>3
<1> QED
  BY <1>1, <1>2, <1>3, <1>4, <1>5, <1>6
  DEF Next, vars, Apply, SetupFails, NodeDies, RunSequences, SaveMei, SaveScheduler, SaveOracle

\* So do the nodes.
LEMMA NodeTypesStep ==
  ASSUME CampaignTypes, [Next]_vars
  PROVE  NodeTypes' /\ (baseline \in BOOLEAN)'
<1> USE DEF NodeTypes
<1>0. NodeTypes /\ baseline \in BOOLEAN /\ CampaignTypeOK
  BY TypeParts DEF CampaignTypes
<1>1. CASE UNCHANGED vars
  BY <1>0, <1>1 DEF vars, nodeVars, runVars, fixedVars
<1>2. CASE PlanRound
  BY <1>0, <1>2 DEF PlanRound, nodeVars, fixedVars
<1>3. ASSUME NEW n \in Controlled, Apply(n) PROVE NodeTypes' /\ baseline' \in BOOLEAN
  <2>1. CASE plan[n].mutation = NoMutation
    BY <1>0, <1>3, <2>1 DEF Apply, Visit, fixedVars
  <2>2. CASE plan[n].mutation # NoMutation
    <3>1. Mutated(plan[n].mutation) \in [Items -> Pairs \cup {Stock}]
      BY <2>2, MutatedType DEF CampaignTypes, CampaignTypeOK, SchedTypeOK
    <3>2. Halted(n) \in Process
      BY <1>0, ProcessType
    <3>3. /\ files' \in [Controlled -> [Items -> Pairs \cup {Stock}]]
          /\ proc' \in [Controlled -> Process]
      BY <1>0, <1>3, <2>2, <3>1, <3>2 DEF Apply, Write
    <3> QED
      BY <1>0, <1>3, <3>3 DEF Apply, Visit, fixedVars
  <2> QED
    BY <2>1, <2>2
<1>4. ASSUME NEW n \in Controlled, NEW admitted \in BOOLEAN, Judge(n, admitted)
      PROVE  NodeTypes' /\ baseline' \in BOOLEAN
  <2>1. proc' \in [Controlled -> Process]
    BY <1>0, <1>4, ProbeType DEF Judge
  <2> QED
    BY <1>0, <1>4, <2>1 DEF Judge, Visit, fixedVars
<1>5. ASSUME NEW n \in Controlled, SetupFails(n) PROVE NodeTypes' /\ baseline' \in BOOLEAN
  <2>1. proc' \in [Controlled -> Process]
    <3>1. CASE UNCHANGED proc \/ proc' = [proc EXCEPT ![n] = Halted(n)]
      BY <1>0, <3>1, ProcessType
    <3> QED
      BY <1>0, <1>5, <3>1, ProbeType DEF SetupFails
  <2>2. files' \in [Controlled -> [Items -> Pairs \cup {Stock}]]
    <3>1. CASE UNCHANGED files
      BY <1>0, <3>1
    <3>2. CASE /\ plan[n].mutation # NoMutation
               /\ files' \in {[files EXCEPT ![n] = f] :
                               f \in {StockFiles, Mutated(plan[n].mutation)}}
      <4>1. Mutated(plan[n].mutation) \in [Items -> Pairs \cup {Stock}]
        BY <3>2, MutatedType DEF CampaignTypes, CampaignTypeOK, SchedTypeOK
      <4>2. StockFiles \in [Items -> Pairs \cup {Stock}]
        BY DEF StockFiles
      <4> QED
        BY <1>0, <3>2, <4>1, <4>2
    <3> QED
      BY <1>5, <3>1, <3>2 DEF SetupFails
  <2> QED
    BY <1>0, <1>5, <2>1, <2>2 DEF SetupFails, fixedVars
<1>6. ASSUME NEW n \in Controlled, RunSeeds(n) PROVE NodeTypes' /\ baseline' \in BOOLEAN
  <2>1. env' \subseteq Controlled
    BY <1>0, <1>6 DEF RunSeeds
  <2>2. proc' \in [Controlled -> Process]
    <3>1. CASE UNCHANGED proc
      BY <1>0, <3>1
    <3>2. CASE Restarted(n, n \in env')
      <4>1. (n \in env') \in BOOLEAN
        OBVIOUS
      <4> QED
        BY <1>0, <3>2, <4>1, RestartedType
    <3> QED
      BY <1>6, <3>1, <3>2 DEF RunSeeds
  <2> QED
    BY <1>0, <1>6, <2>1, <2>2 DEF RunSeeds, Visit, fixedVars
<1>7. ASSUME NEW n \in Controlled, NodeDies(n) PROVE NodeTypes' /\ baseline' \in BOOLEAN
  <2>1. proc' \in [Controlled -> Process]
    BY <1>0, <1>7, ProcessType DEF NodeDies
  <2> QED
    BY <1>0, <1>7, <2>1 DEF NodeDies, runVars, fixedVars
<1>8. CASE RunSequences
  <2>1. proc' \in [Controlled -> Process]
    <3>1. First \in Controlled
      BY SchedulerAssumption
    <3>2. CASE UNCHANGED proc
      BY <1>0, <3>2
    <3>3. CASE Restarted(First, First \in env)
      <4>1. (First \in env) \in BOOLEAN
        OBVIOUS
      <4> QED
        BY <1>0, <3>1, <3>3, <4>1, RestartedType
    <3> QED
      BY <1>8, <3>2, <3>3 DEF RunSequences
  <2> QED
    BY <1>0, <1>8, <2>1 DEF RunSequences, fixedVars
<1>9. CASE SaveMei \/ SaveScheduler \/ SaveOracle
  BY <1>0, <1>9 DEF SaveMei, SaveScheduler, SaveOracle, nodeVars, fixedVars
<1>10. CASE End
  BY <1>0, <1>10, EmptyTypes DEF End
<1>11. CASE Resume
  BY <1>0, <1>11 DEF Resume, nodeVars
<1> QED
  BY <1>1, <1>2, <1>3, <1>4, <1>5, <1>6, <1>7, <1>8, <1>9, <1>10, <1>11 DEF Next

\* So do the files of the state directory.
LEMMA FileTypesStep ==
  ASSUME CampaignTypes, [Next]_vars
  PROVE  FileTypes'
<1> USE DEF FileTypes
<1>0. FileTypes /\ OwnTypes
  BY TypeParts
<1>1. CASE UNCHANGED saved
  BY <1>0, <1>1 DEF SavedTypeOK
<1>2. CASE SaveMei
  <2>1. saved' = [mei |-> Snapshot, sched |-> saved.sched, oracle |-> saved.oracle]
    BY <1>0, <1>2 DEF SaveMei, SavedTypeOK
  <2>2. Snapshot \in Verdicts
    BY <1>0 DEF OwnTypes, MeiTypeOK, Snapshot, Verdicts
  <2> QED
    BY <1>0, <2>1, <2>2 DEF SavedTypeOK
<1>3. CASE SaveScheduler
  <2>1. saved' = [mei |-> saved.mei, sched |-> SchedSnapshot, oracle |-> saved.oracle]
    BY <1>0, <1>3 DEF SaveScheduler, SavedTypeOK
  <2>2. SchedSnapshot.round_id \in Nat /\ SchedSnapshot.pool \subseteq ConfigIds
    BY <1>0 DEF OwnTypes, SchedTypeOK, SchedSnapshot
  <2> QED
    BY <1>0, <2>1, <2>2 DEF SavedTypeOK
<1>4. CASE SaveOracle
  <2>1. saved' = [mei |-> saved.mei, sched |-> saved.sched,
                  oracle |-> IF baseline THEN "baseline" ELSE "bare"]
    BY <1>0, <1>4 DEF SaveOracle, SavedTypeOK
  <2> QED
    BY <1>0, <2>1 DEF SavedTypeOK
<1>5. CASE Resume
  BY <1>0, <1>5, EmptyTypes DEF Resume, SavedTypeOK, NothingSaved, SchedEmpty
<1> QED
  BY <1>1, <1>2, <1>3, <1>4, <1>5
  DEF Next, vars, PlanRound, Apply, Judge, SetupFails, RunSeeds, NodeDies, RunSequences, End

LEMMA TypesStep ==
  ASSUME CampaignTypes, [Next]_vars
  PROVE  CampaignTypes'
<1>1. OwnTypes' /\ NodeTypes' /\ FileTypes' /\ (baseline \in BOOLEAN)'
  BY OwnTypesStep, NodeTypesStep, FileTypesStep
<1> QED
  BY <1>1, TypeParts
  DEF CampaignTypes, CampaignTypeOK, OwnTypes, NodeTypes, FileTypes, SavedTypeOK

-----------------------------------------------------------------------------
(* Ids *)

\* An id handed out in a round is of that round.
LEMMA ConfigOfRound ==
  ASSUME NEW n \in Controlled
  PROVE  ConfigOf(n)[1] = round_id
BY DEF ConfigOf

LEMMA IdsStep ==
  ASSUME CampaignTypes, IdsArePast, [Next]_vars
  PROVE  IdsArePast'
<1> USE DEF IdsArePast
<1>0. /\ round_id \in Nat /\ saved.sched.round_id \in Nat
      /\ saved = [mei |-> saved.mei, sched |-> saved.sched, oracle |-> saved.oracle]
      /\ \A c \in pool \cup saved.sched.pool : c[1] \in Nat
  BY DEF CampaignTypes, CampaignTypeOK, SchedTypeOK, SavedTypeOK, ConfigIds
<1>1. ASSUME UNCHANGED <<round_id, pool, saved>>,
             \/ stage' = stage
             \/ stage' \notin {"apply", "admission", "ended"}
             \/ stage = "apply" /\ stage' = "admission",
             stage # "ended"
      PROVE  IdsArePast'
  BY <1>0, <1>1
<1>2. CASE UNCHANGED vars
  BY <1>0, <1>2 DEF vars, schedVars, runVars
<1>3. CASE PlanRound
  BY <1>0, <1>3 DEF PlanRound, NextRound
<1>4. ASSUME NEW n \in Controlled, Apply(n) PROVE IdsArePast'
  BY <1>1, <1>4 DEF Apply, Visit, schedVars
<1>5. ASSUME NEW n \in Controlled, NEW admitted \in BOOLEAN, Judge(n, admitted)
      PROVE  IdsArePast'
  <2>1. pool' = pool \/ pool' = pool \cup {ConfigOf(n)}
    BY <1>5 DEF Judge, AdmitConfig
  <2>2. \A c \in pool' : c[1] <= round_id
    BY <1>0, <2>1, ConfigOfRound
  <2> QED
    BY <1>0, <1>5, <2>2 DEF Judge, Visit
<1>6. ASSUME NEW n \in Controlled, SetupFails(n) PROVE IdsArePast'
  BY <1>1, <1>6 DEF SetupFails, schedVars
<1>7. ASSUME NEW n \in Controlled, RunSeeds(n) PROVE IdsArePast'
  BY <1>1, <1>7 DEF RunSeeds, RunSeed, Visit
<1>8. ASSUME NEW n \in Controlled, NodeDies(n) PROVE IdsArePast'
  BY <1>1, <1>8 DEF NodeDies, schedVars, runVars
<1>9. CASE RunSequences
  BY <1>1, <1>9 DEF RunSequences, schedVars
<1>10. CASE SaveMei
  <2>1. saved'.sched = saved.sched
    BY <1>0, <1>10 DEF SaveMei
  <2> QED
    BY <1>0, <1>10, <2>1 DEF SaveMei, schedVars
<1>11. CASE SaveScheduler
  <2>1. saved'.sched = SchedSnapshot
    BY <1>0, <1>11 DEF SaveScheduler
  <2> QED
    BY <1>0, <1>11, <2>1 DEF SaveScheduler, SchedSnapshot, schedVars
<1>12. CASE SaveOracle
  <2>1. saved'.sched = saved.sched
    BY <1>0, <1>12 DEF SaveOracle
  <2> QED
    BY <1>0, <1>12, <2>1 DEF SaveOracle, schedVars
<1>13. CASE End
  BY <1>0, <1>13, EmptyTypes DEF End, SchedLoad, SchedEmpty
<1>14. CASE Resume
  <2>1. \A c \in saved'.sched.pool : c[1] <= saved'.sched.round_id
    BY <1>0, <1>14, EmptyTypes DEF Resume, NothingSaved, SchedEmpty
  <2>2. saved'.sched.round_id \in Nat
    BY <1>0, <1>14 DEF Resume, NothingSaved, SchedEmpty
  <2> QED
    BY <1>14, <2>1, <2>2 DEF Resume, SchedLoad
<1> QED
  BY <1>2, <1>3, <1>4, <1>5, <1>6, <1>7, <1>8, <1>9, <1>10, <1>11, <1>12, <1>13, <1>14
  DEF Next

-----------------------------------------------------------------------------
(* Files and processes *)

LEMMA FilesStep ==
  ASSUME CampaignTypes, FilesAreSingle, [Next]_vars
  PROVE  FilesAreSingle'
<1>0. files \in [Controlled -> [Items -> Pairs \cup {Stock}]]
  BY DEF CampaignTypes, CampaignTypeOK
<1>1. CASE UNCHANGED files
  BY <1>1 DEF FilesAreSingle, OneMutation
<1>2. ASSUME NEW n \in Controlled, plan[n].mutation # NoMutation,
             files' \in {[files EXCEPT ![n] = f] :
                           f \in {StockFiles, Mutated(plan[n].mutation)}}
      PROVE  FilesAreSingle'
  <2>1. plan[n].mutation \in Mutations
    BY <1>2 DEF CampaignTypes, CampaignTypeOK, SchedTypeOK
  <2>2. OneMutation(StockFiles) /\ OneMutation(Mutated(plan[n].mutation))
    BY <2>1 DEF OneMutation
  <2>3. PICK f \in {StockFiles, Mutated(plan[n].mutation)} : files' = [files EXCEPT ![n] = f]
    BY <1>2
  <2>4. ASSUME NEW m \in Controlled PROVE files'[m] = f \/ files'[m] = files[m]
    BY <1>0, <2>3
  <2> QED
    BY <2>2, <2>4 DEF FilesAreSingle
<1>3. CASE End
  BY <1>3 DEF End, FreshFiles, FilesAreSingle, OneMutation
<1>4. ASSUME NEW n \in Controlled, Apply(n) PROVE FilesAreSingle'
  BY <1>1, <1>2, <1>4 DEF Apply, Write
<1>5. ASSUME NEW n \in Controlled, SetupFails(n) PROVE FilesAreSingle'
  BY <1>1, <1>2, <1>5 DEF SetupFails
<1> QED
  BY <1>1, <1>3, <1>4, <1>5
  DEF Next, vars, nodeVars, PlanRound, Judge, RunSeeds, NodeDies, RunSequences, SaveMei,
      SaveScheduler, SaveOracle, Resume

\* A node that was probed is not awaiting a probe in this round.
LEMMA AwaitingStep ==
  ASSUME CampaignTypes, AwaitingIsDown, [Next]_vars
  PROVE  AwaitingIsDown'
<1>0. /\ files \in [Controlled -> [Items -> Pairs \cup {Stock}]]
      /\ proc \in [Controlled -> Process]
  BY DEF CampaignTypes, CampaignTypeOK
<1>a. CanStop' = CanStop
  BY DEF Next, vars, fixedVars, CanStop, PlanRound, Apply, Judge, SetupFails, RunSeeds, NodeDies,
         RunSequences, SaveMei, SaveScheduler, SaveOracle, End, Resume
<1> SUFFICES ASSUME NEW k \in Controlled, Awaiting(k)'
             PROVE  files'[k] = Mutated(plan'[k].mutation) /\ (CanStop => ~proc'[k].up)
  BY <1>a DEF AwaitingIsDown
<1>1. stage' \in {"apply", "admission"} /\ plan'[k].mutation # NoMutation
  BY DEF Awaiting
<1>2. ASSUME Awaiting(k), files'[k] = files[k], UNCHANGED plan,
             proc'[k] = proc[k] \/ ~proc'[k].up
      PROVE  files'[k] = Mutated(plan'[k].mutation) /\ (CanStop => ~proc'[k].up)
  BY <1>2 DEF AwaitingIsDown
<1>3. CASE UNCHANGED vars
  <2>1. Awaiting(k)
    BY <1>3 DEF vars, schedVars, runVars, Awaiting
  <2> QED
    BY <1>2, <1>3, <2>1 DEF vars, nodeVars, schedVars
<1>4. CASE PlanRound
  <2>1. ~Awaiting(k)'
    BY <1>4 DEF PlanRound, Awaiting
  <2> QED
    BY <2>1
<1>5. ASSUME NEW n \in Controlled, Apply(n)
      PROVE  files'[k] = Mutated(plan'[k].mutation) /\ (CanStop => ~proc'[k].up)
  <2>1. UNCHANGED plan
    BY <1>5 DEF Apply, schedVars
  <2>2. CASE k = n
    <3>1. files'[n] = Mutated(plan[n].mutation) /\ proc'[n] = Halted(n)
      BY <1>0, <1>1, <1>5, <2>1, <2>2 DEF Apply, Write
    <3>2. CanStop => ~Halted(n).up
      BY <1>0 DEF Halted, Stopped, Process
    <3> QED
      BY <2>1, <2>2, <3>1, <3>2
  <2>3. CASE k # n
    <3>1. files'[k] = files[k] /\ proc'[k] = proc[k]
      BY <1>0, <1>5, <2>3 DEF Apply, Write
    <3>2. k \notin pending
      BY <1>5, <2>3 DEF Apply, Visit, Foremost, Awaiting
    <3>3. stage = "apply" /\ plan[k].mutation # NoMutation
      BY <1>1, <1>5, <2>1 DEF Apply, Visit
    <3>4. Awaiting(k)
      BY <3>2, <3>3 DEF Awaiting
    <3> QED
      BY <1>2, <2>1, <3>1, <3>4
  <2> QED
    BY <2>2, <2>3
<1>6. ASSUME NEW n \in Controlled, NEW admitted \in BOOLEAN, Judge(n, admitted)
      PROVE  files'[k] = Mutated(plan'[k].mutation) /\ (CanStop => ~proc'[k].up)
  <2>1. stage = "admission" /\ stage' = "admission" /\ k \in pending /\ k # n
    BY <1>1, <1>6 DEF Judge, Visit, Foremost, Awaiting
  <2>2. UNCHANGED <<plan, files>>
    BY <1>6 DEF Judge
  <2>3. proc'[k] = proc[k]
    BY <1>0, <1>6, <2>1 DEF Judge, Probe
  <2> QED
    BY <1>1, <1>2, <2>1, <2>2, <2>3 DEF Awaiting
<1>7. ASSUME NEW n \in Controlled, NodeDies(n)
      PROVE  files'[k] = Mutated(plan'[k].mutation) /\ (CanStop => ~proc'[k].up)
  <2>1. proc'[k] = proc[k] \/ ~proc'[k].up
    BY <1>0, <1>7 DEF NodeDies, Stopped, Process
  <2>2. Awaiting(k)
    BY <1>7 DEF NodeDies, schedVars, runVars, Awaiting
  <2> QED
    BY <1>2, <1>7, <2>1, <2>2 DEF NodeDies, schedVars
<1> QED
  BY <1>1, <1>3, <1>4, <1>5, <1>6, <1>7
  DEF Next, SetupFails, RunSeeds, Visit, RunSequences, SaveMei, SaveScheduler, SaveOracle,
      End, Resume

-----------------------------------------------------------------------------
(* Verdicts and the pool *)

\* No step but the end of the process takes an admission back.
LEMMA AdmissionsRemain ==
  ASSUME CampaignTypes, [Next]_vars, stage # "ended", stage' # "ended", NEW i \in Items
  PROVE  valid[i] \subseteq valid'[i]
<1>1. CASE UNCHANGED meiVars
  BY <1>1 DEF meiVars
<1>2. ASSUME NEW n \in Controlled, NEW admitted \in BOOLEAN, Judge(n, admitted)
      PROVE  valid[i] \subseteq valid'[i]
  <2>1. CASE plan[n].mutation = NoMutation
    BY <1>1, <1>2, <2>1 DEF Judge
  <2>2. CASE plan[n].mutation # NoMutation
    <3>1. plan[n].mutation[1] \in Items /\ plan[n].mutation[2] \in Pairs
      BY <2>2 DEF CampaignTypes, CampaignTypeOK, SchedTypeOK, Mutations
    <3> QED
      BY <1>2, <2>2, <3>1, VerdictMonotone DEF Judge, CampaignTypes, CampaignTypeOK
  <2> QED
    BY <2>1, <2>2
<1> QED
  BY <1>1, <1>2
  DEF Next, vars, PlanRound, Apply, SetupFails, RunSeeds, NodeDies, RunSequences, SaveMei,
      SaveScheduler, SaveOracle, End, Resume

\* More admissions judge as many ids.
LEMMA JudgedByMore ==
  ASSUME NEW few, NEW many, NEW ids, JudgedIn(few, ids), HistoryTypeOK,
         \A i \in Items : few[i] \subseteq many[i]
  PROVE  JudgedIn(many, ids)
<1> SUFFICES ASSUME NEW id \in ids \cap DOMAIN admittedAs, admittedAs[id] # NoMutation
             PROVE  admittedAs[id][2] \in many[admittedAs[id][1]]
  BY DEF JudgedIn
<1>1. admittedAs[id][1] \in Items
  BY DEF HistoryTypeOK, Mutations
<1> QED
  BY <1>1 DEF JudgedIn

\* An admission judges the id it adds, and touches no id that is saved.
LEMMA JudgeStep ==
  ASSUME CampaignTypes, IdsArePast, PoolIsJudged,
         NEW n \in Controlled, NEW admitted \in BOOLEAN, Judge(n, admitted),
         \A i \in Items : valid[i] \subseteq valid'[i]
  PROVE  PoolIsJudged'
<1> DEFINE id == ConfigOf(n)
           m == plan[n].mutation
<1>1. /\ stage = "admission" /\ stage' \in {"admission", "seeds"}
      /\ saved' = saved
  BY DEF Judge, Visit
<1>2. /\ id[1] = round_id /\ round_id \in Nat /\ round_id >= 1
      /\ id \notin saved.sched.pool
  <2>1. /\ saved.sched.round_id \in Nat /\ round_id \in Nat
        /\ saved.sched.round_id < round_id
        /\ \A c \in saved.sched.pool : c[1] \in Nat /\ c[1] <= saved.sched.round_id
    BY <1>1 DEF CampaignTypes, CampaignTypeOK, SchedTypeOK, SavedTypeOK, IdsArePast, ConfigIds
  <2> QED
    BY <2>1, ConfigOfRound
<1>3. m \in Mutations \cup {NoMutation}
  BY DEF CampaignTypes, CampaignTypeOK, SchedTypeOK
<1>4. CASE ~admitted
  <2>1. pool' = pool /\ admittedAs' = admittedAs
    BY <1>4 DEF Judge
  <2>2. JudgedIn(valid, pool)
    BY <1>1 DEF PoolIsJudged
  <2>3. JudgedIn(valid', pool)
    BY <2>2, JudgedByMore DEF PoolIsJudged
  <2> QED
    BY <1>1, <2>1, <2>3 DEF PoolIsJudged, HistoryTypeOK, JudgedIn
<1>5. CASE admitted
  <2>1. /\ pool' = pool \cup {id}
        /\ DOMAIN admittedAs' = DOMAIN admittedAs \cup {id}
        /\ admittedAs'[id] = m
        /\ \A c \in DOMAIN admittedAs \ {id} : admittedAs'[c] = admittedAs[c]
    BY <1>5 DEF Judge, AdmitConfig
  <2>2. HistoryTypeOK'
    BY <1>2, <1>3, <2>1 DEF PoolIsJudged, HistoryTypeOK
  <2>3. m # NoMutation => m[2] \in valid'[m[1]]
    <3> SUFFICES ASSUME m # NoMutation PROVE m[2] \in valid'[m[1]]
      OBVIOUS
    <3>1. m[1] \in Items /\ m[2] \in Pairs
      BY <1>3 DEF Mutations
    <3>2. valid' = [valid EXCEPT ![m[1]] = @ \cup {m[2]}]
      BY <1>5 DEF Judge, RecordAdmission
    <3> QED
      BY <3>1, <3>2 DEF CampaignTypes, CampaignTypeOK, MeiTypeOK
  <2>4. JudgedIn(valid, pool)
    BY <1>1 DEF PoolIsJudged
  <2>5. JudgedIn(valid', pool)
    BY <2>4, JudgedByMore DEF PoolIsJudged
  <2>6. JudgedIn(valid, pool)'
    <3> SUFFICES ASSUME NEW c \in pool' \cap DOMAIN admittedAs', admittedAs'[c] # NoMutation
                 PROVE  admittedAs'[c][2] \in valid'[admittedAs'[c][1]]
      BY DEF JudgedIn
    <3>1. CASE c = id
      BY <2>1, <2>3, <3>1
    <3>2. CASE c # id
      BY <2>1, <2>5, <3>2 DEF JudgedIn
    <3> QED
      BY <3>1, <3>2
  <2>7. JudgedIn(saved.mei.valid, saved.sched.pool)'
    BY <1>1, <1>2, <2>1 DEF PoolIsJudged, JudgedIn
  <2> QED
    BY <1>1, <2>2, <2>6, <2>7 DEF PoolIsJudged
<1> QED
  BY <1>4, <1>5

\* What neither judges, saves nor loads keeps the pool judged.
LEMMA QuietStep ==
  ASSUME PoolIsJudged, UNCHANGED <<valid, pool, saved, admittedAs>>,
         stage' # "ended", stage # "ended", stage' # "scheduler" \/ stage = "scheduler"
  PROVE  PoolIsJudged'
BY DEF PoolIsJudged, HistoryTypeOK, JudgedIn

LEMMA PoolStep ==
  ASSUME CampaignTypes, IdsArePast, PoolIsJudged, [Next]_vars
  PROVE  PoolIsJudged'
<1>0. /\ saved = [mei |-> saved.mei, sched |-> saved.sched, oracle |-> saved.oracle]
      /\ \A c \in pool \cup saved.sched.pool : c[1] \in Nat
  BY DEF CampaignTypes, CampaignTypeOK, SchedTypeOK, SavedTypeOK, ConfigIds
<1>1. CASE UNCHANGED vars
  BY <1>1 DEF vars, meiVars, schedVars, runVars, PoolIsJudged, HistoryTypeOK, JudgedIn
<1>2. CASE PlanRound
  BY <1>2, QuietStep DEF PlanRound, NextRound, meiVars
<1>3. ASSUME NEW n \in Controlled, Apply(n) PROVE PoolIsJudged'
  BY <1>3, QuietStep DEF Apply, Visit, meiVars, schedVars
<1>4. ASSUME NEW n \in Controlled, NEW admitted \in BOOLEAN, Judge(n, admitted)
      PROVE  PoolIsJudged'
  <2>1. stage # "ended" /\ stage' # "ended"
    BY <1>4 DEF Judge, Visit
  <2> QED
    BY <1>4, <2>1, AdmissionsRemain, JudgeStep
<1>5. ASSUME NEW n \in Controlled, SetupFails(n) PROVE PoolIsJudged'
  BY <1>5, QuietStep DEF SetupFails, meiVars, schedVars
<1>6. ASSUME NEW n \in Controlled, RunSeeds(n) PROVE PoolIsJudged'
  BY <1>6, QuietStep DEF RunSeeds, RunSeed, Visit, meiVars
<1>7. ASSUME NEW n \in Controlled, NodeDies(n) PROVE PoolIsJudged'
  BY <1>7, QuietStep DEF NodeDies, meiVars, schedVars, runVars
<1>8. CASE RunSequences
  BY <1>8, QuietStep DEF RunSequences, meiVars, schedVars
<1>9. CASE SaveMei
  <2>1. saved'.mei.valid = valid /\ saved'.sched = saved.sched
    BY <1>0, <1>9 DEF SaveMei, Snapshot
  <2>2. JudgedIn(valid, saved.sched.pool)
    BY <1>9, JudgedByMore DEF SaveMei, PoolIsJudged
  <2> QED
    BY <1>9, <2>1, <2>2 DEF SaveMei, meiVars, schedVars, PoolIsJudged, HistoryTypeOK, JudgedIn
<1>10. CASE SaveScheduler
  <2>1. saved'.mei = saved.mei /\ saved'.sched.pool = pool
    BY <1>0, <1>10 DEF SaveScheduler, SchedSnapshot
  <2> QED
    BY <1>10, <2>1
    DEF SaveScheduler, meiVars, schedVars, PoolIsJudged, HistoryTypeOK, JudgedIn
<1>11. CASE SaveOracle
  <2>1. saved'.mei = saved.mei /\ saved'.sched = saved.sched
    BY <1>0, <1>11 DEF SaveOracle
  <2> QED
    BY <1>11, <2>1
    DEF SaveOracle, meiVars, schedVars, PoolIsJudged, HistoryTypeOK, JudgedIn
<1>12. CASE End
  <2>1. /\ stage' = "ended" /\ saved' = saved
        /\ DOMAIN admittedAs' \subseteq DOMAIN admittedAs
        /\ \A c \in DOMAIN admittedAs' : admittedAs'[c] = admittedAs[c]
    BY <1>12 DEF End
  <2> QED
    BY <2>1 DEF PoolIsJudged, HistoryTypeOK, JudgedIn
<1>13. CASE Resume
  <2>1. /\ stage' = "plan" /\ admittedAs' = admittedAs
        /\ valid' = saved'.mei.valid /\ pool' = saved'.sched.pool
    BY <1>13 DEF Resume, Load, SchedLoad
  <2>2. CASE saved' = saved
    BY <2>1, <2>2 DEF PoolIsJudged, HistoryTypeOK, JudgedIn
  <2>3. CASE saved' = NothingSaved
    <3>1. saved'.sched.pool = {Default}
      BY <2>3 DEF NothingSaved, SchedEmpty
    <3>2. Default \notin DOMAIN admittedAs
      BY EmptyTypes DEF PoolIsJudged, HistoryTypeOK
    <3> QED
      BY <2>1, <3>1, <3>2 DEF PoolIsJudged, HistoryTypeOK, JudgedIn
  <2> QED
    BY <1>13, <2>2, <2>3 DEF Resume
<1> QED
  BY <1>1, <1>2, <1>3, <1>4, <1>5, <1>6, <1>7, <1>8, <1>9, <1>10, <1>11, <1>12, <1>13
  DEF Next

-----------------------------------------------------------------------------
(* The theorems *)

LEMMA CampaignSafe == Spec => []CampaignIInv
<1>1. CampaignIInv /\ [Next]_vars => CampaignIInv'
  BY TypesStep, IdsStep, FilesStep, AwaitingStep, PoolStep DEF CampaignIInv
<1> QED
  BY <1>1, CampaignInitial, PTL DEF Spec

\* "without a restore step mutations accumulate across rounds": the files of a
\* node carry at most one mutation, through abandoned rounds and resumes.
THEOREM MutationsDoNotAccumulate == Spec => []CampaignInv
<1>1. CampaignIInv => CampaignInv
  <2> SUFFICES ASSUME CampaignIInv, NEW n \in Controlled
               PROVE  Cardinality(MutatedItems(files[n])) <= 1
    BY DEF CampaignIInv, CampaignTypes, CampaignInv, NoAccumulation
  <2>1. CASE files[n] = StockFiles
    <3>1. MutatedItems(files[n]) = {}
      BY <2>1 DEF MutatedItems, StockFiles
    <3> QED
      BY <3>1, FS_EmptySet
  <2>2. ASSUME NEW m \in Mutations, files[n] = Mutated(m)
        PROVE  Cardinality(MutatedItems(files[n])) <= 1
    <3>1. m[1] \in Items /\ m[2] \in Pairs /\ Stock \notin Pairs
      BY CampaignAssumption DEF Mutations
    <3>2. MutatedItems(files[n]) = {m[1]}
      BY <2>2, <3>1 DEF MutatedItems, Mutated, StockFiles
    <3> QED
      BY <3>2, FS_Singleton
  <2> QED
    BY <2>1, <2>2 DEF CampaignIInv, FilesAreSingle, OneMutation
<1> QED
  BY <1>1, CampaignSafe, PTL

\* The ids a round is about to hand out are not in the pool yet.
THEOREM IdsAreNew == Spec => []PlannedIdsAreNew
<1>1. CampaignIInv => PlannedIdsAreNew
  <2> SUFFICES ASSUME CampaignIInv, stage = "apply", NEW n \in Controlled,
                      ConfigOf(n) \in pool
               PROVE  FALSE
    BY DEF PlannedIdsAreNew
  <2>1. ConfigOf(n)[1] < round_id /\ round_id \in Nat
    BY DEF CampaignIInv, IdsArePast, CampaignTypes, CampaignTypeOK, SchedTypeOK
  <2> QED
    BY <2>1, ConfigOfRound
<1> QED
  BY <1>1, CampaignSafe, PTL

\* Whatever point persist is cut off at, a pool id on disk has the verdict
\* that admitted it on disk too.
THEOREM SavedIsJudged == Spec => []SavedPoolIsJudged
<1>1. CampaignIInv => SavedPoolIsJudged
  BY DEF CampaignIInv, PoolIsJudged, JudgedIn, SavedPoolIsJudged
<1> QED
  BY <1>1, CampaignSafe, PTL

\* A verdict enters the index only on evidence: the process the node was
\* judged by has read exactly the mutation the verdict is about.  This is of
\* campaigns that can stop their nodes: all but those of ChainMaker with a
\* relative output.
THEOREM VerdictsHaveEvidence == Spec => VerdictsAreEvidence
<1> DEFINE Admits(n, i, p) ==
             Foremost(n) /\ proc'[n].up /\ proc'[n].conf = Mutated(<<i, p>>)
           Rejects(n, i, p) ==
             Foremost(n) /\ proc'[n].conf = Mutated(<<i, p>>)
           Evident ==
             stage # "ended" /\ CanStop =>
               \A i \in Items, p \in Pairs :
                 /\ p \in valid'[i] \ valid[i] => \E n \in pending : Admits(n, i, p)
                 /\ invalid'[i][p] > invalid[i][p] => \E n \in pending : Rejects(n, i, p)
<1>1. CampaignIInv /\ [Next]_vars => Evident
  <2> SUFFICES ASSUME CampaignIInv, [Next]_vars, stage # "ended", CanStop,
                      NEW i \in Items, NEW p \in Pairs
               PROVE  /\ p \in valid'[i] \ valid[i] => \E n \in pending : Admits(n, i, p)
                      /\ invalid'[i][p] > invalid[i][p] => \E n \in pending : Rejects(n, i, p)
    OBVIOUS
  <2>0. /\ valid \in [Items -> SUBSET Pairs]
        /\ invalid \in [Items -> [Pairs -> Nat]]
        /\ invalid[i][p] \in Nat
        /\ proc \in [Controlled -> Process]
    BY DEF CampaignIInv, CampaignTypes, CampaignTypeOK, MeiTypeOK
  <2>1. CASE UNCHANGED meiVars
    BY <2>0, <2>1 DEF meiVars
  <2>2. CASE End
    BY <2>0, <2>2 DEF End, Load, Empty
  <2>3. ASSUME NEW n \in Controlled, NEW admitted \in BOOLEAN, Judge(n, admitted),
               plan[n].mutation # NoMutation
        PROVE  /\ p \in valid'[i] \ valid[i] => n \in pending /\ Admits(n, i, p)
               /\ invalid'[i][p] > invalid[i][p] => n \in pending /\ Rejects(n, i, p)
    <3> DEFINE m == plan[n].mutation
    <3>1. Foremost(n) /\ stage = "admission" /\ n \in pending
      BY <2>3 DEF Judge, Visit, Foremost
    <3>2. files[n] = Mutated(m) /\ ~proc[n].up
      BY <2>3, <3>1 DEF CampaignIInv, AwaitingIsDown, Awaiting
    <3>3. PICK up \in BOOLEAN : proc' = [proc EXCEPT ![n] = Started(n, up)]
                                /\ (admitted => up)
      BY <2>3, <3>2 DEF Judge, Probe
    <3>4. proc'[n].conf = Mutated(m) /\ (admitted => proc'[n].up)
      BY <2>0, <3>1, <3>2, <3>3 DEF Started
    <3>5. m[1] \in Items /\ m[2] \in Pairs /\ m = <<m[1], m[2]>>
      BY <2>3 DEF CampaignIInv, CampaignTypes, CampaignTypeOK, SchedTypeOK, Mutations
    <3>6. RecordAdmission(m[1], m[2], admitted)
      BY <2>3 DEF Judge
    <3>7. p \in valid'[i] \ valid[i] => admitted /\ m = <<i, p>>
      BY <2>0, <3>5, <3>6 DEF RecordAdmission
    <3>8. invalid'[i][p] > invalid[i][p] => m = <<i, p>>
      BY <2>0, <3>5, <3>6 DEF RecordAdmission
    <3> QED
      BY <3>1, <3>4, <3>7, <3>8
  <2> QED
    BY <2>1, <2>2, <2>3
    DEF Next, vars, PlanRound, Apply, Judge, SetupFails, RunSeeds, NodeDies, RunSequences,
        SaveMei, SaveScheduler, SaveOracle, Resume
<1> QED
  BY <1>1, CampaignSafe, PTL DEF Spec, VerdictsAreEvidence
=============================================================================
