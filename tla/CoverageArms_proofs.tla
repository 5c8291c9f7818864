------------------------- MODULE CoverageArms_proofs ------------------------
(***************************************************************************)
(* For any network, any number of rounds and any window of convergence, on *)
(* each of the four targets: what gets into the coverage of an arm and was *)
(* not run by its nodes is accounted for, every snapshot that was written  *)
(* is in it and the boot is not, and it does not fall; the nodes end with  *)
(* their round, and other experiments live on where they should.  Every    *)
(* exception is named in the property.                                     *)
(***************************************************************************)
EXTENDS CoverageArms, FiniteSetTheorems, TLAPS

\* What a process of this arm can count.
Own == Units \ {"old"}

OwnProcess == [up : BOOLEAN, conf : Confs, counters : SUBSET Own]

\* Whatever a process has counted was seen, and nothing was kept unseen.
CountersAreSeen ==
  /\ proc \in [Nodes -> OwnProcess]
  /\ \A n \in Nodes : proc[n].counters \subseteq seen
  /\ seen \subseteq Own
  /\ kept \subseteq seen

\* Some steps of a round belong to some targets only.
PhaseOfTarget ==
  /\ pc = "merge" => target \in {"chainmaker", "geth"}
  /\ pc = "capture" => target = "fisco"
  /\ pc \in {"launch", "teardown"} => target = "aptos"

\* What nodes of another experiment have written to the .gcda files.
Strange == IF target = "fisco" /\ "strangers" \in mishaps THEN {"old"} ELSE {}

\* The ways on which coverage of another experiment gets in.
OldIsExplained ==
  \/ opts.leftover /\ ("unwritten" \in mishaps \/ target = "aptos")
  \/ target = "fisco" /\ "strangers" \in mishaps

\* A file holds what was seen and what another experiment left in it; a profile
\* that was written in this round holds only what was seen.
FilesAreExplained ==
  /\ \A f \in Files : file[f] \subseteq seen \cup OldFile \cup Strange
  /\ \A f \in ok : file[f] \subseteq seen
  /\ ok \subseteq {"pre", "post", "round"}
  /\ target \in {"fisco", "aptos"} => ok = {}
  /\ "old" \in file["cumulative"] => OldIsExplained

\* After a round, so is the profile of the round.
RoundIsExplained ==
  pc \in {"loop", "done"} /\ "old" \in file["round"] => OldIsExplained

\* A written snapshot is in the cumulative profile, or on its way to it: in
\* the first snapshot of the round, and then in the profile of the round.
Goc == target \in {"chainmaker", "geth"}

SnapshotsOnTheWay ==
  /\ Goc /\ pc \in {"snapshot", "offline", "extra"} =>
       kept \subseteq file["cumulative"] \cup (IF "pre" \in ok THEN file["pre"] ELSE {})
  /\ Goc /\ pc \in {"cleanup", "stop", "merge"} =>
       kept \subseteq file["cumulative"] \cup file["round"]
  /\ Goc /\ pc \in {"loop", "prepare", "booted", "configured", "worked", "measured", "done"} =>
       kept \subseteq file["cumulative"]
  /\ ~Goc => kept \subseteq file["cumulative"]

\* Between the clearing of the counters and the profile, an arm that only
\* changes the configuration counts its start with it and nothing else.
Measured == {"config", "idle", "old"}

BootIsCleared ==
  target = "chainmaker" /\ arm # "varied" /\ "slow boot" \notin mishaps =>
    /\ pc \notin {"worked", "snapshot", "offline", "extra"}
    /\ pc = "configured" => \A n \in Nodes : proc[n].counters \subseteq {"config"}
    /\ file["round"] \subseteq Measured /\ file["cumulative"] \subseteq Measured

AllDown == \A n \in Nodes : ~proc[n].up

NodesAreDown ==
  /\ pc = "launch" => window = <<>> /\ AllDown
  /\ pc \in {"loop", "prepare"} /\ target # "aptos" => AllDown
  /\ pc = "loop" /\ window # <<>> => AllDown
  /\ pc \in {"merge", "capture", "done"} => AllDown
  /\ pc = "failed" /\ target # "geth" => AllDown

\* Without files of an earlier run, the last entry of the timeline counts a
\* part of the coverage there is now, unless that was reset in between, and
\* fisco has one file to measure.
LastIsCovered ==
  ~opts.leftover =>
    /\ window # <<>> /\ "reset" \notin mishaps => LastCovered <= Covered(file["cumulative"])
    /\ target = "fisco" /\ pc \notin {"loop"} \cup Ended => file["round"] = {}

CoverageIInv ==
  /\ TypeOK /\ CountersAreSeen /\ PhaseOfTarget /\ FilesAreExplained
  /\ RoundIsExplained /\ SnapshotsOnTheWay /\ BootIsCleared /\ NodesAreDown /\ LastIsCovered

-----------------------------------------------------------------------------
(* Helpers of the rounds *)

\* A started process counts its startup only, whatever it reads.
LEMMA StartedIsOwn ==
  ASSUME NEW n, NEW up \in BOOLEAN, conf' \in Confs
  PROVE  Started(n, up) \in OwnProcess
BY DEF Started, Down, OwnProcess, Own, Units, Confs

LEMMA DownIsOwn == Down \in OwnProcess
BY DEF Down, OwnProcess, Own, Units, Confs

\* Work adds one kind of code to the counters of what runs.
LEMMA ExercisedIsOwn ==
  ASSUME proc \in [Nodes -> OwnProcess], NEW u \in Own
  PROVE  Exercised(u) \in [Nodes -> OwnProcess]
BY DEF Exercised, OwnProcess

\* A process that comes back catches up.
LEMMA RestartedIsOwn ==
  ASSUME NEW p \in [Nodes -> OwnProcess], NEW n \in Nodes, NEW up \in BOOLEAN, conf' \in Confs
  PROVE  /\ Restarted(p, n, up) \in [Nodes -> OwnProcess]
         /\ [Restarted(p, n, up) EXCEPT ![n].counters = IF up THEN @ \cup {"sync"} ELSE {}]
              \in [Nodes -> OwnProcess]
<1>1. Restarted(p, n, up) \in [Nodes -> OwnProcess]
  BY StartedIsOwn DEF Restarted
<1>2. "sync" \in Own
  BY DEF Own, Units
<1> QED BY <1>1, <1>2 DEF OwnProcess

LEMMA UnitsAreFinite == IsFiniteSet(Units)
<1>1. Units = {"stock"} \cup {"config"} \cup {"idle"} \cup {"work"} \cup {"sync"} \cup {"old"}
  BY DEF Units
<1> QED BY <1>1, FS_Singleton, FS_Union

\* covered_lines counts, and a larger profile has no fewer lines.
LEMMA CoveredGrows ==
  ASSUME NEW u \in SUBSET Units, NEW v \in SUBSET Units, u \subseteq v
  PROVE  Covered(u) \in Nat /\ Covered(v) \in Nat /\ Covered(u) <= Covered(v)
BY UnitsAreFinite, FS_Subset, FS_CardinalityType DEF Covered

\* A record becomes the last entry of a window that stays within its length.
LEMMA RecordIsLast ==
  ASSUME window \in Seq(Nat), Len(window) <= Converge, NEW c \in Nat, Record(c)
  PROVE  /\ window' \in Seq(Nat) /\ Len(window') <= Converge
         /\ window' # <<>> /\ LastCovered' = c
<1> DEFINE longer == Append(window, c)
<1>1. Converge \in Nat \ {0}
  BY ArmAssumption
<1>2. /\ longer \in Seq(Nat) /\ Len(longer) = Len(window) + 1
      /\ longer[Len(longer)] = c
  OBVIOUS
<1>3. window' = IF Len(longer) > Converge THEN Tail(longer) ELSE longer
  BY DEF Record
<1>4. CASE Len(longer) > Converge
  <2>1. Len(longer) > 1 /\ longer # <<>>
    BY <1>1, <1>2, <1>4
  <2>2. /\ Tail(longer) \in Seq(Nat) /\ Len(Tail(longer)) = Len(longer) - 1
        /\ Tail(longer)[Len(longer) - 1] = longer[Len(longer)]
    BY <1>2, <2>1
  <2> QED BY <1>1, <1>2, <1>3, <1>4, <2>1, <2>2 DEF LastCovered
<1>5. CASE ~(Len(longer) > Converge)
  BY <1>1, <1>2, <1>3, <1>5 DEF LastCovered
<1> QED BY <1>4, <1>5

-----------------------------------------------------------------------------
(* What any step does to the variables of the loop *)

LEMMA StepFrame ==
  ASSUME Next
  PROVE  /\ UNCHANGED fixedVars
         /\ pc \in Phases => pc' \in Phases
         /\ left' \in {left} \cup (IF opts.limited /\ left # 0 THEN {left - 1} ELSE {})
         /\ late' \in {late, TRUE}
         /\ conf' \in {conf, "stock", Configured}
         /\ foreign' \in {foreign, TRUE, FALSE}
         /\ mishaps \subseteq mishaps' /\ mishaps' \subseteq mishaps \cup Mishaps
         /\ cycle' \in {cycle, cycle + 1, 0, 1}
         /\ seen \subseteq seen'
         /\ \/ UNCHANGED <<file, ok>>
            \/ BeginRound \/ Merge \/ MeasureIdle \/ PreSnapshot \/ PostSnapshot
            \/ GethProfile \/ FiscoStart \/ FiscoShared \/ FiscoStopFirst
            \/ FiscoCleanup \/ FiscoCapture \/ AptosStart \/ FlushAndStop
            \/ \E n \in Nodes : NodeDies(n)
         /\ UNCHANGED window \/ Merge \/ FiscoCapture \/ FlushAndStop
<1> USE DEF Next, Progress, ChainmakerNext, GethNext, FiscoNext, AptosNext,
            BeginRound, EndArm, Merge, DeadlinePasses, ForeignStarts, NodeDies,
            StartAll, Configure, MeasureIdle, Work, PreSnapshot, StopFirst, CatchUp,
            ExtraRestartCycle, PostSnapshot, Cleanup,
            GethStart, GethUnreachable, GethMeasure, GethProfile, GethStop,
            FiscoStart, FiscoShared, FiscoNotStarted, FiscoIdle, FiscoOnline, FiscoStopFirst,
            FiscoStartFirst, FiscoSustain, FiscoExpired, FiscoRaises, FiscoCleanup,
            FiscoCapture, Launch, LaunchFails, LaunchRaises, AptosStart, AptosStartFails,
            NotAdmitted, AptosMeasure, FlushAndStop, Teardown
<1>1. UNCHANGED fixedVars
  OBVIOUS
<1>2. ASSUME pc \in Phases PROVE pc' \in Phases
  BY <1>2 DEF Phases, Ended, Goto
<1>3. left' \in {left} \cup (IF opts.limited /\ left # 0 THEN {left - 1} ELSE {})
  BY DEF loopVars, OutOfRounds
<1>4. late' \in {late, TRUE}
  BY DEF loopVars
<1>5. conf' \in {conf, "stock", Configured}
  OBVIOUS
<1>6. foreign' \in {foreign, TRUE, FALSE}
  BY DEF KillStaleGeth, KillStaleFisco
<1>7. mishaps \subseteq mishaps' /\ mishaps' \subseteq mishaps \cup Mishaps
  BY DEF historyVars, KillStaleFisco, StrangersWrite, Mishaps
<1>8. cycle' \in {cycle, cycle + 1, 0, 1}
  OBVIOUS
<1>9. seen \subseteq seen'
  BY DEF SeeCounters, historyVars
<1>10. \/ UNCHANGED <<file, ok>>
       \/ BeginRound \/ Merge \/ MeasureIdle \/ PreSnapshot \/ PostSnapshot
       \/ GethProfile \/ FiscoStart \/ FiscoShared \/ FiscoStopFirst
       \/ FiscoCleanup \/ FiscoCapture \/ AptosStart \/ FlushAndStop
       \/ \E n \in Nodes : NodeDies(n)
  OBVIOUS
<1>11. UNCHANGED window \/ Merge \/ FiscoCapture \/ FlushAndStop
  BY DEF loopVars
<1> QED BY <1>1, <1>2, <1>3, <1>4, <1>5, <1>6, <1>7, <1>8, <1>9, <1>10, <1>11

LEMMA FlagsAreTyped ==
  ASSUME TypeOK, Next
  PROVE  /\ pc' \in Phases /\ left' \in 0..MaxLimit /\ late' \in BOOLEAN /\ conf' \in Confs
         /\ foreign' \in BOOLEAN /\ mishaps' \subseteq Mishaps /\ cycle' \in Nat
<1>1. pc' \in Phases /\ conf' \in Confs
  BY StepFrame DEF TypeOK, Configured, Confs
<1>2. left' \in 0..MaxLimit
  <2>1. left \in 0..MaxLimit /\ MaxLimit \in Nat
    BY ArmAssumption DEF TypeOK
  <2>2. left' = left \/ (left # 0 /\ left' = left - 1)
    BY StepFrame
  <2> QED BY <2>1, <2>2
<1>3. late' \in BOOLEAN
  BY StepFrame DEF TypeOK
<1>4. foreign' \in BOOLEAN
  BY StepFrame DEF TypeOK
<1>5. mishaps' \subseteq Mishaps
  BY StepFrame DEF TypeOK
<1>6. cycle' \in Nat
  BY StepFrame DEF TypeOK
<1> QED BY <1>1, <1>2, <1>3, <1>4, <1>5, <1>6

-----------------------------------------------------------------------------
(* Counters and what was seen of them *)

\* What SeeCounters does to the history.
LEMMA SeenIsComplete ==
  ASSUME seen \subseteq Own, proc' \in [Nodes -> OwnProcess], SeeCounters
  PROVE  /\ \A n \in Nodes : proc'[n].counters \subseteq seen'
         /\ seen \subseteq seen' /\ seen' \subseteq Own
BY DEF SeeCounters, InCounters, OwnProcess

\* A profile holds counters that were seen.
LEMMA ProfileWasSeen ==
  ASSUME CountersAreSeen
  PROVE  InCounters(proc) \subseteq seen
BY DEF CountersAreSeen, InCounters

\* All processes of a network are started anew, or end.
LEMMA NetworkIsOwn ==
  ASSUME conf' \in Confs, NEW up \in SUBSET Nodes
  PROVE  /\ [n \in Nodes |-> Started(n, n \in up)] \in [Nodes -> OwnProcess]
         /\ [n \in Nodes |-> Down] \in [Nodes -> OwnProcess]
<1>1. ASSUME NEW n \in Nodes PROVE Started(n, n \in up) \in OwnProcess
  <2>1. (n \in up) \in BOOLEAN
    OBVIOUS
  <2> QED BY <2>1, StartedIsOwn
<1> QED BY <1>1, DownIsOwn

\* Steps of the loop and of what is around it.
LEMMA LoopCounts ==
  ASSUME CountersAreSeen,
         \/ BeginRound \/ EndArm \/ DeadlinePasses \/ ForeignStarts \/ Merge
         \/ \E n \in Nodes : NodeDies(n)
  PROVE  CountersAreSeen'
<1>1. CASE BeginRound \/ EndArm \/ DeadlinePasses \/ ForeignStarts \/ Merge
  BY <1>1 DEF BeginRound, EndArm, DeadlinePasses, ForeignStarts, Merge, historyVars,
              CountersAreSeen
<1>2. ASSUME NEW n \in Nodes, NodeDies(n)
      PROVE  CountersAreSeen'
  <2>1. seen' = seen /\ kept' \in {kept, kept \cup proc[n].counters}
    BY <1>2 DEF NodeDies
  <2> QED BY <1>2, <2>1, DownIsOwn DEF NodeDies, Down, CountersAreSeen
<1> QED BY <1>1, <1>2

LEMMA ChainmakerCounts ==
  ASSUME TypeOK, CountersAreSeen, conf' \in Confs, ChainmakerNext
  PROVE  CountersAreSeen'
<1> USE DEF CountersAreSeen
<1>1. CASE StartAll
  <2>1. kept' = kept
    BY <1>1 DEF StartAll
  <2>2. proc' \in [Nodes -> OwnProcess] /\ SeeCounters
    BY <1>1, NetworkIsOwn DEF StartAll
  <2> QED BY <2>1, <2>2, SeenIsComplete
<1>2. CASE Configure
  <2>1. kept' = kept
    BY <1>2 DEF Configure
  <2>2. CASE UNCHANGED <<proc, seen>>
    BY <2>1, <2>2
  <2>3. CASE ~UNCHANGED <<proc, seen>>
    <3> DEFINE Boots(slow) == [n \in Nodes |-> IF n \in slow THEN proc[n] ELSE AtConfigure[n]]
    <3>1. PICK up \in BOOLEAN, slow \in SUBSET (UpNodes \ {0}) :
            proc' = Restarted(Boots(slow), 0, up)
      BY <1>2, <2>3 DEF Configure
    <3>2. SeeCounters
      BY <1>2, <2>3 DEF Configure
    <3>3. Boots(slow) \in [Nodes -> OwnProcess]
      BY DEF AtConfigure, ClearedCounters, OwnProcess
    <3> HIDE DEF Boots
    <3>4. proc' \in [Nodes -> OwnProcess]
      BY <3>1, <3>3, RestartedIsOwn, ArmAssumption
    <3> QED BY <2>1, <3>2, <3>4, SeenIsComplete
  <2> QED BY <2>2, <2>3
<1>3. CASE MeasureIdle
  <2>1. proc' \in [Nodes -> OwnProcess] /\ SeeCounters
    BY <1>3, ExercisedIsOwn DEF MeasureIdle, Own, Units
  <2>2. kept' \in {kept, kept \cup InCounters(proc')}
    BY <1>3 DEF MeasureIdle
  <2>3. InCounters(proc') \subseteq seen'
    BY <2>1 DEF SeeCounters
  <2> QED BY <2>1, <2>2, <2>3, SeenIsComplete
<1>4. CASE Work
  <2>1. proc' \in [Nodes -> OwnProcess] /\ SeeCounters /\ kept' = kept
    BY <1>4, ExercisedIsOwn DEF Work, Own, Units
  <2> QED BY <2>1, SeenIsComplete
<1>5. CASE PreSnapshot
  <2>1. kept' \in {kept, kept \cup InCounters(proc)} /\ UNCHANGED <<proc, seen>>
    BY <1>5 DEF PreSnapshot, GocProfile
  <2> QED BY <2>1, ProfileWasSeen
<1>6. CASE StopFirst
  <2>1. kept' = kept
    BY <1>6 DEF StopFirst
  <2>2. CASE UNCHANGED <<proc, seen>>
    BY <2>1, <2>2
  <2>3. CASE ~UNCHANGED <<proc, seen>>
    <3>1. SeeCounters
      BY <1>6, <2>3 DEF StopFirst
    <3>2. proc' = [n \in Nodes |->
                     IF n = 0 \/ ~proc[n].up THEN Down
                     ELSE [proc[n] EXCEPT !.counters = (IF "pre" \in ok THEN {} ELSE @) \cup {"work"}]]
      BY <1>6, <2>3 DEF StopFirst
    <3>3. "work" \in Own
      BY DEF Own, Units
    <3>4. proc' \in [Nodes -> OwnProcess]
      BY <3>2, <3>3, DownIsOwn DEF OwnProcess
    <3> QED BY <2>1, <3>1, <3>4, SeenIsComplete
  <2> QED BY <2>2, <2>3
<1>7. CASE CatchUp
  <2>1. kept' = kept /\ SeeCounters
    BY <1>7 DEF CatchUp
  <2>2. proc' \in [Nodes -> OwnProcess]
    BY <1>7, RestartedIsOwn, ArmAssumption DEF CatchUp
  <2> QED BY <2>1, <2>2, SeenIsComplete
<1>8. CASE ExtraRestartCycle
  <2>1. kept' = kept /\ SeeCounters /\ cycle \in Nodes
    BY <1>8 DEF ExtraRestartCycle, ExtraOrgs
  <2>2. Exercised("work") \in [Nodes -> OwnProcess]
    BY ExercisedIsOwn DEF Own, Units
  <2>3. proc' \in [Nodes -> OwnProcess]
    BY <1>8, <2>1, <2>2, RestartedIsOwn DEF ExtraRestartCycle
  <2> QED BY <2>1, <2>3, SeenIsComplete
<1>9. CASE PostSnapshot
  <2>1. kept' \in {kept, kept \cup InCounters(proc)} /\ UNCHANGED <<proc, seen>>
    BY <1>9 DEF PostSnapshot
  <2> QED BY <2>1, ProfileWasSeen
<1>10. CASE Cleanup
  BY <1>10, DownIsOwn DEF Cleanup, historyVars, Down
<1> QED
  BY <1>1, <1>2, <1>3, <1>4, <1>5, <1>6, <1>7, <1>8, <1>9, <1>10 DEF ChainmakerNext

LEMMA GethCounts ==
  ASSUME TypeOK, CountersAreSeen, conf' \in Confs, GethNext
  PROVE  CountersAreSeen'
<1> USE DEF CountersAreSeen
<1>1. CASE GethStart
  <2>1. kept' = kept
    BY <1>1 DEF GethStart
  <2>2. CASE UNCHANGED <<proc, seen>>
    BY <2>1, <2>2
  <2>3. CASE (\E up \in SUBSET Nodes : proc' = [n \in Nodes |-> Started(n, n \in up)]) /\ SeeCounters
    <3>1. proc' \in [Nodes -> OwnProcess]
      BY <2>3, NetworkIsOwn
    <3> QED BY <2>1, <2>3, <3>1, SeenIsComplete
  <2> QED BY <1>1, <2>2, <2>3 DEF GethStart
<1>2. CASE GethUnreachable
  BY <1>2 DEF GethUnreachable, historyVars
<1>3. CASE GethMeasure
  <2>1. kept' = kept
    BY <1>3 DEF GethMeasure
  <2>2. CASE UNCHANGED <<proc, seen>>
    BY <2>1, <2>2
  <2>3. CASE ~UNCHANGED <<proc, seen>>
    <3>1. SeeCounters /\ proc' \in {Exercised("work"), Exercised("idle")}
      BY <1>3, <2>3 DEF GethMeasure
    <3>2. "work" \in Own /\ "idle" \in Own
      BY DEF Own, Units
    <3>3. proc' \in [Nodes -> OwnProcess]
      BY <3>1, <3>2, ExercisedIsOwn
    <3> QED BY <2>1, <3>1, <3>3, SeenIsComplete
  <2> QED BY <2>2, <2>3
<1>4. CASE GethProfile
  <2>1. kept' \in {kept, kept \cup InCounters(proc)} /\ UNCHANGED <<proc, seen>>
    BY <1>4 DEF GethProfile, GocProfile
  <2> QED BY <2>1, ProfileWasSeen
<1>5. CASE GethStop
  BY <1>5, DownIsOwn DEF GethStop, historyVars, Down
<1> QED
  BY <1>1, <1>2, <1>3, <1>4, <1>5 DEF GethNext

\* Counters that reach a file when their process exits were seen.
LEMMA ExitedWasSeen ==
  ASSUME CountersAreSeen, NEW nodes \in SUBSET Nodes, NEW graceful \in SUBSET Nodes,
         NEW strange, Exited(nodes, graceful, strange), seen' = seen
  PROVE  /\ CountersAreSeen'
         /\ UNION {proc[n].counters : n \in nodes \cap graceful} \subseteq seen
<1>1. UNION {proc[n].counters : n \in nodes \cap graceful} \subseteq seen
  BY DEF CountersAreSeen
<1>2. proc' \in [Nodes -> OwnProcess] /\ \A n \in Nodes : proc'[n].counters \subseteq seen
  BY DownIsOwn DEF Exited, CountersAreSeen, Down
<1>3. kept' \subseteq seen
  BY <1>1 DEF Exited, CountersAreSeen
<1> QED BY <1>1, <1>2, <1>3 DEF CountersAreSeen

LEMMA FiscoCounts ==
  ASSUME TypeOK, CountersAreSeen, conf' \in Confs,
         FiscoNext \/ FiscoShared \/ FiscoSustain \/ FiscoRaises
  PROVE  CountersAreSeen'
<1>1. CASE FiscoStart
  <2>1. kept' = kept /\ SeeCounters
    BY <1>1 DEF FiscoStart
  <2>2. proc' \in [Nodes -> OwnProcess]
    BY <1>1, NetworkIsOwn DEF FiscoStart
  <2> QED BY <2>1, <2>2, SeenIsComplete DEF CountersAreSeen
<1>2. CASE FiscoNotStarted \/ FiscoExpired \/ FiscoRaises \/ FiscoCapture
  BY <1>2 DEF FiscoNotStarted, FiscoExpired, FiscoRaises, FiscoCapture, historyVars, CountersAreSeen
<1>3. CASE FiscoIdle \/ FiscoOnline \/ FiscoSustain
  <2>1. kept' = kept /\ SeeCounters /\ proc' \in {Exercised("work"), Exercised("idle")}
    BY <1>3 DEF FiscoIdle, FiscoOnline, FiscoSustain
  <2>2. "work" \in Own /\ "idle" \in Own
    BY DEF Own, Units
  <2>3. proc' \in [Nodes -> OwnProcess]
    BY <2>1, <2>2, ExercisedIsOwn DEF CountersAreSeen
  <2> QED BY <2>1, <2>3, SeenIsComplete DEF CountersAreSeen
<1>4. CASE FiscoStopFirst
  <2>1. PICK graceful \in SUBSET {0} : Exited({0}, graceful, {}) /\ seen' = seen
    BY <1>4 DEF FiscoStopFirst
  <2>2. {0} \in SUBSET Nodes /\ graceful \in SUBSET Nodes
    BY <2>1, ArmAssumption
  <2> QED BY <2>1, <2>2, ExitedWasSeen
<1>5. CASE FiscoStartFirst
  <2>1. kept' = kept /\ SeeCounters
    BY <1>5 DEF FiscoStartFirst
  <2>2. PICK up \in BOOLEAN :
          proc' = [Restarted(proc, 0, up) EXCEPT ![0].counters = IF up THEN @ \cup {"sync"} ELSE {}]
    BY <1>5 DEF FiscoStartFirst, Restarted
  <2>3. proc' \in [Nodes -> OwnProcess]
    <3>1. 0 \in Nodes
      BY ArmAssumption
    <3> QED BY <2>2, <3>1, RestartedIsOwn DEF CountersAreSeen
  <2> QED BY <2>1, <2>3, SeenIsComplete DEF CountersAreSeen
<1>6. CASE FiscoCleanup
  <2>1. PICK graceful \in SUBSET Nodes, strange \in SUBSET {"old"} :
          Exited(Nodes, graceful, strange) /\ seen' = seen
    BY <1>6 DEF FiscoCleanup
  <2> QED BY <2>1, ExitedWasSeen
<1>7. CASE FiscoShared
  <2>1. kept' \in {kept, {}} /\ UNCHANGED <<proc, seen>>
    BY <1>7 DEF FiscoShared
  <2> QED BY <2>1 DEF CountersAreSeen
<1> QED
  BY <1>1, <1>2, <1>3, <1>4, <1>5, <1>6, <1>7 DEF FiscoNext

LEMMA AptosCounts ==
  ASSUME TypeOK, CountersAreSeen, conf' \in Confs, AptosNext
  PROVE  CountersAreSeen'
<1>1. CASE Launch \/ LaunchRaises
  <2>1. PICK up \in SUBSET Nodes : proc' = [n \in Nodes |-> [Down EXCEPT !.up = (n \in up)]]
    <3>1. CASE Launch
      <4>1. proc' = [n \in Nodes |-> [Down EXCEPT !.up = (n \in Nodes \ {0})]]
        BY <3>1 DEF Launch
      <4> QED BY <4>1
    <3> QED BY <1>1, <3>1 DEF LaunchRaises
  <2>2. UNCHANGED <<seen, kept>>
    BY <1>1 DEF Launch, LaunchRaises, historyVars
  <2>3. ASSUME NEW n \in Nodes
        PROVE  proc'[n] \in OwnProcess /\ proc'[n].counters = {}
    <3>1. proc'[n] = [up |-> n \in up, conf |-> "stock", counters |-> {}]
      BY <2>1 DEF Down
    <3>2. (n \in up) \in BOOLEAN /\ "stock" \in Confs /\ {} \in SUBSET Own
      BY DEF Confs
    <3> QED BY <3>1, <3>2 DEF OwnProcess
  <2>4. proc' \in [Nodes -> OwnProcess]
    BY <2>1, <2>3
  <2> QED BY <2>2, <2>3, <2>4 DEF CountersAreSeen
<1>2. CASE LaunchFails \/ NotAdmitted
  BY <1>2 DEF LaunchFails, NotAdmitted, historyVars, CountersAreSeen
<1>3. CASE AptosStart
  <2>1. kept' = kept /\ SeeCounters
    BY <1>3 DEF AptosStart
  <2>2. proc' \in [Nodes -> OwnProcess]
    BY <1>3, NetworkIsOwn DEF AptosStart, StartCovered
  <2> QED BY <2>1, <2>2, SeenIsComplete DEF CountersAreSeen
<1>4. CASE AptosMeasure
  <2>1. kept' = kept /\ SeeCounters /\ proc' \in {Exercised("work"), Exercised("idle")}
    BY <1>4 DEF AptosMeasure
  <2>2. "work" \in Own /\ "idle" \in Own
    BY DEF Own, Units
  <2>3. proc' \in [Nodes -> OwnProcess]
    BY <2>1, <2>2, ExercisedIsOwn DEF CountersAreSeen
  <2> QED BY <2>1, <2>3, SeenIsComplete DEF CountersAreSeen
<1>5. CASE FlushAndStop
  <2>1. PICK flushed \in SUBSET UpNodes : kept' = kept \cup Flushed(flushed)
    BY <1>5 DEF FlushAndStop
  <2>2. Flushed(flushed) \subseteq seen
    BY <2>1 DEF CountersAreSeen, Flushed, UpNodes
  <2>3. proc' = [n \in Nodes |-> Down] /\ seen' = seen
    BY <1>5 DEF FlushAndStop
  <2> QED BY <2>1, <2>2, <2>3, DownIsOwn DEF CountersAreSeen, Down
<1>6. CASE Teardown
  BY <1>6, DownIsOwn DEF Teardown, historyVars, CountersAreSeen, Down
<1>7. CASE AptosStartFails
  <2>1. kept' = kept /\ SeeCounters
    BY <1>7 DEF AptosStartFails
  <2>2. proc' \in [Nodes -> OwnProcess]
    <3>1. CASE UNCHANGED proc
      BY <3>1 DEF CountersAreSeen
    <3>2. CASE \E up \in SUBSET Nodes : StartCovered(up)
      BY <3>2, NetworkIsOwn DEF StartCovered
    <3> QED BY <1>7, <3>1, <3>2 DEF AptosStartFails
  <2> QED BY <2>1, <2>2, SeenIsComplete DEF CountersAreSeen
<1> QED
  BY <1>1, <1>2, <1>3, <1>4, <1>5, <1>6, <1>7 DEF AptosNext

\* Every step of an arm.
LEMMA StepCounts ==
  ASSUME TypeOK, CountersAreSeen, Next
  PROVE  CountersAreSeen'
BY FlagsAreTyped, LoopCounts, ChainmakerCounts, GethCounts, FiscoCounts, AptosCounts DEF Next, Progress

-----------------------------------------------------------------------------
(* Files *)

FilesAreTyped == file \in [Files -> SUBSET Units]

\* The files an earlier run may have left are told by the command line.
LEMMA OldFileStays ==
  ASSUME Next
  PROVE  /\ OldFile' = OldFile
         /\ target' = target /\ arm' = arm /\ opts' = opts
BY StepFrame DEF OldFile, fixedVars

\* What happened once goes on to explain what it has left in the files.
LEMMA MishapsStay ==
  ASSUME Next
  PROVE  /\ mishaps \subseteq mishaps'
         /\ Strange \subseteq Strange'
         /\ OldIsExplained => OldIsExplained'
BY StepFrame, OldFileStays DEF Strange, OldIsExplained

\* goc_profile keeps the files explained.
LEMMA ProfileIsExplained ==
  ASSUME FilesAreTyped, CountersAreSeen, FilesAreExplained, Goc, target' = target,
         opts' = opts, OldFile' = OldFile, seen' = seen, mishaps' = mishaps,
         NEW f \in {"pre", "post", "round"}, NEW written \in BOOLEAN, GocProfile(f, written)
  PROVE  FilesAreTyped' /\ FilesAreExplained'
<1>1. InCounters(proc) \subseteq seen /\ seen \subseteq Own
  BY ProfileWasSeen DEF CountersAreSeen
<1>2. FilesAreTyped'
  BY <1>1 DEF FilesAreTyped, GocProfile, Own
<1>3. FilesAreExplained'
  BY <1>1 DEF FilesAreTyped, FilesAreExplained, OldIsExplained, Strange, GocProfile, Goc, Files
<1> QED BY <1>2, <1>3

\* The second snapshot and the profile of the round.
LEMMA PostIsExplained ==
  ASSUME FilesAreTyped, CountersAreSeen, FilesAreExplained, Next, PostSnapshot
  PROVE  FilesAreTyped' /\ FilesAreExplained'
<1> DEFINE Profiles(written) == IF written THEN ok \cup {"post"} ELSE ok
           After(written) == IF written THEN [file EXCEPT !["post"] = InCounters(proc)] ELSE file
           Both(written) == MergedOf(Profiles(written), After(written))
<1>1. InCounters(proc) \subseteq seen /\ seen \subseteq Own
  BY ProfileWasSeen DEF CountersAreSeen
<1>2. OldFile' = OldFile /\ target' = target /\ Goc /\ seen' = seen
  BY OldFileStays DEF PostSnapshot, InChainmaker, Goc
<1>3. CASE UNCHANGED <<file, ok>>
  BY <1>2, <1>3, MishapsStay DEF FilesAreTyped, FilesAreExplained
<1>4. CASE ~UNCHANGED <<file, ok>>
  <2>1. PICK written \in BOOLEAN :
          /\ file' = IF Both(written) = {} THEN After(written)
                     ELSE [After(written) EXCEPT !["round"] = Both(written)]
          /\ ok' = IF Both(written) = {} THEN Profiles(written)
                   ELSE Profiles(written) \cup {"round"}
    BY <1>4 DEF PostSnapshot
  <2>2. /\ After(written) \in [Files -> SUBSET Units]
        /\ Profiles(written) \subseteq {"pre", "post", "round"}
        /\ \A f \in Profiles(written) : After(written)[f] \subseteq seen
        /\ \A f \in Files : After(written)[f] \subseteq seen \cup OldFile \cup Strange
        /\ After(written)["cumulative"] = file["cumulative"]
    BY <1>1 DEF FilesAreTyped, FilesAreExplained, Files, Own
  <2>3. Both(written) \subseteq seen
    BY <2>2 DEF MergedOf
  <2>4. FilesAreTyped'
    BY <1>1, <2>1, <2>2, <2>3 DEF FilesAreTyped, Own
  <2>5. /\ \A f \in Files : file'[f] \subseteq seen \cup OldFile \cup Strange
        /\ \A f \in ok' : file'[f] \subseteq seen
        /\ ok' \subseteq {"pre", "post", "round"}
        /\ file'["cumulative"] = file["cumulative"]
    <3> HIDE DEF Both, After, Profiles
    <3> QED BY <2>1, <2>2, <2>3 DEF Files
  <2> QED BY <1>2, <2>4, <2>5, MishapsStay DEF FilesAreExplained, Goc
<1> QED BY <1>3, <1>4

\* Merging adds the profile of the round, which holds nothing old when it was
\* written in this round.
LEMMA MergeIsExplained ==
  ASSUME FilesAreTyped, CountersAreSeen, PhaseOfTarget, FilesAreExplained, Next, Merge
  PROVE  FilesAreTyped' /\ FilesAreExplained'
<1>1. OldFile' = OldFile /\ target' = target /\ opts' = opts /\ Goc /\ seen' = seen /\ ok' = ok
  BY OldFileStays DEF Merge, PhaseOfTarget, Goc
<1>2. "round" \notin ok => "unwritten" \in mishaps'
  BY DEF Merge
<1>3. CASE file' = file
  BY <1>1, <1>3, MishapsStay DEF FilesAreTyped, FilesAreExplained
<1>4. CASE file' = MergeIntoCumulative
  <2>1. /\ file' \in [Files -> SUBSET Units]
        /\ file'["cumulative"] \subseteq file["cumulative"] \cup file["round"]
        /\ \A f \in Files \ {"cumulative"} : file'[f] = file[f]
    BY <1>4 DEF MergeIntoCumulative, FilesAreTyped, Files
  <2>2. "old" \in file["round"] => OldIsExplained'
    <3> SUFFICES ASSUME "old" \in file["round"] PROVE OldIsExplained'
      OBVIOUS
    <3>1. "round" \notin ok
      BY DEF FilesAreExplained, CountersAreSeen, Own
    <3>2. opts.leftover
      BY <1>1 DEF FilesAreExplained, CountersAreSeen, Own, OldFile, Strange, Goc, Files
    <3> QED BY <1>1, <1>2, <3>1, <3>2 DEF OldIsExplained
  <2>3. \A f \in Files : file'[f] \subseteq seen' \cup OldFile' \cup Strange'
    BY <1>1, <2>1, MishapsStay DEF FilesAreExplained, Files
  <2>4. \A f \in ok : file'[f] \subseteq seen
    BY <2>1 DEF FilesAreExplained, Files
  <2>5. "old" \in file'["cumulative"] => OldIsExplained'
    BY <2>1, <2>2, MishapsStay DEF FilesAreExplained
  <2> QED BY <1>1, <2>1, <2>3, <2>4, <2>5 DEF FilesAreTyped, FilesAreExplained, Goc
<1> QED BY <1>3, <1>4 DEF Merge

LEMMA StepFiles ==
  ASSUME FilesAreTyped, CountersAreSeen, PhaseOfTarget, FilesAreExplained, Next
  PROVE  FilesAreTyped' /\ FilesAreExplained'
<1>1. /\ OldFile' = OldFile /\ target' = target /\ opts' = opts
      /\ seen \subseteq seen' /\ Strange \subseteq Strange'
      /\ OldIsExplained => OldIsExplained'
  BY OldFileStays, StepFrame, MishapsStay
<1>2. OldFile \subseteq {"old"} /\ seen \subseteq Own
  BY DEF OldFile, CountersAreSeen
<1>3. CASE UNCHANGED <<file, ok>>
  BY <1>1, <1>3 DEF FilesAreTyped, FilesAreExplained
<1>4. CASE BeginRound
  <2>1. /\ file' = [file EXCEPT !["pre"] = OldFile, !["post"] = OldFile, !["round"] = OldFile]
        /\ ok' = {}
    BY <1>4 DEF BeginRound
  <2>2. FilesAreTyped'
    BY <1>2, <2>1 DEF FilesAreTyped, Units
  <2>3. \A f \in Files : file'[f] \subseteq seen' \cup OldFile' \cup Strange'
    BY <1>1, <2>1 DEF FilesAreTyped, FilesAreExplained, Files
  <2>4. file'["cumulative"] = file["cumulative"]
    BY <2>1 DEF FilesAreTyped, Files
  <2> QED BY <1>1, <2>1, <2>2, <2>3, <2>4 DEF FilesAreExplained
<1>5. CASE Merge
  BY <1>5, MergeIsExplained
<1>6. CASE MeasureIdle
  <2>1. /\ file' \in {file, [file EXCEPT !["round"] = InCounters(proc')]}
        /\ \/ ok' = {}
           \/ ok' = ok /\ file' = file
           \/ ok' = {"round"} /\ file' = [file EXCEPT !["round"] = InCounters(proc')]
        /\ SeeCounters /\ Goc
    BY <1>6 DEF MeasureIdle, InChainmaker, Goc
  <2>2. InCounters(proc') \subseteq seen' /\ seen' \subseteq Own
    <3>1. proc' \in [Nodes -> OwnProcess]
      BY <1>6, ExercisedIsOwn DEF MeasureIdle, CountersAreSeen, Own, Units
    <3> QED BY <1>2, <2>1, <3>1, SeenIsComplete DEF SeeCounters
  <2>3. FilesAreTyped'
    BY <2>1, <2>2 DEF FilesAreTyped, Own
  <2>4. \A f \in Files : file'[f] \subseteq seen' \cup OldFile' \cup Strange'
    BY <1>1, <2>1, <2>2 DEF FilesAreTyped, FilesAreExplained, Files
  <2>5. file'["cumulative"] = file["cumulative"]
    BY <2>1 DEF FilesAreTyped, Files
  <2>6. \A f \in ok' : file'[f] \subseteq seen'
    BY <1>1, <2>1, <2>2 DEF FilesAreTyped, FilesAreExplained, Files
  <2>7. ok' \subseteq {"pre", "post", "round"}
    BY <2>1 DEF FilesAreExplained
  <2> QED BY <1>1, <2>1, <2>3, <2>4, <2>5, <2>6, <2>7 DEF FilesAreExplained, Goc
<1>7. CASE PreSnapshot
  <2>1. Goc /\ seen' = seen /\ mishaps' = mishaps
    BY <1>7 DEF PreSnapshot, InChainmaker, Goc
  <2>2. PICK written \in BOOLEAN : GocProfile("pre", written) \/ UNCHANGED <<file, ok>>
    BY <1>7 DEF PreSnapshot
  <2> QED BY <1>1, <1>3, <2>1, <2>2, ProfileIsExplained
<1>8. CASE PostSnapshot
  BY <1>8, PostIsExplained
<1>9. CASE GethProfile
  <2>1. Goc /\ seen' = seen /\ mishaps' = mishaps
    BY <1>9 DEF GethProfile, InGeth, Goc
  <2>2. PICK written \in BOOLEAN : GocProfile("round", written) \/ UNCHANGED <<file, ok>>
    BY <1>9 DEF GethProfile
  <2> QED BY <1>1, <1>3, <2>1, <2>2, ProfileIsExplained
<1>10. ASSUME NEW added \in SUBSET seen, NEW strange \in SUBSET {"old"},
              file' = [file EXCEPT !["cumulative"] = @ \cup added \cup strange],
              strange # {} => target = "fisco" /\ "strangers" \in mishaps',
              ok' = ok
       PROVE  FilesAreTyped' /\ FilesAreExplained'
  <2>1. FilesAreTyped'
    BY <1>2, <1>10 DEF FilesAreTyped, Own, Units
  <2>2. strange \subseteq Strange' /\ (strange # {} => OldIsExplained')
    BY <1>1, <1>10 DEF Strange, OldIsExplained
  <2>3. \A f \in Files : file'[f] \subseteq seen' \cup OldFile' \cup Strange'
    BY <1>1, <1>10, <2>2 DEF FilesAreTyped, FilesAreExplained, Files
  <2>4. \A f \in ok' : file'[f] \subseteq seen'
    BY <1>1, <1>10 DEF FilesAreTyped, FilesAreExplained, Files
  <2>5. "old" \in file'["cumulative"] => OldIsExplained'
    <3>1. "old" \in file'["cumulative"] => "old" \in file["cumulative"] \/ "old" \in strange
      BY <1>2, <1>10 DEF FilesAreTyped, Files, Own
    <3> QED BY <1>1, <2>2, <3>1 DEF FilesAreExplained
  <2> QED BY <1>1, <1>10, <2>1, <2>3, <2>4, <2>5 DEF FilesAreExplained
<1>11. CASE FiscoStopFirst \/ FiscoCleanup
  <2>1. PICK nodes \in SUBSET Nodes, graceful \in SUBSET Nodes, strange \in SUBSET {"old"} :
          /\ Exited(nodes, graceful, strange)
          /\ strange # {} => target = "fisco" /\ "strangers" \in mishaps'
    <3>1. CASE FiscoStopFirst
      <4>1. PICK graceful \in SUBSET {0} : Exited({0}, graceful, {})
        BY <3>1 DEF FiscoStopFirst
      <4>2. {0} \in SUBSET Nodes /\ graceful \in SUBSET Nodes /\ {} \in SUBSET {"old"}
        BY ArmAssumption
      <4> QED BY <4>1, <4>2
    <3>2. CASE FiscoCleanup
      BY <3>2 DEF FiscoCleanup, InFisco, KillStaleFisco, StrangersWrite
    <3> QED BY <1>11, <3>1, <3>2
  <2> DEFINE flushed == UNION {proc[n].counters : n \in nodes \cap graceful}
  <2>2. flushed \subseteq seen
    BY DEF CountersAreSeen
  <2>3. file' = [file EXCEPT !["cumulative"] = @ \cup flushed \cup strange]
    BY <2>1 DEF Exited
  <2>4. ok' = ok
    BY <1>11 DEF FiscoStopFirst, FiscoCleanup
  <2> HIDE DEF flushed
  <2> QED BY <1>10, <2>1, <2>2, <2>3, <2>4
<1>12. CASE FiscoStart
  <2>1. PICK strange \in SUBSET {"old"} :
          /\ KillStaleFisco(strange)
          /\ file' = [file EXCEPT !["cumulative"] = @ \cup strange]
    BY <1>12 DEF FiscoStart
  <2>2. strange # {} => target = "fisco" /\ "strangers" \in mishaps'
    BY <1>12, <2>1 DEF FiscoStart, InFisco, KillStaleFisco, StrangersWrite
  <2>3. file' = [file EXCEPT !["cumulative"] = @ \cup {} \cup strange] /\ {} \in SUBSET seen
    BY <2>1
  <2>4. ok' = ok
    BY <1>12 DEF FiscoStart
  <2> QED BY <1>10, <2>2, <2>3, <2>4
<1>13. CASE FiscoShared
  <2>1. CASE StrangersWrite /\ file' = [file EXCEPT !["cumulative"] = @ \cup {"old"}]
    <3>1. target = "fisco" /\ "strangers" \in mishaps' /\ ok' = ok
      BY <1>13, <2>1 DEF FiscoShared, InFisco, StrangersWrite
    <3>2. file' = [file EXCEPT !["cumulative"] = @ \cup {} \cup {"old"}] /\ {} \in SUBSET seen
      BY <2>1
    <3> QED BY <1>10, <3>1, <3>2
  <2>2. CASE file' = [file EXCEPT !["cumulative"] = {}]
    <3>1. ok' = ok /\ ok = {}
      BY <1>13 DEF FiscoShared, InFisco, FilesAreExplained
    <3> QED BY <1>1, <2>2, <3>1 DEF FilesAreTyped, FilesAreExplained, Files
  <2> QED BY <1>13, <2>1, <2>2 DEF FiscoShared
<1>14. CASE \E n \in Nodes : NodeDies(n)
  <2>1. PICK n \in Nodes : NodeDies(n)
    BY <1>14
  <2>2. CASE file' = file
    BY <1>3, <2>1, <2>2 DEF NodeDies
  <2>3. CASE file' # file
    <3>1. file' = [file EXCEPT !["cumulative"] = @ \cup proc[n].counters \cup {}]
      BY <2>1, <2>3 DEF NodeDies
    <3>2. proc[n].counters \in SUBSET seen /\ {} \in SUBSET {"old"} /\ ok' = ok
      BY <2>1 DEF CountersAreSeen, NodeDies
    <3> QED BY <1>10, <3>1, <3>2
  <2> QED BY <2>2, <2>3
<1>15. CASE FiscoCapture
  <2>1. PICK captured \in BOOLEAN : file' \in {file, [file EXCEPT !["round"] = Captured(captured)]}
    BY <1>15 DEF FiscoCapture
  <2>2. ok' = ok /\ ok = {}
    BY <1>15 DEF FiscoCapture, InFisco, FilesAreExplained
  <2>3. /\ Captured(captured) \subseteq seen \cup OldFile \cup Strange
        /\ Captured(captured) \in SUBSET Units
    BY DEF Captured, FilesAreTyped, FilesAreExplained, Files
  <2>4. FilesAreTyped' /\ file'["cumulative"] = file["cumulative"]
    BY <2>1, <2>3 DEF FilesAreTyped, Files
  <2>5. \A f \in Files : file'[f] \subseteq seen' \cup OldFile' \cup Strange'
    BY <1>1, <2>1, <2>3 DEF FilesAreTyped, FilesAreExplained, Files
  <2> QED BY <1>1, <2>2, <2>4, <2>5 DEF FilesAreExplained
<1>16. CASE AptosStart \/ FlushAndStop
  <2>1. target = "aptos" /\ ok' = ok /\ ok = {}
    BY <1>16 DEF AptosStart, FlushAndStop, InAptos, FilesAreExplained
  <2>2. PICK added \in SUBSET seen, removed \in SUBSET OldFile :
          file' = [file EXCEPT !["cumulative"] = (@ \ removed) \cup added]
    <3>1. CASE AptosStart
      <4>1. PICK removed \in SUBSET OldFile : file' = [file EXCEPT !["cumulative"] = @ \ removed]
        BY <3>1 DEF AptosStart
      <4>2. file' = [file EXCEPT !["cumulative"] = (@ \ removed) \cup {}] /\ {} \in SUBSET seen
        BY <4>1
      <4> QED BY <4>2
    <3>2. CASE FlushAndStop
      <4>1. PICK flushed \in SUBSET UpNodes :
              file' = [file EXCEPT !["cumulative"] = Merged(Flushed(flushed))]
        BY <3>2 DEF FlushAndStop
      <4>2. Flushed(flushed) \in SUBSET seen
        BY <4>1 DEF CountersAreSeen, Flushed, UpNodes
      <4>3. file' = [file EXCEPT !["cumulative"] = (@ \ {}) \cup Flushed(flushed)]
        BY <4>1 DEF Merged
      <4> QED BY <4>2, <4>3
    <3> QED BY <1>16, <3>1, <3>2
  <2>3. FilesAreTyped'
    BY <1>2, <2>2 DEF FilesAreTyped, Own
  <2>4. \A f \in Files : file'[f] \subseteq seen' \cup OldFile' \cup Strange'
    BY <1>1, <2>2 DEF FilesAreTyped, FilesAreExplained, Files
  <2>5. "old" \in file'["cumulative"] => OldIsExplained'
    <3>1. "old" \in file'["cumulative"] => "old" \in file["cumulative"]
      BY <1>2, <2>2 DEF FilesAreTyped, Files, Own
    <3> QED BY <1>1, <3>1 DEF FilesAreExplained
  <2> QED BY <1>1, <2>1, <2>3, <2>4, <2>5 DEF FilesAreExplained
<1> QED
  BY <1>3, <1>4, <1>5, <1>6, <1>7, <1>8, <1>9, <1>11, <1>12, <1>13, <1>14,
     <1>15, <1>16, StepFrame

\* A round reaches its end in one step, or not at all.
LEMMA ReportsAtItsEnd ==
  ASSUME Next, target # "aptos", pc' \in {"loop", "done"}
  PROVE  \/ Merge \/ FiscoCapture
         \/ /\ pc \in {"loop", "done"}
            /\ UNCHANGED file \/ FiscoShared \/ \E n \in Nodes : NodeDies(n)
BY DEF Next, Progress, ChainmakerNext, GethNext, FiscoNext, AptosNext,
       BeginRound, EndArm, DeadlinePasses, ForeignStarts,
       StartAll, Configure, MeasureIdle, Work, PreSnapshot, StopFirst, CatchUp,
       ExtraRestartCycle, PostSnapshot, Cleanup,
       GethStart, GethUnreachable, GethMeasure, GethProfile, GethStop,
       FiscoStart, FiscoNotStarted, FiscoIdle, FiscoOnline, FiscoStopFirst,
       FiscoStartFirst, FiscoSustain, FiscoExpired, FiscoRaises, FiscoCleanup,
       Launch, LaunchFails, LaunchRaises, AptosStart, AptosStartFails, NotAdmitted,
       AptosMeasure, FlushAndStop, Teardown, InAptos, NodeDies, FiscoShared, Goto

\* The profile of the round comes from its own snapshots, from a round that is
\* known to have none, or from what lcov read or left.
LEMMA StepRound ==
  ASSUME FilesAreTyped, CountersAreSeen, PhaseOfTarget, FilesAreExplained, RoundIsExplained,
         FilesAreExplained', CountersAreSeen', Next
  PROVE  RoundIsExplained'
<1> SUFFICES ASSUME pc' \in {"loop", "done"}, "old" \in file'["round"]
             PROVE  OldIsExplained'
  BY DEF RoundIsExplained
<1>1. /\ target' = target /\ opts' = opts /\ OldFile' = OldFile
      /\ OldIsExplained => OldIsExplained'
  BY OldFileStays, MishapsStay
<1>2. opts.leftover \/ (target = "fisco" /\ "strangers" \in mishaps')
  BY <1>1 DEF FilesAreExplained, CountersAreSeen, Own, OldFile, Strange, Files
<1>3. CASE target = "aptos"
  BY <1>1, <1>2, <1>3 DEF OldIsExplained
<1>4. CASE Merge
  <2>1. file'["round"] = file["round"] /\ Goc
    BY <1>4 DEF Merge, MergeIntoCumulative, FilesAreTyped, Files, PhaseOfTarget, Goc
  <2>2. "round" \notin ok
    BY <2>1 DEF FilesAreExplained, CountersAreSeen, Own
  <2> QED BY <1>1, <1>2, <1>4, <2>1, <2>2 DEF Merge, OldIsExplained, Goc
<1>5. CASE FiscoCapture
  <2>1. PICK captured \in BOOLEAN :
          /\ file' = [file EXCEPT !["round"] = Captured(captured)]
          /\ mishaps' = IF captured THEN mishaps ELSE mishaps \cup {"unwritten"}
    BY <1>5 DEF FiscoCapture
  <2>2. CASE captured
    <3>1. "old" \in file["cumulative"]
      BY <2>1, <2>2 DEF Captured, FilesAreTyped, Files
    <3> QED BY <1>1, <3>1 DEF FilesAreExplained
  <2>3. CASE ~captured
    BY <1>1, <1>2, <2>1, <2>3 DEF OldIsExplained
  <2> QED BY <2>2, <2>3
<1>6. CASE /\ pc \in {"loop", "done"}
           /\ UNCHANGED file \/ FiscoShared \/ \E n \in Nodes : NodeDies(n)
  <2>1. file'["round"] = file["round"]
    BY <1>6 DEF FiscoShared, NodeDies, FilesAreTyped, Files
  <2> QED BY <1>1, <1>6, <2>1 DEF RoundIsExplained
<1> QED BY <1>3, <1>4, <1>5, <1>6, ReportsAtItsEnd

-----------------------------------------------------------------------------
(* Type correctness *)

\* Every entry of the timeline counts the lines of some profile.
LEMMA RecordedIsCovered ==
  ASSUME FilesAreTyped, FilesAreTyped', Next, window' # window
  PROVE  /\ Merge \/ FlushAndStop => Record(Covered(file'["cumulative"]))
         /\ FiscoCapture => Record(Covered(file'["round"]))
         /\ Merge \/ FlushAndStop \/ FiscoCapture
BY StepFrame DEF Merge, FlushAndStop, FiscoCapture

LEMMA WindowIsTyped ==
  ASSUME TypeOK, FilesAreTyped', Next
  PROVE  window' \in Seq(Nat) /\ Len(window') <= Converge
<1>1. CASE window' = window
  BY <1>1 DEF TypeOK
<1>2. CASE window' # window
  <2>1. PICK f \in Files : Record(Covered(file'[f]))
    BY <1>2, RecordedIsCovered DEF TypeOK, FilesAreTyped, Files
  <2>2. Covered(file'[f]) \in Nat
    BY CoveredGrows DEF FilesAreTyped
  <2> QED BY <2>1, <2>2, RecordIsLast DEF TypeOK
<1> QED BY <1>1, <1>2

LEMMA StepIsTyped ==
  ASSUME TypeOK, CountersAreSeen, PhaseOfTarget, FilesAreExplained, Next
  PROVE  TypeOK'
<1>1. UNCHANGED fixedVars
  BY StepFrame
<1>2. target' \in Targets /\ arm' \in Arms /\ opts' \in Options
  BY <1>1 DEF fixedVars, TypeOK
<1>3. /\ proc' \in [Nodes -> Process]
      /\ seen' \subseteq Units /\ kept' \subseteq Units
  BY StepCounts DEF CountersAreSeen, OwnProcess, Process, Own
<1>4. file' \in [Files -> SUBSET Units] /\ ok' \subseteq Files
  BY StepFiles DEF TypeOK, FilesAreTyped, FilesAreExplained, Files
<1>5. window' \in Seq(Nat) /\ Len(window') <= Converge
  BY <1>4, WindowIsTyped DEF FilesAreTyped
<1> QED BY <1>2, <1>3, <1>4, <1>5, FlagsAreTyped DEF TypeOK

\* The steps of a round stay with their target.
LEMMA StepPhases ==
  ASSUME PhaseOfTarget, Next
  PROVE  PhaseOfTarget'
BY DEF PhaseOfTarget, Next, Progress, ChainmakerNext, GethNext, FiscoNext, AptosNext,
       BeginRound, EndArm, Merge, DeadlinePasses, ForeignStarts, NodeDies, fixedVars,
       StartAll, Configure, MeasureIdle, Work, PreSnapshot, StopFirst, CatchUp,
       ExtraRestartCycle, PostSnapshot, Cleanup, InChainmaker,
       GethStart, GethUnreachable, GethMeasure, GethProfile, GethStop, InGeth,
       FiscoStart, FiscoShared, FiscoNotStarted, FiscoIdle, FiscoOnline, FiscoStopFirst,
       FiscoStartFirst, FiscoSustain, FiscoExpired, FiscoRaises, FiscoCleanup,
       FiscoCapture, InFisco, Launch, LaunchFails, LaunchRaises, AptosStart,
       AptosStartFails, NotAdmitted, AptosMeasure, FlushAndStop, Teardown, InAptos, Goto

-----------------------------------------------------------------------------
(* Nodes *)

LEMMA StepNodes ==
  ASSUME TypeOK, PhaseOfTarget, NodesAreDown, Next
  PROVE  NodesAreDown'
<1> USE DEF NodesAreDown, AllDown, Down
<1>1. target' = target
  BY OldFileStays
<1>2. CASE BeginRound \/ EndArm \/ DeadlinePasses \/ ForeignStarts
  BY <1>2 DEF BeginRound, EndArm, DeadlinePasses, ForeignStarts, fixedVars, loopVars
<1>3. CASE \E n \in Nodes : NodeDies(n)
  BY <1>3 DEF NodeDies, fixedVars, loopVars, Ended
<1>4. CASE Merge
  BY <1>4 DEF Merge, fixedVars
<1>5. CASE ChainmakerNext
  <2>1. CASE Cleanup
    BY <2>1 DEF Cleanup, InChainmaker
  <2>2. CASE ~Cleanup
    <3>1. /\ target' = "chainmaker"
          /\ pc' \in {"unstarted", "booted", "configured", "worked", "snapshot", "offline",
                     "extra", "cleanup", "abort"}
      BY <1>1, <1>5, <2>2 DEF ChainmakerNext, StartAll, Configure, MeasureIdle, Work,
           PreSnapshot, StopFirst, CatchUp, ExtraRestartCycle, PostSnapshot, InChainmaker, Goto
    <3> QED BY <3>1
  <2> QED BY <2>1, <2>2
<1>6. CASE GethNext
  BY <1>6 DEF GethNext, GethStart, GethUnreachable, GethMeasure, GethProfile, GethStop,
       InGeth, fixedVars, loopVars, Goto
<1>7. CASE FiscoNext \/ FiscoShared \/ FiscoSustain \/ FiscoRaises
  BY <1>7 DEF FiscoNext, FiscoStart, FiscoShared, FiscoNotStarted, FiscoIdle, FiscoOnline,
       FiscoStopFirst, FiscoStartFirst, FiscoSustain, FiscoExpired, FiscoRaises,
       FiscoCleanup, FiscoCapture, InFisco, Exited, fixedVars, loopVars, Goto
<1>8. CASE AptosNext
  BY <1>8 DEF AptosNext, Launch, LaunchFails, LaunchRaises, AptosStart, AptosStartFails,
       NotAdmitted, AptosMeasure, FlushAndStop, Teardown, InAptos, fixedVars, loopVars, Goto
<1> QED
  BY <1>2, <1>3, <1>4, <1>5, <1>6, <1>7, <1>8 DEF Next, Progress

-----------------------------------------------------------------------------
(* What was counted before the measurement *)

\* A configuration-only arm of chainmaker never counts any work.
LEMMA StepBoot ==
  ASSUME TypeOK, PhaseOfTarget, BootIsCleared, Next
  PROVE  BootIsCleared'
<1> SUFFICES ASSUME target' = "chainmaker", arm' # "varied", "slow boot" \notin mishaps'
             PROVE  /\ pc' \notin {"worked", "snapshot", "offline", "extra"}
                    /\ pc' = "configured" => \A n \in Nodes : proc'[n].counters \subseteq {"config"}
                    /\ file'["round"] \subseteq Measured /\ file'["cumulative"] \subseteq Measured
  BY DEF BootIsCleared
<1>1. /\ target = "chainmaker" /\ arm # "varied" /\ "slow boot" \notin mishaps
      /\ OldFile \subseteq Measured
  BY OldFileStays, MishapsStay DEF OldFile, Measured
<1>2. /\ pc \notin {"worked", "snapshot", "offline", "extra"}
      /\ pc = "configured" => \A n \in Nodes : proc[n].counters \subseteq {"config"}
      /\ file["round"] \subseteq Measured /\ file["cumulative"] \subseteq Measured
  BY <1>1 DEF BootIsCleared
<1>3. CASE BeginRound
  BY <1>1, <1>2, <1>3 DEF BeginRound, TypeOK, Files
<1>4. CASE EndArm \/ DeadlinePasses \/ ForeignStarts
  BY <1>1, <1>2, <1>4 DEF EndArm, DeadlinePasses, ForeignStarts
<1>5. CASE \E n \in Nodes : NodeDies(n)
  <2>1. PICK n \in Nodes : NodeDies(n)
    BY <1>5
  <2>2. UNCHANGED <<pc, file>> /\ proc' = [proc EXCEPT ![n] = Down]
    BY <1>1, <2>1 DEF NodeDies
  <2> QED BY <1>2, <2>2 DEF Down, TypeOK
<1>6. CASE Merge
  BY <1>2, <1>6 DEF Merge, MergeIntoCumulative, TypeOK, Files
<1>7. CASE StartAll \/ Cleanup
  BY <1>2, <1>7 DEF StartAll, Cleanup
<1>8. CASE Configure
  <2>1. CASE pc' # "configured"
    BY <1>2, <1>8, <2>1 DEF Configure
  <2>2. CASE pc' = "configured"
    <3>1. PICK up \in BOOLEAN : proc' = Restarted([n \in Nodes |-> AtConfigure[n]], 0, up)
      <4>1. PICK up \in BOOLEAN, slow \in SUBSET (UpNodes \ {0}) :
              /\ proc' = Restarted([n \in Nodes |-> IF n \in slow THEN proc[n] ELSE AtConfigure[n]],
                                   0, up)
              /\ mishaps' = IF slow = {} THEN mishaps ELSE mishaps \cup {"slow boot"}
        BY <1>8, <2>2 DEF Configure
      <4>2. slow = {}
        BY <4>1
      <4> QED BY <4>1, <4>2
    <3>2. conf' = Configured /\ file' = file
      BY <1>8, <2>2 DEF Configure
    <3>3. \A n \in Nodes : AtConfigure[n].counters = {}
      BY DEF AtConfigure, ClearedCounters, TypeOK, Process
    <3>4. Started(0, up).counters \subseteq {"config"}
      BY <3>2 DEF Started, Down, Configured
    <3>5. \A n \in Nodes : proc'[n].counters \subseteq {"config"}
      BY <3>1, <3>3, <3>4 DEF Restarted, AtConfigure, ClearedCounters
    <3> QED BY <1>2, <2>2, <3>2, <3>5
  <2> QED BY <2>1, <2>2
<1>9. CASE MeasureIdle
  <2>1. InCounters(proc') \subseteq {"config", "idle"}
    <3>1. proc' = Exercised("idle") /\ \A n \in Nodes : proc[n].counters \subseteq {"config"}
      BY <1>2, <1>9 DEF MeasureIdle
    <3>2. \A n \in Nodes : proc'[n].counters \subseteq {"config", "idle"}
      BY <3>1 DEF Exercised, TypeOK, Process
    <3> QED BY <3>2 DEF InCounters
  <2>2. pc' \in {"cleanup", "abort"}
    BY <1>9 DEF MeasureIdle
  <2>3. file' = file \/ file' = [file EXCEPT !["round"] = InCounters(proc')]
    BY <1>9 DEF MeasureIdle
  <2> QED BY <1>2, <2>1, <2>2, <2>3 DEF TypeOK, Files, Measured
<1>10. ~(Work \/ PreSnapshot \/ StopFirst \/ CatchUp \/ ExtraRestartCycle \/ PostSnapshot)
  BY <1>1, <1>2 DEF Work, PreSnapshot, StopFirst, CatchUp, ExtraRestartCycle, PostSnapshot, Goto
<1>11. ~(GethNext \/ FiscoNext \/ FiscoShared \/ FiscoSustain \/ FiscoRaises \/ AptosNext)
  BY <1>1 DEF GethNext, GethStart, GethUnreachable, GethMeasure, GethProfile, GethStop,
       InGeth, FiscoNext, FiscoStart, FiscoShared, FiscoNotStarted, FiscoIdle, FiscoOnline,
       FiscoStopFirst, FiscoStartFirst, FiscoSustain, FiscoExpired, FiscoRaises,
       FiscoCleanup, FiscoCapture, InFisco, AptosNext, Launch, LaunchFails, LaunchRaises,
       AptosStart, AptosStartFails, NotAdmitted, AptosMeasure, FlushAndStop, Teardown, InAptos
<1> QED
  BY <1>3, <1>4, <1>5, <1>6, <1>7, <1>8, <1>9, <1>10, <1>11
     DEF Next, Progress, ChainmakerNext

-----------------------------------------------------------------------------
(* Snapshots *)

\* Fisco and aptos write into what is measured.
LEMMA FlushIsKept ==
  ASSUME TypeOK, CountersAreSeen, SnapshotsOnTheWay, ~Goc, Next
  PROVE  SnapshotsOnTheWay'
<1>1. ~Goc'
  BY OldFileStays DEF Goc
<1>2. kept \subseteq file["cumulative"] /\ kept \subseteq Own
  BY DEF SnapshotsOnTheWay, CountersAreSeen
<1>3. SUFFICES kept' \subseteq file'["cumulative"]
  BY <1>1 DEF SnapshotsOnTheWay
<1>4. CASE UNCHANGED <<file, kept>>
  BY <1>2, <1>4
<1>5. CASE BeginRound
  BY <1>2, <1>5 DEF BeginRound, historyVars, TypeOK, Files
<1>6. CASE FiscoStopFirst \/ FiscoCleanup
  <2>1. PICK nodes, graceful, strange : Exited(nodes, graceful, strange)
    BY <1>6 DEF FiscoStopFirst, FiscoCleanup
  <2> QED BY <1>2, <2>1 DEF Exited, TypeOK, Files
<1>7. CASE FiscoCapture
  BY <1>2, <1>7 DEF FiscoCapture, TypeOK, Files
<1>8. CASE AptosStart
  <2>1. PICK removed \in SUBSET OldFile : file' = [file EXCEPT !["cumulative"] = @ \ removed]
    BY <1>8 DEF AptosStart
  <2>2. kept' = kept /\ removed \subseteq {"old"}
    BY <1>8 DEF AptosStart, OldFile
  <2> QED BY <1>2, <2>1, <2>2 DEF TypeOK, Files, Own
<1>9. CASE FlushAndStop
  <2>1. PICK flushed \in SUBSET UpNodes :
          /\ file' = [file EXCEPT !["cumulative"] = Merged(Flushed(flushed))]
          /\ kept' = kept \cup Flushed(flushed)
    BY <1>9 DEF FlushAndStop
  <2> QED BY <1>2, <2>1 DEF Merged, TypeOK, Files
<1>10. CASE EndArm \/ DeadlinePasses \/ ForeignStarts \/ FiscoSustain \/ FiscoRaises
            \/ FiscoNotStarted \/ FiscoIdle \/ FiscoOnline \/ FiscoStartFirst
            \/ FiscoExpired \/ Launch \/ LaunchFails \/ LaunchRaises \/ AptosStartFails
            \/ NotAdmitted \/ AptosMeasure \/ Teardown
  <2>1. UNCHANGED <<file, kept>>
    BY <1>10 DEF EndArm, DeadlinePasses, ForeignStarts, FiscoSustain, FiscoRaises,
         FiscoNotStarted, FiscoIdle, FiscoOnline, FiscoStartFirst, FiscoExpired, Launch,
         LaunchFails, LaunchRaises, AptosStartFails, NotAdmitted, AptosMeasure, Teardown,
         historyVars
  <2> QED BY <1>4, <2>1
<1>11. CASE Merge
  BY <1>2, <1>11 DEF Merge, MergeIntoCumulative, TypeOK, Files
<1>12. CASE FiscoStart
  <2>1. PICK strange : file' = [file EXCEPT !["cumulative"] = @ \cup strange]
    BY <1>12 DEF FiscoStart
  <2>2. kept' = kept
    BY <1>12 DEF FiscoStart
  <2> QED BY <1>2, <2>1, <2>2 DEF TypeOK, Files
<1>13. CASE FiscoShared
  BY <1>2, <1>13 DEF FiscoShared, TypeOK, Files
<1>14. CASE \E n \in Nodes : NodeDies(n)
  BY <1>2, <1>14 DEF NodeDies, TypeOK, Files
<1>15. ~ChainmakerNext /\ ~GethNext
  BY DEF Goc, ChainmakerNext, StartAll, Configure, MeasureIdle, Work, PreSnapshot,
       StopFirst, CatchUp, ExtraRestartCycle, PostSnapshot, Cleanup, InChainmaker, GethNext,
       GethStart, GethUnreachable, GethMeasure, GethProfile, GethStop, InGeth
<1> QED
  BY <1>5, <1>6, <1>7, <1>8, <1>9, <1>10, <1>11, <1>12, <1>13, <1>14, <1>15
     DEF Next, Progress, FiscoNext, AptosNext

\* A snapshot before and one after the restarts, and the profile of both.
LEMMA ChainmakerKeeps ==
  ASSUME TypeOK, FilesAreExplained, SnapshotsOnTheWay, target' = target, ChainmakerNext
  PROVE  SnapshotsOnTheWay'
<1>1. Goc /\ Goc'
  BY DEF Goc, ChainmakerNext, StartAll, Configure, MeasureIdle, Work, PreSnapshot,
       StopFirst, CatchUp, ExtraRestartCycle, PostSnapshot, Cleanup, InChainmaker
<1>2. CASE StartAll \/ Configure \/ Work \/ StopFirst \/ CatchUp \/ ExtraRestartCycle \/ Cleanup
  BY <1>1, <1>2 DEF SnapshotsOnTheWay, StartAll, Configure, Work, StopFirst, CatchUp,
       ExtraRestartCycle, Cleanup, historyVars, Goto
<1>3. CASE MeasureIdle
  <2>1. kept \subseteq file["cumulative"]
    BY <1>1, <1>3 DEF SnapshotsOnTheWay, MeasureIdle
  <2>2. CASE pc' = "abort"
    BY <1>1, <2>2 DEF SnapshotsOnTheWay
  <2>3. CASE pc' = "cleanup"
    <3>1. PICK written \in BOOLEAN :
             /\ file' = IF written THEN [file EXCEPT !["round"] = InCounters(proc')] ELSE file
             /\ kept' = IF written THEN kept \cup InCounters(proc') ELSE kept
      BY <1>3, <2>3 DEF MeasureIdle
    <3>2. kept' \subseteq file'["cumulative"] \cup file'["round"]
      BY <2>1, <3>1 DEF TypeOK, Files
    <3> QED BY <1>1, <2>3, <3>2 DEF SnapshotsOnTheWay
  <2> QED BY <1>3, <2>2, <2>3 DEF MeasureIdle
<1>4. CASE PreSnapshot
  <2>1. kept \subseteq file["cumulative"]
    BY <1>1, <1>4 DEF SnapshotsOnTheWay, PreSnapshot
  <2>2. CASE pc' = "abort"
    BY <1>1, <2>2 DEF SnapshotsOnTheWay
  <2>3. CASE pc' = "snapshot"
    <3>1. PICK written \in BOOLEAN : GocProfile("pre", written)
      BY <1>4, <2>3 DEF PreSnapshot
    <3>2. kept' \subseteq file'["cumulative"] \cup (IF "pre" \in ok' THEN file'["pre"] ELSE {})
      BY <2>1, <3>1 DEF GocProfile, TypeOK, Files
    <3> QED BY <1>1, <2>3, <3>2 DEF SnapshotsOnTheWay
  <2> QED BY <1>4, <2>2, <2>3 DEF PreSnapshot
<1>5. CASE PostSnapshot
  <2>1. kept \subseteq file["cumulative"] \cup (IF "pre" \in ok THEN file["pre"] ELSE {})
    BY <1>1, <1>5 DEF SnapshotsOnTheWay, PostSnapshot
  <2>2. CASE pc' = "abort"
    BY <1>1, <2>2 DEF SnapshotsOnTheWay
  <2>3. CASE pc' = "cleanup"
    <3> DEFINE Profiles(written) == IF written THEN ok \cup {"post"} ELSE ok
               After(written) == IF written THEN [file EXCEPT !["post"] = InCounters(proc)] ELSE file
               Both(written) == MergedOf(Profiles(written), After(written))
    <3>1. PICK written \in BOOLEAN :
            /\ file' = IF Both(written) = {} THEN After(written)
                       ELSE [After(written) EXCEPT !["round"] = Both(written)]
            /\ kept' = IF written THEN kept \cup InCounters(proc) ELSE kept
      BY <1>5, <2>3 DEF PostSnapshot
    <3>2. /\ "pre" \in ok => file["pre"] \subseteq Both(written)
          /\ written => InCounters(proc) \subseteq Both(written)
      BY DEF MergedOf, TypeOK, Files
    <3>3. /\ DOMAIN After(written) = Files
          /\ After(written)["cumulative"] = file["cumulative"]
      BY DEF TypeOK, Files
    <3> HIDE DEF Both, After, Profiles
    <3>4. /\ file'["cumulative"] = file["cumulative"]
          /\ Both(written) = {} \/ file'["round"] = Both(written)
      BY <3>1, <3>3 DEF Files
    <3>5. kept' \subseteq file'["cumulative"] \cup file'["round"]
      BY <2>1, <3>1, <3>2, <3>4
    <3> QED BY <1>1, <2>3, <3>5 DEF SnapshotsOnTheWay
  <2> QED BY <1>5, <2>2, <2>3 DEF PostSnapshot
<1> QED
  BY <1>2, <1>3, <1>4, <1>5 DEF ChainmakerNext

\* Geth takes the profile of a round at once.
LEMMA GethKeeps ==
  ASSUME TypeOK, SnapshotsOnTheWay, target' = target, GethNext
  PROVE  SnapshotsOnTheWay'
<1>1. Goc /\ Goc'
  BY DEF Goc, GethNext, GethStart, GethUnreachable, GethMeasure, GethProfile, GethStop, InGeth
<1>2. CASE GethStart \/ GethUnreachable \/ GethMeasure \/ GethStop
  BY <1>1, <1>2 DEF SnapshotsOnTheWay, GethStart, GethUnreachable, GethMeasure, GethStop,
       historyVars, Goto
<1>3. CASE GethProfile
  <2>1. kept \subseteq file["cumulative"]
    BY <1>1, <1>3 DEF SnapshotsOnTheWay, GethProfile
  <2>2. CASE pc' = "failed"
    BY <1>1, <2>2 DEF SnapshotsOnTheWay
  <2>3. CASE pc' = "stop"
    <3>1. PICK written \in BOOLEAN : GocProfile("round", written)
      BY <1>3, <2>3 DEF GethProfile
    <3>2. kept' \subseteq file'["cumulative"] \cup file'["round"]
      BY <2>1, <3>1 DEF GocProfile, TypeOK, Files
    <3> QED BY <1>1, <2>3, <3>2 DEF SnapshotsOnTheWay
  <2> QED BY <1>3, <2>2, <2>3 DEF GethProfile
<1> QED BY <1>2, <1>3 DEF GethNext

\* A round that is given up loses nothing that was kept: it ends the arm.
LEMMA StepSnapshots ==
  ASSUME TypeOK, CountersAreSeen, FilesAreExplained, SnapshotsOnTheWay, Next
  PROVE  SnapshotsOnTheWay'
<1>1. target' = target
  BY OldFileStays
<1>2. CASE ~Goc
  BY <1>2, FlushIsKept
<1>3. CASE Goc
  <2>1. Goc'
    BY <1>1, <1>3 DEF Goc
  <2>2. CASE BeginRound
    BY <2>1, <2>2, <1>3 DEF SnapshotsOnTheWay, BeginRound, historyVars, TypeOK, Files
  <2>3. CASE EndArm \/ DeadlinePasses \/ ForeignStarts \/ \E n \in Nodes : NodeDies(n)
    BY <2>1, <2>3, <1>3 DEF SnapshotsOnTheWay, Goc, EndArm, DeadlinePasses, ForeignStarts,
         NodeDies, historyVars
  <2>4. CASE Merge
    <3>1. kept \subseteq file["cumulative"] \cup file["round"]
      BY <1>3, <2>4 DEF SnapshotsOnTheWay, Merge
    <3>2. CASE pc' = "loop" /\ file' = MergeIntoCumulative
      BY <2>1, <2>4, <3>1, <3>2 DEF SnapshotsOnTheWay, Merge, MergeIntoCumulative, TypeOK, Files
    <3>3. CASE pc' = "failed"
      BY <2>1, <3>3 DEF SnapshotsOnTheWay
    <3> QED BY <2>4, <3>2, <3>3 DEF Merge
  <2>5. CASE ChainmakerNext
    BY <1>1, <2>5, ChainmakerKeeps
  <2>6. CASE GethNext
    BY <1>1, <2>6, GethKeeps
  <2>7. ~(FiscoNext \/ FiscoShared \/ FiscoSustain \/ FiscoRaises \/ AptosNext)
    BY <1>3 DEF Goc, FiscoNext, FiscoStart, FiscoShared, FiscoNotStarted, FiscoIdle, FiscoOnline,
       FiscoStopFirst, FiscoStartFirst, FiscoSustain, FiscoExpired, FiscoRaises,
       FiscoCleanup, FiscoCapture, InFisco, AptosNext, Launch, LaunchFails, LaunchRaises,
       AptosStart, AptosStartFails, NotAdmitted, AptosMeasure, FlushAndStop, Teardown, InAptos
  <2> QED BY <2>2, <2>3, <2>4, <2>5, <2>6, <2>7 DEF Next, Progress
<1> QED BY <1>2, <1>3

-----------------------------------------------------------------------------
(* The timeline *)

\* Without files of an earlier run the cumulative profile only grows, unless
\* another experiment resets it.
LEMMA CumulativeGrows ==
  ASSUME TypeOK, ~opts.leftover, "reset" \notin mishaps', Next
  PROVE  file["cumulative"] \subseteq file'["cumulative"]
<1>1. OldFile = {}
  BY DEF OldFile
<1>2. CASE UNCHANGED <<file, ok>>
  BY <1>2
<1>3. CASE BeginRound
  BY <1>3 DEF BeginRound, TypeOK, Files
<1>4. CASE Merge
  BY <1>4 DEF Merge, MergeIntoCumulative, TypeOK, Files
<1>5. CASE MeasureIdle
  BY <1>5 DEF MeasureIdle, TypeOK, Files
<1>6. CASE PreSnapshot
  BY <1>6 DEF PreSnapshot, GocProfile, TypeOK, Files
<1>7. CASE PostSnapshot
  <2> DEFINE After(written) == IF written THEN [file EXCEPT !["post"] = InCounters(proc)] ELSE file
  <2>1. CASE UNCHANGED file
    BY <2>1
  <2>2. CASE ~UNCHANGED file
    <3>1. PICK written, merged :
            file' = IF merged = {} THEN After(written) ELSE [After(written) EXCEPT !["round"] = merged]
      BY <1>7, <2>2 DEF PostSnapshot
    <3>2. After(written)["cumulative"] = file["cumulative"] /\ DOMAIN After(written) = Files
      BY DEF TypeOK, Files
    <3> HIDE DEF After
    <3> QED BY <3>1, <3>2 DEF Files
  <2> QED BY <2>1, <2>2
<1>8. CASE GethProfile
  BY <1>8 DEF GethProfile, GocProfile, TypeOK, Files
<1>9. CASE FiscoStopFirst \/ FiscoCleanup
  <2>1. PICK nodes, graceful, strange : Exited(nodes, graceful, strange)
    BY <1>9 DEF FiscoStopFirst, FiscoCleanup
  <2> QED BY <2>1 DEF Exited, TypeOK, Files
<1>10. CASE FiscoCapture
  BY <1>10 DEF FiscoCapture, TypeOK, Files
<1>11. CASE AptosStart
  BY <1>1, <1>11 DEF AptosStart, TypeOK, Files
<1>12. CASE FlushAndStop
  BY <1>12 DEF FlushAndStop, Merged, TypeOK, Files
<1>13. CASE FiscoStart \/ FiscoShared \/ \E n \in Nodes : NodeDies(n)
  BY <1>13 DEF FiscoStart, FiscoShared, NodeDies, TypeOK, Files
<1> QED
  BY <1>2, <1>3, <1>4, <1>5, <1>6, <1>7, <1>8, <1>9, <1>10, <1>11, <1>12, <1>13, StepFrame

\* What is recorded is the cumulative coverage; for fisco, because lcov has no
\* other file to take it from.
LEMMA CumulativeIsRecorded ==
  ASSUME TypeOK, FilesAreTyped', LastIsCovered, ~opts.leftover, Next, window' # window
  PROVE  LastCovered' = Covered(file'["cumulative"])
<1>1. Record(Covered(file'["cumulative"]))
  <2>1. CASE Merge \/ FlushAndStop
    BY <2>1, RecordedIsCovered DEF TypeOK, FilesAreTyped
  <2>2. CASE FiscoCapture
    <3>1. file["round"] = {}
      BY <2>2 DEF FiscoCapture, InFisco, LastIsCovered, Ended
    <3>2. file'["round"] = file["cumulative"] /\ file'["cumulative"] = file["cumulative"]
      BY <2>2, <3>1 DEF FiscoCapture, Captured, TypeOK, Files
    <3> QED BY <2>2, <3>2, RecordedIsCovered DEF TypeOK, FilesAreTyped
  <2> QED BY <2>1, <2>2, RecordedIsCovered DEF TypeOK, FilesAreTyped
<1>2. Covered(file'["cumulative"]) \in Nat
  BY CoveredGrows DEF FilesAreTyped, Files
<1> QED BY <1>1, <1>2, RecordIsLast DEF TypeOK

LEMMA FiscoHasOneFile ==
  ASSUME TypeOK, PhaseOfTarget, ~opts.leftover, target = "fisco",
         pc \notin {"loop"} \cup Ended => file["round"] = {}, Next
  PROVE  pc' \notin {"loop"} \cup Ended => file'["round"] = {}
<1>1. OldFile = {}
  BY DEF OldFile
<1>2. CASE BeginRound
  BY <1>1, <1>2 DEF BeginRound, TypeOK, Files
<1>3. CASE EndArm \/ DeadlinePasses \/ ForeignStarts \/ (\E n \in Nodes : NodeDies(n))
  BY <1>3 DEF EndArm, DeadlinePasses, ForeignStarts, NodeDies, TypeOK, Files, Ended
<1>4. CASE FiscoNext \/ FiscoShared \/ FiscoSustain \/ FiscoRaises
  <2>1. CASE FiscoStopFirst \/ FiscoCleanup
    <3>1. PICK nodes, graceful, strange : Exited(nodes, graceful, strange)
      BY <2>1 DEF FiscoStopFirst, FiscoCleanup
    <3>2. file'["round"] = file["round"]
      BY <3>1 DEF Exited, TypeOK, Files
    <3> QED BY <2>1, <3>2 DEF FiscoStopFirst, FiscoCleanup, Goto, Ended
  <2>2. CASE FiscoCapture
    BY <2>2 DEF FiscoCapture, Ended
  <2>3. CASE FiscoStart \/ FiscoShared
    <3>1. file'["round"] = file["round"]
      BY <2>3 DEF FiscoStart, FiscoShared, TypeOK, Files
    <3> QED BY <2>3, <3>1 DEF FiscoStart, FiscoShared, Ended
  <2>4. CASE FiscoNotStarted \/ FiscoIdle \/ FiscoOnline \/ FiscoStartFirst
             \/ FiscoExpired \/ FiscoSustain \/ FiscoRaises
    BY <2>4 DEF FiscoNotStarted, FiscoIdle, FiscoOnline, FiscoStartFirst,
         FiscoExpired, FiscoSustain, FiscoRaises, Goto, Ended
  <2> QED BY <1>4, <2>1, <2>2, <2>3, <2>4 DEF FiscoNext
<1>5. ~(Merge \/ ChainmakerNext \/ GethNext \/ AptosNext)
  BY DEF PhaseOfTarget, Merge, ChainmakerNext, StartAll, Configure, MeasureIdle, Work,
       PreSnapshot, StopFirst, CatchUp, ExtraRestartCycle, PostSnapshot, Cleanup,
       InChainmaker, GethNext, GethStart, GethUnreachable, GethMeasure, GethProfile,
       GethStop, InGeth, AptosNext, Launch, LaunchFails, LaunchRaises, AptosStart,
       AptosStartFails, NotAdmitted, AptosMeasure, FlushAndStop, Teardown, InAptos
<1> QED BY <1>2, <1>3, <1>4, <1>5 DEF Next, Progress

LEMMA StepLast ==
  ASSUME TypeOK, FilesAreTyped', PhaseOfTarget, LastIsCovered, Next
  PROVE  LastIsCovered'
<1>1. opts' = opts /\ target' = target /\ mishaps \subseteq mishaps'
  BY OldFileStays, MishapsStay
<1>2. SUFFICES ASSUME ~opts.leftover
               PROVE  /\ window' # <<>> /\ "reset" \notin mishaps' =>
                           LastCovered' <= Covered(file'["cumulative"])
                      /\ target = "fisco" /\ pc' \notin {"loop"} \cup Ended =>
                           file'["round"] = {}
  BY <1>1 DEF LastIsCovered
<1>3. ASSUME window' # <<>>, "reset" \notin mishaps'
      PROVE  LastCovered' <= Covered(file'["cumulative"])
  <2>1. /\ Covered(file["cumulative"]) \in Nat /\ Covered(file'["cumulative"]) \in Nat
        /\ Covered(file["cumulative"]) <= Covered(file'["cumulative"])
    BY <1>2, <1>3, CumulativeGrows, CoveredGrows DEF TypeOK, FilesAreTyped, Files
  <2>2. CASE window' # window
    BY <1>2, <2>1, <2>2, CumulativeIsRecorded
  <2>3. CASE window' = window
    <3>1. LastCovered' = LastCovered /\ LastCovered \in Nat
      BY <2>3 DEF LastCovered, TypeOK
    <3>2. LastCovered <= Covered(file["cumulative"])
      BY <1>1, <1>2, <1>3, <2>3 DEF LastIsCovered
    <3> QED BY <2>1, <3>1, <3>2
  <2> QED BY <2>2, <2>3
<1>4. ASSUME target = "fisco", pc' \notin {"loop"} \cup Ended
      PROVE  file'["round"] = {}
  BY <1>2, <1>4, FiscoHasOneFile DEF LastIsCovered
<1> QED BY <1>3, <1>4

-----------------------------------------------------------------------------
(* The invariant *)

LEMMA InitSatisfies == LoopInit => CoverageIInv
<1> SUFFICES ASSUME LoopInit PROVE CoverageIInv
  OBVIOUS
<1> USE DEF LoopInit
<1>1. OldFile \subseteq {"old"} /\ AtArmStart \subseteq OldFile
  BY DEF OldFile, AtArmStart
<1>2. TypeOK
  <2>1. left \in 0..MaxLimit
    BY ArmAssumption
  <2>2. window \in Seq(Nat) /\ Len(window) <= Converge
    BY ArmAssumption
  <2>3. proc \in [Nodes -> Process]
    BY DEF Down, Process, Confs
  <2>4. file \in [Files -> SUBSET Units]
    BY <1>1 DEF Files, Units
  <2> QED BY <2>1, <2>2, <2>3, <2>4 DEF TypeOK, Phases, Confs
<1>3. CountersAreSeen
  BY DownIsOwn DEF CountersAreSeen, Down
<1>4. PhaseOfTarget /\ NodesAreDown
  BY DEF PhaseOfTarget, NodesAreDown, AllDown, Down
<1>5. FilesAreExplained /\ RoundIsExplained
  BY <1>1 DEF FilesAreExplained, RoundIsExplained, OldIsExplained, AtArmStart, OldFile, Files
<1>6. SnapshotsOnTheWay
  BY DEF SnapshotsOnTheWay
<1>7. BootIsCleared
  BY <1>1 DEF BootIsCleared, Measured, Files
<1>8. LastIsCovered
  BY DEF LastIsCovered
<1> QED BY <1>2, <1>3, <1>4, <1>5, <1>6, <1>7, <1>8 DEF CoverageIInv

LEMMA StepSatisfies == CoverageIInv /\ [Next]_vars => CoverageIInv'
<1> SUFFICES ASSUME CoverageIInv, [Next]_vars PROVE CoverageIInv'
  OBVIOUS
<1>1. CASE Next
  <2>1. FilesAreTyped
    BY DEF CoverageIInv, TypeOK, FilesAreTyped
  <2>2. FilesAreTyped' /\ FilesAreExplained' /\ CountersAreSeen'
    BY <1>1, <2>1, StepFiles, StepCounts DEF CoverageIInv
  <2>3. TypeOK' /\ PhaseOfTarget' /\ RoundIsExplained'
    BY <1>1, <2>1, <2>2, StepIsTyped, StepPhases, StepRound DEF CoverageIInv
  <2>4. SnapshotsOnTheWay' /\ BootIsCleared' /\ NodesAreDown' /\ LastIsCovered'
    BY <1>1, <2>2, StepSnapshots, StepBoot, StepNodes, StepLast DEF CoverageIInv
  <2> QED BY <2>2, <2>3, <2>4 DEF CoverageIInv
<1>2. CASE UNCHANGED vars
  <2> USE <1>2 DEF CoverageIInv, vars, fixedVars, loopVars, historyVars, OldFile
  <2>1. TypeOK' /\ CountersAreSeen' /\ PhaseOfTarget'
    BY DEF TypeOK, CountersAreSeen, PhaseOfTarget
  <2>2. FilesAreExplained' /\ RoundIsExplained'
    BY DEF FilesAreExplained, RoundIsExplained, OldIsExplained, Strange
  <2>3. SnapshotsOnTheWay' /\ BootIsCleared'
    BY DEF SnapshotsOnTheWay, Goc, BootIsCleared
  <2>4. NodesAreDown' /\ LastIsCovered'
    BY DEF NodesAreDown, AllDown, LastIsCovered, LastCovered, Covered
  <2> QED BY <2>1, <2>2, <2>3, <2>4
<1> QED BY <1>1, <1>2

LEMMA ArmSatisfies == Spec => []CoverageIInv
<1>1. LoopInit => CoverageIInv
  BY InitSatisfies
<1>2. CoverageIInv /\ [Next]_vars => CoverageIInv'
  BY StepSatisfies
<1> QED BY <1>1, <1>2, PTL DEF Spec

-----------------------------------------------------------------------------
(* Theorems *)

\* The state of an arm stays within its types, its rounds within their limit
\* and the timeline it looks back on within the --converge-rounds entries of
\* append_timeline.
THEOREM ArmTypeCorrect == Spec => []TypeOK
<1>1. CoverageIInv => TypeOK
  BY DEF CoverageIInv
<1> QED BY <1>1, ArmSatisfies, PTL

\* Whatever dies, times out or raises, run_campaign_arm reports coverage of
\* its own nodes.  Coverage of another experiment gets in through a round
\* without a profile of its own, with aptos, or on fisco by nodes of the same
\* build that exit in between, those included which the round itself ends
\* after reset_gcda.
THEOREM ReportedCoverageIsExplained == Spec => []CoverageIsExplained
<1>1. CoverageIInv => CoverageIsExplained
  <2> SUFFICES ASSUME CoverageIInv PROVE CoverageIsExplained
    OBVIOUS
  <2>1. /\ \A f \in Files : file[f] \subseteq seen \cup {"old"}
        /\ seen \subseteq Own
    BY DEF CoverageIInv, FilesAreExplained, CountersAreSeen, OldFile, Strange
  <2>2. Reported \subseteq seen \cup {"old"}
    BY <2>1 DEF Reported, Files
  <2>3. "old" \in Reported => OldIsExplained
    BY DEF CoverageIInv, FilesAreExplained, RoundIsExplained, Reported
  <2> QED BY <2>2, <2>3 DEF CoverageIsExplained, OldIsExplained
<1> QED BY <1>1, ArmSatisfies, PTL

\* goc_merge, merge_into_cumulative, the .gcda files and the merge of all
\* aptos profiles lose no snapshot that a round has written, and that no other
\* experiment with the same .gcda files has removed.
THEOREM WrittenSnapshotsAreKept == Spec => []SnapshotsAreKept
<1>1. CoverageIInv => SnapshotsAreKept
  BY DEF CoverageIInv, SnapshotsOnTheWay, SnapshotsAreKept
<1> QED BY <1>1, ArmSatisfies, PTL

\* goc_clear between start_all and the restart of org 1 keeps the boot with
\* the stock configuration out of the coverage of a configuration-only arm,
\* when no org was still booting ten seconds after start_all.
THEOREM StockBootIsNotCovered == Spec => []BootIsNotCovered
<1>1. CoverageIInv => BootIsNotCovered
  BY DEF CoverageIInv, BootIsCleared, BootIsNotCovered, Measured
<1> QED BY <1>1, ArmSatisfies, PTL

\* Between two rounds, and after an arm that a try statement covers, no node of
\* it runs.  A start that raises before the try statement of its round
\* ("unstarted", on all four targets), a geth round, which has no finally
\* clause, and the swarm of aptos before its first round are excepted.
THEOREM RoundsLeaveNoNodes == Spec => []NodesEndWithTheRound
<1>1. CoverageIInv => NodesEndWithTheRound
  <2> SUFFICES ASSUME CoverageIInv PROVE NodesEndWithTheRound
    OBVIOUS
  <2>1. AllDown => UpNodes = {}
    BY DEF AllDown, UpNodes
  <2>2. target \in {"chainmaker", "fisco", "geth", "aptos"}
    BY ArmAssumption DEF CoverageIInv, TypeOK
  <2> QED BY <2>1, <2>2 DEF CoverageIInv, NodesAreDown, NodesEndWithTheRound
<1> QED BY <1>1, ArmSatisfies, PTL

\* The timeline on which converged() relies never falls, when the output
\* directory holds no earlier run and no other experiment resets it.
THEOREM TimelineNeverFalls == Spec => CoverageNeverFalls
<1>1. CoverageIInv /\ CoverageIInv' /\ [Next]_vars =>
        [(/\ ~opts.leftover /\ "reset" \notin mishaps
           /\ window' # window /\ window # <<>>) => LastCovered <= LastCovered']_vars
  <2> SUFFICES ASSUME CoverageIInv, CoverageIInv', Next, ~opts.leftover,
                      "reset" \notin mishaps, window' # window, window # <<>>
               PROVE  LastCovered <= LastCovered'
    BY DEF vars, loopVars
  <2>1. TypeOK /\ FilesAreTyped' /\ LastIsCovered
    BY DEF CoverageIInv, TypeOK, FilesAreTyped
  <2>2. LastCovered' = Covered(file'["cumulative"])
    BY <2>1, CumulativeIsRecorded
  <2>3. /\ Covered(file["cumulative"]) \in Nat /\ Covered(file'["cumulative"]) \in Nat
        /\ Covered(file["cumulative"]) <= Covered(file'["cumulative"])
    <3>1. "reset" \notin mishaps'
      BY StepFrame DEF Merge, FiscoCapture, FlushAndStop
    <3> QED BY <2>1, <3>1, CumulativeGrows, CoveredGrows DEF TypeOK, FilesAreTyped, Files
  <2>4. LastCovered <= Covered(file["cumulative"]) /\ LastCovered \in Nat
    BY <2>1 DEF LastIsCovered, LastCovered, TypeOK
  <2> QED BY <2>2, <2>3, <2>4
<1> QED BY <1>1, ArmSatisfies, PTL DEF Spec, CoverageNeverFalls

\* No step of a chainmaker or an aptos arm ends a node of another experiment:
\* kill_stale_chainmakers looks below the runtime directory of the round.
THEOREM OtherExperimentsGoOn == Spec => OthersAreLeftAlone
<1>1. [Next]_vars =>
        [(target \in {"chainmaker", "aptos"} /\ foreign) => foreign']_vars
  BY DEF Next, Progress, ChainmakerNext, GethNext, FiscoNext, AptosNext,
       BeginRound, EndArm, Merge, DeadlinePasses, ForeignStarts, NodeDies, vars,
       StartAll, Configure, MeasureIdle, Work, PreSnapshot, StopFirst, CatchUp,
       ExtraRestartCycle, PostSnapshot, Cleanup,
       GethStart, GethUnreachable, GethMeasure, GethProfile, GethStop, InGeth,
       FiscoStart, FiscoShared, FiscoNotStarted, FiscoIdle, FiscoOnline, FiscoStopFirst,
       FiscoStartFirst, FiscoSustain, FiscoExpired, FiscoRaises, FiscoCleanup,
       FiscoCapture, InFisco, Launch, LaunchFails, LaunchRaises, AptosStart,
       AptosStartFails, NotAdmitted, AptosMeasure, FlushAndStop, Teardown
<1> QED BY <1>1, PTL DEF Spec, OthersAreLeftAlone
=============================================================================
