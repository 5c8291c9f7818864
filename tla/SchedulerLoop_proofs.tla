------------------------ MODULE SchedulerLoop_proofs ------------------------
(***************************************************************************)
(* For every set of items, pairs, nodes and seeds and every number of      *)
(* rounds: the feedback loop of scheduler and index keeps the index        *)
(* consistent, moves classifications forward only, does not try a pair     *)
(* again that was rejected and never admitted, and lets the seeds that are *)
(* never blocked share the executions.                                     *)
(***************************************************************************)
EXTENDS SchedulerLoop, Scheduler_proofs, WellFoundedInduction

\* Nodes of the round whose mutation is this pair ...
PlannedOn(i, p) == {n \in Controlled : plan[n].mutation = <<i, p>>}

\* ... and those of them that were judged.
JudgedOn(i, p) == PlannedOn(i, p) \ pending

\* Why a rejected pair is dropped: a pair planned in this round that is not
\* admitted has only been rejected in this round.
PlannedPairsAreFresh ==
  stage = "admission" =>
    \A i \in Items : \A p \in Pairs \ valid[i] :
      PlannedOn(i, p) # {} => invalid[i][p] <= Cardinality(JudgedOn(i, p))

LoopIInv == MeiInv /\ LoopInv /\ PlannedPairsAreFresh

-----------------------------------------------------------------------------
(* The invariant *)

\* The campaign starts with nothing tried and nothing planned.
LEMMA LoopInvInit == LoopInit => LoopIInv
<1> SUFFICES ASSUME LoopInit
             PROVE  LoopIInv
  OBVIOUS
<1>1. MeiInv
  BY MeiInvInit DEF LoopInit
<1>2. LoopTypeOK
  BY <1>1 DEF LoopInit, LoopTypeOK, SchedTypeOK, SchedInit, MeiInv, Idle, Default, ConfigIds
<1>3. RejectedPairsAreDropped
  <2>1. Cardinality(Controlled) \in Nat
    BY SchedulerAssumption, FS_CardinalityType
  <2>2. \A i \in Items, p \in Pairs : invalid[i][p] = 0
    BY DEF LoopInit, MeiInit, Empty
  <2> QED BY <2>1, <2>2 DEF RejectedPairsAreDropped
<1>4. PlannedPairsAreFresh
  BY DEF LoopInit, PlannedPairsAreFresh
<1> QED BY <1>1, <1>2, <1>3, <1>4 DEF LoopIInv, LoopInv

\* A plan mutates admitted pairs and pairs that were never tried.
LEMMA PlanKeepsInv ==
  ASSUME LoopIInv, PlanRound
  PROVE  LoopIInv'
<1> USE DEF LoopIInv, LoopInv
<1>1. MeiInv'
  BY StutterKeepsInv DEF PlanRound
<1>2. LoopTypeOK'
  <2>1. plan' \in [Controlled -> [config : ConfigIds, mutation : Mutations \cup {NoMutation}]]
    BY PlanIsOffered DEF PlanRound, LoopTypeOK
  <2>2. round_id' \in Nat /\ pool' \subseteq ConfigIds
    BY DEF PlanRound, NextRound, LoopTypeOK, SchedTypeOK
  <2> QED BY <1>1, <2>1, <2>2 DEF PlanRound, LoopTypeOK, SchedTypeOK, MeiInv
<1>3. RejectedPairsAreDropped'
  BY DEF PlanRound, meiVars, RejectedPairsAreDropped
<1>4. PlannedPairsAreFresh'
  <2> SUFFICES ASSUME NEW i \in Items, NEW p \in Pairs, p \notin valid[i],
                      NEW n \in Controlled, plan'[n].mutation = <<i, p>>
               PROVE  invalid[i][p] <= Cardinality(JudgedOn(i, p)')
    BY DEF PlannedPairsAreFresh, PlannedOn, PlanRound, meiVars
  <2>1. <<i, p>> \in Offered
    BY PlanIsOffered DEF PlanRound, LoopTypeOK
  <2>2. invalid[i][p] = 0
    BY <2>1, OfferedIsFresh
  <2>3. JudgedOn(i, p)' = {}
    BY DEF JudgedOn, PlannedOn, PlanRound
  <2>4. Cardinality({}) = 0
    BY FS_EmptySet
  <2> QED BY <2>2, <2>3, <2>4
<1> QED BY <1>1, <1>2, <1>3, <1>4

\* A verdict counts against the pair the node ran, and no other.
LEMMA OthersKeepTheirCount ==
  ASSUME LoopIInv, NEW n \in Controlled, NEW admitted \in BOOLEAN, Judge(n, admitted),
         NEW i \in Items, NEW p \in Pairs, plan[n].mutation # <<i, p>>
  PROVE  invalid'[i][p] = invalid[i][p]
<1> DEFINE m == plan[n].mutation
<1>1. m \in Mutations \cup {NoMutation}
  BY DEF LoopIInv, LoopInv, LoopTypeOK, SchedTypeOK
<1>2. invalid \in [Items -> [Pairs -> Nat]]
  BY DEF LoopIInv, MeiInv, MeiTypeOK
<1>3. CASE m = NoMutation
  BY <1>3 DEF Judge, meiVars
<1>4. CASE m # NoMutation
  <2>1. m[1] \in Items /\ m[2] \in Pairs /\ (m[1] # i \/ m[2] # p)
    BY <1>1, <1>4 DEF Mutations
  <2>2. RecordAdmission(m[1], m[2], admitted)
    BY <1>4 DEF Judge
  <2>3. CASE admitted
    BY <2>2, <2>3 DEF RecordAdmission
  <2>4. CASE ~admitted
    BY <2>1, <2>2, <2>4, <1>2 DEF RecordAdmission
  <2> QED BY <2>3, <2>4
<1> QED BY <1>3, <1>4

\* No verdict withdraws an admission.
LEMMA AdmissionsStay ==
  ASSUME LoopIInv, NEW n \in Controlled, NEW admitted \in BOOLEAN, Judge(n, admitted),
         NEW i \in Items
  PROVE  valid[i] \subseteq valid'[i]
<1>1. plan[n].mutation \in Mutations \cup {NoMutation}
  BY DEF LoopIInv, LoopInv, LoopTypeOK, SchedTypeOK
<1>2. CASE plan[n].mutation = NoMutation
  BY <1>2 DEF Judge, meiVars
<1>3. CASE plan[n].mutation # NoMutation
  BY <1>1, <1>3, VerdictMonotone DEF Judge, Mutations, LoopIInv, MeiInv
<1> QED BY <1>2, <1>3

\* A judged node adds one rejection, and itself, to the pair it ran.
LEMMA RejectionIsCounted ==
  ASSUME LoopIInv, NEW n \in Controlled, NEW admitted \in BOOLEAN, Judge(n, admitted),
         NEW i \in Items, NEW p \in Pairs, p \notin valid'[i], PlannedOn(i, p) # {}
  PROVE  /\ invalid'[i][p] <= Cardinality(PlannedOn(i, p) \ (pending \ {n}))
         /\ Cardinality(PlannedOn(i, p) \ (pending \ {n})) <= Cardinality(Controlled)
<1> DEFINE now == PlannedOn(i, p) \ (pending \ {n})
           m == plan[n].mutation
<1>1. IsFiniteSet(Controlled) /\ now \subseteq Controlled /\ JudgedOn(i, p) \subseteq Controlled
  BY SchedulerAssumption DEF PlannedOn, JudgedOn
<1>2. /\ IsFiniteSet(now) /\ IsFiniteSet(JudgedOn(i, p))
      /\ Cardinality(now) <= Cardinality(Controlled)
      /\ Cardinality(now) \in Nat /\ Cardinality(JudgedOn(i, p)) \in Nat
  BY <1>1, FS_Subset, FS_CardinalityType
<1>3. n \in pending
  BY DEF Judge, Visit
<1>4. invalid \in [Items -> [Pairs -> Nat]] /\ invalid[i][p] \in Nat
  BY DEF LoopIInv, MeiInv, MeiTypeOK
<1>5. valid[i] \subseteq valid'[i]
  BY AdmissionsStay
<1>6. invalid[i][p] <= Cardinality(JudgedOn(i, p))
  BY <1>5 DEF LoopIInv, PlannedPairsAreFresh, Judge
<1>7. CASE m = <<i, p>>
  <2>1. now = JudgedOn(i, p) \cup {n} /\ n \notin JudgedOn(i, p)
    BY <1>3, <1>7 DEF JudgedOn, PlannedOn
  <2>2. Cardinality(now) = Cardinality(JudgedOn(i, p)) + 1
    BY <2>1, <1>2, FS_AddElement
  <2>3. RecordAdmission(i, p, admitted)
    BY <1>7 DEF Judge, NoMutation
  <2>4. invalid'[i][p] \in Nat /\ invalid'[i][p] <= invalid[i][p] + 1
    BY <2>3, <1>4 DEF RecordAdmission
  <2> QED BY <2>2, <2>4, <1>2, <1>6, <1>4
<1>8. CASE m # <<i, p>>
  <2>1. now = JudgedOn(i, p)
    BY <1>8 DEF JudgedOn, PlannedOn
  <2>2. invalid'[i][p] = invalid[i][p]
    BY <1>8, OthersKeepTheirCount
  <2> QED BY <2>1, <2>2, <1>2, <1>6
<1> QED BY <1>2, <1>7, <1>8

\* A verdict on a node keeps the invariant.
LEMMA JudgeKeepsInv ==
  ASSUME LoopIInv, NEW n \in Controlled, NEW admitted \in BOOLEAN, Judge(n, admitted)
  PROVE  LoopIInv'
<1> USE DEF LoopIInv, LoopInv
<1>1. MeiInv'
  <2>1. plan[n].mutation \in Mutations \cup {NoMutation}
    BY DEF LoopTypeOK, SchedTypeOK
  <2>2. CASE plan[n].mutation = NoMutation
    BY <2>2, StutterKeepsInv DEF Judge
  <2>3. CASE plan[n].mutation # NoMutation
    BY <2>1, <2>3, VerdictKeepsInv DEF Judge, Mutations
  <2> QED BY <2>2, <2>3
<1>2. LoopTypeOK'
  <2>1. ConfigOf(n) \in ConfigIds
    BY SchedulerAssumption DEF ConfigOf, ConfigIds, LoopTypeOK, SchedTypeOK
  <2>2. pool' \subseteq ConfigIds
    BY <2>1 DEF Judge, AdmitConfig, LoopTypeOK, SchedTypeOK
  <2>3. pending' \subseteq Controlled /\ stage' \in {"plan", "admission", "seeds"}
    BY DEF Judge, Visit, LoopTypeOK
  <2> QED BY <1>1, <2>2, <2>3 DEF Judge, LoopTypeOK, SchedTypeOK, MeiInv
<1>3. ASSUME NEW i \in Items, NEW p \in Pairs, p \notin valid'[i]
      PROVE  invalid'[i][p] <= Cardinality(Controlled)
  <2>1. CASE PlannedOn(i, p) # {}
    <3>1. /\ Cardinality(PlannedOn(i, p) \ (pending \ {n})) \in Nat
          /\ Cardinality(Controlled) \in Nat
      BY SchedulerAssumption, FS_Subset, FS_CardinalityType DEF PlannedOn
    <3>2. invalid'[i][p] \in Nat
      BY <1>1 DEF MeiInv, MeiTypeOK
    <3> QED BY <1>3, <2>1, <3>1, <3>2, RejectionIsCounted
  <2>2. CASE PlannedOn(i, p) = {}
    <3>1. plan[n].mutation # <<i, p>>
      BY <2>2 DEF PlannedOn
    <3>2. p \notin valid[i]
      BY <1>3, AdmissionsStay
    <3> QED BY <3>1, <3>2, OthersKeepTheirCount DEF RejectedPairsAreDropped
  <2> QED BY <2>1, <2>2
<1>4. RejectedPairsAreDropped'
  BY <1>3 DEF RejectedPairsAreDropped
<1>5. PlannedPairsAreFresh'
  <2> SUFFICES ASSUME NEW i \in Items, NEW p \in Pairs, p \notin valid'[i],
                      stage' = "admission", PlannedOn(i, p)' # {}
               PROVE  invalid'[i][p] <= Cardinality(JudgedOn(i, p)')
    BY DEF PlannedPairsAreFresh
  <2>1. PlannedOn(i, p)' = PlannedOn(i, p)
    BY DEF PlannedOn, Judge
  <2>2. pending' = pending \ {n}
    BY DEF Judge, Visit
  <2>3. JudgedOn(i, p)' = PlannedOn(i, p) \ (pending \ {n})
    BY <2>1, <2>2 DEF JudgedOn
  <2> QED BY <2>1, <2>3, RejectionIsCounted
<1> QED BY <1>1, <1>2, <1>4, <1>5

\* Running seeds leaves index and plan alone.
LEMMA ExecuteKeepsInv ==
  ASSUME LoopIInv, NEW n \in Controlled, Execute(n)
  PROVE  LoopIInv'
<1> USE DEF LoopIInv, LoopInv
<1>1. UNCHANGED <<meiVars, round_id, pool, plan>>
  BY DEF Execute, RunSeed
<1>2. /\ pending' \subseteq Controlled
      /\ stage' \in {"plan", "seeds"}
  BY DEF Execute, Visit, LoopTypeOK
<1>3. MeiInv'
  BY <1>1, StutterKeepsInv
<1>4. LoopTypeOK'
  BY <1>1, <1>2, <1>3 DEF LoopTypeOK, SchedTypeOK, MeiInv
<1>5. RejectedPairsAreDropped'
  BY <1>1 DEF RejectedPairsAreDropped, meiVars
<1>6. PlannedPairsAreFresh'
  BY <1>2 DEF PlannedPairsAreFresh
<1> QED BY <1>3, <1>4, <1>5, <1>6

\* A stutter keeps the invariant.
LEMMA StutterKeepsLoopInv ==
  ASSUME LoopIInv, UNCHANGED vars
  PROVE  LoopIInv'
<1> USE DEF LoopIInv, LoopInv
<1>1. UNCHANGED <<meiVars, round_id, pool, plan, stage, pending>>
  BY DEF vars, schedVars, loopVars
<1>2. MeiInv'
  BY <1>1, StutterKeepsInv
<1>3. LoopTypeOK'
  BY <1>1, <1>2 DEF LoopTypeOK, SchedTypeOK, MeiInv
<1>4. RejectedPairsAreDropped' /\ PlannedPairsAreFresh'
  BY <1>1 DEF RejectedPairsAreDropped, PlannedPairsAreFresh, PlannedOn, JudgedOn, meiVars
<1> QED BY <1>2, <1>3, <1>4

\* Every step keeps the invariant.
LEMMA LoopInvStep == LoopIInv /\ [LoopNext]_vars => LoopIInv'
<1> SUFFICES ASSUME LoopIInv, [LoopNext]_vars
             PROVE  LoopIInv'
  OBVIOUS
<1>1. CASE PlanRound
  BY <1>1, PlanKeepsInv
<1>2. ASSUME NEW n \in Controlled, NEW admitted \in BOOLEAN, Judge(n, admitted)
      PROVE  LoopIInv'
  BY <1>2, JudgeKeepsInv
<1>3. ASSUME NEW n \in Controlled, Execute(n)
      PROVE  LoopIInv'
  BY <1>3, ExecuteKeepsInv
<1>4. CASE UNCHANGED vars
  BY <1>4, StutterKeepsLoopInv
<1> QED BY <1>1, <1>2, <1>3, <1>4 DEF LoopNext

-----------------------------------------------------------------------------
(* The theorems *)

\* In every reachable state a pair that was never admitted has at most one
\* rejection per controlled node: "replay an ADMITTED (rule, value) pair"
\* (scheduler.py:163-168).
THEOREM RejectedPairsStayDropped == LoopSpec => []LoopInv
<1>1. LoopInit => LoopIInv
  BY LoopInvInit
<1>2. LoopIInv /\ [LoopNext]_vars => LoopIInv'
  BY LoopInvStep
<1>3. LoopIInv => LoopInv
  BY DEF LoopIInv
<1> QED BY <1>1, <1>2, <1>3, PTL DEF LoopSpec

\* "MEI state and observed behavior cannot drift apart" (mei.py:12-15): in
\* every reachable state a pair is explored exactly when a verdict on it is
\* on record.
THEOREM IndexIsJudged == LoopSpec => []MeiInv
<1>1. LoopInit => LoopIInv
  BY LoopInvInit
<1>2. LoopIInv /\ [LoopNext]_vars => LoopIInv'
  BY LoopInvStep
<1>3. LoopIInv => MeiInv
  BY DEF LoopIInv
<1> QED BY <1>1, <1>2, <1>3, PTL DEF LoopSpec

\* The classification of an item never moves back (mei.py:60-66).
THEOREM ClassificationIsForward == LoopSpec => StatusLadder
<1>1. ASSUME LoopIInv, [LoopNext]_vars
      PROVE  [\A i \in Items : Rank(Status(i)') >= Rank(Status(i))]_meiVars
  <2> SUFFICES ASSUME NEW i \in Items, ~UNCHANGED meiVars
               PROVE  Rank(Status(i)') >= Rank(Status(i))
    OBVIOUS
  <2>1. PICK n \in Controlled, admitted \in BOOLEAN : Judge(n, admitted)
    BY <1>1 DEF LoopNext, PlanRound, Execute, vars
  <2>2. plan[n].mutation \in Mutations /\ RecordAdmission(plan[n].mutation[1], plan[n].mutation[2], admitted)
    BY <1>1, <2>1 DEF Judge, LoopIInv, LoopInv, LoopTypeOK, SchedTypeOK
  <2> QED BY <1>1, <2>2, VerdictIsForward DEF LoopIInv, Mutations
<1>2. LoopInit => LoopIInv
  BY LoopInvInit
<1>3. LoopIInv /\ [LoopNext]_vars => LoopIInv'
  BY LoopInvStep
<1>4. LoopIInv /\ [LoopNext]_vars
        => [\A i \in Items : Rank(Status(i)') >= Rank(Status(i))]_meiVars
  BY <1>1
<1> QED BY <1>2, <1>3, <1>4, PTL DEF LoopSpec, StatusLadder

-----------------------------------------------------------------------------
(* Shared executions *)

\* What the queue is sorted by: each execution is counted twice, once by
\* pick_seed and once by record_seed_execution.
CountsAreExecutions ==
  /\ DOMAIN counts = DOMAIN executed
  /\ \A h \in DOMAIN executed :
       /\ executed[h] \in [Seeds -> Nat]
       /\ counts[h] \in [Seeds -> Nat]
       /\ \A s \in Seeds : counts[h][s] = 2 * executed[h][s]

\* What is read of a placement, executed yet or not.
LEMMA CountIsSubmitted ==
  ASSUME CountsAreExecutions, NEW h, NEW s \in Seeds
  PROVE  Submitted(h, s) \in Nat /\ Count(h, s) = 2 * Submitted(h, s)
BY DEF CountsAreExecutions, Submitted, Count

\* pick_seed decides: of two seeds one is sorted before the other.
LEMMA PickIsUnique ==
  ASSUME CountsAreExecutions, NEW n \in Controlled,
         NEW s \in Picked(n), NEW t \in Picked(n)
  PROVE  s = t
<1>1. s \in Seeds /\ t \in Seeds /\ PreconditionOk(s, n) /\ PreconditionOk(t, n)
  BY DEF Picked
<1>2. t \notin Before(Placement, s) /\ s \notin Before(Placement, t)
  BY <1>1 DEF Picked
<1>3. Count(Placement, s) \in Nat /\ Count(Placement, t) \in Nat
  BY <1>1, CountIsSubmitted
<1>4. /\ SeedRank[s] \in Nat /\ SeedRank[t] \in Nat
      /\ SeedRank[s] = SeedRank[t] => s = t
  BY <1>1, SchedulerAssumption
<1> QED BY <1>1, <1>2, <1>3, <1>4 DEF Before

\* A seed that is picked was executed at most as often as any seed that is
\* never blocked, or that one would have come first.
LEMMA PickIsLeastTested ==
  ASSUME CountsAreExecutions, NEW n \in Controlled,
         NEW s \in Picked(n), NEW t \in Unconditional
  PROVE  Submitted(Placement, s) <= Submitted(Placement, t)
<1>1. s \in Seeds /\ t \in Seeds
  BY SchedulerAssumption DEF Picked
<1>2. PreconditionOk(t, n)
  BY DEF PreconditionOk
<1>3. t \notin Before(Placement, s)
  BY <1>2 DEF Picked
<1>4. ~(Count(Placement, t) < Count(Placement, s))
  BY <1>1, <1>3 DEF Before
<1> QED BY <1>1, <1>4, CountIsSubmitted

\* Executed seeds and their counts after a seed was run on one node.
LEMMA ExecuteAddsOne ==
  ASSUME CountsAreExecutions, NEW n \in Controlled, Execute(n),
         NEW s \in Picked(n)
  PROVE  /\ DOMAIN executed' = DOMAIN executed \cup {Placement}
         /\ DOMAIN counts' = DOMAIN counts \cup {Placement}
         /\ \A h \in DOMAIN executed \ {Placement} :
              executed'[h] = executed[h] /\ counts'[h] = counts[h]
         /\ executed'[Placement] \in [Seeds -> Nat]
         /\ counts'[Placement] \in [Seeds -> Nat]
         /\ \A t \in Seeds :
              /\ executed'[Placement][t] = Submitted(Placement, t) + (IF t = s THEN 1 ELSE 0)
              /\ counts'[Placement][t] = Count(Placement, t) + (IF t = s THEN 2 ELSE 0)
<1>1. Picked(n) = {s}
  BY PickIsUnique
<1>2. Bump(Placement, s, 2)
  BY <1>1 DEF Execute, RunSeed
<1>3. executed' =
        [h \in DOMAIN executed \cup {Placement} |->
           IF h = Placement
           THEN [t \in Seeds |-> Submitted(h, t) + (IF t \in Picked(n) THEN 1 ELSE 0)]
           ELSE executed[h]]
  BY <1>1 DEF Execute
<1>4. counts' =
        [g \in DOMAIN counts \cup {Placement} |->
           IF g = Placement
           THEN [t \in Seeds |-> Count(Placement, t) + (IF t = s THEN 2 ELSE 0)]
           ELSE counts[g]]
  BY <1>2 DEF Bump
<1>5. \A t \in Seeds : Submitted(Placement, t) \in Nat /\ Count(Placement, t) \in Nat
  BY CountIsSubmitted
<1>6. DOMAIN counts = DOMAIN executed
  BY DEF CountsAreExecutions
<1>7. executed'[Placement] = [t \in Seeds |-> Submitted(Placement, t) + (IF t = s THEN 1 ELSE 0)]
  BY <1>1, <1>3
<1>8. counts'[Placement] = [t \in Seeds |-> Count(Placement, t) + (IF t = s THEN 2 ELSE 0)]
  BY <1>4
<1> QED BY <1>3, <1>4, <1>5, <1>6, <1>7, <1>8

LEMMA ExecuteKeepsCounts ==
  ASSUME CountsAreExecutions, NEW n \in Controlled, Execute(n)
  PROVE  CountsAreExecutions'
<1>1. CASE Picked(n) = {}
  BY <1>1 DEF Execute, RunSeed, CountsAreExecutions
<1>2. CASE Picked(n) # {}
  <2>1. PICK s \in Picked(n) : TRUE
    BY <1>2
  <2>2. ASSUME NEW h \in DOMAIN executed', h # Placement
        PROVE  /\ executed'[h] \in [Seeds -> Nat] /\ counts'[h] \in [Seeds -> Nat]
               /\ \A t \in Seeds : counts'[h][t] = 2 * executed'[h][t]
    BY <2>1, <2>2, ExecuteAddsOne DEF CountsAreExecutions
  <2>3. \A t \in Seeds : counts'[Placement][t] = 2 * executed'[Placement][t]
    BY <2>1, ExecuteAddsOne, CountIsSubmitted
  <2> QED BY <2>1, <2>2, <2>3, ExecuteAddsOne DEF CountsAreExecutions
<1> QED BY <1>1, <1>2

\* The seed that is run had no more executions than the others, and one more
\* keeps it within one of them.
LEMMA ExecuteKeepsBalance ==
  ASSUME CountsAreExecutions, BalancedSeeds, NEW n \in Controlled, Execute(n)
  PROVE  BalancedSeeds'
<1>1. CASE Picked(n) = {}
  BY <1>1 DEF Execute, BalancedSeeds
<1>2. CASE Picked(n) # {}
  <2>1. PICK s \in Picked(n) : TRUE
    BY <1>2
  <2>2. SUFFICES ASSUME NEW h \in DOMAIN executed', NEW t \in Unconditional, NEW u \in Unconditional
                 PROVE  executed'[h][t] <= executed'[h][u] + 1
    BY DEF BalancedSeeds
  <2>3. t \in Seeds /\ u \in Seeds
    BY SchedulerAssumption
  <2>4. CASE h # Placement
    BY <2>1, <2>4, ExecuteAddsOne DEF BalancedSeeds
  <2>5. CASE h = Placement
    <3>1. Submitted(Placement, t) <= Submitted(Placement, u) + 1
      BY <2>3, CountIsSubmitted DEF Submitted, BalancedSeeds
    <3>2. t = s => Submitted(Placement, t) <= Submitted(Placement, u)
      BY <2>1, PickIsLeastTested
    <3>3. Submitted(Placement, t) \in Nat /\ Submitted(Placement, u) \in Nat
      BY <2>3, CountIsSubmitted
    <3>4. /\ executed'[h][t] = Submitted(Placement, t) + (IF t = s THEN 1 ELSE 0)
          /\ executed'[h][u] = Submitted(Placement, u) + (IF u = s THEN 1 ELSE 0)
      BY <2>1, <2>3, <2>5, ExecuteAddsOne
    <3> QED BY <3>1, <3>2, <3>3, <3>4
  <2> QED BY <2>4, <2>5
<1> QED BY <1>1, <1>2

LEMMA CountsStep == CountsAreExecutions /\ [LoopNext]_vars => CountsAreExecutions'
<1> SUFFICES ASSUME CountsAreExecutions, [LoopNext]_vars PROVE CountsAreExecutions'
  OBVIOUS
<1>1. CASE UNCHANGED <<counts, executed>>
  BY <1>1 DEF CountsAreExecutions
<1>2. CASE \E n \in Controlled : Execute(n)
  BY <1>2, ExecuteKeepsCounts
<1> QED BY <1>1, <1>2 DEF LoopNext, PlanRound, NextRound, Judge, vars, schedVars, loopVars

\* "the least-tested seed whose preconditions hold is chosen"
\* (scheduler.py:14-16): two seeds that are never blocked are at most one
\* execution apart on any placement, whatever other seeds are blocked and
\* however many seeds a scan looks at.
THEOREM ExecutionsAreShared == LoopSpec => []BalancedSeeds
<1>1. LoopInit => CountsAreExecutions /\ BalancedSeeds
  BY DEF LoopInit, SchedInit, CountsAreExecutions, BalancedSeeds
<1>2. CountsAreExecutions /\ BalancedSeeds /\ [LoopNext]_vars
        => CountsAreExecutions' /\ BalancedSeeds'
  <2> SUFFICES ASSUME CountsAreExecutions, BalancedSeeds, [LoopNext]_vars
               PROVE  BalancedSeeds'
    BY CountsStep
  <2>1. CASE UNCHANGED executed
    BY <2>1 DEF BalancedSeeds
  <2>2. CASE \E n \in Controlled : Execute(n)
    BY <2>2, ExecuteKeepsBalance
  <2> QED BY <2>1, <2>2 DEF LoopNext, PlanRound, Judge, vars, loopVars
<1> QED BY <1>1, <1>2, PTL DEF LoopSpec

-----------------------------------------------------------------------------
(* A seed for every node *)

\* A seed of the order comes after all those before it.
LEMMA BeforeIsNested ==
  ASSUME CountsAreExecutions, NEW s \in Seeds, NEW t \in Before(Placement, s)
  PROVE  /\ t \in Seeds /\ t \notin Before(Placement, t)
         /\ Before(Placement, t) \subseteq Before(Placement, s)
<1>1. \A u \in Seeds : Count(Placement, u) \in Nat /\ SeedRank[u] \in Nat
  BY CountIsSubmitted, SchedulerAssumption
<1>2. t \in Seeds
  BY DEF Before
<1>3. t \notin Before(Placement, t)
  BY <1>1, <1>2 DEF Before
<1>4. ASSUME NEW u \in Before(Placement, t) PROVE u \in Before(Placement, s)
  <2>1. /\ u \in Seeds
        /\ \/ Count(Placement, u) < Count(Placement, t)
           \/ Count(Placement, u) = Count(Placement, t) /\ SeedRank[u] < SeedRank[t]
    BY <1>4 DEF Before
  <2>2. \/ Count(Placement, t) < Count(Placement, s)
        \/ Count(Placement, t) = Count(Placement, s) /\ SeedRank[t] < SeedRank[s]
    BY DEF Before
  <2>3. \/ Count(Placement, u) < Count(Placement, s)
        \/ Count(Placement, u) = Count(Placement, s) /\ SeedRank[u] < SeedRank[s]
    BY <1>1, <1>2, <2>1, <2>2
  <2> QED BY <2>1, <2>3 DEF Before
<1> QED BY <1>2, <1>3, <1>4

\* Of the seeds that may run on a node one comes first: the seeds before it are
\* blocked.  The sets of seeds that come before one of them have a smallest
\* element, because they are finite.
LEMMA OneComesFirst ==
  ASSUME CountsAreExecutions, NEW n \in Controlled,
         NEW r \in Seeds, PreconditionOk(r, n)
  PROVE  \E s \in Seeds : /\ PreconditionOk(s, n)
                          /\ \A t \in Before(Placement, s) : ~PreconditionOk(t, n)
<1> DEFINE Runnable == {s \in Seeds : PreconditionOk(s, n)}
           Heads == {Before(Placement, s) : s \in Runnable}
<1>1. \A s \in Seeds : Before(Placement, s) \subseteq Seeds
  BY DEF Before
<1>2. Heads \subseteq SUBSET Seeds /\ Heads # {}
  BY <1>1
<1>3. IsWellFoundedOn(StrictSubsetOrdering(Seeds), SUBSET Seeds)
  BY FS_StrictSubsetOrderingWellFounded, FS_FiniteSubsetsOfFinite, SchedulerAssumption
<1> HIDE DEF Heads
<1>4. PICK head \in Heads : \A other \in Heads : <<other, head>> \notin StrictSubsetOrdering(Seeds)
  BY <1>2, <1>3, WFMin
<1>5. PICK s \in Runnable : head = Before(Placement, s)
  BY DEF Heads
<1>6. ASSUME NEW t \in Before(Placement, s), PreconditionOk(t, n)
      PROVE  FALSE
  <2>1. /\ t \in Seeds /\ t \notin Before(Placement, t)
        /\ Before(Placement, t) \subseteq head
    BY <1>5, <1>6, BeforeIsNested
  <2>2. Before(Placement, t) # head
    BY <1>5, <1>6, <2>1
  <2>3. <<Before(Placement, t), head>> \in StrictSubsetOrdering(Seeds)
    BY <1>1, <1>5, <2>1, <2>2 DEF StrictSubsetOrdering
  <2>4. Before(Placement, t) \in Heads
    BY <1>6, <2>1 DEF Heads
  <2> QED BY <1>4, <2>3, <2>4
<1> QED BY <1>5, <1>6

\* The blocked seeds do not fill the scan.
LEMMA ScanIsLongEnough ==
  ASSUME CountsAreExecutions, NEW n \in Controlled, Unconditional # {}
  PROVE  Picked(n) # {}
<1>1. PICK r \in Unconditional : r \in Seeds
  BY SchedulerAssumption
<1>2. PICK s \in Seeds : /\ PreconditionOk(s, n)
                        /\ \A t \in Before(Placement, s) : ~PreconditionOk(t, n)
  BY <1>1, OneComesFirst DEF PreconditionOk
<1> DEFINE blocked == Seeds \ Unconditional
<1>3. Before(Placement, s) \in SUBSET blocked
  BY <1>2 DEF Before, PreconditionOk
<1>4. IsFiniteSet(blocked)
  BY SchedulerAssumption, FS_Subset
<1>5. /\ Cardinality(Before(Placement, s)) <= Cardinality(blocked)
      /\ Cardinality(Before(Placement, s)) \in Nat /\ Cardinality(blocked) \in Nat
  BY <1>3, <1>4, FS_Subset, FS_CardinalityType
<1>6. Cardinality(Before(Placement, s)) < MaxScan
  BY <1>5, SchedulerAssumption
<1> QED BY <1>2, <1>6 DEF Picked

\* "max_scan=8 starvation bound" (scheduler.py:192): with fewer seeds that can be
\* blocked than a scan looks at, each controlled node of each round has a seed
\* to run, however often the others were run before.
THEOREM NoNodeStarves == LoopSpec => []EveryNodeIsServed
<1>1. LoopInit => CountsAreExecutions /\ LoopIInv
  BY LoopInvInit DEF LoopInit, SchedInit, CountsAreExecutions
<1>2. CountsAreExecutions /\ LoopIInv /\ [LoopNext]_vars
        => CountsAreExecutions' /\ LoopIInv'
  BY LoopInvStep, CountsStep
<1>3. CountsAreExecutions /\ LoopIInv => EveryNodeIsServed
  BY ScanIsLongEnough DEF EveryNodeIsServed, LoopIInv, LoopInv, LoopTypeOK
<1> QED BY <1>1, <1>2, <1>3, PTL DEF LoopSpec
=============================================================================
