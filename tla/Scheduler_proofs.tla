-------------------------- MODULE Scheduler_proofs --------------------------
(***************************************************************************)
(* What the loop and the campaign rest on, for every set of items and      *)
(* pairs, every threshold and every set of nodes: a verdict is recorded in *)
(* the three tables of the index alike and moves the classification of an  *)
(* item forward or not at all; a plan mutates admitted pairs and pairs     *)
(* that were never tried.                                                  *)
(***************************************************************************)
EXTENDS Scheduler, FiniteSetTheorems, TLAPS

-----------------------------------------------------------------------------
(* One verdict *)

\* A verdict keeps every variable in its type.
LEMMA VerdictType ==
  ASSUME MeiTypeOK, NEW i \in Items, NEW p \in Pairs, NEW admitted \in BOOLEAN,
         RecordAdmission(i, p, admitted)
  PROVE  MeiTypeOK'
<1>1. explored' \in [Items -> SUBSET Pairs]
  BY DEF MeiTypeOK, RecordAdmission
<1>2. CASE admitted
  BY <1>1, <1>2 DEF MeiTypeOK, RecordAdmission
<1>3. CASE ~admitted
  <2>1. invalid[i] \in [Pairs -> Nat] /\ invalid[i][p] + 1 \in Nat
    BY DEF MeiTypeOK
  <2>2. invalid' \in [Items -> [Pairs -> Nat]]
    BY <2>1, <1>3 DEF MeiTypeOK, RecordAdmission
  <2> QED BY <1>1, <1>3, <2>2 DEF MeiTypeOK, RecordAdmission
<1> QED BY <1>2, <1>3

\* A verdict enters explored and exactly one of valid and invalid.
LEMMA VerdictExplored ==
  ASSUME MeiTypeOK, ExploredIsJudged,
         NEW i \in Items, NEW p \in Pairs, NEW admitted \in BOOLEAN,
         RecordAdmission(i, p, admitted)
  PROVE  ExploredIsJudged'
<1>1. SUFFICES ASSUME NEW j \in Items
               PROVE  explored'[j] = valid'[j] \cup RejectedKeys(j)'
  BY DEF ExploredIsJudged
<1>2. explored[j] = valid[j] \cup RejectedKeys(j)
  BY DEF ExploredIsJudged
<1>3. CASE admitted
  <2>1. RejectedKeys(j)' = RejectedKeys(j)
    BY <1>3 DEF RecordAdmission, RejectedKeys
  <2>2. CASE j = i
    BY <2>1, <2>2, <1>2, <1>3 DEF RecordAdmission, MeiTypeOK
  <2>3. CASE j # i
    BY <2>1, <2>3, <1>2, <1>3 DEF RecordAdmission, MeiTypeOK
  <2> QED BY <2>2, <2>3
<1>4. CASE ~admitted
  <2>1. valid' = valid
    BY <1>4 DEF RecordAdmission
  <2>2. CASE j = i
    <3>1. RejectedKeys(j)' = RejectedKeys(j) \cup {p}
      BY <2>2, <1>4 DEF RecordAdmission, RejectedKeys, MeiTypeOK
    <3>2. explored'[j] = explored[j] \cup {p}
      BY <2>2 DEF RecordAdmission, MeiTypeOK
    <3> QED BY <3>1, <3>2, <2>1, <1>2
  <2>3. CASE j # i
    <3>1. RejectedKeys(j)' = RejectedKeys(j)
      BY <2>3, <1>4 DEF RecordAdmission, RejectedKeys, MeiTypeOK
    <3>2. explored'[j] = explored[j]
      BY <2>3 DEF RecordAdmission, MeiTypeOK
    <3> QED BY <3>1, <3>2, <2>1, <1>2
  <2> QED BY <2>2, <2>3
<1> QED BY <1>1, <1>3, <1>4

\* A verdict takes nothing back: no admission, and no rejected pair.
LEMMA VerdictMonotone ==
  ASSUME MeiTypeOK, NEW i \in Items, NEW p \in Pairs, NEW admitted \in BOOLEAN,
         RecordAdmission(i, p, admitted), NEW j \in Items
  PROVE  /\ valid[j] \subseteq valid'[j]
         /\ RejectedKeys(j) \subseteq RejectedKeys(j)'
<1>1. valid[j] \subseteq valid'[j]
  BY DEF MeiTypeOK, RecordAdmission
<1>2. ASSUME NEW q \in Pairs, invalid[j][q] > 0
      PROVE  invalid'[j][q] > 0
  <2>1. invalid[j][q] \in Nat
    BY DEF MeiTypeOK
  <2>2. CASE admitted
    BY <1>2, <2>2 DEF RecordAdmission
  <2>3. CASE ~admitted
    BY <1>2, <2>1, <2>3 DEF RecordAdmission, MeiTypeOK
  <2> QED BY <2>2, <2>3
<1> QED BY <1>1, <1>2 DEF RejectedKeys

-----------------------------------------------------------------------------
(* The classification *)

\* The number of distinct rejected pairs is a number, and grows with the set.
LEMMA RejectedCountGrows ==
  ASSUME NEW j \in Items, RejectedKeys(j) \subseteq RejectedKeys(j)'
  PROVE  /\ RejectedCount(j) \in Nat
         /\ RejectedCount(j)' \in Nat
         /\ RejectedCount(j) <= RejectedCount(j)'
<1>1. RejectedKeys(j) \subseteq Pairs /\ RejectedKeys(j)' \subseteq Pairs
  BY DEF RejectedKeys
<1>2. IsFiniteSet(RejectedKeys(j)) /\ IsFiniteSet(RejectedKeys(j)')
  BY <1>1, MeiAssumption, FS_Subset
<1>3. /\ Cardinality(RejectedKeys(j)) \in Nat
      /\ Cardinality(RejectedKeys(j)') \in Nat
  BY <1>2, FS_CardinalityType
<1>4. Cardinality(RejectedKeys(j)) <= Cardinality(RejectedKeys(j)')
  BY <1>2, FS_Subset
<1> QED BY <1>3, <1>4 DEF RejectedCount

\* More admissions and more rejected pairs never lower the classification.
LEMMA RankGrows ==
  ASSUME NEW j \in Items,
         valid[j] \subseteq valid'[j],
         RejectedKeys(j) \subseteq RejectedKeys(j)'
  PROVE  Rank(Status(j)') >= Rank(Status(j))
<1>1. /\ RejectedCount(j) \in Nat
      /\ RejectedCount(j)' \in Nat
      /\ RejectedCount(j) <= RejectedCount(j)'
  BY RejectedCountGrows
<1>2. CONSISTENT_THRESHOLD \in Nat
  BY MeiAssumption
<1>3. CASE valid[j] # {}
  <2>1. Status(j) = "inconsistent" /\ Status(j)' = "inconsistent"
    BY <1>3 DEF Status
  <2> QED BY <2>1 DEF Rank
<1>4. CASE valid[j] = {} /\ RejectedCount(j) >= CONSISTENT_THRESHOLD
  <2>1. RejectedCount(j)' >= CONSISTENT_THRESHOLD
    BY <1>1, <1>2, <1>4
  <2>2. Status(j) = "consistent"
    BY <1>4 DEF Status
  <2>3. Status(j)' \in {"inconsistent", "consistent"}
    BY <2>1 DEF Status
  <2> QED BY <2>2, <2>3 DEF Rank
<1>5. CASE valid[j] = {} /\ ~(RejectedCount(j) >= CONSISTENT_THRESHOLD)
  <2>1. Status(j) = "unexplored"
    BY <1>5 DEF Status
  <2>2. Status(j)' \in {"inconsistent", "consistent", "unexplored"}
    BY DEF Status
  <2> QED BY <2>1, <2>2 DEF Rank
<1> QED BY <1>3, <1>4, <1>5

-----------------------------------------------------------------------------
(* The index *)

\* The index starts out empty and consistent.
LEMMA MeiInvInit == MeiInit => MeiInv
BY DEF MeiInit, MeiInv, MeiTypeOK, ExploredIsJudged, RejectedKeys, Empty

\* A verdict keeps the index consistent ...
LEMMA VerdictKeepsInv ==
  ASSUME MeiInv, NEW i \in Items, NEW p \in Pairs, NEW admitted \in BOOLEAN,
         RecordAdmission(i, p, admitted)
  PROVE  MeiInv'
BY VerdictType, VerdictExplored DEF MeiInv

\* ... and moves no classification back.
LEMMA VerdictIsForward ==
  ASSUME MeiInv, NEW i \in Items, NEW p \in Pairs, NEW admitted \in BOOLEAN,
         RecordAdmission(i, p, admitted), NEW j \in Items
  PROVE  Rank(Status(j)') >= Rank(Status(j))
BY VerdictMonotone, RankGrows DEF MeiInv

\* What leaves the three tables alone keeps them consistent.
LEMMA StutterKeepsInv ==
  ASSUME MeiInv, UNCHANGED meiVars
  PROVE  MeiInv'
BY DEF meiVars, MeiInv, MeiTypeOK, ExploredIsJudged, RejectedKeys

-----------------------------------------------------------------------------
(* Planning *)

\* What a plan may mutate: nothing, an untried pair, or an admitted one.
Offered == {NoMutation} \cup UNION {Untried(i) \cup Admitted(i) : i \in Items}

\* An item the scheduler picks is an item.
LEMMA PickedItems == LeastExplored \subseteq Items /\ FuzzingItems \subseteq Items
BY DEF LeastExplored, FuzzingItems, Inconsistent

\* Both phases choose from what is offered.
LEMMA ChoicesAreOffered ==
  ASSUME NEW r, NEW n, NEW c \in PlacementChoices(r, n)
  PROVE  c.mutation \in Offered
<1>1. CASE Exploring(r, n)
  <2>1. c.mutation \in ExplorationMutations
    BY <1>1 DEF PlacementChoices
  <2> QED BY <2>1, PickedItems DEF ExplorationMutations, Offered
<1>2. CASE ~Exploring(r, n)
  <2>1. c.mutation \in FuzzingMutations
    BY <1>2 DEF PlacementChoices
  <2>2. PICK i \in FuzzingItems : c.mutation \in Untried(i) \cup Replays(i)
    BY <2>1 DEF FuzzingMutations
  <2>3. Replays(i) \subseteq {NoMutation} \cup Admitted(i)
    BY DEF Replays
  <2> QED BY <2>2, <2>3, PickedItems DEF Offered
<1> QED BY <1>1, <1>2

\* What is offered is no mutation or one of a known pair.
LEMMA OfferedType ==
  ASSUME MeiTypeOK
  PROVE  Offered \subseteq Mutations \cup {NoMutation}
<1>1. ASSUME NEW i \in Items, NEW p \in CanOffer(i) \cup valid[i]
      PROVE  p \in Pairs
  <2>1. UNION Draws[i] \subseteq Pairs
    BY SchedulerAssumption
  <2> QED BY <1>1, <2>1 DEF CanOffer, MeiTypeOK
<1> QED BY <1>1 DEF Offered, Untried, Admitted, Mutations

\* A pair that is offered and not admitted was never rejected.
LEMMA OfferedIsFresh ==
  ASSUME MeiInv, NEW i \in Items, NEW p \in Pairs, <<i, p>> \in Offered, p \notin valid[i]
  PROVE  invalid[i][p] = 0
<1>1. PICK j \in Items : <<i, p>> \in Untried(j) \cup Admitted(j)
  BY DEF Offered, NoMutation
<1>2. <<i, p>> \in Untried(i)
  BY <1>1 DEF Untried, Admitted
<1>3. p \notin explored[i]
  BY <1>2 DEF Untried, CanOffer
<1>4. ~(invalid[i][p] > 0)
  BY <1>3 DEF MeiInv, ExploredIsJudged, RejectedKeys
<1> QED BY <1>4 DEF MeiInv, MeiTypeOK

\* The plan of a round is made of offered mutations.
LEMMA PlanIsOffered ==
  ASSUME SchedTypeOK, MeiTypeOK, NextRound
  PROVE  /\ plan' \in [Controlled -> [config : ConfigIds,
                                      mutation : Mutations \cup {NoMutation}]]
         /\ \A n \in Controlled : plan'[n].mutation \in Offered
<1>1. PICK chosen \in [Controlled -> UNION {PlacementChoices(round_id', n) : n \in Controlled}] :
        /\ \A n \in Controlled : chosen[n] \in PlacementChoices(round_id', n)
        /\ plan' = chosen
  BY DEF NextRound
<1>2. ASSUME NEW n \in Controlled
      PROVE  /\ plan'[n].mutation \in Offered
             /\ plan'[n] \in [config : ConfigIds, mutation : Mutations \cup {NoMutation}]
  <2>1. plan'[n] \in PlacementChoices(round_id', n)
    BY <1>1
  <2>2. plan'[n].mutation \in Offered
    BY <2>1, ChoicesAreOffered
  <2>3. plan'[n].mutation \in Mutations \cup {NoMutation}
    BY <2>2, OfferedType
  <2>4. Default \in ConfigIds /\ pool \subseteq ConfigIds
    BY DEF Default, ConfigIds, SchedTypeOK
  <2>5. plan'[n] \in [config : ConfigIds, mutation : Mutations \cup {NoMutation}]
    BY <2>1, <2>3, <2>4 DEF PlacementChoices
  <2> QED BY <2>2, <2>5
<1> QED BY <1>1, <1>2
=============================================================================
