----------------------------- MODULE Scheduler -----------------------------
(***************************************************************************)
(* The two-level scheduler of bcfuzzer/scheduler.py.  It reads the index   *)
(* of Mei and proposes, per round, one configuration per node and then one *)
(* workload seed per controlled node.  The random generator is a           *)
(* nondeterministic choice over the values it can return.                  *)
(*                                                                         *)
(* Nodes outside Controlled always play the normal role on the default     *)
(* configuration, so a plan is a function on the controlled nodes only.    *)
(***************************************************************************)
EXTENDS Mei

CONSTANTS
  Controlled,          \* indices of the controlled nodes
  First,               \* controlled[0], the exploration node
  Draws,               \* item -> for every rule, and every dangerous_legal
                       \*   value, the set of pairs generate_value can return
  PathRank,            \* item -> its position in the order of item paths
  exploration_rounds,  \* rounds in which First explores
  Seeds,               \* the seeds of corpus_t and corpus_m
  SeedRank,            \* seed -> its position in the order of seed ids
  Unconditional,       \* seeds without a config precondition
  Requires,            \* seed -> mutations that satisfy its precondition
  MaxScan              \* seeds pick_seed looks at (8 in the code)

ASSUME SchedulerAssumption ==
  /\ Controlled \subseteq Nat
  /\ IsFiniteSet(Controlled)
  /\ First \in Controlled
  /\ \A i \in Items : Draws[i] \subseteq SUBSET Pairs
  /\ \A i, j \in Items : PathRank[i] \in Nat /\ (PathRank[i] = PathRank[j] => i = j)
  /\ \A s, t \in Seeds : SeedRank[s] \in Nat /\ (SeedRank[s] = SeedRank[t] => s = t)
  /\ exploration_rounds \in Nat
  /\ IsFiniteSet(Seeds) /\ Unconditional \subseteq Seeds
  /\ Cardinality(Seeds \ Unconditional) < MaxScan
  /\ MaxScan \in Nat \ {0}

VARIABLES
  round_id,  \* id of the last planned round
  pool,      \* ids of the configurations that passed admission
  counts,    \* placement -> seed -> executions counted
  plan       \* controlled node -> [config, mutation] of the current round

schedVars == <<round_id, pool, counts, plan>>

\* The id f"round{r}-node{n}"; rounds count from 1.
Default == <<0, 0>>
ConfigIds == Nat \X Nat

Mutations == Items \X Pairs
NoMutation == <<>>

Idle == [n \in Controlled |-> [config |-> Default, mutation |-> NoMutation]]

SchedTypeOK ==
  /\ round_id \in Nat
  /\ pool \subseteq ConfigIds
  /\ plan \in [Controlled -> [config : ConfigIds,
                              mutation : Mutations \cup {NoMutation}]]

SchedInit ==
  /\ round_id = 0
  /\ pool = {Default}
  /\ counts = <<>>
  /\ plan = Idle

-----------------------------------------------------------------------------
(* Choosing an item and a mutation *)

\* _unexplored_candidates draws one value per rule; the pair finally chosen
\* is any pair a rule can draw that was never tried ...
CanOffer(i) == (UNION Draws[i]) \ explored[i]

\* ... and the list comes back empty when every rule can draw a tried one.
CanFindNone(i) == \A D \in Draws[i] : D \cap explored[i] # {}

\* The key of _pick_exploration_item: (tried pairs, path).
LessExplored(i, j) ==
  LET a == Cardinality(explored[i])
      b == Cardinality(explored[j])
  IN a < b \/ (a = b /\ PathRank[i] < PathRank[j])

\* The item that comes first, as a set of one.
LeastExplored == {i \in Items : \A j \in Items \ {i} : LessExplored(i, j)}

Inconsistent == {i \in Items : Status(i) = "inconsistent"}

\* One in four picks, or all of them when nothing is inconsistent, goes to
\* the least-explored item.
FuzzingItems == LeastExplored \cup Inconsistent

Untried(i) == {<<i, p>> : p \in CanOffer(i)}

\* Defect: the replay takes any tried pair instead of an admitted one.
AdmittedOrNot(i) == {<<i, p>> : p \in explored[i]}

Admitted(i) == {<<i, p>> : p \in valid[i]}

ExplorationMutations ==
  UNION {Untried(i) \cup (IF CanFindNone(i) THEN {NoMutation} ELSE {}) : i \in LeastExplored}

\* With probability 1/(|explored|+1) an untried pair, if the draw finds one;
\* otherwise the replay of an admitted pair, if there is one.
Replays(i) ==
  IF explored[i] = {} /\ ~CanFindNone(i) THEN {}
  ELSE IF valid[i] = {} THEN {NoMutation}
  ELSE Admitted(i)

FuzzingMutations == UNION {Untried(i) \cup Replays(i) : i \in FuzzingItems}

-----------------------------------------------------------------------------
(* next_round *)

Exploring(r, n) == n = First /\ r <= exploration_rounds

PlacementChoices(r, n) ==
  IF Exploring(r, n)
  THEN [config : {Default}, mutation : ExplorationMutations]
  ELSE [config : pool, mutation : FuzzingMutations]

NextRound ==
  /\ round_id' = round_id + 1
  /\ \E chosen \in [Controlled -> UNION {PlacementChoices(round_id', n) : n \in Controlled}] :
       /\ \A n \in Controlled : chosen[n] \in PlacementChoices(round_id', n)
       /\ plan' = chosen
  /\ UNCHANGED <<pool, counts>>

AdmitConfig(id) == pool' = pool \cup {id}

\* The id the campaign gives the configuration node n ran in this round.
ConfigOf(n) == <<round_id, n>>

-----------------------------------------------------------------------------
(* Workload placement *)

\* placement_hash reads the configuration ids only.
Placement == [n \in Controlled |-> plan[n].config]

Count(h, s) == IF h \in DOMAIN counts THEN counts[h][s] ELSE 0

Bump(h, s, by) ==
  counts' = [g \in DOMAIN counts \cup {h} |->
               IF g = h THEN [t \in Seeds |-> Count(h, t) + (IF t = s THEN by ELSE 0)]
               ELSE counts[g]]

PreconditionOk(s, n) == s \in Unconditional \/ plan[n].mutation \in Requires[s]

\* Defect: the scan follows the seed ids alone.
RankedBefore(h, s) == {t \in Seeds : SeedRank[t] < SeedRank[s]}

\* The seeds sorted before s: fewer executions, or as many and a smaller id.
Before(h, s) ==
  {t \in Seeds : \/ Count(h, t) < Count(h, s)
                 \/ Count(h, t) = Count(h, s) /\ SeedRank[t] < SeedRank[s]}

\* Defect: the scan stops at its last seed instead of after it.
PickedEarly(n) ==
  {s \in Seeds : /\ PreconditionOk(s, n)
                 /\ Cardinality(Before(Placement, s)) < MaxScan - 1
                 /\ \A t \in Before(Placement, s) : ~PreconditionOk(t, n)}

\* The seed pick_seed returns: the first whose precondition holds among the
\* first MaxScan.
Picked(n) ==
  {s \in Seeds : /\ PreconditionOk(s, n)
                 /\ Cardinality(Before(Placement, s)) < MaxScan
                 /\ \A t \in Before(Placement, s) : ~PreconditionOk(t, n)}

\* One iteration of run_seeds: pick_seed counts the seed, the adapter submits
\* it (a failure is caught), record_seed_execution counts it again.
RunSeed(n) ==
  /\ \/ Picked(n) = {} /\ UNCHANGED counts
     \/ \E s \in Picked(n) : Bump(Placement, s, 2)
  /\ UNCHANGED <<round_id, pool, plan>>

-----------------------------------------------------------------------------
(* Persistence: scheduler.json *)

SchedSnapshot == [round_id |-> round_id, pool |-> pool, counts |-> counts]

SchedEmpty == [round_id |-> 0, pool |-> {Default}, counts |-> <<>>]

\* Defect: the round number is not read back.
SchedLoadNoRound(saved) ==
  /\ round_id' = 0
  /\ pool' = saved.pool
  /\ counts' = saved.counts
  /\ plan' = Idle

SchedLoad(saved) ==
  /\ round_id' = saved.round_id
  /\ pool' = saved.pool
  /\ counts' = saved.counts
  /\ plan' = Idle
=============================================================================
