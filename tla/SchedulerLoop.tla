--------------------------- MODULE SchedulerLoop ---------------------------
(***************************************************************************)
(* The feedback loop between scheduler and index: plan a round, judge      *)
(* every controlled node, run one seed per controlled node, plan the next. *)
(* The verdict on a node is arbitrary; the nodes are taken in order, as    *)
(* the loops over plan.placements do.                                      *)
(***************************************************************************)
EXTENDS Scheduler

CONSTANT MaxRounds  \* bound: rounds of the campaign

VARIABLES
  stage,     \* "plan", "admission" or "seeds"
  pending,   \* nodes the stage has still to visit
  executed   \* history: placement -> seed -> seeds actually submitted

loopVars == <<stage, pending, executed>>
vars == <<meiVars, schedVars, loopVars>>

LoopInit ==
  /\ MeiInit
  /\ SchedInit
  /\ stage = "plan"
  /\ pending = {}
  /\ executed = <<>>

Visit(n, next) ==
  /\ n \in pending
  /\ \A m \in pending : n <= m
  /\ pending' = IF pending = {n} THEN next ELSE pending \ {n}

PlanRound ==
  /\ stage = "plan"
  /\ round_id < MaxRounds
  /\ NextRound
  /\ stage' = "admission"
  /\ pending' = Controlled
  /\ UNCHANGED <<meiVars, executed>>

\* The verdict on a mutated node is recorded; an admitted node's
\* configuration joins the pool whether or not it was mutated.
Judge(n, admitted) ==
  /\ stage = "admission"
  /\ Visit(n, Controlled)
  /\ stage' = IF pending = {n} THEN "seeds" ELSE stage
  /\ IF plan[n].mutation = NoMutation THEN UNCHANGED meiVars
     ELSE RecordAdmission(plan[n].mutation[1], plan[n].mutation[2], admitted)
  /\ IF admitted THEN AdmitConfig(ConfigOf(n)) ELSE UNCHANGED pool
  /\ UNCHANGED <<round_id, counts, plan, executed>>

Submitted(h, s) == IF h \in DOMAIN executed THEN executed[h][s] ELSE 0

Execute(n) ==
  /\ stage = "seeds"
  /\ Visit(n, {})
  /\ stage' = IF pending = {n} THEN "plan" ELSE stage
  /\ RunSeed(n)
  /\ executed' =
       IF Picked(n) = {} THEN executed
       ELSE [h \in DOMAIN executed \cup {Placement} |->
               IF h = Placement
               THEN [s \in Seeds |-> Submitted(h, s) + (IF s \in Picked(n) THEN 1 ELSE 0)]
               ELSE executed[h]]
  /\ UNCHANGED meiVars

LoopNext ==
  \/ PlanRound
  \/ \E n \in Controlled, admitted \in BOOLEAN : Judge(n, admitted)
  \/ \E n \in Controlled : Execute(n)

LoopSpec == LoopInit /\ [][LoopNext]_vars

-----------------------------------------------------------------------------
(* Properties *)

LoopTypeOK ==
  /\ MeiTypeOK
  /\ SchedTypeOK
  /\ stage \in {"plan", "admission", "seeds"}
  /\ pending \subseteq Controlled

\* A pair that never passed admission is tried in one round only, so at most
\* once per controlled node: "replay an ADMITTED (rule, value) pair"
\* (scheduler.py:163-168).  Rejected pairs do not come back and inflate the
\* index.
RejectedPairsAreDropped ==
  \A i \in Items : \A p \in Pairs \ valid[i] :
    invalid[i][p] <= Cardinality(Controlled)

LoopInv == LoopTypeOK /\ RejectedPairsAreDropped

\* The seeds that are never blocked share the executions of a placement: no
\* two of them are more than one execution apart ("the least-tested seed
\* whose preconditions hold is chosen", scheduler.py:14-16).
BalancedSeeds ==
  \A h \in DOMAIN executed : \A s, t \in Unconditional :
    executed[h][s] <= executed[h][t] + 1

\* Every controlled node has a seed to run, although a blocked seed is never
\* counted and so stays at the head of the order for good: "max_scan=8
\* starvation bound" (scheduler.py:192) passes all that can be blocked.
EveryNodeIsServed ==
  stage = "seeds" /\ Unconditional # {} => \A n \in pending : Picked(n) # {}
=============================================================================
