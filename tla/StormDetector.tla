--------------------------- MODULE StormDetector ---------------------------
(***************************************************************************)
(* The fisco_view_change_storm detector of BcbOracle (bcfuzzer/oracle.py)  *)
(* and the restarts around it.  A node restarted by the campaign makes the *)
(* other nodes log view-change events for a while, its aftershocks; a bad  *)
(* configuration makes them log events all the time.  The detector sees    *)
(* only how many events each normal node has logged.                       *)
(***************************************************************************)
EXTENDS Naturals

CONSTANTS
  Normal,       \* normal_indices
  Threshold,    \* events in a window that make a storm
  RestartEvery, \* restart_cycle runs in every third round
  MaxEvents,    \* bound: events logged by a node
  MaxRounds     \* bound: rounds of the campaign

ASSUME StormAssumption ==
  /\ Threshold \in Nat \ {0}
  /\ RestartEvery \in Nat \ {0}
  /\ MaxEvents \in Nat \ {0}
  /\ MaxRounds \in Nat

VARIABLES
  round,     \* id of the current round
  stage,     \* what the round does next
  events,    \* node -> timeout events in its logs
  vc_last,   \* _view_change_last: node -> count read last
  seen,      \* nodes with an entry in _view_change_last
  baseline,  \* whether there is a baseline
  ringing,   \* whether a restart has aftershocks to come
  bad,       \* whether this round's configuration makes a storm
  burst,     \* history: node -> events of the bad configuration since the
             \*   counters were settled
  fired      \* nodes reported by the last observation

stormVars == <<round, stage, events, vc_last, seen, baseline, ringing, bad, burst, fired>>

StormTypeOK ==
  /\ round \in 0 .. MaxRounds
  /\ stage \in {"plan", "setup", "settle", "sequences", "observe"}
  /\ events \in [Normal -> 0 .. MaxEvents]
  /\ vc_last \in [Normal -> 0 .. MaxEvents]
  /\ seen \subseteq Normal
  /\ {baseline, ringing, bad} \subseteq BOOLEAN
  /\ burst \in [Normal -> 0 .. MaxEvents]
  /\ fired \subseteq Normal

StormInit ==
  /\ round = 0
  /\ stage = "plan"
  /\ events \in [Normal -> 0 .. 1]
  /\ vc_last = [i \in Normal |-> 0]
  /\ seen = {}
  /\ baseline \in BOOLEAN
  /\ ringing = FALSE
  /\ bad = FALSE
  /\ burst = [i \in Normal |-> 0]
  /\ fired = {}

-----------------------------------------------------------------------------
\* Node i logs an event, for one of the two reasons.
Log(i) ==
  /\ events[i] < MaxEvents
  /\ events' = [events EXCEPT ![i] = @ + 1]
  /\ \/ ringing /\ UNCHANGED burst
     \/ bad /\ burst' = [burst EXCEPT ![i] = @ + 1]
  /\ UNCHANGED <<round, stage, vc_last, seen, baseline, ringing, bad, fired>>

\* The aftershocks end after 10 to 45 s.
CalmDown ==
  /\ ringing
  /\ ringing' = FALSE
  /\ UNCHANGED <<round, stage, events, vc_last, seen, baseline, bad, burst, fired>>

PlanRound ==
  /\ stage = "plan"
  /\ round < MaxRounds
  /\ round' = round + 1
  /\ stage' = "setup"
  /\ fired' = {}
  /\ UNCHANGED <<events, vc_last, seen, baseline, ringing, bad, burst>>

\* apply_placements and admission_pass restart nodes one by one; the new
\* configurations may be bad.  An exception abandons the round.
Setup ==
  /\ stage = "setup"
  /\ stage' \in {"settle", "plan"}
  /\ ringing' = TRUE
  /\ bad' \in BOOLEAN
  /\ UNCHANGED <<round, events, vc_last, seen, baseline, burst, fired>>

\* Defect: the counters of the last observation stand.
SettleSkipped ==
  /\ stage = "settle" /\ ~ringing
  /\ stage' = "sequences"
  /\ UNCHANGED <<round, events, vc_last, seen, baseline, ringing, bad, burst, fired>>

\* settle_after_restarts sleeps until the aftershocks are over and reads the
\* counters.
Settle ==
  /\ stage = "settle" /\ ~ringing
  /\ stage' = "sequences"
  /\ vc_last' = events
  /\ seen' = Normal
  /\ burst' = [i \in Normal |-> 0]
  /\ UNCHANGED <<round, events, baseline, ringing, bad, fired>>

\* A failing read leaves the remaining counters and abandons the round.
SettleFails ==
  /\ stage = "settle" /\ ~ringing
  /\ stage' = "plan"
  /\ \E done \in SUBSET Normal :
       /\ vc_last' = [i \in Normal |-> IF i \in done THEN events[i] ELSE vc_last[i]]
       /\ seen' = seen \cup done
  /\ UNCHANGED <<round, events, baseline, ringing, bad, burst, fired>>

\* run_seeds and run_sequences; every third round ends in restarts.
RunSequences ==
  /\ stage = "sequences"
  /\ stage' = "observe"
  /\ ringing' = (ringing \/ round % RestartEvery = 0)
  /\ UNCHANGED <<round, events, vc_last, seen, baseline, bad, burst, fired>>

Delta(i) == IF i \in seen /\ events[i] > vc_last[i] THEN events[i] - vc_last[i] ELSE 0

\* Defect: a storm has to exceed the threshold.
ObserveAbove ==
  /\ stage = "observe"
  /\ stage' = "plan"
  /\ fired' = {i \in Normal : baseline /\ Delta(i) > Threshold}
  /\ vc_last' = events
  /\ seen' = Normal
  /\ UNCHANGED <<round, events, baseline, ringing, bad, burst>>

Observe ==
  /\ stage = "observe"
  /\ stage' = "plan"
  /\ fired' = {i \in Normal : baseline /\ Delta(i) >= Threshold}
  /\ vc_last' = events
  /\ seen' = Normal
  /\ UNCHANGED <<round, events, baseline, ringing, bad, burst>>

\* The probes of all nodes are read first: when one fails, observe changes
\* nothing and the campaign goes on.
ObserveFails ==
  /\ stage = "observe"
  /\ stage' = "plan"
  /\ UNCHANGED <<round, events, vc_last, seen, baseline, ringing, bad, burst, fired>>

StormNext ==
  \/ \E i \in Normal : Log(i)
  \/ CalmDown
  \/ PlanRound
  \/ Setup
  \/ Settle
  \/ SettleFails
  \/ RunSequences
  \/ Observe
  \/ ObserveFails

StormSpec == StormInit /\ [][StormNext]_stormVars

-----------------------------------------------------------------------------
(* Properties *)

\* Outside the rounds with a restart_cycle a storm is reported for events a
\* bad configuration caused in the same round, whatever the abandoned rounds,
\* failed probes and earlier restarts left in the logs (oracle.py:216-232).
QuietRoundsDoNotFire ==
  round % RestartEvery # 0 => \A i \in fired : burst[i] > 0

StormInv == StormTypeOK /\ QuietRoundsDoNotFire

\* "the post-settle observation window still catches it" (oracle.py:224-228):
\* an observation reports every node on which the storm of a bad
\* configuration was strong enough since the counters were settled, though
\* the settling forgets what came before.
BurstIsCaught ==
  [][stage = "observe" /\ stage' = "plan" /\ vc_last' = events /\ baseline
       => \A i \in Normal : burst[i] >= Threshold => i \in fired']_stormVars

\* "restart noise, not a bug: without settling, [...] benign rounds
\* false-fire" (oracle.py:218-223): with the settling they do not.
BenignRoundsDoNotFire == \A i \in fired : burst[i] > 0
=============================================================================
