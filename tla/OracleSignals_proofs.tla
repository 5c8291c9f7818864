------------------------ MODULE OracleSignals_proofs ------------------------
(***************************************************************************)
(* The counters of the oracle, for any nodes, windows, thresholds, ledgers *)
(* and numbers of rounds.  The stall counter of a mutated validator that   *)
(* has a reference covers only windows in which its ledger stood still;    *)
(* with the settling, only rounds that end in restarts can report an event *)
(* storm no bad configuration caused, and no storm since the settling is   *)
(* missed.                                                                 *)
(*                                                                         *)
(* And for any heights and deaths on geth: as long as one node sealed      *)
(* every block and none was lost, comparing heights is enough for          *)
(* sync_all, and a reported collapse of the gasLimit is that of the chain. *)
(***************************************************************************)
EXTENDS OracleSignals, FiniteSetTheorems, TLAPS

-----------------------------------------------------------------------------
(* Stalls of mutated validators *)

\* What was read last is not above what the ledger has now.
ReferenceIsPast == \A n \in Controlled : last[n] <= ledger[n]

ControlledIInv == ControlledTypeOK /\ ReferenceIsPast /\ CoveredOnceReferenced

LEMMA ControlledInitial == ControlledInit => ControlledIInv
<1> SUFFICES ASSUME ControlledInit PROVE ControlledIInv
  OBVIOUS
<1> USE ControlledAssumption DEF ControlledInit, Unset
<1>1. ControlledTypeOK
  BY DEF ControlledTypeOK
<1>2. ReferenceIsPast /\ CoveredOnceReferenced
  BY DEF ReferenceIsPast, CoveredOnceReferenced
<1> QED
  BY <1>1, <1>2 DEF ControlledIInv

\* A capped counter stays in its range and is monotone.
LEMMA CappedIsMonotone ==
  ASSUME NEW j \in 0 .. stall_windows, NEW k \in 0 .. stall_windows
  PROVE  /\ Capped(j) \in 0 .. stall_windows
         /\ j <= k => Capped(j) <= Capped(k)
         /\ j <= Capped(j)
BY ControlledAssumption DEF Capped

\* A validator that commits: its counter covers nothing since.
LEMMA GrowStep ==
  ASSUME ControlledIInv, NEW m \in Controlled, Grow(m)
  PROVE  ControlledIInv'
<1> USE ControlledAssumption DEF ControlledIInv, ControlledTypeOK, Grow
<1>1. ControlledTypeOK'
  OBVIOUS
<1>2. ReferenceIsPast'
  BY DEF ReferenceIsPast
<1>3. CoveredOnceReferenced'
  <2> SUFFICES ASSUME NEW n \in Controlled, last[n] # Unset
               PROVE  ledger'[n] > last[n] \/ stall[n] <= still'[n]
    BY DEF CoveredOnceReferenced
  <2>1. CASE n = m
    BY <2>1 DEF ReferenceIsPast
  <2>2. CASE n # m
    BY <2>2 DEF CoveredOnceReferenced
  <2> QED
    BY <2>1, <2>2
<1> QED
  BY <1>1, <1>2, <1>3 DEF ControlledIInv

\* What an observation does to a validator it looks at.
LEMMA LookedAt ==
  ASSUME ControlledIInv, NEW r \in Reads, NEW n \in Controlled
  PROVE  /\ LastAfter(r, n) \in -2 .. MaxLedger
         /\ StallAfter(r, n) \in 0 .. stall_windows
         /\ LastAfter(r, n) <= ledger[n]
         /\ LastAfter(r, n) # Unset =>
              ledger[n] > LastAfter(r, n) \/ StallAfter(r, n) <= Capped(still[n])
<1> DEFINE read == r[n]
<1>1. /\ read \in -1 .. MaxLedger
      /\ read = ledger[n] \/ read = -1
      /\ ledger[n] \in 0 .. MaxLedger
      /\ last[n] \in -2 .. MaxLedger
      /\ stall[n] \in 0 .. stall_windows
      /\ still[n] \in 0 .. stall_windows
      /\ last[n] <= ledger[n]
      /\ last[n] # Unset => ledger[n] > last[n] \/ stall[n] <= still[n]
  BY DEF Reads, ControlledIInv, ControlledTypeOK, ReferenceIsPast, CoveredOnceReferenced
<1>2. /\ Capped(stall[n]) \in 0 .. stall_windows
      /\ Capped(still[n]) \in 0 .. stall_windows
      /\ stall[n] <= still[n] => Capped(stall[n]) <= Capped(still[n])
      /\ still[n] <= Capped(still[n])
  BY <1>1, CappedIsMonotone
<1>3. CASE read < 0
  BY <1>1, <1>2, <1>3, ControlledAssumption DEF LastAfter, StallAfter, Reference, Unset
<1>4. CASE read >= 0 /\ read <= Reference(r, n)
  BY <1>1, <1>2, <1>4, ControlledAssumption DEF LastAfter, StallAfter, Reference, Unset
<1>5. CASE read >= 0 /\ ~(read <= Reference(r, n))
  BY <1>1, <1>2, <1>5, ControlledAssumption DEF LastAfter, StallAfter, Reference, Unset
<1> QED
  BY <1>1, <1>3, <1>4, <1>5

LEMMA ControlledObserveStep ==
  ASSUME ControlledIInv, NEW looked \in SUBSET Controlled, NEW r \in Reads,
         NEW normal_growth \in BOOLEAN,
         ObserveControlled(looked, r, normal_growth)
  PROVE  ControlledIInv'
<1>1. ASSUME NEW n \in Controlled
      PROVE  /\ ledger'[n] = ledger[n]
             /\ last'[n] = (IF n \in looked THEN LastAfter(r, n) ELSE last[n])
             /\ stall'[n] = (IF n \in looked THEN StallAfter(r, n) ELSE stall[n])
             /\ still'[n] = Capped(still[n])
  BY DEF ObserveControlled
<1>2. ASSUME NEW n \in Controlled
      PROVE  /\ still[n] \in 0 .. stall_windows
             /\ stall[n] \in 0 .. stall_windows
             /\ last[n] \in -2 .. MaxLedger
             /\ Capped(still[n]) \in 0 .. stall_windows
             /\ still[n] <= Capped(still[n])
  BY CappedIsMonotone DEF ControlledIInv, ControlledTypeOK
<1>3. ControlledTypeOK'
  <2>1. /\ ledger' \in [Controlled -> 0 .. MaxLedger]
        /\ reported' \subseteq Controlled
    BY DEF ControlledIInv, ControlledTypeOK, ObserveControlled
  <2>2. last' \in [Controlled -> -2 .. MaxLedger]
    BY <1>2, LookedAt DEF ObserveControlled
  <2>3. stall' \in [Controlled -> 0 .. stall_windows]
    BY <1>2, LookedAt DEF ObserveControlled
  <2>4. still' \in [Controlled -> 0 .. stall_windows]
    BY <1>2 DEF ObserveControlled
  <2> QED
    BY <2>1, <2>2, <2>3, <2>4 DEF ControlledTypeOK
<1>4. ReferenceIsPast'
  BY <1>1, LookedAt DEF ReferenceIsPast, ControlledIInv
<1>5. CoveredOnceReferenced'
  <2> SUFFICES ASSUME NEW n \in Controlled, last'[n] # Unset
               PROVE  ledger'[n] > last'[n] \/ stall'[n] <= still'[n]
    BY DEF CoveredOnceReferenced
  <2>1. CASE n \in looked
    BY <1>1, <2>1, LookedAt
  <2>2. CASE n \notin looked
    <3>1. ledger[n] > last[n] \/ stall[n] <= still[n]
      BY <1>1, <2>2 DEF ControlledIInv, CoveredOnceReferenced
    <3> QED
      BY <1>1, <1>2, <2>2, <3>1, ControlledAssumption
  <2> QED
    BY <2>1, <2>2
<1> QED
  BY <1>3, <1>4, <1>5 DEF ControlledIInv

\* A validator that has a reference is counted as stalled only for windows in
\* which its ledger stood still, whichever rounds and reads passed it over.
THEOREM CountsCoverStandstill == ControlledSpec => []ControlledInv
<1>1. ControlledIInv /\ [ControlledNext]_controlledVars => ControlledIInv'
  <2> SUFFICES ASSUME ControlledIInv, [ControlledNext]_controlledVars
               PROVE  ControlledIInv'
    OBVIOUS
  <2>1. CASE UNCHANGED controlledVars
    BY <2>1 DEF controlledVars, ControlledIInv, ControlledTypeOK, ReferenceIsPast,
                CoveredOnceReferenced
  <2> QED
    BY <2>1, GrowStep, ControlledObserveStep DEF ControlledNext
<1>2. ControlledIInv => ControlledInv
  BY DEF ControlledIInv, ControlledInv
<1> QED
  BY <1>1, <1>2, ControlledInitial, PTL DEF ControlledSpec

-----------------------------------------------------------------------------
(* Event storms *)

\* The round ends in no restart.
QuietRound == round % RestartEvery # 0

\* From the settling to the observation the counters stand where the settling
\* left them; what the logs have beyond them includes the events of a bad
\* configuration, and is nothing else while no restart has aftershocks.
SettledCount ==
  stage \in {"sequences", "observe"} =>
    /\ seen = Normal
    /\ \A i \in Normal : vc_last[i] + burst[i] <= events[i]
    /\ stage = "sequences" \/ QuietRound =>
         ~ringing /\ \A i \in Normal : events[i] = vc_last[i] + burst[i]

\* Reports stand only until the next round begins.
FiredInPlan == stage # "plan" => fired = {}

\* The part of the type invariant the argument uses; the flags carry no
\* arithmetic.
StormCounts ==
  /\ events \in [Normal -> 0 .. MaxEvents]
  /\ vc_last \in [Normal -> 0 .. MaxEvents]
  /\ burst \in [Normal -> 0 .. MaxEvents]
  /\ round \in 0 .. MaxRounds
  /\ seen \subseteq Normal
  /\ fired \subseteq Normal
  /\ stage \in {"plan", "setup", "settle", "sequences", "observe"}
StormFlags == {baseline, ringing, bad} \subseteq BOOLEAN

\* No more events of a bad configuration than events.
BurstIsLogged == \A i \in Normal : burst[i] <= events[i]

StormIInv ==
  /\ StormCounts /\ StormFlags /\ BurstIsLogged
  /\ SettledCount /\ FiredInPlan /\ QuietRoundsDoNotFire

LEMMA StormInitial == StormInit => StormIInv
<1> SUFFICES ASSUME StormInit PROVE StormIInv
  OBVIOUS
<1>1. StormFlags
  BY Zenon DEF StormInit, StormFlags
<1>2. FiredInPlan /\ QuietRoundsDoNotFire
  BY Zenon DEF StormInit, FiredInPlan, QuietRoundsDoNotFire
<1>3. stage = "plan"
  BY Zenon DEF StormInit
<1>4. SettledCount
  BY <1>3 DEF SettledCount
<1>5. StormCounts /\ BurstIsLogged
  BY StormAssumption DEF StormInit, StormCounts, BurstIsLogged
<1> QED
  BY <1>1, <1>2, <1>4, <1>5 DEF StormIInv

\* An event, counted for a bad configuration where one logs it.
LEMMA LogStep ==
  ASSUME StormIInv, NEW i \in Normal, Log(i)
  PROVE  StormIInv'
<1> USE StormAssumption DEF StormIInv
<1>1. StormFlags'
  BY Zenon DEF Log, StormFlags
<1>2. StormCounts' /\ BurstIsLogged'
  <2>1. CASE UNCHANGED burst
    BY <2>1 DEF Log, StormCounts, BurstIsLogged
  <2>2. CASE burst' = [burst EXCEPT ![i] = @ + 1]
    BY <2>2 DEF Log, StormCounts, BurstIsLogged
  <2> QED
    BY <2>1, <2>2 DEF Log
<1>3. SettledCount'
  <2> USE DEF SettledCount, StormCounts
  <2>1. CASE ringing /\ UNCHANGED burst
    BY <2>1 DEF Log, QuietRound
  <2>2. CASE bad /\ burst' = [burst EXCEPT ![i] = @ + 1]
    BY <2>2 DEF Log, QuietRound
  <2> QED
    BY <2>1, <2>2 DEF Log
<1>4. FiredInPlan'
  BY DEF Log, FiredInPlan
<1>5. QuietRoundsDoNotFire'
  <2>1. CASE UNCHANGED burst
    BY <2>1 DEF Log, QuietRoundsDoNotFire
  <2>2. CASE burst' = [burst EXCEPT ![i] = @ + 1]
    BY <2>2 DEF Log, QuietRoundsDoNotFire, StormCounts
  <2> QED
    BY <2>1, <2>2 DEF Log
<1> QED
  BY <1>1, <1>2, <1>3, <1>4, <1>5

\* The observation of a quiet round reports only what a bad configuration
\* logged.
LEMMA StormObserveStep ==
  ASSUME StormIInv, Observe
  PROVE  StormIInv'
<1> USE StormAssumption DEF StormIInv, Observe
<1>1. StormFlags'
  BY Zenon DEF StormFlags
<1>2. StormCounts' /\ BurstIsLogged'
  BY DEF StormCounts, BurstIsLogged
<1>3. SettledCount' /\ FiredInPlan'
  BY DEF SettledCount, FiredInPlan
<1>4. QuietRoundsDoNotFire'
  <2> SUFFICES ASSUME QuietRound, NEW i \in Normal, Delta(i) >= Threshold
               PROVE  burst[i] > 0
    BY DEF QuietRoundsDoNotFire, QuietRound
  <2>1. events[i] = vc_last[i] + burst[i]
    BY DEF SettledCount
  <2> QED
    BY <2>1 DEF Delta, StormCounts
<1> QED
  BY <1>1, <1>2, <1>3, <1>4

\* The steps of a round before and after its observation.
LEMMA StageStep ==
  ASSUME StormIInv,
         \/ CalmDown \/ PlanRound \/ Setup \/ Settle \/ SettleFails
         \/ RunSequences \/ ObserveFails \/ UNCHANGED stormVars
  PROVE  StormIInv'
<1> USE StormAssumption DEF StormIInv
<1>1. CASE CalmDown
  <2>1. StormFlags'
    BY <1>1, Zenon DEF CalmDown, StormFlags
  <2>2. StormCounts' /\ BurstIsLogged' /\ FiredInPlan'
    BY <1>1 DEF CalmDown, StormCounts, BurstIsLogged, FiredInPlan
  <2>3. SettledCount' /\ QuietRoundsDoNotFire'
    BY <1>1 DEF CalmDown, SettledCount, QuietRound, QuietRoundsDoNotFire
  <2> QED
    BY <2>1, <2>2, <2>3
<1>2. CASE PlanRound
  <2>1. StormFlags'
    BY <1>2, Zenon DEF PlanRound, StormFlags
  <2>2. StormCounts' /\ BurstIsLogged' /\ FiredInPlan'
    BY <1>2 DEF PlanRound, StormCounts, BurstIsLogged, FiredInPlan
  <2>3. SettledCount' /\ QuietRoundsDoNotFire'
    BY <1>2 DEF PlanRound, SettledCount, QuietRoundsDoNotFire
  <2> QED
    BY <2>1, <2>2, <2>3
<1>3. CASE Setup
  <2>1. StormFlags'
    BY <1>3, Zenon DEF Setup, StormFlags
  <2>2. StormCounts' /\ BurstIsLogged' /\ FiredInPlan'
    BY <1>3 DEF Setup, StormCounts, BurstIsLogged, FiredInPlan
  <2>3. SettledCount' /\ QuietRoundsDoNotFire'
    BY <1>3 DEF Setup, SettledCount, FiredInPlan, QuietRoundsDoNotFire
  <2> QED
    BY <2>1, <2>2, <2>3
<1>4. CASE Settle
  <2>1. StormFlags'
    BY <1>4, Zenon DEF Settle, StormFlags
  <2>2. StormCounts' /\ BurstIsLogged' /\ FiredInPlan'
    BY <1>4 DEF Settle, StormCounts, BurstIsLogged, FiredInPlan
  <2>3. SettledCount' /\ QuietRoundsDoNotFire'
    BY <1>4 DEF Settle, SettledCount, StormCounts, FiredInPlan, QuietRoundsDoNotFire
  <2> QED
    BY <2>1, <2>2, <2>3
<1>5. CASE SettleFails
  <2>1. StormFlags'
    BY <1>5, Zenon DEF SettleFails, StormFlags
  <2>2. StormCounts' /\ BurstIsLogged' /\ FiredInPlan'
    BY <1>5 DEF SettleFails, StormCounts, BurstIsLogged, FiredInPlan
  <2>3. SettledCount' /\ QuietRoundsDoNotFire'
    BY <1>5 DEF SettleFails, SettledCount, FiredInPlan, QuietRoundsDoNotFire
  <2> QED
    BY <2>1, <2>2, <2>3
<1>6. CASE RunSequences
  <2>1. StormFlags'
    BY <1>6, Zenon DEF RunSequences, StormFlags
  <2>2. StormCounts' /\ BurstIsLogged' /\ FiredInPlan'
    BY <1>6 DEF RunSequences, StormCounts, BurstIsLogged, FiredInPlan
  <2>3. SettledCount' /\ QuietRoundsDoNotFire'
    BY <1>6 DEF RunSequences, SettledCount, QuietRound, FiredInPlan,
                QuietRoundsDoNotFire
  <2> QED
    BY <2>1, <2>2, <2>3
<1>7. CASE ObserveFails
  <2>1. StormFlags'
    BY <1>7, Zenon DEF ObserveFails, StormFlags
  <2>2. StormCounts' /\ BurstIsLogged' /\ FiredInPlan'
    BY <1>7 DEF ObserveFails, StormCounts, BurstIsLogged, FiredInPlan
  <2>3. SettledCount' /\ QuietRoundsDoNotFire'
    BY <1>7 DEF ObserveFails, SettledCount, FiredInPlan, QuietRoundsDoNotFire
  <2> QED
    BY <2>1, <2>2, <2>3
<1>8. CASE UNCHANGED stormVars
  <2>1. StormFlags'
    BY <1>8, Zenon DEF stormVars, StormFlags
  <2>2. StormCounts' /\ BurstIsLogged' /\ FiredInPlan'
    BY <1>8 DEF stormVars, StormCounts, BurstIsLogged, FiredInPlan
  <2>3. SettledCount' /\ QuietRoundsDoNotFire'
    BY <1>8 DEF stormVars, SettledCount, QuietRound, QuietRoundsDoNotFire
  <2> QED
    BY <2>1, <2>2, <2>3
<1> QED
  BY <1>1, <1>2, <1>3, <1>4, <1>5, <1>6, <1>7, <1>8

LEMMA StormSafe == StormSpec => []StormIInv
<1>1. StormIInv /\ [StormNext]_stormVars => StormIInv'
  BY LogStep, StormObserveStep, StageStep DEF StormNext
<1> QED
  BY <1>1, StormInitial, PTL DEF StormSpec

\* Outside the rounds with a restart_cycle a storm is reported for events a
\* bad configuration caused in the same round.
THEOREM QuietReportsAreReal == StormSpec => []StormInv
<1>1. StormIInv => StormInv
  BY Zenon DEF StormIInv, StormCounts, StormFlags, StormInv, StormTypeOK
<1> QED
  BY <1>1, StormSafe, PTL

\* An observation reports every node on which the storm of a bad
\* configuration was strong enough since the counters were settled.
THEOREM BurstsAreCaught == StormSpec => BurstIsCaught
<1> DEFINE Caught ==
      stage = "observe" /\ stage' = "plan" /\ vc_last' = events /\ baseline
        => \A i \in Normal : burst[i] >= Threshold => i \in fired'
<1>1. StormIInv /\ [StormNext]_stormVars => Caught
  <2> SUFFICES ASSUME StormIInv, [StormNext]_stormVars,
                      stage = "observe", stage' = "plan", vc_last' = events, baseline,
                      NEW i \in Normal, burst[i] >= Threshold
               PROVE  i \in fired'
    BY Zenon
  <2>1. /\ seen = Normal /\ vc_last[i] + burst[i] <= events[i]
        /\ events[i] \in Nat /\ vc_last[i] \in Nat /\ burst[i] \in Nat
    BY DEF StormIInv, SettledCount, StormCounts
  <2>2. events[i] - vc_last[i] >= Threshold /\ events[i] > vc_last[i]
    BY <2>1, StormAssumption
  <2>3. CASE Observe
    BY <2>1, <2>2, <2>3 DEF Observe, Delta
  <2>4. CASE ObserveFails
    BY <2>1, <2>2, <2>4 DEF ObserveFails
  <2> QED
    BY <2>3, <2>4 DEF StormNext, Log, CalmDown, PlanRound, Setup, Settle,
                      SettleFails, RunSequences, stormVars
<1> QED
  BY <1>1, StormSafe, PTL DEF StormSpec, BurstIsCaught

-----------------------------------------------------------------------------
(* Rounds of geth: prefixes *)

LEMMA PrefixPointwise ==
  ASSUME NEW B, NEW s \in Seq(B), NEW t \in Seq(B)
  PROVE  IsPrefix(s, t) <=>
           Len(s) <= Len(t) /\ \A k \in 1 .. Len(s) : s[k] = t[k]
<1>1. CASE Len(s) <= Len(t)
  <2>1. /\ Len(SubSeq(s, 1, Len(s))) = Len(s)
        /\ Len(SubSeq(t, 1, Len(s))) = Len(s)
        /\ SubSeq(s, 1, Len(s)) \in Seq(B) /\ SubSeq(t, 1, Len(s)) \in Seq(B)
        /\ \A k \in 1 .. Len(s) :
             SubSeq(s, 1, Len(s))[k] = s[k] /\ SubSeq(t, 1, Len(s))[k] = t[k]
    BY <1>1
  <2> QED
    BY <1>1, <2>1 DEF IsPrefix
<1>2. CASE ~(Len(s) <= Len(t))
  BY <1>2 DEF IsPrefix
<1> QED
  BY <1>1, <1>2

LEMMA PrefixOrder ==
  ASSUME NEW B, NEW s \in Seq(B), NEW t \in Seq(B), NEW u \in Seq(B)
  PROVE  /\ IsPrefix(s, s)
         /\ IsPrefix(<<>>, s)
         /\ IsPrefix(s, t) /\ IsPrefix(t, u) => IsPrefix(s, u)
         /\ IsPrefix(s, t) /\ IsPrefix(t, s) => s = t
         /\ IsPrefix(s, u) /\ IsPrefix(t, u) /\ Len(s) <= Len(t) => IsPrefix(s, t)
<1>1. <<>> \in Seq(B) /\ Len(<<>>) = 0
  OBVIOUS
<1>2. IsPrefix(s, s)
  BY PrefixPointwise
<1>3. IsPrefix(<<>>, s)
  <2>1. ASSUME NEW e \in Seq(B), Len(e) = 0 PROVE IsPrefix(e, s)
    <3>1. Len(s) \in Nat /\ Len(e) <= Len(s)
      BY <2>1
    <3>2. \A k \in 1 .. Len(e) : e[k] = s[k]
      BY <2>1
    <3> QED
      BY <3>1, <3>2, PrefixPointwise
  <2> QED
    BY <1>1, <2>1
<1>4. IsPrefix(s, t) /\ IsPrefix(t, u) => IsPrefix(s, u)
  BY PrefixPointwise
<1>5. IsPrefix(s, t) /\ IsPrefix(t, s) => s = t
  BY PrefixPointwise
<1>6. IsPrefix(s, u) /\ IsPrefix(t, u) /\ Len(s) <= Len(t) => IsPrefix(s, t)
  BY PrefixPointwise
<1> QED
  BY <1>2, <1>3, <1>4, <1>5, <1>6

LEMMA PrefixAppend ==
  ASSUME NEW B, NEW s \in Seq(B), NEW b \in B
  PROVE  Append(s, b) \in Seq(B) /\ Append(s, b) # s /\ IsPrefix(s, Append(s, b))
<1>1. /\ Append(s, b) \in Seq(B) /\ Len(Append(s, b)) = Len(s) + 1
      /\ \A k \in 1 .. Len(s) : Append(s, b)[k] = s[k]
  OBVIOUS
<1>2. Len(s) \in Nat /\ Len(s) <= Len(Append(s, b)) /\ Append(s, b) # s
  BY <1>1
<1>3. ASSUME NEW t \in Seq(B), Len(s) <= Len(t), \A k \in 1 .. Len(s) : t[k] = s[k]
      PROVE  IsPrefix(s, t)
  BY <1>3, PrefixPointwise
<1> QED
  BY <1>1, <1>2, <1>3

-----------------------------------------------------------------------------
(* Rounds of geth: types *)

\* The part of the types the argument about chains uses.
ChainTypes ==
  /\ chain \in [Executors -> Seq(Block)]
  /\ head \in Seq(Block)
  /\ sealers \subseteq Mutable \cup {Successor}
  /\ \A n \in Executors : Len(chain[n]) <= MaxHeight

RoundTypes ==
  /\ epoch \in 0 .. MaxEpochs
  /\ phase \in {"plan", "admit", "seeds", "drive", "rotate", "cycle", "sync", "follow",
                "observe"}
  /\ conf \in [Mutable -> {"plain", "lowering", "fatal"}]
  /\ alive \subseteq Executors
  /\ todo \subseteq Executors
  /\ pass \in 0 .. 3
  /\ converged \subseteq Followers
  /\ deaths \in 0 .. MaxDeaths

OracleTypes ==
  /\ below \in [Followers -> 0 .. Persistence]
  /\ collapsed \subseteq Followers
  /\ healthy \in [Followers -> 0 .. MaxEpochs]

LEMMA GethTypeParts ==
  GethTypeOK <=> ChainTypes /\ RoundTypes /\ OracleTypes /\ lost \in BOOLEAN
BY DEF GethTypeOK, ChainTypes, RoundTypes, OracleTypes

\* Every drive makes a chain of blocks.
LEMMA DrivenType ==
  ASSUME ChainTypes, NEW n \in Mutable \cup {Successor}, NEW c \in Seq(Block),
         Len(c) <= MaxHeight, NEW d \in Driven(n, c)
  PROVE  /\ d \in Seq(Block) /\ Len(d) <= MaxHeight
         /\ d = c \/ \E b \in Block : d = Append(c, b)
<1>1. CASE d = c
  BY <1>1
<1>2. ASSUME NEW l \in {Low(c), n \in Mutable /\ conf[n] = "lowering"},
             Len(c) < MaxHeight, d = Append(c, [by |-> n, low |-> l])
      PROVE  /\ d \in Seq(Block) /\ Len(d) <= MaxHeight
             /\ \E b \in Block : d = Append(c, b)
  <2>1. l \in BOOLEAN
    <3>1. CASE l = Low(c)
      <4>1. c # <<>> => c[Len(c)] \in Block
        OBVIOUS
      <4> QED
        BY <3>1, <4>1 DEF Low, Block
    <3>2. CASE l = (n \in Mutable /\ conf[n] = "lowering")
      BY <3>2
    <3> QED
      BY <3>1, <3>2
  <2>2. [by |-> n, low |-> l] \in Block
    BY <2>1 DEF Block
  <2>3. MaxHeight \in Nat
    BY GethAssumption
  <2>4. Len(c) \in Nat /\ Len(Append(c, [by |-> n, low |-> l])) = Len(c) + 1
    BY <2>2
  <2>5. Append(c, [by |-> n, low |-> l]) \in Seq(Block)
    BY <2>2
  <2>6. Len(d) <= MaxHeight
    BY <1>2, <2>3, <2>4
  <2> QED
    BY <1>2, <2>2, <2>5, <2>6
<1>3. d = c \/ \E l \in {Low(c), n \in Mutable /\ conf[n] = "lowering"} :
                ~(Len(c) >= MaxHeight) /\ d = Append(c, [by |-> n, low |-> l])
  BY Zenon DEF Driven
<1>4. ~(Len(c) >= MaxHeight) <=> Len(c) < MaxHeight
  BY GethAssumption
<1> QED
  BY <1>1, <1>2, <1>3, <1>4

LEMMA DriveTypes ==
  ASSUME ChainTypes, NEW n \in Mutable \cup {Successor}, NEW c \in Seq(Block),
         Len(c) <= MaxHeight, Drive(n, c), UNCHANGED head
  PROVE  ChainTypes'
<1>1. PICK d \in Driven(n, c) :
        /\ chain' = [chain EXCEPT ![n] = d]
        /\ sealers' = IF d # c THEN sealers \cup {n} ELSE sealers
  BY DEF Drive
<1>2. d \in Seq(Block) /\ Len(d) <= MaxHeight
  BY DrivenType
<1>3. chain' \in [Executors -> Seq(Block)]
  BY <1>1, <1>2 DEF ChainTypes
<1>4. \A m \in Executors : Len(chain'[m]) <= MaxHeight
  BY <1>1, <1>2 DEF ChainTypes
<1> QED
  BY <1>1, <1>3, <1>4 DEF ChainTypes

\* A node follows to its own chain or to the head, and to that only from a
\* node that has it.
LEMMA FollowingType ==
  ASSUME ChainTypes, alive \subseteq Executors,
         NEW i \in Executors, NEW h \in Seq(Block), NEW c \in Following(i, h)
  PROVE  /\ c \in Seq(Block) /\ Len(c) <= MaxHeight
         /\ c = chain[i] \/ (c = h /\ ~IsPrefix(h, chain[i]))
<1>1. CASE c = chain[i]
  BY <1>1 DEF ChainTypes
<1>2. ASSUME c = h, ~IsPrefix(h, chain[i]), NEW j \in Meshed, IsPrefix(h, chain[j])
      PROVE  Len(h) <= MaxHeight
  <2>1. j \in Executors
    BY DEF Meshed
  <2>2. Len(h) <= Len(chain[j])
    BY <1>2 DEF IsPrefix
  <2>3. Len(h) \in Nat /\ Len(chain[j]) \in Nat /\ Len(chain[j]) <= MaxHeight
    BY <2>1 DEF ChainTypes
  <2> QED
    BY <2>2, <2>3, GethAssumption
<1> QED
  BY <1>1, <1>2 DEF Following

\* The types of the chains.
LEMMA ChainTypesStep ==
  ASSUME ChainTypes, RoundTypes, [GethNext]_gethVars
  PROVE  ChainTypes'
<1>0. /\ Producer \in Mutable /\ Successor \in Followers
      /\ Producer \in Executors /\ Successor \in Executors
      /\ alive \subseteq Executors /\ head \in Seq(Block)
  BY GethAssumption DEF Foremost, Executors, RoundTypes, ChainTypes
<1>1. ASSUME UNCHANGED <<chain, sealers, head>> PROVE ChainTypes'
  BY <1>1 DEF ChainTypes
<1>2. ASSUME NEW n \in Mutable, Drive(n, chain[n]), UNCHANGED head
      PROVE  ChainTypes'
  <2>1. chain[n] \in Seq(Block) /\ Len(chain[n]) <= MaxHeight
    BY DEF ChainTypes, Executors
  <2> QED
    BY <1>2, <2>1, DriveTypes
<1>3. ASSUME NEW c \in Following(Successor, chain[Producer]), Drive(Successor, c),
             UNCHANGED head
      PROVE  ChainTypes'
  <2>1. c \in Seq(Block) /\ Len(c) <= MaxHeight
    BY <1>0, FollowingType DEF ChainTypes
  <2> QED
    BY <1>3, <2>1, DriveTypes
<1>4. CASE BeginEpoch
  BY <1>4 DEF BeginEpoch, ChainTypes
<1>5. CASE RotateProducer
  BY <1>1, <1>3, <1>5 DEF RotateProducer
<1>6. ASSUME NEW source \in alive, head' = chain[source], UNCHANGED <<chain, sealers>>
      PROVE  ChainTypes'
  BY <1>0, <1>6 DEF ChainTypes
<1>7. CASE SyncBegins
  <2>1. UNCHANGED <<chain, sealers>>
    BY <1>7 DEF SyncBegins
  <2>2. UNCHANGED head \/ \E source \in alive : head' = chain[source]
    BY <1>7 DEF SyncBegins, Answering
  <2> QED
    BY <1>1, <1>6, <2>1, <2>2
<1>8. ASSUME NEW i \in Followers, Follow(i) PROVE ChainTypes'
  <2>1. PICK c \in Following(i, head) : chain' = [chain EXCEPT ![i] = c]
    BY <1>8 DEF Follow
  <2>2. c \in Seq(Block) /\ Len(c) <= MaxHeight
    BY <1>0, FollowingType DEF Executors
  <2>3. /\ chain' \in [Executors -> Seq(Block)]
        /\ \A n \in Executors : Len(chain'[n]) <= MaxHeight
    BY <2>1, <2>2 DEF ChainTypes
  <2> QED
    BY <1>8, <2>3 DEF Follow, ChainTypes
<1>9. ASSUME NEW n \in Executors, GethDies(n) PROVE ChainTypes'
  <2>1. CASE UNCHANGED chain
    BY <1>1, <1>9, <2>1 DEF GethDies
  <2>2. CASE chain[n] # <<>> /\ chain' = [chain EXCEPT ![n] = Front(chain[n])]
    <3>1. /\ chain[n] \in Seq(Block) /\ Len(chain[n]) <= MaxHeight
          /\ Len(chain[n]) \in Nat /\ Len(chain[n]) # 0
      BY <2>2 DEF ChainTypes
    <3>2. /\ Front(chain[n]) \in Seq(Block)
          /\ Len(Front(chain[n])) = Len(chain[n]) - 1
      BY <3>1 DEF Front
    <3>3. Len(Front(chain[n])) <= MaxHeight
      BY <3>1, <3>2, GethAssumption
    <3>4. /\ chain' \in [Executors -> Seq(Block)]
          /\ \A m \in Executors : Len(chain'[m]) <= MaxHeight
      BY <2>2, <3>2, <3>3 DEF ChainTypes
    <3> QED
      BY <1>9, <3>4 DEF GethDies, ChainTypes
  <2> QED
    BY <1>9, <2>1, <2>2 DEF GethDies
<1>10. ASSUME NEW n \in Mutable, EngineSeed(n) PROVE ChainTypes'
  BY <1>2, <1>10 DEF EngineSeed
<1>11. CASE Admission \/ DriveBlocks
  BY <1>0, <1>2, <1>11 DEF Admission, DriveBlocks
<1> QED
  BY <1>1, <1>4, <1>5, <1>7, <1>8, <1>9, <1>10, <1>11
  DEF GethNext, gethVars, CycleNetwork, Pass, SyncEnds, ObserveGasLimits

\* The types of the round and of the oracle.
LEMMA RoundTypesStep ==
  ASSUME RoundTypes, [GethNext]_gethVars
  PROVE  RoundTypes'
<1> USE GethAssumption DEF RoundTypes
<1>0. \A c : Started(c) \subseteq Executors
  BY DEF Started
<1>1. CASE BeginEpoch
  BY <1>0, <1>1 DEF BeginEpoch
<1>2. CASE Admission
  BY <1>2 DEF Admission, Executors
<1>3. ASSUME NEW n \in Mutable, EngineSeed(n) PROVE RoundTypes'
  BY <1>3 DEF EngineSeed
<1>4. CASE DriveBlocks \/ RotateProducer
  BY <1>4 DEF DriveBlocks, RotateProducer, AfterHandover
<1>5. CASE CycleNetwork
  BY <1>0, <1>5 DEF CycleNetwork
<1>6. CASE SyncBegins
  BY <1>6 DEF SyncBegins, Executors
<1>7. ASSUME NEW i \in Followers, Follow(i) PROVE RoundTypes'
  BY <1>7 DEF Follow
<1>8. CASE Pass
  BY <1>8 DEF Pass, Laggards
<1>9. CASE SyncEnds
  BY <1>9 DEF SyncEnds, Reached
<1>10. CASE ObserveGasLimits
  BY <1>10 DEF ObserveGasLimits, StopAll
<1>11. ASSUME NEW n \in Executors, GethDies(n) PROVE RoundTypes'
  BY <1>11 DEF GethDies
<1>12. CASE UNCHANGED gethVars
  BY <1>12 DEF gethVars
<1> QED
  BY <1>1, <1>2, <1>3, <1>4, <1>5, <1>6, <1>7, <1>8, <1>9, <1>10, <1>11, <1>12
  DEF GethNext

LEMMA OracleTypesStep ==
  ASSUME RoundTypes, OracleTypes, [GethNext]_gethVars
  PROVE  OracleTypes'
<1>1. ASSUME UNCHANGED <<below, healthy>>, collapsed' \in {collapsed, {}} PROVE OracleTypes'
  BY <1>1 DEF OracleTypes
<1>2. CASE ObserveGasLimits
  <2>1. PICK read \in SUBSET (Followers \cap alive) :
          /\ below' = BelowAfter(read)
          /\ collapsed' = {i \in read : Low(chain[i]) /\ below'[i] >= Persistence}
    BY <1>2 DEF ObserveGasLimits
  <2>2. below' \in [Followers -> 0 .. Persistence]
    BY <2>1, GethAssumption DEF BelowAfter, OracleTypes
  <2>3. healthy' \in [Followers -> 0 .. MaxEpochs]
    BY <1>2 DEF ObserveGasLimits, OracleTypes, RoundTypes
  <2>4. collapsed' \subseteq Followers
    BY <2>1
  <2> QED
    BY <2>2, <2>3, <2>4 DEF OracleTypes
<1> QED
  BY <1>1, <1>2
  DEF GethNext, gethVars, oracleVars, BeginEpoch, Admission, EngineSeed, DriveBlocks,
      RotateProducer, CycleNetwork, SyncBegins, Follow, Pass, SyncEnds, GethDies

-----------------------------------------------------------------------------
(* Rounds of geth: one chain *)

SoleSealer == \A x, y \in sealers : x = y

\* What one chain means: all chains, and the head followed, are prefixes of
\* that of the node that sealed it.
ChainsFollow ==
  /\ sealers = {} => head = <<>> /\ \A n \in Executors : chain[n] = <<>>
  /\ \A s \in sealers :
       IsPrefix(head, chain[s]) /\ \A n \in Executors : IsPrefix(chain[n], chain[s])

\* Converged nodes are at least as high as the head.
ConvergedReach ==
  /\ phase = "observe" => \A i \in converged \cap alive : Len(head) <= Len(chain[i])
  /\ phase \notin {"plan", "observe"} => converged = {}

OneChainHolds == OneChain => ChainsFollow /\ ConvergedReach

LEMMA SealersFinite ==
  ASSUME ChainTypes
  PROVE  IsFiniteSet(sealers) /\ Cardinality(sealers) \in Nat
<1>1. IsFiniteSet(Mutable)
  BY GethAssumption
<1>2. IsFiniteSet(Mutable \cup {Successor})
  BY <1>1, FS_AddElement
<1>3. IsFiniteSet(sealers)
  BY <1>2, FS_Subset DEF ChainTypes
<1> QED
  BY <1>3, FS_CardinalityType

LEMMA OneChainIsSole ==
  ASSUME ChainTypes, OneChain
  PROVE  SoleSealer /\ ~lost
<1>1. IsFiniteSet(sealers) /\ Cardinality(sealers) \in Nat
  BY SealersFinite
<1>2. Cardinality(sealers) = 0 \/ Cardinality(sealers) = 1
  BY <1>1 DEF OneChain
<1>3. sealers = {} \/ \E x : sealers = {x}
  BY <1>1, <1>2, FS_EmptySet, FS_Singleton
<1> QED
  BY <1>3 DEF SoleSealer, OneChain

\* No step takes a sealer or a loss out of the history.
LEMMA OneChainWasOne ==
  ASSUME ChainTypes, ChainTypes', [GethNext]_gethVars, OneChain'
  PROVE  OneChain /\ SoleSealer' /\ ~lost'
<1>1. SoleSealer' /\ ~lost'
  BY OneChainIsSole, PTL
<1>2. sealers \subseteq sealers' /\ (lost => lost')
  BY DEF GethNext, gethVars, BeginEpoch, Admission, EngineSeed, DriveBlocks, Drive,
         RotateProducer, CycleNetwork, SyncBegins, Follow, Pass, SyncEnds,
         ObserveGasLimits, GethDies
<1>3. (IsFiniteSet(sealers) /\ Cardinality(sealers) \in Nat)'
  BY SealersFinite, PTL
<1>4. Cardinality(sealers) \in Nat /\ Cardinality(sealers) <= Cardinality(sealers')
  BY <1>2, <1>3, FS_Subset, SealersFinite
<1> QED
  BY <1>1, <1>2, <1>3, <1>4 DEF OneChain

\* A chain node n may be driven from: its own, or one the others have as well.
Base(n, c) ==
  /\ sealers = {} => c = <<>>
  /\ \A s \in sealers : IsPrefix(c, chain[s])
  /\ n \in sealers => c = chain[n]

LEMMA DriveFollows ==
  ASSUME ChainTypes, ChainsFollow, NEW n \in Mutable \cup {Successor}, n \in Executors,
         NEW c \in Seq(Block), Len(c) <= MaxHeight, Base(n, c),
         Drive(n, c), UNCHANGED head, SoleSealer'
  PROVE  ChainsFollow'
<1>1. PICK d \in Driven(n, c) :
        /\ chain' = [chain EXCEPT ![n] = d]
        /\ sealers' = IF d # c THEN sealers \cup {n} ELSE sealers
  BY DEF Drive
<1>2. /\ d \in Seq(Block)
      /\ d = c \/ \E b \in Block : d = Append(c, b)
  BY DrivenType
<1>3. /\ \A m \in Executors : chain[m] \in Seq(Block)
      /\ \A m \in Executors \ {n} : chain'[m] = chain[m]
      /\ chain'[n] = d /\ head \in Seq(Block) /\ sealers \subseteq Executors
  <2>1. Successor \in Executors /\ Mutable \subseteq Executors
    BY GethAssumption DEF Executors, Foremost
  <2> QED
    BY <1>1, <2>1 DEF ChainTypes
<1>4. CASE d = c
  <2>1. sealers' = sealers
    BY <1>1, <1>4
  <2>2. CASE sealers = {}
    BY <1>3, <1>4, <2>1, <2>2 DEF ChainsFollow, Base
  <2>3. ASSUME NEW s \in sealers
        PROVE  /\ chain'[s] = chain[s]
               /\ \A m \in Executors : IsPrefix(chain'[m], chain[s])
    <3>1. chain'[s] = chain[s]
      BY <1>3, <1>4, <2>3 DEF Base
    <3>2. IsPrefix(c, chain[s]) /\ \A m \in Executors : IsPrefix(chain[m], chain[s])
      BY <2>3 DEF ChainsFollow, Base
    <3>3. \A m \in Executors : chain'[m] = c \/ chain'[m] = chain[m]
      BY <1>3, <1>4
    <3> QED
      BY <3>1, <3>2, <3>3
  <2>4. ASSUME NEW s \in sealers PROVE IsPrefix(head, chain'[s])
    BY <2>3, <2>4 DEF ChainsFollow
  <2>5. sealers # {} => ChainsFollow'
    BY <1>3, <2>1, <2>3, <2>4 DEF ChainsFollow
  <2> QED
    BY <2>2, <2>5
<1>5. CASE d # c
  <2>1. sealers' = {n} /\ sealers \subseteq {n}
    BY <1>1, <1>5 DEF SoleSealer
  <2>2. IsPrefix(c, d)
    BY <1>2, <1>5, PrefixAppend
  <2>3. IsPrefix(head, c) /\ \A m \in Executors : IsPrefix(chain[m], c)
    <3>1. CASE sealers = {}
      BY <1>3, <3>1, PrefixOrder DEF ChainsFollow
    <3>2. CASE sealers = {n}
      BY <3>2 DEF ChainsFollow, Base
    <3> QED
      BY <2>1, <3>1, <3>2
  <2>4. IsPrefix(head, d)
    BY <1>2, <1>3, <2>2, <2>3, PrefixOrder
  <2>5. ASSUME NEW m \in Executors PROVE IsPrefix(chain'[m], d)
    <3>1. CASE m = n
      <4>1. IsPrefix(d, d)
        BY <1>2, PrefixOrder
      <4> QED
        BY <1>3, <3>1, <4>1
    <3>2. CASE m # n
      BY <1>2, <1>3, <2>2, <2>3, <3>2, PrefixOrder
    <3> QED
      BY <3>1, <3>2
  <2> QED
    BY <1>3, <2>1, <2>4, <2>5 DEF ChainsFollow
<1> QED
  BY <1>4, <1>5

\* A node's own chain is a base, and so is a head it follows.
LEMMA OwnBase ==
  ASSUME ChainsFollow, NEW n \in Executors
  PROVE  Base(n, chain[n])
BY DEF ChainsFollow, Base

LEMMA FollowedBase ==
  ASSUME ChainTypes, alive \subseteq Executors, ChainsFollow,
         NEW i \in Executors, NEW h \in Seq(Block),
         sealers = {} => h = <<>>, \A s \in sealers : IsPrefix(h, chain[s]),
         NEW c \in Following(i, h)
  PROVE  Base(i, c)
<1>1. CASE c = chain[i]
  BY <1>1, OwnBase
<1>2. CASE c = h /\ ~IsPrefix(h, chain[i])
  BY <1>2 DEF Base
<1> QED
  BY <1>1, <1>2, FollowingType

\* The head followed is one of the chains, or none.
LEMMA ChainsFollowStep ==
  ASSUME ChainTypes, RoundTypes, ChainsFollow, [GethNext]_gethVars,
         SoleSealer', ~lost'
  PROVE  ChainsFollow'
<1>0. /\ Producer \in Mutable /\ Successor \in Followers
      /\ Producer \in Executors /\ Successor \in Executors
      /\ Mutable \subseteq Executors /\ Followers \subseteq Executors
      /\ alive \subseteq Executors /\ head \in Seq(Block) /\ sealers \subseteq Executors
      /\ \A n \in Executors : chain[n] \in Seq(Block) /\ Len(chain[n]) <= MaxHeight
  BY GethAssumption DEF Foremost, Executors, RoundTypes, ChainTypes
<1>1. ASSUME UNCHANGED <<chain, sealers, head>> PROVE ChainsFollow'
  BY <1>1 DEF ChainsFollow
<1>2. ASSUME NEW n \in Mutable, Drive(n, chain[n]), UNCHANGED head
      PROVE  ChainsFollow'
  BY <1>0, <1>2, OwnBase, DriveFollows
<1>3. ASSUME NEW c \in Following(Successor, chain[Producer]), Drive(Successor, c),
             UNCHANGED head
      PROVE  ChainsFollow'
  <2>1. /\ sealers = {} => chain[Producer] = <<>>
        /\ \A s \in sealers : IsPrefix(chain[Producer], chain[s])
    BY <1>0 DEF ChainsFollow
  <2>2. Base(Successor, c)
    BY <1>0, <2>1, FollowedBase
  <2>3. c \in Seq(Block) /\ Len(c) <= MaxHeight
    BY <1>0, FollowingType
  <2> QED
    BY <1>0, <1>3, <2>2, <2>3, DriveFollows
<1>4. CASE RotateProducer
  BY <1>1, <1>3, <1>4 DEF RotateProducer
<1>5. ASSUME head' = <<>>, UNCHANGED <<chain, sealers>> PROVE ChainsFollow'
  <2>1. \A s \in sealers : IsPrefix(<<>>, chain[s])
    BY <1>0, PrefixOrder
  <2> QED
    BY <1>5, <2>1 DEF ChainsFollow
<1>6. ASSUME NEW source \in alive, head' = chain[source], UNCHANGED <<chain, sealers>>
      PROVE  ChainsFollow'
  BY <1>0, <1>6 DEF ChainsFollow
<1>7. CASE SyncBegins
  <2>1. UNCHANGED <<chain, sealers>>
    BY <1>7 DEF SyncBegins
  <2>2. UNCHANGED head \/ \E source \in alive : head' = chain[source]
    BY <1>7 DEF SyncBegins, Answering
  <2> QED
    BY <1>1, <1>6, <2>1, <2>2
<1>8. ASSUME NEW i \in Followers, Follow(i) PROVE ChainsFollow'
  <2>1. PICK c \in Following(i, head) : chain' = [chain EXCEPT ![i] = c]
    BY <1>8 DEF Follow
  <2>2. UNCHANGED <<head, sealers>>
    BY <1>8 DEF Follow
  <2>3. Base(i, c)
    BY <1>0, FollowedBase DEF ChainsFollow
  <2>4. \A n \in Executors : (n # i => chain'[n] = chain[n]) /\ (n = i => chain'[n] = c)
    BY <2>1 DEF ChainTypes
  <2>5. CASE sealers = {}
    BY <2>2, <2>3, <2>4, <2>5 DEF ChainsFollow, Base
  <2>6. ASSUME NEW s \in sealers
        PROVE  /\ IsPrefix(head, chain'[s])
               /\ \A n \in Executors : IsPrefix(chain'[n], chain'[s])
    <3>1. chain'[s] = chain[s]
      BY <1>0, <2>3, <2>4, <2>6 DEF Base
    <3>2. /\ IsPrefix(head, chain[s]) /\ IsPrefix(c, chain[s])
          /\ \A n \in Executors : IsPrefix(chain[n], chain[s])
      BY <2>3, <2>6 DEF ChainsFollow, Base
    <3>3. \A n \in Executors : chain'[n] = c \/ chain'[n] = chain[n]
      BY <2>4
    <3> QED
      BY <3>1, <3>2, <3>3
  <2>7. sealers # {} => ChainsFollow'
    BY <2>2, <2>6 DEF ChainsFollow
  <2> QED
    BY <2>5, <2>7
<1>9. ASSUME NEW n \in Executors, GethDies(n) PROVE ChainsFollow'
  BY <1>1, <1>9 DEF GethDies
<1>10. ASSUME NEW n \in Mutable, EngineSeed(n) PROVE ChainsFollow'
  BY <1>2, <1>10 DEF EngineSeed
<1>11. CASE Admission \/ DriveBlocks
  BY <1>0, <1>2, <1>11 DEF Admission, DriveBlocks
<1>12. CASE BeginEpoch
  BY <1>5, <1>12 DEF BeginEpoch
<1> QED
  BY <1>1, <1>4, <1>7, <1>8, <1>9, <1>10, <1>11, <1>12
  DEF GethNext, gethVars, CycleNetwork, Pass, SyncEnds, ObserveGasLimits

\* Heights are read as they are, or as 0.
LEMMA ReachStep ==
  ASSUME ChainTypes, RoundTypes, ConvergedReach, [GethNext]_gethVars, ~lost'
  PROVE  ConvergedReach'
<1>0. /\ head \in Seq(Block) /\ Len(head) \in Nat
      /\ \A i \in Followers : chain[i] \in Seq(Block) /\ Len(chain[i]) \in Nat
      /\ converged \subseteq Followers
  BY DEF ChainTypes, RoundTypes, Executors
<1>1. CASE SyncEnds
  <2>1. PICK r \in HeightsRead(Followers) : converged' = Reached(r)
    BY <1>1 DEF SyncEnds
  <2>2. ASSUME NEW i \in converged' \cap alive PROVE Len(head) <= Len(chain[i])
    <3>1. i \in Followers /\ r[i] >= Len(head)
      BY <2>1, <2>2 DEF Reached
    <3>2. r[i] = 0 \/ r[i] = Len(chain[i])
      BY <3>1 DEF HeightsRead
    <3> QED
      BY <1>0, <3>1, <3>2
  <2> QED
    BY <1>1, <2>2 DEF SyncEnds, ConvergedReach
<1>2. ASSUME NEW n \in Executors, GethDies(n) PROVE ConvergedReach'
  BY <1>2 DEF GethDies, ConvergedReach
<1>3. CASE SyncBegins
  <2>1. CASE phase' = "follow"
    BY <1>3, <2>1 DEF SyncBegins, ConvergedReach
  <2>2. CASE phase' = "observe" /\ UNCHANGED head
    BY <1>3, <2>2 DEF SyncBegins, ConvergedReach
  <2> QED
    BY <1>3, <2>1, <2>2 DEF SyncBegins
<1>4. CASE UNCHANGED gethVars
  BY <1>4 DEF gethVars, ConvergedReach
<1>5. ASSUME phase' # "observe", UNCHANGED converged, phase \notin {"plan", "observe"}
      PROVE  ConvergedReach'
  BY <1>5 DEF ConvergedReach
<1>6. CASE BeginEpoch
  BY <1>6 DEF BeginEpoch, ConvergedReach
<1>7. CASE ObserveGasLimits
  BY <1>7 DEF ObserveGasLimits, ConvergedReach
<1> QED
  BY <1>1, <1>2, <1>3, <1>4, <1>5, <1>6, <1>7
  DEF GethNext, Admission, EngineSeed, DriveBlocks, RotateProducer, AfterHandover,
      CycleNetwork, Follow, Pass

-----------------------------------------------------------------------------
(* Collapses of the gasLimit *)

\* The count of a node covers observed rounds since it was last not low.
CountsArePast ==
  \A i \in Followers :
    /\ healthy[i] + below[i] <= epoch
    /\ phase # "plan" => healthy[i] + below[i] < epoch

\* Reports stand until the next round begins.
ReportsAreReal ==
  /\ collapsed # {} => phase = "plan"
  /\ \A i \in collapsed : healthy[i] + Persistence <= epoch
  /\ OneChain =>
       \A i \in collapsed \cap converged : \A n \in sealers :
         head = chain[n] => Low(chain[n])

LEMMA CountsStep ==
  ASSUME RoundTypes, OracleTypes, CountsArePast, [GethNext]_gethVars
  PROVE  CountsArePast'
<1>0. /\ epoch \in Nat /\ Persistence \in Nat \ {0}
      /\ \A i \in Followers : healthy[i] \in Nat /\ below[i] \in Nat /\ below[i] <= Persistence
  BY GethAssumption DEF RoundTypes, OracleTypes
<1>1. ASSUME UNCHANGED <<epoch, below, healthy>>, phase # "plan" \/ phase' = "plan"
      PROVE  CountsArePast'
  BY <1>0, <1>1 DEF CountsArePast
<1>2. CASE BeginEpoch
  <2>1. epoch' = epoch + 1 /\ UNCHANGED <<below, healthy>>
    BY <1>2 DEF BeginEpoch
  <2> QED
    BY <1>0, <2>1 DEF CountsArePast
<1>3. CASE ObserveGasLimits
  <2>1. PICK read \in SUBSET (Followers \cap alive) : below' = BelowAfter(read)
    BY <1>3 DEF ObserveGasLimits
  <2>2. /\ phase = "observe" /\ phase' = "plan" /\ epoch' = epoch
        /\ healthy' = [i \in Followers |->
                          IF i \notin alive \/ ~Low(chain[i]) THEN epoch ELSE healthy[i]]
    BY <1>3 DEF ObserveGasLimits
  <2>3. ASSUME NEW i \in Followers PROVE healthy'[i] + below'[i] <= epoch
    <3>1. healthy[i] + below[i] < epoch
      BY <2>2 DEF CountsArePast
    <3>2. CASE i \notin alive \/ ~Low(chain[i])
      <4>1. healthy'[i] = epoch /\ below'[i] = 0
        BY <2>1, <2>2, <3>2 DEF BelowAfter
      <4> QED
        BY <1>0, <4>1
    <3>3. CASE i \in alive /\ Low(chain[i])
      <4>1. healthy'[i] = healthy[i] /\ below'[i] \in {0, below[i] + 1, Persistence}
            /\ (below'[i] = Persistence => below'[i] <= below[i] + 1)
        BY <1>0, <2>1, <2>2, <3>3 DEF BelowAfter
      <4> QED
        BY <1>0, <3>1, <4>1
    <3> QED
      BY <3>2, <3>3
  <2> QED
    BY <2>2, <2>3 DEF CountsArePast
<1>4. CASE UNCHANGED gethVars
  BY <1>4 DEF gethVars, CountsArePast
<1>5. ASSUME NEW n \in Executors, GethDies(n) PROVE CountsArePast'
  BY <1>5 DEF GethDies, oracleVars, CountsArePast
<1> QED
  BY <1>1, <1>2, <1>3, <1>4, <1>5
  DEF GethNext, oracleVars, Admission, EngineSeed, DriveBlocks, RotateProducer, CycleNetwork,
      SyncBegins, Follow, Pass, SyncEnds

LEMMA ReportsStep ==
  ASSUME ChainTypes, RoundTypes, OracleTypes, OneChainHolds, CountsArePast, CountsArePast',
         ReportsAreReal, [GethNext]_gethVars
  PROVE  ReportsAreReal'
<1>1. ASSUME collapsed' = {} PROVE ReportsAreReal'
  BY <1>1 DEF ReportsAreReal
<1>2. ASSUME phase # "plan", UNCHANGED collapsed PROVE ReportsAreReal'
  BY <1>1, <1>2 DEF ReportsAreReal
<1>3. CASE ObserveGasLimits
  <2>1. PICK read \in SUBSET (Followers \cap alive) :
          collapsed' = {i \in read : Low(chain[i]) /\ below'[i] >= Persistence}
    BY <1>3 DEF ObserveGasLimits
  <2>2. /\ phase = "observe" /\ phase' = "plan"
        /\ UNCHANGED <<epoch, chain, head, converged, sealers, lost>>
    BY <1>3 DEF ObserveGasLimits
  <2>3. ASSUME NEW i \in collapsed' PROVE healthy'[i] + Persistence <= epoch'
    <3>1. i \in Followers /\ below'[i] >= Persistence /\ healthy'[i] + below'[i] <= epoch
      BY <2>1, <2>2, <2>3 DEF CountsArePast
    <3>2. healthy'[i] \in Nat /\ below'[i] \in Nat /\ epoch \in Nat /\ Persistence \in Nat
      <4>1. OracleTypes'
        BY OracleTypesStep
      <4> QED
        BY <3>1, <4>1, GethAssumption DEF OracleTypes, RoundTypes
    <3> QED
      BY <2>2, <3>1, <3>2
  <2>4. ASSUME OneChain, NEW i \in collapsed' \cap converged, NEW n \in sealers,
               head = chain[n]
        PROVE  Low(chain[n])
    <3>1. i \in Executors /\ i \in converged \cap alive /\ Low(chain[i])
      BY <2>1, <2>4 DEF Executors
    <3>2. Len(head) <= Len(chain[i]) /\ IsPrefix(chain[i], head)
      BY <2>2, <2>4, <3>1 DEF OneChainHolds, ChainsFollow, ConvergedReach
    <3>3. chain[i] \in Seq(Block) /\ head \in Seq(Block)
      BY <3>1 DEF ChainTypes
    <3>4. IsPrefix(head, head)
      BY <3>3, PrefixOrder
    <3>5. IsPrefix(head, chain[i])
      BY <3>2, <3>3, <3>4, PrefixOrder
    <3>6. chain[i] = head
      BY <3>2, <3>3, <3>5, PrefixOrder
    <3> QED
      BY <2>4, <3>1, <3>6
  <2>5. OneChain' <=> OneChain
    BY <2>2 DEF OneChain
  <2> QED
    BY <2>2, <2>3, <2>4, <2>5 DEF ReportsAreReal
<1>4. CASE UNCHANGED gethVars
  BY <1>4 DEF gethVars, ReportsAreReal, OneChain
<1>5. ASSUME NEW n \in Executors, GethDies(n) PROVE ReportsAreReal'
  <2>1. UNCHANGED <<epoch, phase, head, converged, collapsed, healthy, sealers>>
    BY <1>5 DEF GethDies, oracleVars
  <2>2. CASE UNCHANGED <<chain, lost>>
    BY <2>1, <2>2 DEF ReportsAreReal, OneChain
  <2>3. CASE lost'
    BY <2>1, <2>3 DEF ReportsAreReal, OneChain
  <2> QED
    BY <1>5, <2>2, <2>3 DEF GethDies
<1>6. CASE BeginEpoch
  BY <1>1, <1>6 DEF BeginEpoch
<1> QED
  BY <1>2, <1>3, <1>4, <1>5, <1>6
  DEF GethNext, oracleVars, Admission, EngineSeed, DriveBlocks, RotateProducer, CycleNetwork,
      SyncBegins, Follow, Pass, SyncEnds

-----------------------------------------------------------------------------
(* The theorems about geth *)

GethIInv ==
  /\ ChainTypes /\ RoundTypes /\ OracleTypes /\ lost \in BOOLEAN
  /\ OneChainHolds /\ CountsArePast /\ ReportsAreReal

LEMMA GethInitial == GethInit => GethIInv
<1> SUFFICES ASSUME GethInit PROVE GethIInv
  OBVIOUS
<1> USE GethAssumption DEF GethInit
<1>1. ChainTypes
  BY DEF ChainTypes
<1>2. RoundTypes /\ OracleTypes
  BY DEF RoundTypes, OracleTypes
<1>3. lost \in BOOLEAN
  BY Zenon
<1>4. ChainsFollow
  BY DEF ChainsFollow
<1>5. ConvergedReach
  BY DEF ConvergedReach
<1>6. CountsArePast /\ ReportsAreReal
  BY DEF CountsArePast, ReportsAreReal
<1> QED
  BY <1>1, <1>2, <1>3, <1>4, <1>5, <1>6 DEF GethIInv, OneChainHolds

LEMMA GethSafe == GethSpec => []GethIInv
<1>1. GethIInv /\ [GethNext]_gethVars => GethIInv'
  <2> SUFFICES ASSUME GethIInv, [GethNext]_gethVars PROVE GethIInv'
    OBVIOUS
  <2>1. ChainTypes' /\ RoundTypes' /\ OracleTypes'
    BY ChainTypesStep, RoundTypesStep, OracleTypesStep DEF GethIInv
  <2>2. (lost \in BOOLEAN)'
    BY Zenon DEF GethIInv, GethNext, gethVars, BeginEpoch, Admission, EngineSeed, DriveBlocks,
       RotateProducer, CycleNetwork, SyncBegins, Follow, Pass, SyncEnds, ObserveGasLimits,
       GethDies
  <2>3. OneChainHolds'
    <3> SUFFICES ASSUME OneChain' PROVE ChainsFollow' /\ ConvergedReach'
      BY DEF OneChainHolds
    <3>1. OneChain /\ SoleSealer' /\ ~lost'
      BY <2>1, OneChainWasOne DEF GethIInv
    <3>2. ChainsFollow /\ ConvergedReach
      BY <3>1 DEF GethIInv, OneChainHolds
    <3> QED
      BY <3>1, <3>2, ChainsFollowStep, ReachStep DEF GethIInv
  <2>4. CountsArePast'
    BY CountsStep DEF GethIInv
  <2>5. ReportsAreReal'
    BY <2>4, ReportsStep DEF GethIInv
  <2> QED
    BY <2>1, <2>2, <2>3, <2>4, <2>5 DEF GethIInv
<1> QED
  BY <1>1, GethInitial, PTL DEF GethSpec

\* While there is one chain, a live node that counts as converged has the head
\* sync_all drove the nodes to, whatever failed on the way.
THEOREM ConvergedNodesFollow == GethSpec => []GethInv
<1>1. GethIInv => GethInv
  <2> SUFFICES ASSUME GethIInv PROVE GethInv
    OBVIOUS
  <2>1. GethTypeOK
    BY GethTypeParts DEF GethIInv
  <2>2. ASSUME phase = "observe", OneChain, NEW i \in converged \cap alive
        PROVE  IsPrefix(head, chain[i])
    <3>1. /\ i \in Executors /\ chain[i] \in Seq(Block) /\ head \in Seq(Block)
      BY DEF GethIInv, ChainTypes, RoundTypes
    <3>2. ChainsFollow /\ Len(head) <= Len(chain[i])
      BY <2>2 DEF GethIInv, OneChainHolds, ConvergedReach
    <3>3. CASE sealers = {}
      <4>1. head = <<>> /\ chain[i] = <<>>
        BY <3>1, <3>2, <3>3 DEF ChainsFollow
      <4> QED
        BY <3>1, <4>1, PrefixOrder
    <3>4. ASSUME NEW s \in sealers PROVE IsPrefix(head, chain[i])
      <4>1. IsPrefix(head, chain[s]) /\ IsPrefix(chain[i], chain[s])
        BY <3>1, <3>2 DEF ChainsFollow
      <4>2. s \in Executors
        BY GethAssumption DEF GethIInv, ChainTypes, Executors, Foremost
      <4>3. chain[s] \in Seq(Block)
        BY <4>2 DEF GethIInv, ChainTypes
      <4> QED
        BY <3>1, <3>2, <4>1, <4>3, PrefixOrder
    <3> QED
      BY <3>3, <3>4
  <2> QED
    BY <2>1, <2>2 DEF GethInv, ConvergedFollow
<1> QED
  BY <1>1, GethSafe, PTL

\* A reported collapse persisted over the last observed rounds, and on the
\* only chain it is the collapse of the chain's head.
THEOREM CollapsesAreReal == GethSpec => []CollapseIsReal
<1>1. GethIInv => CollapseIsReal
  BY DEF GethIInv, ReportsAreReal, CollapseIsReal
<1> QED
  BY <1>1, GethSafe, PTL

-----------------------------------------------------------------------------
(* The composition *)

\* On every target the oracle runs one branch, and the others stay as they are.
LEMMA SignalsAreComposed == Spec => StormSpec /\ ControlledSpec /\ GethSpec
<1>1. Init => StormInit /\ ControlledInit /\ GethInit
  BY DEF Init, StormUnused, ControlledUnused, GethUnused
<1>2. [Next]_vars =>
        [StormNext]_stormVars /\ [ControlledNext]_controlledVars /\ [GethNext]_gethVars
  BY DEF Next, vars
<1> QED
  BY <1>1, <1>2, PTL DEF Spec, StormSpec, ControlledSpec, GethSpec

\* Whatever the target, BcbOracle.observe reports no storm, stall or collapse
\* for which its counters have no evidence, and misses no storm.
THEOREM SignalsAreSound ==
  Spec => [](StormInv /\ ControlledInv /\ GethInv /\ CollapseIsReal) /\ BurstIsCaught
<1> QED
  BY SignalsAreComposed, QuietReportsAreReal, CountsCoverStandstill, ConvergedNodesFollow,
     CollapsesAreReal, BurstsAreCaught, PTL
=============================================================================
