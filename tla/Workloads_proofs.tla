---------------------------- MODULE Workloads_proofs ---------------------------
(***************************************************************************)
(* The accounting of a varied round: for any number of writes a wave may   *)
(* have accepted, fisco counts what was accepted; chainmaker reports no    *)
(* more accepted calls than attempted ones, and leaves nothing frozen that *)
(* could be unfrozen.                                                      *)
(***************************************************************************)
EXTENDS Workloads, TLAPS

-----------------------------------------------------------------------------
(* Fisco *)

\* Where interact can be: cycle, peer or wave numbers within their loops.
Places ==
  {<<"online", i>> : i \in 1..10} \cup {<<p, c>> : p \in {"cycle", "restart", "endcycle"}, c \in 1..2}
    \cup {<<p, c, i>> : p \in {"peer", "post"}, c \in 1..2, i \in 1..4}
    \cup {<<p, c>> : p \in {"sustain", "rest"}, c \in 0..5}
    \cup {<<"returned">>, <<"raised">>, <<"unused">>}

\* The transactions of native_filter_wave wait between two online waves, or
\* are lost at the deadline; everything else that is accepted is counted.
FiscoInv ==
  /\ key \in Keys /\ timed \in BOOLEAN /\ late \in 0..4
  /\ at \in Places /\ halted \in BOOLEAN
  /\ trigger \in Nat /\ due = trigger
  /\ trigger # 0 => at = <<"online", 9>> \/ at = <<"raised">> \/ (at = <<"returned">> /\ late = 4)
  /\ halted => at[1] \in {"peer", "restart", "raised"}

\* What follows a wave.
LEMMA NextPlace ==
  ASSUME timed \in BOOLEAN, late' \in 0..4, NEW p \in Places, NextUnlessExpired(p)
  PROVE  /\ at' \in Places
         /\ at' = p \/ (at' = <<"returned">> /\ late' = 4)
<1>1. <<"returned">> \in Places
  BY DEF Places
<1>2. Expired("none", late') => late' = 4
  BY DEF Expired, Slack
<1> QED BY <1>1, <1>2 DEF NextUnlessExpired

\* A wave adds what it wrote to the sum of its part, when the sum has all the
\* kinds of the wave.
LEMMA WaveIsCounted ==
  ASSUME due \in Nat, NEW waves, NEW delta, waves \subseteq delta,
         NEW n \in Accepted(waves), Count(n, delta)
  PROVE  due' = due
BY DEF Accepted, Count

LEMMA ClockIsBounded ==
  ASSUME timed \in BOOLEAN, late \in 0..4, Passing
  PROVE  late' \in 0..4 /\ late <= late' /\ (~timed => late' = late)
BY DEF Passing

LEMMA OnlineIsCounted ==
  ASSUME FiscoInv, OnlineWave
  PROVE  FiscoInv'
<1>1. PICK i \in 1..10 : at = <<"online", i>>
  BY DEF FiscoInv, Places, OnlineWave
<1>2. UNCHANGED <<key, timed, halted>> /\ ~halted /\ late' \in 0..4
  BY <1>1, ClockIsBounded DEF FiscoInv, OnlineWave
<1> DEFINE following == IF i = 10 THEN <<"cycle", 1>> ELSE <<"online", i + 1>>
<1>3. Len(Online) = 10
  BY DEF Online
<1>4. following \in Places
  BY <1>1 DEF Places
<1>5. /\ at' \in Places
      /\ at' = following \/ (at' = <<"returned">> /\ late' = 4)
  <2>1. CASE Online[i] = AuthWave
    BY <1>1, <1>3, <1>4, <2>1 DEF OnlineWave
  <2>2. CASE Online[i] # AuthWave
    <3>1. NextUnlessExpired(following)
      BY <1>1, <1>3, <2>2 DEF OnlineWave
    <3> QED BY <1>2, <1>4, <3>1, NextPlace DEF FiscoInv
  <2> QED BY <2>1, <2>2
<1>6. trigger # 0 => i = 9
  BY <1>1 DEF FiscoInv
<1>7. PICK n \in Accepted(Online[i]) :
        CASE Online[i] = NativeFilterWave -> trigger' = n /\ Count(n, {})
          [] Online[i] = SimpleTransferWave -> trigger' = 0 /\ due' = due - trigger
          [] OTHER -> trigger' = trigger /\ Count(n, SubmissionDelta)
  BY <1>1 DEF OnlineWave
<1>8. n \in Nat
  BY ManyAssumption DEF Accepted
<1>9. /\ Online[8] = NativeFilterWave /\ Online[9] = SimpleTransferWave
      /\ NativeFilterWave # SimpleTransferWave
      /\ i \notin {8, 9} => /\ Online[i] \subseteq SubmissionDelta
                            /\ Online[i] # NativeFilterWave /\ Online[i] # SimpleTransferWave
  <2> USE DEF SubmissionDelta, WriteActivityKeys, NativeFilterWave, SimpleTransferWave,
              DagTransferWave, BfsWave, BfsExtendedWave, SystemConfigWave, BalanceWave,
              AuthWave, TableManagerWave
  <2>1. Online[8] = NativeFilterWave /\ Online[9] = SimpleTransferWave
        /\ NativeFilterWave # SimpleTransferWave
    BY DEF Online
  <2>2. ASSUME i \notin {8, 9}
        PROVE  Online[i] \in {DagTransferWave, BfsWave, BfsExtendedWave, SystemConfigWave,
                              BalanceWave, AuthWave, TableManagerWave}
    BY <1>1, <2>2 DEF Online
  <2>3. ASSUME NEW w \in {DagTransferWave, BfsWave, BfsExtendedWave, SystemConfigWave,
                          BalanceWave, AuthWave, TableManagerWave}
        PROVE  w \subseteq SubmissionDelta /\ "trigger" \notin w /\ "simple" \notin w
    BY <2>3
  <2> QED BY <2>1, <2>2, <2>3
<1>10. CASE i = 8
  <2>1. trigger' = n /\ due' = due + n /\ due = 0
    BY <1>6, <1>7, <1>9, <1>10 DEF Count, FiscoInv
  <2> QED BY <1>1, <1>2, <1>5, <1>8, <1>10, <2>1 DEF FiscoInv
<1>11. CASE i = 9
  <2>1. trigger' = 0 /\ due' = 0
    BY <1>7, <1>9, <1>11 DEF FiscoInv
  <2> QED BY <1>1, <1>2, <1>5, <2>1 DEF FiscoInv
<1>12. CASE i \notin {8, 9}
  <2>1. trigger' = 0 /\ due' = 0
    BY <1>6, <1>7, <1>9, <1>12, WaveIsCounted DEF FiscoInv
  <2> QED BY <1>1, <1>2, <1>5, <2>1 DEF FiscoInv
<1> QED BY <1>10, <1>11, <1>12

\* The sums of the offline cycles are complete, for the first peer and for the
\* others, and node 0 does not stay down.
LEMMA CycleIsCounted ==
  ASSUME FiscoInv,
         BeginCycle \/ PeerWave \/ PeersDone \/ RestartFirst \/ PostWave \/ PostDone \/ EndCycle
  PROVE  FiscoInv'
<1> USE DEF FiscoInv
<1>1. UNCHANGED <<key, timed, trigger>> /\ late' \in 0..4
  BY ClockIsBounded DEF BeginCycle, PeerWave, PeersDone, RestartFirst, PostWave, PostDone, EndCycle
<1>2. trigger = 0
  BY DEF Places, BeginCycle, PeerWave, PeersDone, RestartFirst, PostWave, PostDone, EndCycle
<1>3. CASE BeginCycle
  <2>1. PICK c \in 1..2 : at = <<"cycle", c>>
    BY <1>3 DEF BeginCycle, Places
  <2>2. <<"endcycle", c>> \in Places /\ <<"peer", c, 1>> \in Places
    BY DEF Places
  <2>3. ~halted /\ due' = due
    BY <1>3, <2>1 DEF BeginCycle
  <2>4. CASE at' = <<"endcycle", c>> /\ halted' = halted
    BY <1>1, <1>2, <2>2, <2>3, <2>4
  <2>5. CASE at' = <<"peer", c, 1>> /\ halted' = TRUE
    BY <1>1, <1>2, <2>2, <2>3, <2>5
  <2> QED BY <1>3, <2>1, <2>4, <2>5 DEF BeginCycle
<1>4. CASE PeerWave
  <2>1. PICK c \in 1..2, i \in 1..4 : at = <<"peer", c, i>>
    BY <1>4 DEF PeerWave, Places
  <2>2. i <= 3
    BY <1>4, <2>1 DEF PeerWave
  <2>3. <<"restart", c>> \in Places /\ <<"peer", c, i + 1>> \in Places
    BY <2>2 DEF Places
  <2>4. PeerWaves(i = 1) \subseteq PeerDelta(i = 1)
    BY DEF PeerWaves, PeerDelta, FirstPeerDelta, OtherPeerDelta
  <2>5. due' = due
    <3>1. PICK n \in Accepted(PeerWaves(i = 1)) : Count(n, PeerDelta(i = 1))
      BY <1>4, <2>1 DEF PeerWave
    <3> HIDE DEF FiscoInv
    <3>2. due \in Nat
      BY DEF FiscoInv
    <3> QED BY <2>4, <3>1, <3>2, WaveIsCounted
  <2> QED BY <1>1, <1>2, <1>4, <2>1, <2>3, <2>5 DEF PeerWave
<1>5. CASE PeersDone
  <2>1. PICK c \in 1..2, i \in 1..4 : at = <<"peer", c, i>>
    BY <1>5 DEF PeersDone, Places
  <2>2. <<"restart", c>> \in Places
    BY DEF Places
  <2> QED BY <1>1, <1>2, <1>5, <2>1, <2>2 DEF PeersDone
<1>6. CASE RestartFirst
  <2>1. PICK c \in 1..2 : at = <<"restart", c>>
    BY <1>6 DEF RestartFirst, Places
  <2>2. <<"post", c, 1>> \in Places
    BY DEF Places
  <2> QED BY <1>1, <1>2, <1>6, <2>1, <2>2 DEF RestartFirst
<1>7. CASE PostWave
  <2>1. PICK c \in 1..2, i \in 1..4 : at = <<"post", c, i>>
    BY <1>7 DEF PostWave, Places
  <2>2. i <= 3
    BY <1>7, <2>1 DEF PostWave
  <2>3. <<"post", c, i + 1>> \in Places
    BY <2>2 DEF Places
  <2>4. due' = due
    BY <1>7, WaveIsCounted DEF PostWave
  <2> QED BY <1>1, <1>2, <1>7, <2>1, <2>3, <2>4 DEF PostWave
<1>8. CASE PostDone
  <2>1. PICK c \in 1..2, i \in 1..4 : at = <<"post", c, i>>
    BY <1>8 DEF PostDone, Places
  <2>2. <<"endcycle", c>> \in Places
    BY DEF Places
  <2> QED BY <1>1, <1>2, <1>8, <2>1, <2>2 DEF PostDone
<1>9. CASE EndCycle
  <2>1. PICK c \in 1..2 : at = <<"endcycle", c>>
    BY <1>9 DEF EndCycle, Places
  <2> DEFINE following == IF c = 1 THEN <<"cycle", 2>> ELSE <<"sustain", 0>>
  <2>2. following \in Places
    BY DEF Places
  <2>3. at' = following \/ at' = <<"returned">>
    BY <1>9, <2>1 DEF EndCycle, NextUnlessExpired
  <2>4. at' \in Places
    BY <2>2, <2>3 DEF Places
  <2> QED BY <1>1, <1>2, <1>9, <2>1, <2>3, <2>4 DEF EndCycle
<1> QED BY <1>3, <1>4, <1>5, <1>6, <1>7, <1>8, <1>9

LEMMA SustainIsCounted ==
  ASSUME FiscoInv, SustainTransfers \/ SustainRest \/ SustainEnds
  PROVE  FiscoInv'
<1> USE DEF FiscoInv
<1>1. UNCHANGED <<key, timed, trigger, halted>> /\ late' \in 0..4
  BY ClockIsBounded DEF SustainTransfers, SustainRest, SustainEnds
<1>2. trigger = 0 /\ ~halted
  BY DEF Places, SustainTransfers, SustainRest, SustainEnds
<1>3. CASE SustainTransfers
  <2>1. PICK c \in 0..5 : at = <<"sustain", c>>
    BY <1>3 DEF SustainTransfers, Places
  <2>2. <<"rest", c>> \in Places /\ <<"returned">> \in Places
    BY DEF Places
  <2>3. DagTransferWave \subseteq SubmissionDelta
    BY DEF SubmissionDelta, WriteActivityKeys
  <2>4. due' = due
    BY <1>3, <2>3, WaveIsCounted DEF SustainTransfers
  <2> QED BY <1>1, <1>2, <1>3, <2>1, <2>2, <2>4 DEF SustainTransfers
<1>4. CASE SustainRest
  <2>1. PICK c \in 0..5 : at = <<"rest", c>>
    BY <1>4 DEF SustainRest, Places
  <2> DEFINE waves == BfsWave \cup SimpleTransferWave
                        \cup (IF c % 2 = 0 THEN SystemConfigWave ELSE {})
                        \cup (IF c % 3 = 1 THEN TableManagerWave ELSE {})
                        \cup (IF c % 3 = 2 THEN AuthWave ELSE {})
  <2>2. waves \subseteq SubmissionDelta \cup SimpleTransferWave
    BY DEF SubmissionDelta, WriteActivityKeys
  <2>3. PICK n \in Accepted(waves) : Count(n, SubmissionDelta \cup SimpleTransferWave)
    BY <1>4, <2>1 DEF SustainRest
  <2>4. due' = due
    BY <2>2, <2>3, WaveIsCounted
  <2>5. (c + 1) % 6 \in 0..5
    OBVIOUS
  <2>6. at' = <<"sustain", (c + 1) % 6>>
    BY <1>4, <2>1 DEF SustainRest
  <2>7. at' \in Places
    BY <2>5, <2>6 DEF Places
  <2> QED BY <1>1, <1>2, <2>4, <2>6, <2>7
<1>5. CASE SustainEnds
  BY <1>1, <1>2, <1>5 DEF SustainEnds, Places
<1> QED BY <1>3, <1>4, <1>5

LEMMA FiscoKeepsInv ==
  ASSUME FiscoInv, FiscoNext
  PROVE  FiscoInv'
<1>1. CASE FiscoProgress
  BY <1>1, OnlineIsCounted, CycleIsCounted, SustainIsCounted DEF FiscoProgress
<1>2. CASE TimePasses
  BY <1>2 DEF TimePasses, FiscoInv
<1>3. CASE WaveRaises
  <2>1. <<"raised">> \in Places
    BY DEF Places
  <2> QED BY <1>3, <2>1 DEF WaveRaises, FiscoInv
<1> QED BY <1>1, <1>2, <1>3 DEF FiscoNext

-----------------------------------------------------------------------------
(* Chainmaker *)

Names == Waves \cup {"restart", "offline"}

Ops ==
  {"create", "invoke", "query", "upgrade", "unfreeze", "revoke", "resolve", "cert_unfreeze",
   "status", "stop", "start"}

\* What the calls have in common: nothing is accepted that is not attempted.
CallsOf(ops) ==
  [wave : Names, op : ops, on : Contracts, org : Orgs, needs : SUBSET Contracts,
   counts : {Both, Neither, {"attempted"}}]

CallRecord == CallsOf(Ops \cup {"freeze", "cert_freeze"})

\* Calls after which nothing is frozen that was not.
Harmless == CallsOf(Ops)

\* Every call that freezes is followed by one that unfreezes: for a contract
\* two calls later in the same workload, for a certificate three calls later.
FreezeUndone(s, i) ==
  /\ i + 2 <= Len(s)
  /\ \A j \in {i, i + 1, i + 2} : s[j].wave = "verify" /\ s[j].needs = {"verify"}
  /\ s[i + 1].op = "query"
  /\ s[i + 2].op = "unfreeze" /\ s[i + 2].on = "verify"

CertFreezeUndone(s, i) ==
  /\ i + 3 <= Len(s)
  /\ s[i + 3].op = "cert_unfreeze" /\ s[i + 3].needs = {}

Undone(s) ==
  /\ s \in Seq(CallRecord)
  /\ \A i \in 1..Len(s) : /\ s[i].op = "freeze" => FreezeUndone(s, i)
                          /\ s[i].op = "cert_freeze" => CertFreezeUndone(s, i)

\* Workloads stay as they are when they follow one another.
LEMMA UndoneInOrder ==
  ASSUME NEW s, Undone(s), NEW t, Undone(t)
  PROVE  Undone(s \o t)
<1> DEFINE both == s \o t
<1>1. /\ both \in Seq(CallRecord) /\ Len(both) = Len(s) + Len(t)
      /\ \A i \in 1..Len(s) : both[i] = s[i]
      /\ \A i \in 1..Len(t) : both[Len(s) + i] = t[i]
  BY DEF Undone
<1>2. Len(s) \in Nat /\ Len(t) \in Nat
  BY DEF Undone
<1> HIDE DEF both
<1>3. ASSUME NEW i \in 1..Len(both)
      PROVE  /\ both[i].op = "freeze" => FreezeUndone(both, i)
             /\ both[i].op = "cert_freeze" => CertFreezeUndone(both, i)
  <2>1. CASE i <= Len(s)
    <3>1. i \in 1..Len(s) /\ both[i] = s[i]
      BY <1>1, <1>2, <2>1
    <3>2. \A k \in 1..3 : i + k <= Len(s) => both[i + k] = s[i + k]
      BY <1>1, <1>2, <3>1
    <3>3. ASSUME both[i].op = "freeze" PROVE FreezeUndone(both, i)
      <4>1. FreezeUndone(s, i)
        BY <3>1, <3>3 DEF Undone
      <4>2. both[i + 1] = s[i + 1] /\ both[i + 2] = s[i + 2] /\ i + 2 <= Len(both)
        BY <1>1, <1>2, <3>1, <3>2, <4>1 DEF FreezeUndone
      <4> QED BY <3>1, <4>1, <4>2 DEF FreezeUndone
    <3>4. ASSUME both[i].op = "cert_freeze" PROVE CertFreezeUndone(both, i)
      <4>1. CertFreezeUndone(s, i)
        BY <3>1, <3>4 DEF Undone
      <4>2. both[i + 3] = s[i + 3] /\ i + 3 <= Len(both)
        BY <1>1, <1>2, <3>1, <3>2, <4>1 DEF CertFreezeUndone
      <4> QED BY <4>1, <4>2 DEF CertFreezeUndone
    <3> QED BY <3>3, <3>4
  <2>2. CASE i > Len(s)
    <3>1. PICK j \in 1..Len(t) : i = Len(s) + j
      <4>1. i - Len(s) \in 1..Len(t) /\ i = Len(s) + (i - Len(s))
        BY <1>1, <1>2, <2>2
      <4> QED BY <4>1
    <3>2. both[i] = t[j]
      BY <1>1, <3>1
    <3>3. \A k \in 1..3 : j + k <= Len(t) => both[i + k] = t[j + k] /\ i + k <= Len(both)
      <4>1. ASSUME NEW k \in 1..3, j + k <= Len(t)
            PROVE  both[i + k] = t[j + k] /\ i + k <= Len(both)
        <5>1. j + k \in 1..Len(t) /\ i + k = Len(s) + (j + k)
          BY <1>2, <3>1, <4>1
        <5> QED BY <1>1, <1>2, <5>1
      <4> QED BY <4>1
    <3>4. ASSUME both[i].op = "freeze" PROVE FreezeUndone(both, i)
      <4>1. FreezeUndone(t, j)
        BY <3>2, <3>4 DEF Undone
      <4>2. both[i + 1] = t[j + 1] /\ both[i + 2] = t[j + 2] /\ i + 2 <= Len(both)
        BY <1>2, <3>1, <3>3, <4>1 DEF FreezeUndone
      <4> QED BY <3>2, <4>1, <4>2 DEF FreezeUndone
    <3>5. ASSUME both[i].op = "cert_freeze" PROVE CertFreezeUndone(both, i)
      <4>1. CertFreezeUndone(t, j)
        BY <3>2, <3>5 DEF Undone
      <4>2. both[i + 3] = t[j + 3] /\ i + 3 <= Len(both)
        BY <1>2, <3>1, <3>3, <4>1 DEF CertFreezeUndone
      <4> QED BY <4>1, <4>2 DEF CertFreezeUndone
    <3> QED BY <3>4, <3>5
  <2> QED BY <1>1, <1>2, <2>1, <2>2
<1>4. Undone(both)
  BY <1>1, <1>3 DEF Undone
<1> QED BY <1>4 DEF both

LEMMA HarmlessIsUndone ==
  ASSUME NEW s \in Seq(Harmless)
  PROVE  Undone(s)
<1>1. Harmless \subseteq CallRecord
  BY DEF Harmless, CallRecord, CallsOf
<1>2. s \in Seq(CallRecord)
  BY <1>1
<1>3. ASSUME NEW i \in 1..Len(s) PROVE s[i].op \notin {"freeze", "cert_freeze"}
  <2>1. s[i] \in Harmless
    OBVIOUS
  <2> QED BY <2>1 DEF Harmless, CallsOf, Ops
<1> QED BY <1>2, <1>3 DEF Undone

\* The workloads that freeze nothing.
LEMMA WorkloadsAreHarmless ==
  /\ Interact \in Seq(Harmless)
  /\ SqlWorkload \in Seq(Harmless)
  /\ ParallelBurst \in Seq(Harmless)
  /\ SystemWorkload \in Seq(Harmless)
  /\ EvmWorkload \in Seq(Harmless)
  /\ OfflineSweeps \in Seq(Harmless) /\ OfflineWindow \in Seq(Harmless)
  /\ CatchUpQueries \in Seq(Harmless)
<1> USE DEF Call, CallsOf, Harmless, Names, Waves, Ops, Contracts, Orgs
<1>1. Interact \in Seq(Harmless)
  BY DEF Interact
<1>2. SqlWorkload \in Seq(Harmless)
  BY DEF SqlWorkload
<1>3. ParallelBurst \in Seq(Harmless)
  BY DEF ParallelBurst
<1>4. SystemWorkload \in Seq(Harmless)
  BY DEF SystemWorkload
<1>5. EvmWorkload \in Seq(Harmless)
  BY DEF EvmWorkload
<1>6. OfflineSweeps \in Seq(Harmless) /\ OfflineWindow \in Seq(Harmless)
      /\ CatchUpQueries \in Seq(Harmless)
  BY DEF OfflineSweeps, OfflineWindow, CatchUpQueries
<1> QED BY <1>1, <1>2, <1>3, <1>4, <1>5, <1>6

LEMMA RoundsAreHarmless ==
  ASSUME NEW wave \in Names, NEW org \in Orgs, NEW counts \in {Both, Neither}
  PROVE  /\ CrossOrg(wave, org) \in Seq(Harmless)
         /\ Sweeps(counts) \in Seq(Harmless)
         /\ Stop(org) \in Seq(Harmless) /\ Start(org) \in Seq(Harmless)
<1> USE DEF Call, CallsOf, Harmless, Names, Waves, Ops, Contracts
<1>1. CrossOrg(wave, org) \in Seq(Harmless)
  BY DEF CrossOrg
<1>2. Sweeps(counts) \in Seq(Harmless)
  BY DEF Sweeps, Orgs
<1>3. Stop(org) \in Seq(Harmless) /\ Start(org) \in Seq(Harmless)
  BY DEF Stop, Start
<1> QED BY <1>1, <1>2, <1>3

LEMMA ExtraCycleIsHarmless ==
  ASSUME NEW org \in Orgs, NEW other \in Orgs
  PROVE  ExtraRestartCycle(org, other) \in Seq(Harmless)
<1>1. /\ Stop(org) \in Seq(Harmless) /\ Start(org) \in Seq(Harmless)
      /\ CrossOrg("extra", other) \in Seq(Harmless)
      /\ CrossOrg("extra", org) \in Seq(Harmless)
      /\ Sweeps(Both) \in Seq(Harmless)
  <2>1. "extra" \in Names
    BY DEF Names, Waves
  <2> QED BY <2>1, RoundsAreHarmless
<1> QED BY <1>1 DEF ExtraRestartCycle

\* The workload that freezes a contract and the one that freezes a certificate.
LEMMA FreezingIsUndone == Undone(FuncVerify) /\ Undone(CertManage)
<1> USE DEF Call, CallsOf, CallRecord, Names, Waves, Ops, Contracts, Orgs
<1>1. FuncVerify \in Seq(CallRecord) /\ Len(FuncVerify) = 9
  BY DEF FuncVerify
<1>2. \A i \in 1..9 : i # 5 => FuncVerify[i].op # "freeze"
  BY DEF FuncVerify
<1>3. \A i \in 1..9 : FuncVerify[i].op # "cert_freeze"
  BY DEF FuncVerify
<1>4. FreezeUndone(FuncVerify, 5)
  <2>1. /\ \A j \in {5, 6, 7} : FuncVerify[j].wave = "verify" /\ FuncVerify[j].needs = {"verify"}
        /\ FuncVerify[6].op = "query"
        /\ FuncVerify[7].op = "unfreeze" /\ FuncVerify[7].on = "verify"
    BY DEF FuncVerify
  <2> QED BY <1>1, <2>1 DEF FreezeUndone
<1>5. CertManage \in Seq(CallRecord) /\ Len(CertManage) = 6
  BY DEF CertManage
<1>6. \A i \in 1..6 : CertManage[i].op # "freeze" /\ (i # 1 => CertManage[i].op # "cert_freeze")
  BY DEF CertManage
<1>7. CertFreezeUndone(CertManage, 1)
  BY <1>5 DEF CertManage, CertFreezeUndone
<1> QED BY <1>1, <1>2, <1>3, <1>4, <1>5, <1>6, <1>7 DEF Undone

\* The calls of a whole round.
LEMMA CallsAreUndone == Undone(Calls)
<1>1. /\ Undone(Interact) /\ Undone(SqlWorkload) /\ Undone(ParallelBurst)
      /\ Undone(SystemWorkload) /\ Undone(EvmWorkload) /\ Undone(OfflineWindow)
      /\ Undone(OfflineSweeps) /\ Undone(CatchUpQueries)
  BY WorkloadsAreHarmless, HarmlessIsUndone
<1>2. "cross" \in Names /\ "post" \in Names /\ 1 \in Orgs /\ 2 \in Orgs /\ 3 \in Orgs
  BY DEF Names, Waves, Orgs
<1>3. /\ Undone(CrossOrg("cross", 2)) /\ Undone(CrossOrg("post", 1))
      /\ Undone(Sweeps(Both)) /\ Undone(Sweeps(Neither))
      /\ Undone(Stop(1)) /\ Undone(Start(1))
  BY <1>2, RoundsAreHarmless, HarmlessIsUndone
<1>4. Undone(ExtraRestartCycle(2, 3)) /\ Undone(ExtraRestartCycle(3, 2))
  BY <1>2, ExtraCycleIsHarmless, HarmlessIsUndone
<1> QED
  BY <1>1, <1>3, <1>4, FreezingIsUndone, UndoneInOrder DEF Calls
-----------------------------------------------------------------------------

Statuses == {"none", "active", "frozen", "revoked"}

\* A frozen contract waits for the call that unfreezes it, which is made
\* because the contract is believed to exist; so does a frozen certificate.
FrozenIsUndone ==
  "unfreeze" \notin refused /\ contracts["verify"] = "frozen" =>
    \E i \in 1..Len(Calls) :
       Calls[i].op = "freeze" /\ next \in {i + 1, i + 2} /\ "verify" \in created

LockedOutIsUndone ==
  "cert_unfreeze" \notin refused /\ lockedOut =>
    \E i \in 1..Len(Calls) : Calls[i].op = "cert_freeze" /\ next \in {i + 1, i + 2, i + 3}

ChainInv ==
  /\ next \in 1..(Len(Calls) + 1)
  /\ contracts \in [Contracts -> Statuses]
  /\ lockedOut \in BOOLEAN
  /\ spare \in Nat
  /\ FrozenIsUndone /\ LockedOutIsUndone

LEMMA NextCall ==
  ASSUME next \in 1..(Len(Calls) + 1), next <= Len(Calls)
  PROVE  /\ next \in 1..Len(Calls) /\ Len(Calls) \in Nat /\ next + 1 \in 1..(Len(Calls) + 1)
         /\ Calls[next] \in CallRecord
         /\ Calls[next].op = "freeze" => FreezeUndone(Calls, next)
         /\ Calls[next].op = "cert_freeze" => CertFreezeUndone(Calls, next)
<1>1. Calls \in Seq(CallRecord)
  BY CallsAreUndone DEF Undone
<1>2. next \in 1..Len(Calls) /\ Len(Calls) \in Nat /\ next + 1 \in 1..(Len(Calls) + 1)
  BY <1>1
<1>3. Calls[next] \in CallRecord
  BY <1>1, <1>2
<1> QED BY <1>2, <1>3, CallsAreUndone DEF Undone

\* Nothing is accepted that was not attempted.
LEMMA SpareGrows ==
  ASSUME spare \in Nat, next \in 1..(Len(Calls) + 1), SendCall
  PROVE  spare' \in Nat
<1>1. Calls[next] \in CallRecord
  BY NextCall DEF SendCall
<1>2. "accepted" \in Calls[next].counts => "attempted" \in Calls[next].counts
  BY <1>1 DEF CallRecord, CallsOf, Both, Neither
<1> DEFINE one(happens) == IF Watched(Calls[next]) /\ happens THEN 1 ELSE 0
<1>3. PICK success \in BOOLEAN :
        spare' = spare + one("attempted" \in Calls[next].counts)
                       - one(success /\ "accepted" \in Calls[next].counts)
  BY DEF SendCall, CmcResults
<1> QED BY <1>2, <1>3

\* What a call does to the chain and to what the workload believes.
LEMMA CallEffect ==
  ASSUME contracts \in [Contracts -> Statuses], lockedOut \in BOOLEAN,
         next \in 1..(Len(Calls) + 1), SendCall
  PROVE  /\ contracts' \in [Contracts -> Statuses]
         /\ lockedOut' \in BOOLEAN
         /\ refused \subseteq refused'
         /\ contracts'["verify"] = "frozen" =>
              Calls[next].op = "freeze" \/ contracts["verify"] = "frozen"
         /\ lockedOut' => Calls[next].op = "cert_freeze" \/ lockedOut
         /\ "unfreeze" \notin refused' /\ Calls[next].op = "unfreeze" /\ Calls[next].on = "verify" =>
              contracts'["verify"] = "active"
         /\ "cert_unfreeze" \notin refused' /\ Calls[next].op = "cert_unfreeze" => ~lockedOut'
<1>1. Calls[next] \in CallRecord
  BY NextCall DEF SendCall
<1>2. Calls[next].on \in Contracts
  BY <1>1 DEF CallRecord, CallsOf
<1>3. PICK executed \in BOOLEAN :
        /\ IF executed THEN Executed(Calls[next]) ELSE UNCHANGED <<contracts, lockedOut>>
        /\ refused' = IF executed THEN refused
                      ELSE refused \cup ({Calls[next].op} \cap {"unfreeze", "cert_unfreeze"})
  BY DEF SendCall
<1>4. "verify" \in Contracts
  BY DEF Contracts
<1>5. CASE ~executed
  BY <1>3, <1>5
<1>6. CASE executed
  <2>1. /\ contracts' = contracts
           \/ (Calls[next].op # "freeze" /\ \E v \in Statuses \ {"frozen"} :
                 contracts' = [contracts EXCEPT ![Calls[next].on] = v])
           \/ (Calls[next].op = "freeze" /\ contracts' = [contracts EXCEPT ![Calls[next].on] = "frozen"])
        /\ Calls[next].op = "unfreeze" =>
             contracts' = [contracts EXCEPT ![Calls[next].on] = "active"]
    BY <1>3, <1>6 DEF Executed, Statuses
  <2>2. lockedOut' = (IF Calls[next].op = "cert_freeze" THEN TRUE
                      ELSE IF Calls[next].op = "cert_unfreeze" THEN FALSE ELSE lockedOut)
    BY <1>3, <1>6 DEF Executed
  <2>3. "frozen" \in Statuses
    BY DEF Statuses
  <2> QED BY <1>2, <1>3, <1>4, <1>6, <2>1, <2>2, <2>3
<1> QED BY <1>5, <1>6

\* Within a workload, what is known to exist stays known.
LEMMA BeliefStays ==
  ASSUME next \in 1..Len(Calls), next + 1 <= Len(Calls), Len(Calls) \in Nat,
         Calls[next + 1].wave = Calls[next].wave,
         "verify" \in created, SendCall
  PROVE  "verify" \in created'
BY DEF SendCall, Believed, Learned

LEMMA FrozenStep ==
  ASSUME ChainInv, ChainNext
  PROVE  FrozenIsUndone'
<1> SUFFICES ASSUME "unfreeze" \notin refused', contracts'["verify"] = "frozen"
             PROVE  \E i \in 1..Len(Calls) :
                      Calls[i].op = "freeze" /\ next' \in {i + 1, i + 2} /\ "verify" \in created'
  BY DEF FrozenIsUndone
<1>1. next \in 1..Len(Calls) /\ next' = next + 1 /\ Len(Calls) \in Nat
      /\ next \in 1..(Len(Calls) + 1)
  BY NextCall DEF ChainInv, ChainNext, SendCall, SkipCall, RestartOrg
<1>2. CASE SendCall /\ Calls[next].op = "freeze"
  <2>1. FreezeUndone(Calls, next)
    BY <1>1, <1>2, NextCall DEF ChainInv
  <2>2. "verify" \in created /\ next + 1 <= Len(Calls) /\ Calls[next + 1].wave = Calls[next].wave
    BY <1>1, <1>2, <2>1 DEF FreezeUndone, SendCall
  <2>3. "verify" \in created'
    BY <1>1, <1>2, <2>2, BeliefStays
  <2> QED BY <1>1, <1>2, <2>3
<1>3. CASE ~(SendCall /\ Calls[next].op = "freeze")
  <2>1. "unfreeze" \notin refused /\ contracts["verify"] = "frozen"
    <3>1. CASE SendCall
      BY <1>1, <1>3, <3>1, CallEffect DEF ChainInv
    <3>2. CASE SkipCall \/ RestartOrg
      BY <3>2 DEF SkipCall, RestartOrg
    <3> QED BY <3>1, <3>2 DEF ChainNext
  <2>2. PICK i \in 1..Len(Calls) :
          Calls[i].op = "freeze" /\ next \in {i + 1, i + 2} /\ "verify" \in created
    BY <2>1 DEF ChainInv, FrozenIsUndone
  <2>3. FreezeUndone(Calls, i)
    BY <2>2, CallsAreUndone DEF Undone
  <2>4. Calls[next].op \in {"query", "unfreeze"} /\ Calls[next].needs \subseteq created
    BY <2>2, <2>3 DEF FreezeUndone
  <2>5. SendCall
    BY <2>4 DEF ChainNext, SkipCall, RestartOrg
  <2>6. CASE next = i + 1
    <3>1. next + 1 = i + 2 /\ next + 1 <= Len(Calls) /\ Calls[next + 1].wave = Calls[next].wave
      BY <2>3, <2>6 DEF FreezeUndone
    <3>2. "verify" \in created'
      BY <1>1, <2>2, <2>5, <3>1, BeliefStays
    <3> QED BY <1>1, <2>2, <3>1, <3>2
  <2>7. CASE next = i + 2
    <3>1. Calls[next].op = "unfreeze" /\ Calls[next].on = "verify"
      BY <2>3, <2>7 DEF FreezeUndone
    <3>2. contracts'["verify"] = "active"
      BY <1>1, <2>5, <3>1, CallEffect DEF ChainInv
    <3> QED BY <3>2
  <2> QED BY <2>2, <2>6, <2>7
<1> QED BY <1>2, <1>3

LEMMA LockedOutStep ==
  ASSUME ChainInv, ChainNext
  PROVE  LockedOutIsUndone'
<1> SUFFICES ASSUME "cert_unfreeze" \notin refused', lockedOut'
             PROVE  \E i \in 1..Len(Calls) :
                      Calls[i].op = "cert_freeze" /\ next' \in {i + 1, i + 2, i + 3}
  BY DEF LockedOutIsUndone
<1>1. next \in 1..Len(Calls) /\ next' = next + 1 /\ Len(Calls) \in Nat
      /\ next \in 1..(Len(Calls) + 1)
  BY NextCall DEF ChainInv, ChainNext, SendCall, SkipCall, RestartOrg
<1>2. CASE SendCall /\ Calls[next].op = "cert_freeze"
  BY <1>1, <1>2
<1>3. CASE ~(SendCall /\ Calls[next].op = "cert_freeze")
  <2>1. "cert_unfreeze" \notin refused /\ lockedOut
    <3>1. CASE SendCall
      BY <1>1, <1>3, <3>1, CallEffect DEF ChainInv
    <3>2. CASE SkipCall \/ RestartOrg
      <4>1. refused' = refused /\ lockedOut' = lockedOut
        BY <3>2 DEF SkipCall, RestartOrg
      <4> QED BY <4>1 DEF ChainInv
    <3> QED BY <3>1, <3>2 DEF ChainNext
  <2>2. PICK i \in 1..Len(Calls) :
          Calls[i].op = "cert_freeze" /\ next \in {i + 1, i + 2, i + 3}
    BY <2>1 DEF ChainInv, LockedOutIsUndone
  <2>3. CertFreezeUndone(Calls, i)
    BY <2>2, CallsAreUndone DEF Undone
  <2>4. next # i + 3
    <3> SUFFICES ASSUME next = i + 3 PROVE FALSE
      OBVIOUS
    <3>1. Calls[next].op = "cert_unfreeze" /\ Calls[next].needs = {}
      BY <2>3 DEF CertFreezeUndone
    <3>2. SendCall
      BY <3>1 DEF ChainNext, SkipCall, RestartOrg
    <3> QED BY <1>1, <3>1, <3>2, CallEffect DEF ChainInv
  <2> QED BY <1>1, <2>2, <2>4
<1> QED BY <1>2, <1>3

LEMMA ChainKeepsInv ==
  ASSUME ChainInv, ChainNext
  PROVE  ChainInv'
<1>1. next' \in 1..(Len(Calls) + 1)
  BY NextCall DEF ChainInv, ChainNext, SendCall, SkipCall, RestartOrg
<1>2. /\ contracts' \in [Contracts -> Statuses]
      /\ lockedOut' \in BOOLEAN /\ spare' \in Nat
  <2>1. CASE SendCall
    BY <2>1, CallEffect, SpareGrows DEF ChainInv
  <2>2. CASE SkipCall \/ RestartOrg
    BY <2>2 DEF SkipCall, RestartOrg, ChainInv
  <2> QED BY <2>1, <2>2 DEF ChainNext
<1> QED BY <1>1, <1>2, FrozenStep, LockedOutStep DEF ChainInv
-----------------------------------------------------------------------------
(* Geth *)

\* The simple transactions that are counted before a wave.
SentBefore(k) ==
  IF case = "blobpool" THEN (IF k = 1 THEN 0 ELSE IF k = 2 THEN 48 ELSE 112)
  ELSE (IF k = 1 THEN 0 ELSE IF k = 2 THEN 64 ELSE IF k = 3 THEN 160 ELSE 288)

\* What the pool holds after a call of "count" transactions that were all sent:
\* from the second read of the nonce on there is a gap.
PoolAfter(n, count) ==
  IF count <= Refresh THEN 0..(n + count - 1)
  ELSE (0..(n + Refresh - 1)) \cup ((n + 2 * Refresh)..(n + Refresh + count - 1))

FullPool == IF sentSimple <= 160 THEN 0..(sentSimple - 1) ELSE PoolAfter(160, 128)

\* Nonces of the other transactions, all below those of the next wave.
SpecialBelow ==
  /\ GethWaves[step].sender = "simple" => special = {}
  /\ GethWaves[step].sender = "special" =>
       \A n \in special : n \in Int /\ n < sentSimple + GethWaves[step].offset

GethInv ==
  /\ case \in {"blobpool", "txpool"}
  /\ failedSend \in BOOLEAN /\ clash \in BOOLEAN
  /\ clash => failedSend
  /\ step = -1 \/ step \in 1..7
  /\ step \in 1..7 => sentSimple = SentBefore(step)
  /\ ~failedSend /\ step \in 1..7 => pool = FullPool
  /\ step \in 1..6 => SpecialBelow

LEMMA WavesInOrder ==
  /\ case = "blobpool" =>
       /\ DOMAIN GethWaves = 1..6 /\ Len(GethWaves) = 6
       /\ GethWaves[1] = Wave("simple", 0, 48) /\ GethWaves[2] = Wave("simple", 0, 64)
       /\ GethWaves[3] = Wave("special", 5, 8) /\ GethWaves[4] = Wave("special", 25, 1)
       /\ GethWaves[5] = Wave("special", 40, 6) /\ GethWaves[6] = Wave("beacon", 0, 0)
  /\ case # "blobpool" =>
       /\ DOMAIN GethWaves = 1..6 /\ Len(GethWaves) = 6
       /\ GethWaves[1] = Wave("simple", 0, 64) /\ GethWaves[2] = Wave("simple", 0, 96)
       /\ GethWaves[3] = Wave("simple", 0, 128) /\ GethWaves[4] = Wave("special", 5, 1)
       /\ GethWaves[5] = Wave("special", 25, 12) /\ GethWaves[6] = Wave("beacon", 0, 0)
BY DEF GethWaves, Simple

LEMMA WaveFields ==
  ASSUME NEW sender, NEW offset, NEW count
  PROVE  /\ Wave(sender, offset, count).sender = sender
         /\ Wave(sender, offset, count).offset = offset
         /\ Wave(sender, offset, count).count = count
BY DEF Wave

\* The pending nonce of a pool without gaps.
LEMMA PendingIsNext ==
  ASSUME NEW n \in Nat, n <= 400, NEW nonces, nonces = 0..(n - 1)
  PROVE  Pending(nonces) = n
<1> DEFINE First(m) == m \notin nonces /\ \A k \in 0..(m - 1) : k \in nonces
<1>1. First(n)
  OBVIOUS
<1>2. ASSUME NEW m \in 0..400, First(m) PROVE m = n
  <2>1. ~(m < n)
    BY <1>2
  <2>2. ~(n < m)
    BY <1>2
  <2> QED BY <2>1, <2>2
<1>3. Pending(nonces) = CHOOSE m \in 0..400 : First(m)
  BY DEF Pending
<1>4. n \in 0..400
  OBVIOUS
<1> HIDE DEF First
<1> QED BY <1>1, <1>2, <1>3, <1>4

LEMMA ShiftedNonces ==
  ASSUME NEW n \in Int, NEW a \in Int, NEW b \in Int
  PROVE  SimpleNonces(n, a..b) = (n + a)..(n + b)
<1>1. ASSUME NEW j \in (n + a)..(n + b) PROVE j \in SimpleNonces(n, a..b)
  <2>1. j - n \in a..b /\ j = n + (j - n)
    OBVIOUS
  <2> QED BY <2>1 DEF SimpleNonces
<1>2. ASSUME NEW j \in SimpleNonces(n, a..b) PROVE j \in (n + a)..(n + b)
  BY DEF SimpleNonces
<1> QED BY <1>1, <1>2

\* The transactions of a call before and after it reads the nonce again, and
\* the nonces they get.
Early(count, reads, lost) == {i \in 0..(count - 1) : reads >= 1 /\ i < Refresh} \ lost
Late(count, reads, lost) == {i \in 0..(count - 1) : reads = 2 /\ i >= Refresh} \ lost
Half(indices) == SimpleNonces(Pending(pool), indices)
Rest(half, indices) == SimpleNonces(Pending(pool \cup half), indices)

\* A call whose transactions are all sent.
LEMMA NothingLost ==
  ASSUME SendTxs, ~failedSend', NEW count, count = GethWaves[step].count
  PROVE  LET half == Half(Early(count, 2, {}))
             rest == Rest(half, Late(count, 2, {}))
         IN /\ ~failedSend
            /\ sentSimple' = sentSimple + count
            /\ pool' = pool \cup half \cup rest
            /\ clash' = (clash \/ (half \cap pool # {}) \/ (rest \cap (pool \cup half) # {}))
<1>1. PICK lost \in Losses(count), reads \in 0..2 :
        LET half == Half(Early(count, reads, lost))
            rest == Rest(half, Late(count, reads, lost))
        IN /\ pool' = pool \cup half \cup rest
           /\ clash' = (clash \/ (half \cap pool # {}) \/ (rest \cap (pool \cup half) # {}))
           /\ failedSend' = (failedSend \/ lost # {} \/ reads < 2)
           /\ sentSimple' = sentSimple + count
  BY DEF SendTxs, Early, Late, Half, Rest
<1>2. ~failedSend /\ lost = {} /\ ~(reads < 2)
  BY <1>1
<1>3. reads = 2
  BY <1>2
<1> QED BY <1>1, <1>2, <1>3

\* The nonces follow those of the pool; those after the second read, too, but
\* with the index in the call added once more.
LEMMA CallIsSent ==
  ASSUME NEW n \in Nat, NEW count \in Nat \ {0}, n + count <= 300, pool = 0..(n - 1),
         SendTxs, ~failedSend', count = GethWaves[step].count
  PROVE  /\ ~failedSend /\ sentSimple' = sentSimple + count
         /\ pool' = PoolAfter(n, count) /\ (clash' => clash)
<1> DEFINE early == IF count <= Refresh THEN count ELSE Refresh
           half == n..(n + early - 1)
           rest == (n + early + Refresh)..(n + early + count - 1)
<1>1. /\ Refresh = 100 /\ Refresh \in Int
      /\ early \in Nat /\ early <= count
      /\ early = count \/ (early = Refresh /\ Refresh < count)
      /\ count <= Refresh => early = count
      /\ ~(count <= Refresh) => early = Refresh
  BY DEF Refresh
<1>2. Early(count, 2, {}) = 0..(early - 1) /\ Late(count, 2, {}) = Refresh..(count - 1)
  BY <1>1 DEF Early, Late
<1> HIDE DEF early
<1>3. Half(0..(early - 1)) = half
  <2>1. Pending(pool) = n
    BY PendingIsNext
  <2>2. n \in Int /\ 0 \in Int /\ early - 1 \in Int
    BY <1>1
  <2>3. SimpleNonces(n, 0..(early - 1)) = (n + 0)..(n + (early - 1))
    BY ONLY <2>2, ShiftedNonces
  <2>4. n + 0 = n /\ n + (early - 1) = n + early - 1
    BY <1>1
  <2> QED BY <2>1, <2>3, <2>4 DEF Half
<1>4. Rest(half, Refresh..(count - 1)) = rest
  <2>1. pool \cup half = 0..((n + early) - 1)
    BY <1>1
  <2>2. n + early \in Nat /\ n + early <= 400
    BY <1>1
  <2>3. Pending(pool \cup half) = n + early
    BY <2>1, <2>2, PendingIsNext
  <2>4. n + early \in Int /\ Refresh \in Int /\ count - 1 \in Int
    BY <1>1
  <2>5. SimpleNonces(n + early, Refresh..(count - 1)) = (n + early + Refresh)..(n + early + (count - 1))
    BY ONLY <2>4, ShiftedNonces
  <2>6. n + early + (count - 1) = n + early + count - 1
    BY <1>1
  <2> QED BY <2>3, <2>5, <2>6 DEF Rest
<1>5. half \cap pool = {} /\ rest \cap (pool \cup half) = {}
  <2>1. ASSUME NEW x \in half PROVE x \notin pool
    BY <1>1, <2>1
  <2>2. ASSUME NEW x \in rest PROVE x \notin pool /\ x \notin half
    BY <1>1, <2>2
  <2> HIDE DEF half, rest
  <2> QED BY <2>1, <2>2
<1>6. pool \cup half \cup rest = PoolAfter(n, count)
  <2>1. CASE count <= Refresh
    <3>1. early = count /\ Refresh = 100
      BY <1>1, <2>1
    <3>2. PoolAfter(n, count) = 0..(n + count - 1)
      BY <2>1 DEF PoolAfter
    <3>3. rest = {}
      <4>1. n + early + count - 1 < n + early + Refresh
        BY <2>1, <3>1
      <4>2. n + early + count - 1 \in Int /\ n + early + Refresh \in Int
        BY <3>1
      <4>3. ASSUME NEW a \in Int, NEW b \in Int, b < a PROVE a..b = {}
        BY <4>3
      <4> QED BY <4>1, <4>2, <4>3
    <3>4. half = n..(n + count - 1)
      BY <3>1
    <3> HIDE DEF half, rest
    <3>5. ASSUME NEW x PROVE x \in pool \cup half <=> x \in 0..(n + count - 1)
      BY <3>4
    <3> QED BY <3>2, <3>3, <3>5
  <2>2. CASE ~(count <= Refresh)
    <3>1. early = Refresh /\ Refresh \in Nat
      BY <1>1, <2>2
    <3>2. PoolAfter(n, count) = (0..(n + Refresh - 1)) \cup ((n + 2 * Refresh)..(n + Refresh + count - 1))
      BY <2>2 DEF PoolAfter
    <3>3. rest = (n + 2 * Refresh)..(n + Refresh + count - 1)
      BY <3>1
    <3>4. half = n..(n + Refresh - 1)
      BY <3>1
    <3> HIDE DEF half, rest
    <3>5. ASSUME NEW x PROVE x \in pool \cup half <=> x \in 0..(n + Refresh - 1)
      BY <3>1, <3>4
    <3> QED BY <3>2, <3>3, <3>5
  <2> QED BY <2>1, <2>2
<1> HIDE DEF half, rest
<1>7. /\ ~failedSend /\ sentSimple' = sentSimple + count
      /\ pool' = pool \cup half \cup rest
      /\ clash' = (clash \/ (half \cap pool # {}) \/ (rest \cap (pool \cup half) # {}))
  BY <1>2, <1>3, <1>4, NothingLost
<1>8. clash' => clash
  BY <1>5, <1>7
<1> QED BY <1>6, <1>7, <1>8

\* The waves before the beacon: the simple ones come first, and the others use
\* nonces in their own ranges above them.
LEMMA SimpleWave ==
  ASSUME GethInv, step \in DOMAIN GethWaves, GethWaves[step].sender = "simple",
         NEW count, count = GethWaves[step].count
  PROVE  /\ step \in 1..3 /\ count \in Nat \ {0}
         /\ sentSimple \in Nat /\ sentSimple <= 160 /\ sentSimple + count <= 300
         /\ SentBefore(step + 1) = sentSimple + count
         /\ sentSimple + count <= 160 => count <= Refresh
         /\ ~(sentSimple + count <= 160) => sentSimple = 160 /\ count = 128
         /\ special = {}
<1>1. CASE case = "blobpool"
  <2>1. step \in 1..2
    BY <1>1, WavesInOrder, WaveFields
  <2>2. CASE step = 1
    BY <1>1, <2>2, WavesInOrder, WaveFields DEF GethInv, SentBefore, SpecialBelow, Refresh
  <2>3. CASE step = 2
    BY <1>1, <2>3, WavesInOrder, WaveFields DEF GethInv, SentBefore, SpecialBelow, Refresh
  <2> QED BY <2>1, <2>2, <2>3
<1>2. CASE case # "blobpool"
  <2>1. step \in 1..3
    BY <1>2, WavesInOrder, WaveFields
  <2>2. CASE step = 1
    BY <1>2, <2>2, WavesInOrder, WaveFields DEF GethInv, SentBefore, SpecialBelow, Refresh
  <2>3. CASE step = 2
    BY <1>2, <2>3, WavesInOrder, WaveFields DEF GethInv, SentBefore, SpecialBelow, Refresh
  <2>4. CASE step = 3
    BY <1>2, <2>4, WavesInOrder, WaveFields DEF GethInv, SentBefore, SpecialBelow, Refresh
  <2> QED BY <2>1, <2>2, <2>3, <2>4
<1> QED BY <1>1, <1>2


\* A wave of simple transactions continues the nonces of the pool, unless it
\* goes past the second read of the nonce, which only the last one does.
LEMMA SimpleIsKept == GethInv /\ SendTxs => GethInv'
<1> SUFFICES ASSUME GethInv, SendTxs PROVE GethInv'
  OBVIOUS
<1> DEFINE count == GethWaves[step].count
<1>1. step \in DOMAIN GethWaves /\ GethWaves[step].sender = "simple"
  BY DEF SendTxs
<1>2. /\ step \in 1..3 /\ count \in Nat \ {0}
      /\ sentSimple \in Nat /\ sentSimple <= 160 /\ sentSimple + count <= 300
      /\ SentBefore(step + 1) = sentSimple + count
      /\ sentSimple + count <= 160 => count <= Refresh
      /\ ~(sentSimple + count <= 160) => sentSimple = 160 /\ count = 128
      /\ special = {}
  BY <1>1, SimpleWave
<1>3. /\ sentSimple' = sentSimple + count /\ step' = step + 1
      /\ UNCHANGED <<case, special>>
      /\ failedSend' \in BOOLEAN /\ clash' \in BOOLEAN
  BY DEF SendTxs, GethInv
<1> HIDE DEF count
<1>4. step' \in 1..7 /\ step' \in 1..6 /\ sentSimple' = SentBefore(step)'
  BY <1>2, <1>3 DEF SentBefore
<1>5. ASSUME ~failedSend'
      PROVE  ~failedSend /\ pool' = FullPool' /\ (clash' => clash)
  <2>1. ~failedSend
    <3>1. count = GethWaves[step].count
      BY DEF count
    <3> QED BY <1>5, <3>1, NothingLost
  <2>2. pool = 0..(sentSimple - 1)
    BY <1>2, <2>1 DEF GethInv, FullPool
  <2>3. pool' = PoolAfter(sentSimple, count) /\ (clash' => clash)
    <3>1. count = GethWaves[step].count
      BY DEF count
    <3> QED BY <1>2, <1>5, <2>2, <3>1, CallIsSent
  <2>4. CASE sentSimple + count <= 160
    <3>1. PoolAfter(sentSimple, count) = 0..(sentSimple + count - 1)
      BY <1>2, <2>4 DEF PoolAfter
    <3>2. FullPool' = 0..(sentSimple' - 1)
      BY <1>3, <2>4 DEF FullPool
    <3>3. sentSimple' - 1 = sentSimple + count - 1
      BY <1>2, <1>3
    <3> QED BY <2>1, <2>3, <3>1, <3>2, <3>3
  <2>5. CASE ~(sentSimple + count <= 160)
    <3>1. sentSimple = 160 /\ count = 128 /\ sentSimple' = 288
      BY <1>2, <1>3, <2>5
    <3>2. FullPool' = PoolAfter(160, 128)
      BY <3>1 DEF FullPool, PoolAfter
    <3> QED BY <2>1, <2>3, <3>1, <3>2
  <2> QED BY <2>4, <2>5
<1>6. clash' => failedSend'
  BY <1>5 DEF GethInv
<1>7. SpecialBelow'
  BY <1>2, <1>3 DEF SpecialBelow
<1> QED BY <1>3, <1>4, <1>5, <1>6, <1>7 DEF GethInv

LEMMA SpecialWave ==
  ASSUME GethInv, step \in DOMAIN GethWaves, GethWaves[step].sender = "special"
  PROVE  LET first == sentSimple + GethWaves[step].offset
             last == first + GethWaves[step].count - 1
         IN /\ step \in 3..5 /\ SentBefore(step + 1) = sentSimple
            /\ first \in Int /\ last \in Int /\ sentSimple < first
            /\ sentSimple \in {112, 288} /\ (sentSimple = 288 => last < 360)
            /\ GethWaves[step + 1].sender # "simple"
            /\ GethWaves[step + 1].sender = "special" =>
                 /\ first < sentSimple + GethWaves[step + 1].offset
                 /\ last < sentSimple + GethWaves[step + 1].offset
<1>1. CASE case = "blobpool"
  <2>1. step \in {3, 4, 5}
    BY <1>1, WavesInOrder, WaveFields
  <2>2. CASE step = 3
    BY <1>1, <2>2, WavesInOrder, WaveFields DEF GethInv, SentBefore
  <2>3. CASE step = 4
    BY <1>1, <2>3, WavesInOrder, WaveFields DEF GethInv, SentBefore
  <2>4. CASE step = 5
    BY <1>1, <2>4, WavesInOrder, WaveFields DEF GethInv, SentBefore
  <2> QED BY <2>1, <2>2, <2>3, <2>4
<1>2. CASE case # "blobpool"
  <2>1. step \in {4, 5}
    BY <1>2, WavesInOrder, WaveFields
  <2>2. CASE step = 4
    BY <1>2, <2>2, WavesInOrder, WaveFields DEF GethInv, SentBefore
  <2>3. CASE step = 5
    BY <1>2, <2>3, WavesInOrder, WaveFields DEF GethInv, SentBefore
  <2> QED BY <2>1, <2>2, <2>3
<1> QED BY <1>1, <1>2

\* The other transactions are above the simple ones and those before them, and
\* below the nonces that follow the gap of the pool.
LEMMA SpecialIsKept == GethInv /\ SendSpecial => GethInv'
<1> SUFFICES ASSUME GethInv, SendSpecial PROVE GethInv'
  OBVIOUS
<1> DEFINE first == sentSimple + GethWaves[step].offset
           last == first + GethWaves[step].count - 1
           nonces == first..last
<1>1. step \in DOMAIN GethWaves /\ GethWaves[step].sender = "special"
  BY DEF SendSpecial
<1>2. /\ step \in 3..5 /\ SentBefore(step + 1) = sentSimple
      /\ first \in Int /\ last \in Int /\ sentSimple < first
      /\ sentSimple \in {112, 288} /\ (sentSimple = 288 => last < 360)
      /\ GethWaves[step + 1].sender # "simple"
      /\ GethWaves[step + 1].sender = "special" =>
           /\ first < sentSimple + GethWaves[step + 1].offset
           /\ last < sentSimple + GethWaves[step + 1].offset
  BY <1>1, SpecialWave
<1>3. /\ special' = special \cup nonces
      /\ clash' = (clash \/ nonces \cap (pool \cup special) # {})
      /\ step' = step + 1 /\ UNCHANGED <<case, pool, sentSimple, failedSend>>
  BY DEF SendSpecial
<1>4. \A n \in special : n \in Int /\ n < first
  BY <1>1, <1>2 DEF GethInv, SpecialBelow
<1> HIDE DEF first, last
<1>5. GethWaves' = GethWaves
  BY <1>3 DEF GethWaves
<1>6. SpecialBelow'
  <2>1. ASSUME NEW n \in special', GethWaves[step + 1].sender = "special"
        PROVE  n \in Int /\ n < sentSimple + GethWaves[step + 1].offset
    <3>1. GethWaves[step + 1].offset \in Int
      BY <1>2, WavesInOrder, WaveFields
    <3> QED BY <1>2, <1>3, <1>4, <2>1, <3>1
  <2> QED BY <1>2, <1>3, <1>5, <2>1 DEF SpecialBelow
<1>7. ASSUME ~failedSend PROVE nonces \cap (pool \cup special) = {}
  <2>1. pool = FullPool
    BY <1>2, <1>7 DEF GethInv
  <2>2. ASSUME NEW n \in nonces PROVE n \notin pool
    <3>1. CASE sentSimple = 112
      BY <1>2, <2>1, <2>2, <3>1 DEF FullPool
    <3>2. CASE sentSimple = 288
      BY <1>2, <2>1, <2>2, <3>2 DEF FullPool, PoolAfter, Refresh
    <3> QED BY <1>2, <3>1, <3>2
  <2>3. ASSUME NEW n \in nonces PROVE n \notin special
    BY <1>2, <1>4, <2>3
  <2> HIDE DEF nonces
  <2> QED BY <2>2, <2>3
<1>8. clash' \in BOOLEAN /\ (clash' => failedSend')
  BY <1>3, <1>7 DEF GethInv
<1>9. step' \in 1..7 /\ sentSimple' = SentBefore(step)'
  BY <1>2, <1>3 DEF SentBefore
<1>10. FullPool' = FullPool
  BY <1>3 DEF FullPool
<1> QED BY <1>2, <1>3, <1>6, <1>8, <1>9, <1>10 DEF GethInv

\* The last wave leaves the transactions as they are.
LEMMA BeaconIsKept == GethInv /\ DriveBeacon => GethInv'
<1> SUFFICES ASSUME GethInv, DriveBeacon PROVE GethInv'
  OBVIOUS
<1>1. step = 6 /\ SentBefore(7) = SentBefore(6)
  BY WavesInOrder, WaveFields DEF DriveBeacon, SentBefore
<1>2. /\ step' \in {7, -1}
      /\ UNCHANGED <<case, pool, special, sentSimple, failedSend, clash>>
  BY <1>1 DEF DriveBeacon
<1>3. FullPool' = FullPool /\ SentBefore(7)' = SentBefore(7)
  BY <1>2 DEF FullPool, SentBefore
<1> QED BY <1>1, <1>2, <1>3 DEF GethInv

LEMMA GethKeepsInv == GethInv /\ GethWorkNext => GethInv'
BY SimpleIsKept, SpecialIsKept, BeaconIsKept DEF GethWorkNext

LEMMA GethBegins == GethInit => GethInv
<1> SUFFICES ASSUME GethInit PROVE GethInv
  OBVIOUS
<1>1. FullPool = {}
  BY DEF GethInit, FullPool
<1>2. SpecialBelow
  BY DEF GethInit, SpecialBelow
<1>3. failedSend \in BOOLEAN /\ clash \in BOOLEAN /\ ~clash
  BY Zenon DEF GethInit
<1>4. /\ case \in {"blobpool", "txpool"} /\ step = 1
      /\ sentSimple = SentBefore(1) /\ pool = FullPool
  BY <1>1 DEF GethInit, SentBefore
<1> QED BY <1>2, <1>3, <1>4 DEF GethInv
-----------------------------------------------------------------------------
(* The workload of a round *)

WorkInv == FiscoInv /\ ChainInv /\ GethInv

LEMMA WorkBegins == Init => WorkInv
<1> SUFFICES ASSUME Init PROVE WorkInv
  OBVIOUS
<1>1. FiscoInv
  <2>1. <<"online", 1>> \in Places /\ <<"unused">> \in Places
    BY DEF Places
  <2>2. "simple" \in Keys
    BY DEF Keys, SimpleTransferWave
  <2>3. FiscoInit \/ FiscoUnused
    BY DEF Init
  <2>4. timed \in BOOLEAN /\ halted \in BOOLEAN /\ ~halted
    BY <2>3 DEF FiscoInit, FiscoUnused
  <2>5. key \in Keys /\ late = 0 /\ at \in Places /\ trigger = 0 /\ due = 0
    BY <2>1, <2>2, <2>3 DEF FiscoInit, FiscoUnused
  <2> QED BY <2>4, <2>5 DEF FiscoInv
<1>2. ChainInv
  <2>1. Len(Calls) \in Nat
    BY CallsAreUndone DEF Undone
  <2>2. ChainInit \/ ChainUnused
    BY DEF Init
  <2>3. lockedOut \in BOOLEAN /\ ~lockedOut
    BY <2>2 DEF ChainInit, ChainUnused
  <2>4. next \in 1..(Len(Calls) + 1) /\ spare = 0
    BY <2>1, <2>2 DEF ChainInit, ChainUnused
  <2>5. contracts \in [Contracts -> Statuses] /\ contracts["verify"] # "frozen"
    BY <2>2 DEF ChainInit, ChainUnused, Statuses, Contracts
  <2> QED BY <2>3, <2>4, <2>5 DEF ChainInv, FrozenIsUndone, LockedOutIsUndone
<1>3. GethInv
  <2>1. CASE GethInit
    BY <2>1, GethBegins
  <2>2. CASE GethUnused
    <3>1. failedSend \in BOOLEAN /\ clash \in BOOLEAN /\ ~clash
      BY <2>2, Zenon DEF GethUnused
    <3>2. case = "txpool" /\ step = -1
      BY <2>2 DEF GethUnused
    <3> QED BY <3>1, <3>2 DEF GethInv
  <2> QED BY <2>1, <2>2 DEF Init
<1> QED BY <1>1, <1>2, <1>3 DEF WorkInv

LEMMA WorkGoesOn == WorkInv /\ [Next]_vars => WorkInv'
<1> SUFFICES ASSUME WorkInv, [Next]_vars PROVE WorkInv'
  OBVIOUS
<1>1. FiscoInv'
  <2>1. CASE UNCHANGED fiscoVars
    BY <2>1 DEF WorkInv, FiscoInv, fiscoVars
  <2>2. CASE FiscoNext
    BY <2>2, FiscoKeepsInv DEF WorkInv
  <2> QED BY <2>1, <2>2 DEF Next, Progress, FiscoNext, vars
<1>2. ChainInv'
  <2>1. CASE UNCHANGED chainVars
    BY <2>1 DEF WorkInv, ChainInv, FrozenIsUndone, LockedOutIsUndone, chainVars
  <2>2. CASE ChainNext
    BY <2>2, ChainKeepsInv DEF WorkInv
  <2> QED BY <2>1, <2>2 DEF Next, Progress, vars
<1>3. GethInv'
  <2>1. CASE UNCHANGED gethVars
    <3>1. UNCHANGED <<case, step, pool, special, sentSimple, failedSend, clash>>
      BY <2>1 DEF gethVars
    <3>2. GethWaves' = GethWaves
      BY <3>1 DEF GethWaves
    <3>3. FullPool' = FullPool /\ SentBefore(step)' = SentBefore(step)
      BY <3>1 DEF FullPool, SentBefore
    <3>4. SpecialBelow' <=> SpecialBelow
      BY <3>1, <3>2 DEF SpecialBelow
    <3> QED BY <3>1, <3>3, <3>4 DEF WorkInv, GethInv
  <2>2. CASE GethWorkNext
    BY <2>2, GethKeepsInv DEF WorkInv
  <2> QED BY <2>1, <2>2 DEF Next, Progress, vars
<1> QED BY <1>1, <1>2, <1>3 DEF WorkInv

LEMMA WorkSatisfies == Spec => []WorkInv
BY WorkBegins, WorkGoesOn, PTL DEF Spec

-----------------------------------------------------------------------------
(* Theorems *)

\* submitted_transactions of a fisco round counts each accepted write once,
\* however many a wave has accepted and wherever the deadline falls; only what
\* native_filter_wave wrote can be lost, between it and the next wave.
THEOREM AcceptedWritesAreSubmitted == Spec => []SubmittedIsAccepted
<1>1. WorkInv => SubmittedIsAccepted
  <2> SUFFICES ASSUME FiscoInv PROVE SubmittedIsAccepted
    BY DEF WorkInv
  <2>1. at[1] \in Parts
    BY DEF FiscoInv, Places, Parts
  <2>2. trigger # 0 => at = <<"online", 9>> \/ at[1] = "raised" \/ (at[1] = "returned" /\ late = 4)
    BY DEF FiscoInv
  <2> QED BY <2>1, <2>2 DEF FiscoInv, SubmittedIsAccepted
<1> QED BY <1>1, WorkSatisfies, PTL

\* Every path of offline_cycle, the early ones at the deadline included, comes
\* to start_node, unless a wave raises.
THEOREM StoppedNodeIsStarted == Spec => []StoppedIsStarted
<1>1. WorkInv => StoppedIsStarted
  BY DEF WorkInv, FiscoInv, StoppedIsStarted
<1> QED BY <1>1, WorkSatisfies, PTL

\* In every workload of strong_varied_interact, and in each kind of call, no
\* more calls are accepted than attempted.
THEOREM AcceptedCallsAreAttempted == Spec => []AcceptedIsAttempted
<1>1. WorkInv => AcceptedIsAttempted
  BY DEF WorkInv, ChainInv, AcceptedIsAttempted
<1> QED BY <1>1, WorkSatisfies, PTL

\* func_verify_workload and cert_manage_workload undo what they freeze, with
\* every combination of failed, late and skipped calls.
THEOREM FrozenIsUnfrozen == Spec => []NothingStaysFrozen
<1>1. WorkInv => NothingStaysFrozen
  <2> SUFFICES ASSUME ChainInv, next > Len(Calls),
                      \/ lockedOut /\ "cert_unfreeze" \notin refused
                      \/ contracts["verify"] = "frozen" /\ "unfreeze" \notin refused
               PROVE  FALSE
    BY DEF WorkInv, NothingStaysFrozen
  <2>1. Len(Calls) \in Nat /\ next \in Nat
    BY CallsAreUndone DEF Undone, ChainInv
  <2>2. CASE lockedOut /\ "cert_unfreeze" \notin refused
    <3>1. PICK i \in 1..Len(Calls) :
            Calls[i].op = "cert_freeze" /\ next \in {i + 1, i + 2, i + 3}
      BY <2>2 DEF ChainInv, LockedOutIsUndone
    <3>2. i + 3 <= Len(Calls)
      BY <3>1, CallsAreUndone DEF Undone, CertFreezeUndone
    <3> QED BY <2>1, <3>1, <3>2
  <2>3. CASE contracts["verify"] = "frozen" /\ "unfreeze" \notin refused
    <3>1. PICK i \in 1..Len(Calls) :
            Calls[i].op = "freeze" /\ next \in {i + 1, i + 2} /\ "verify" \in created
      BY <2>3 DEF ChainInv, FrozenIsUndone
    <3>2. i + 2 <= Len(Calls)
      BY <3>1, CallsAreUndone DEF Undone, FreezeUndone
    <3> QED BY <2>1, <3>1, <3>2
  <2> QED BY <2>2, <2>3
<1> QED BY <1>1, WorkSatisfies, PTL

\* As long as every transaction is sent, the simple ones of geth have the
\* nonces that follow one another, unless a call of send_txs reads the nonce
\* in its middle: only the one of 128 transactions does.
THEOREM SimpleNoncesFollow == Spec => []SimpleIsContiguous
<1>1. WorkInv => SimpleIsContiguous
  <2> SUFFICES ASSUME GethInv, ~failedSend, step > 0,
                      \A j \in DOMAIN GethWaves : j < step => GethWaves[j].count <= Refresh
               PROVE  pool = 0..(sentSimple - 1)
    BY DEF WorkInv, SimpleIsContiguous
  <2>1. step \in 1..7 /\ sentSimple = SentBefore(step) /\ pool = FullPool
    BY DEF GethInv
  <2>2. sentSimple <= 160
    <3>1. CASE case = "blobpool"
      BY <2>1, <3>1 DEF SentBefore
    <3>2. CASE case # "blobpool" /\ step <= 3
      BY <2>1, <3>2 DEF SentBefore
    <3>3. CASE case # "blobpool" /\ step > 3
      <4>1. 3 \in DOMAIN GethWaves /\ GethWaves[3].count = 128
        BY <3>3, WavesInOrder, WaveFields
      <4> QED BY <2>1, <3>3, <4>1 DEF Refresh
    <3> QED BY <2>1, <3>1, <3>2, <3>3
  <2> QED BY <2>1, <2>2 DEF FullPool
<1> QED BY <1>1, WorkSatisfies, PTL

\* Two transactions of a geth round get the same nonce only after one was lost
\* or a nonce could not be read: the offsets that strong_varied_workload adds
\* to the number of simple transactions keep the others apart, and also clear
\* of the gap that the second read of the nonce leaves.
THEOREM OffsetsKeepNoncesApart == Spec => []NoncesDoNotClash
<1>1. WorkInv => NoncesDoNotClash
  BY DEF WorkInv, GethInv, NoncesDoNotClash
<1> QED BY <1>1, WorkSatisfies, PTL
=============================================================================
