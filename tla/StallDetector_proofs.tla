------------------------ MODULE StallDetector_proofs ------------------------
(***************************************************************************)
(* For every set of nodes, every number of windows and every height: the   *)
(* counters of the stall detector are covered by observations of a chain   *)
(* that stands still, and so its reports keep the promise of StallPromise  *)
(* wherever a failed read cannot be taken for height 0.                    *)
(***************************************************************************)
EXTENDS StallDetector, TLAPS

-----------------------------------------------------------------------------
(* One observation of one node *)

\* A counter moves by one and stays within the windows.
LEMMA CappedType ==
  ASSUME NEW k \in 0 .. stall_windows
  PROVE  Capped(k) \in 0 .. stall_windows /\ k <= Capped(k)
BY StallAssumption DEF Capped

\* The cap keeps the order of two counters.
LEMMA CappedMonotone ==
  ASSUME NEW j \in 0 .. stall_windows, NEW k \in 0 .. stall_windows, j <= k
  PROVE  Capped(j) <= Capped(k)
BY StallAssumption DEF Capped

\* What a read can be, and what it is compared with.
LEMMA ReadType ==
  ASSUME TypeOK, NEW r \in Reads, NEW i \in Normal
  PROVE  /\ r[i] \in -1 .. MaxHeight
         /\ r[i] = height[i] \/ r[i] \in FailedReads
         /\ height[i] \in 0 .. MaxHeight
         /\ last[i] \in -2 .. MaxHeight
         /\ Reference(r, i) \in -1 .. MaxHeight
         /\ stall[i] \in 0 .. stall_windows
         /\ still[i] \in 0 .. stall_windows
<1>1. r \in [Normal -> -1 .. MaxHeight] /\ r[i] \in {height[i]} \cup FailedReads
  BY DEF Reads
<1>2. /\ height[i] \in 0 .. MaxHeight
      /\ last[i] \in -2 .. MaxHeight
      /\ stall[i] \in 0 .. stall_windows
      /\ still[i] \in 0 .. stall_windows
  BY DEF TypeOK
<1>3. r[i] \in -1 .. MaxHeight
  BY <1>1
<1>4. Reference(r, i) \in -1 .. MaxHeight
  BY <1>2, <1>3, StallAssumption DEF Reference, Unset
<1> QED BY <1>1, <1>2, <1>3, <1>4

\* The new reference and counter are in their types.
LEMMA AfterType ==
  ASSUME TypeOK, NEW r \in Reads, NEW i \in Normal, NEW long \in BOOLEAN
  PROVE  /\ LastAfter(r, i) \in -1 .. MaxHeight
         /\ StallAfter(r, i, long) \in 0 .. stall_windows
<1>1. LastAfter(r, i) \in -1 .. MaxHeight
  BY ReadType DEF LastAfter
<1>2. StallAfter(r, i, long) \in 0 .. stall_windows
  BY ReadType, CappedType, StallAssumption DEF StallAfter
<1> QED BY <1>1, <1>2

\* The new reference is no higher than the chain.
LEMMA LastAfterIsPast ==
  ASSUME TypeOK, ReferenceIsPast, NEW r \in Reads, NEW i \in Normal
  PROVE  LastAfter(r, i) <= height[i]
<1>1. last[i] <= height[i]
  BY DEF ReferenceIsPast
<1>2. r[i] <= height[i]
  BY ReadType, StallAssumption
<1>3. Reference(r, i) <= height[i]
  BY <1>1, <1>2 DEF Reference
<1> QED BY <1>2, <1>3 DEF LastAfter

\* A counter that moves does so on a chain no higher than its reference,
\* unless a failed read passes for height 0.
LEMMA StandingMeansStill ==
  ASSUME TypeOK, NEW r \in Reads, NEW i \in Normal, NEW long \in BOOLEAN,
         ~Lost(r, i), Standing(r, i, long),
         0 \notin FailedReads \/ LastAfter(r, i) > 0
  PROVE  /\ last[i] # Unset
         /\ LastAfter(r, i) = last[i]
         /\ height[i] <= last[i]
<1>1. last[i] # Unset /\ Reference(r, i) = last[i] /\ r[i] <= last[i]
  BY DEF Standing, Reference
<1>2. LastAfter(r, i) = last[i]
  BY <1>1, ReadType DEF LastAfter
<1>3. r[i] >= 0 /\ ~(r[i] = 0 /\ last[i] > 0)
  BY <1>1, ReadType DEF Lost
<1>4. r[i] = height[i]
  BY <1>2, <1>3, ReadType, StallAssumption
<1> QED BY <1>1, <1>2, <1>4

\* An observation keeps the counter of a node covered.
LEMMA ObservedIsCovered ==
  ASSUME TypeOK, CounterIsCovered,
         NEW r \in Reads, NEW i \in Normal, NEW long \in BOOLEAN,
         0 \notin FailedReads \/ LastAfter(r, i) > 0
  PROVE  \/ height[i] > LastAfter(r, i)
         \/ StallAfter(r, i, long) <= Capped(still[i])
<1>1. /\ stall[i] \in 0 .. stall_windows
      /\ still[i] \in 0 .. stall_windows
      /\ Capped(still[i]) \in 0 .. stall_windows
      /\ still[i] <= Capped(still[i])
  BY ReadType, CappedType
<1>2. CASE Lost(r, i)
  <2>1. StallAfter(r, i, long) = stall[i] /\ LastAfter(r, i) = Reference(r, i)
    BY <1>2 DEF StallAfter, LastAfter
  <2>2. CASE last[i] = Unset
    <3>1. Reference(r, i) = r[i] /\ r[i] < 0
      BY <1>2, <2>2 DEF Reference, Lost
    <3> QED BY <2>1, <3>1, ReadType
  <2>3. CASE last[i] # Unset
    <3>1. LastAfter(r, i) = last[i]
      BY <2>1, <2>3 DEF Reference
    <3>2. height[i] > last[i] \/ stall[i] <= still[i]
      BY <3>1 DEF CounterIsCovered
    <3> QED BY <1>1, <2>1, <3>1, <3>2
  <2> QED BY <2>2, <2>3
<1>3. CASE ~Lost(r, i) /\ Standing(r, i, long)
  <2>1. LastAfter(r, i) = last[i] /\ height[i] <= last[i]
    BY <1>3, StandingMeansStill
  <2>2. stall[i] <= still[i]
    BY <2>1, ReadType DEF CounterIsCovered
  <2>3. StallAfter(r, i, long) = Capped(stall[i])
    BY <1>3 DEF StallAfter
  <2> QED BY <1>1, <2>2, <2>3, CappedMonotone
<1>4. CASE ~Lost(r, i) /\ ~Standing(r, i, long)
  <2>1. StallAfter(r, i, long) = 0
    BY <1>4 DEF StallAfter
  <2> QED BY <1>1, <2>1
<1> QED BY <1>2, <1>3, <1>4

-----------------------------------------------------------------------------
(* The invariant *)

\* Before the baseline nothing is referred to and nothing is counted.
LEMMA InvInit == Init => StallInv
<1> SUFFICES ASSUME Init
             PROVE  StallInv
  OBVIOUS
<1>1. -2 \in -2 .. MaxHeight /\ 0 \in 0 .. stall_windows
  BY StallAssumption
<1>2. TypeOK
  BY <1>1 DEF Init, TypeOK, Unset
<1>3. ASSUME NEW i \in Normal
      PROVE  /\ last[i] = -2 /\ stall[i] = 0 /\ still[i] = 0
             /\ height[i] >= 0 /\ height[i] \in Int
  BY StallAssumption DEF Init, Unset
<1>4. ReferenceIsPast /\ CounterIsCovered /\ IdleUntilBaseline
  BY <1>3 DEF ReferenceIsPast, CounterIsCovered, IdleUntilBaseline
<1> QED BY <1>2, <1>4 DEF StallInv

\* A block makes the chain higher than its reference.
LEMMA GrowKeepsInv ==
  ASSUME StallInv, NEW j \in Normal, Grow(j)
  PROVE  StallInv'
<1>1. TypeOK'
  BY StallAssumption DEF StallInv, TypeOK, Grow
<1>2. ASSUME NEW i \in Normal
      PROVE  /\ height[i] \in Int /\ last[i] \in Int
             /\ last'[i] = last[i] /\ last[i] <= height[i]
             /\ stall'[i] = stall[i]
             /\ i = j => height'[i] = height[i] + 1
             /\ i # j => height'[i] = height[i] /\ still'[i] = still[i]
  BY StallAssumption DEF StallInv, TypeOK, Grow, ReferenceIsPast
<1>3. ReferenceIsPast'
  <2> SUFFICES ASSUME NEW i \in Normal
               PROVE  last'[i] <= height'[i]
    BY DEF ReferenceIsPast
  <2> QED BY <1>2
<1>4. CounterIsCovered'
  <2> SUFFICES ASSUME NEW i \in Normal, 0 \notin FailedReads \/ last'[i] > 0
               PROVE  height'[i] > last'[i] \/ stall'[i] <= still'[i]
    BY DEF CounterIsCovered
  <2>1. CASE i = j
    BY <2>1, <1>2
  <2>2. CASE i # j
    BY <2>2, <1>2 DEF StallInv, CounterIsCovered
  <2> QED BY <2>1, <2>2
<1>5. IdleUntilBaseline'
  BY DEF StallInv, IdleUntilBaseline, Grow
<1> QED BY <1>1, <1>3, <1>4, <1>5 DEF StallInv

\* The baseline sets references no higher than the chains.
LEMMA BaselineKeepsInv ==
  ASSUME StallInv, RegisterBaseline
  PROVE  StallInv'
<1>1. ASSUME NEW i \in Normal
      PROVE  /\ last'[i] \in -2 .. MaxHeight
             /\ last'[i] <= height[i]
             /\ stall[i] = 0
             /\ still[i] >= 0
  <2>1. last[i] <= height[i] /\ last[i] \in -2 .. MaxHeight /\ stall[i] = 0 /\ still[i] >= 0
    BY DEF StallInv, TypeOK, ReferenceIsPast, IdleUntilBaseline, RegisterBaseline
  <2>2. CASE last' \in Reads
    BY <2>1, <2>2, ReadType, StallAssumption DEF StallInv
  <2>3. CASE UNCHANGED last
    BY <2>1, <2>3
  <2> QED BY <2>1, <2>2, <2>3 DEF RegisterBaseline
<1>2. last' \in [Normal -> -2 .. MaxHeight]
  <2>1. CASE last' \in Reads
    <3>1. last' \in [Normal -> -1 .. MaxHeight]
      BY <2>1 DEF Reads
    <3> QED BY <3>1, <1>1
  <2>2. CASE UNCHANGED last
    BY <2>2 DEF StallInv, TypeOK
  <2> QED BY <2>1, <2>2 DEF RegisterBaseline
<1>3. TypeOK'
  BY <1>2 DEF StallInv, TypeOK, RegisterBaseline
<1>4. ReferenceIsPast' /\ CounterIsCovered' /\ IdleUntilBaseline'
  BY <1>1 DEF ReferenceIsPast, CounterIsCovered, IdleUntilBaseline, RegisterBaseline
<1> QED BY <1>3, <1>4 DEF StallInv

\* An observation keeps the invariant: one lemma per conjunct.
LEMMA ObserveKeepsInv ==
  ASSUME StallInv, NEW r \in Reads, NEW long \in BOOLEAN, Observe(r, long)
  PROVE  StallInv'
<1> USE DEF StallInv
<1>1. ASSUME NEW i \in Normal
      PROVE  /\ last'[i] = LastAfter(r, i)
             /\ stall'[i] = StallAfter(r, i, long)
             /\ still'[i] = Capped(still[i])
             /\ height'[i] = height[i]
  BY DEF Observe
<1>2. TypeOK'
  <2>1. last' \in [Normal -> -2 .. MaxHeight]
    <3>1. \A i \in Normal : LastAfter(r, i) \in -2 .. MaxHeight
      BY AfterType, StallAssumption
    <3> QED BY <3>1 DEF Observe
  <2>2. stall' \in [Normal -> 0 .. stall_windows]
    <3>1. \A i \in Normal : StallAfter(r, i, long) \in 0 .. stall_windows
      BY AfterType
    <3> QED BY <3>1 DEF Observe
  <2>3. still' \in [Normal -> 0 .. stall_windows]
    <3>1. \A i \in Normal : Capped(still[i]) \in 0 .. stall_windows
      BY CappedType DEF TypeOK
    <3> QED BY <3>1 DEF Observe
  <2>4. ever_grew' \in BOOLEAN /\ reported' \subseteq Normal
    BY DEF Observe, TypeOK
  <2>5. UNCHANGED <<height, watching>>
    BY DEF Observe
  <2> QED BY <2>1, <2>2, <2>3, <2>4, <2>5 DEF TypeOK
<1>3. ReferenceIsPast'
  BY <1>1, LastAfterIsPast DEF ReferenceIsPast
<1>4. CounterIsCovered'
  BY <1>1, ObservedIsCovered DEF CounterIsCovered
<1>5. IdleUntilBaseline'
  BY DEF IdleUntilBaseline, Observe
<1> QED BY <1>2, <1>3, <1>4, <1>5

\* Every step keeps the invariant.
LEMMA InvStep == StallInv /\ [Next]_vars => StallInv'
<1> SUFFICES ASSUME StallInv, [Next]_vars
             PROVE  StallInv'
  OBVIOUS
<1>1. ASSUME NEW i \in Normal, Grow(i)
      PROVE  StallInv'
  BY <1>1, GrowKeepsInv
<1>2. CASE RegisterBaseline
  BY <1>2, BaselineKeepsInv
<1>3. CASE ObserveAny
  BY <1>3, ObserveKeepsInv DEF ObserveAny
<1>4. CASE UNCHANGED vars
  BY <1>4 DEF vars, StallInv, TypeOK, ReferenceIsPast, CounterIsCovered, IdleUntilBaseline
<1> QED BY <1>1, <1>2, <1>3, <1>4 DEF Next

\* In every reachable state growth since the last good read is visible, or
\* the counter is covered by observations of a standing chain.
THEOREM StallCountersAreCovered == Spec => []StallInv
<1>1. Init => StallInv
  BY InvInit
<1>2. StallInv /\ [Next]_vars => StallInv'
  BY InvStep
<1> QED BY <1>1, <1>2, PTL DEF Spec

-----------------------------------------------------------------------------
(* The promise *)

\* A node is reported only when its chain has stood still long enough.
LEMMA ReportedIsStill ==
  ASSUME 0 \notin FailedReads, StallInv,
         NEW r \in Reads, NEW long \in BOOLEAN, Observe(r, long),
         NEW i \in Normal, ~Lost(r, i), StallAfter(r, i, long) >= stall_windows
  PROVE  still'[i] = stall_windows
<1>1. stall_windows \in Nat \ {0}
  BY StallAssumption
<1>2. Standing(r, i, long)
  BY <1>1 DEF StallAfter
<1>3. LastAfter(r, i) = last[i] /\ height[i] <= last[i]
  BY <1>2, StandingMeansStill DEF StallInv
<1>4. StallAfter(r, i, long) <= Capped(still[i])
  BY <1>3, ObservedIsCovered, ReadType DEF StallInv
<1>5. Capped(still[i]) \in 0 .. stall_windows /\ StallAfter(r, i, long) \in 0 .. stall_windows
  BY CappedType, ReadType, AfterType DEF StallInv
<1>6. still'[i] = Capped(still[i])
  BY DEF Observe
<1> QED BY <1>1, <1>4, <1>5, <1>6

\* An observation of the detector is an observation of the promise.
LEMMA ObserveRefines ==
  ASSUME 0 \notin FailedReads, StallInv,
         NEW r \in Reads, NEW long \in BOOLEAN, Observe(r, long)
  PROVE  Promise!Observe
<1> DEFINE R == {i \in Normal : ~Lost(r, i) /\ StallAfter(r, i, long) >= stall_windows}
<1>1. R \in SUBSET {i \in Normal : still'[i] = stall_windows}
  BY ReportedIsStill
<1>2. reported' = reported \cup R
  BY DEF Observe
<1>3. still' = [i \in Normal |-> IF still[i] < stall_windows THEN still[i] + 1
                                 ELSE stall_windows]
  BY DEF Observe, Capped
<1> QED BY <1>1, <1>2, <1>3 DEF Promise!Observe

\* Every step of the detector is a step or a stutter of the promise.
LEMMA StepRefines ==
  ASSUME 0 \notin FailedReads, StallInv, [Next]_vars
  PROVE  [Promise!Next]_<<still, reported>>
<1>1. ASSUME NEW i \in Normal, Grow(i)
      PROVE  Promise!Next
  BY <1>1 DEF Grow, Promise!Next, Promise!Grow
<1>2. CASE RegisterBaseline
  BY <1>2 DEF RegisterBaseline
<1>3. CASE ObserveAny
  BY <1>3, ObserveRefines DEF ObserveAny, Promise!Next
<1>4. CASE UNCHANGED vars
  BY <1>4 DEF vars
<1> QED BY <1>1, <1>2, <1>3, <1>4 DEF Next

\* Where a failed read cannot pass for height 0 (chainmaker, aptos, geth),
\* only a chain that stood still through stall_windows observations is
\* reported as stalled (oracle.py:259-293).
THEOREM OnlyStandingChainsAreReported ==
  ASSUME 0 \notin FailedReads
  PROVE  Spec => StallIsReal
<1>1. Init => Promise!Init
  BY DEF Init, Promise!Init
<1>2. StallInv /\ [Next]_vars => [Promise!Next]_<<still, reported>>
  BY StepRefines
<1>3. Spec => []StallInv
  BY StallCountersAreCovered
<1> QED BY <1>1, <1>2, <1>3, PTL DEF Spec, StallIsReal, Promise!Spec
=============================================================================
