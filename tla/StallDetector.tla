--------------------------- MODULE StallDetector ---------------------------
(***************************************************************************)
(* The durable-stall detector of BcbOracle (bcfuzzer/oracle.py), with the  *)
(* chain it watches.  A read of a node's height is the height, or what the *)
(* target's client returns when the rpc fails: -1, or 0 on FISCO and geth. *)
(*                                                                         *)
(* A stall counter is only ever compared with stall_windows, so it stops   *)
(* there.  An observation is "long" when at least 0.8 of a window has      *)
(* passed since the previous one.                                          *)
(***************************************************************************)
EXTENDS Integers

CONSTANTS
  Normal,         \* normal_indices
  stall_windows,  \* 9 on chainmaker, PERSISTENCE_WINDOWS elsewhere
  FailedReads,    \* what a failed height rpc returns
  ShortRounds,    \* whether a round may take less than 0.8 of a window
  MaxHeight       \* bound: height of a chain

ASSUME StallAssumption ==
  /\ Normal \subseteq Nat
  /\ stall_windows \in Nat \ {0}
  /\ FailedReads \subseteq {-1, 0}
  /\ ShortRounds \in BOOLEAN
  /\ MaxHeight \in Nat

VARIABLES
  height,     \* node -> height of its chain
  watching,   \* whether run_fuzz has reached its round loop
  last,       \* _last: node -> height of the last good read
  stall,      \* _stall: node -> consecutive stalled observations
  ever_grew,  \* _ever_grew
  reported,   \* nodes with a durable_stall report
  still       \* history: node -> observations since its chain last grew

vars == <<height, watching, last, stall, ever_grew, reported, still>>

Unset == -2  \* no entry in _last

TypeOK ==
  /\ height \in [Normal -> 0 .. MaxHeight]
  /\ watching \in BOOLEAN
  /\ last \in [Normal -> -2 .. MaxHeight]
  /\ stall \in [Normal -> 0 .. stall_windows]
  /\ ever_grew \in BOOLEAN
  /\ reported \subseteq Normal
  /\ still \in [Normal -> 0 .. stall_windows]

Init ==
  /\ height \in [Normal -> 0 .. MaxHeight]
  /\ watching = FALSE
  /\ last = [i \in Normal |-> Unset]
  /\ stall = [i \in Normal |-> 0]
  /\ ever_grew = FALSE
  /\ reported = {}
  /\ still = [i \in Normal |-> 0]

Capped(k) == IF k < stall_windows THEN k + 1 ELSE stall_windows

Reads == {r \in [Normal -> -1 .. MaxHeight] :
            \A i \in Normal : r[i] \in {height[i]} \cup FailedReads}

-----------------------------------------------------------------------------
\* The chain of node i commits a block.
Grow(i) ==
  /\ height[i] < MaxHeight
  /\ height' = [height EXCEPT ![i] = @ + 1]
  /\ still' = [still EXCEPT ![i] = 0]
  /\ UNCHANGED <<watching, last, stall, ever_grew, reported>>

\* register_baseline stores the heights it read; when it raises, run_fuzz
\* goes on without a baseline.
RegisterBaseline ==
  /\ ~watching
  /\ watching' = TRUE
  /\ \/ last' \in Reads
     \/ UNCHANGED last
  /\ UNCHANGED <<height, stall, ever_grew, reported, still>>

\* Without an entry the read itself is the reference.
Reference(r, i) == IF last[i] = Unset THEN r[i] ELSE last[i]

\* Defect: a failed read is evaluated like any other.
NeverLost(r, i) == FALSE

\* "keep the window state": a failed rpc, or a 0 after a positive height.
Lost(r, i) == r[i] < 0 \/ (r[i] = 0 /\ Reference(r, i) > 0)

\* _ever_grew when the loop over the nodes reaches i.
Grew(r, i) ==
  ever_grew \/ \E j \in Normal : j <= i /\ ~Lost(r, j) /\ r[j] > Reference(r, j)

Standing(r, i, long) ==
  /\ Grew(r, i)
  /\ r[i] <= Reference(r, i)
  /\ long
  /\ last[i] # Unset

\* Defect: a failed read resets the counter.
StallForgotten(r, i, long) ==
  IF ~Lost(r, i) /\ Standing(r, i, long) THEN Capped(stall[i]) ELSE 0

\* Defect: the counter survives growth.
StallNoReset(r, i, long) ==
  IF ~Lost(r, i) /\ Standing(r, i, long) THEN Capped(stall[i]) ELSE stall[i]

StallAfter(r, i, long) ==
  IF Lost(r, i) THEN stall[i]
  ELSE IF Standing(r, i, long) THEN Capped(stall[i])
  ELSE 0

LastAfter(r, i) ==
  IF Lost(r, i) \/ r[i] < Reference(r, i) THEN Reference(r, i) ELSE r[i]

\* The part of observe that reports durable_stall, with the deduplication of
\* report: one report per node.
Observe(r, long) ==
  /\ watching
  /\ stall' = [i \in Normal |-> StallAfter(r, i, long)]
  /\ last' = [i \in Normal |-> LastAfter(r, i)]
  /\ ever_grew' = (ever_grew \/ \E i \in Normal : Grew(r, i))
  /\ reported' = reported \cup
       {i \in Normal : ~Lost(r, i) /\ StallAfter(r, i, long) >= stall_windows}
  /\ still' = [i \in Normal |-> Capped(still[i])]
  /\ UNCHANGED <<height, watching>>

ObserveAny ==
  \E r \in Reads, long \in BOOLEAN : (long \/ ShortRounds) /\ Observe(r, long)

Next ==
  \/ \E i \in Normal : Grow(i)
  \/ RegisterBaseline
  \/ ObserveAny

Spec == Init /\ [][Next]_vars

Answered(i) == \E r \in Reads : r[i] = height[i] /\ Observe(r, TRUE)

\* The round loop runs on, and again and again a round is long and the rpc
\* of a node answers in it.
FairSpec ==
  /\ Spec
  /\ WF_vars(RegisterBaseline)
  /\ \A i \in Normal : WF_vars(Answered(i))

-----------------------------------------------------------------------------
(* Properties *)

\* The detector keeps the promise of StallPromise: whatever reads fail and
\* however the rounds are spaced, only a chain that stood still through
\* stall_windows observations is reported (oracle.py:259-293).  Where a failed
\* read may look like height 0 this is not so before the first positive read.
Promise == INSTANCE StallPromise
StallIsReal == Promise!Spec

\* Why it is so: growth since the last good read is not lost, it is visible
\* to the next good read; otherwise the counter is covered by observations
\* of a standing chain.
CounterIsCovered ==
  \A i \in Normal :
    0 \notin FailedReads \/ last[i] > 0 =>
      height[i] > last[i] \/ stall[i] <= still[i]

\* The reference never runs ahead of the chain, so the next block shows.
ReferenceIsPast == \A i \in Normal : last[i] <= height[i]

\* No counter runs before the round loop does.
IdleUntilBaseline == ~watching => \A i \in Normal : stall[i] = 0

StallInv == TypeOK /\ ReferenceIsPast /\ CounterIsCovered /\ IdleUntilBaseline

\* A chain that has grown and stops for good is reported on every node, in
\* spite of rpc failures in between (oracle.py:266-276).
StopIsReported == \A i \in Normal : ever_grew ~> i \in reported
=============================================================================
