---------------------------- MODULE StallPromise ----------------------------
(***************************************************************************)
(* What durable_stall promises (bcfuzzer/oracle.py:11-12, "chain stops     *)
(* committing for PERSISTENCE_WINDOWS consecutive windows"): a node is     *)
(* reported only after that many observations in a row during which its    *)
(* chain really stood still.  How the oracle finds out is not said here.   *)
(***************************************************************************)
EXTENDS Naturals

CONSTANTS
  Normal,        \* the observed nodes
  stall_windows  \* observations a stall has to last

VARIABLES
  still,    \* node -> observations since its chain last grew, at most
            \*   stall_windows
  reported  \* nodes reported as stalled

Init ==
  /\ still = [i \in Normal |-> 0]
  /\ reported = {}

Grow(i) ==
  /\ still' = [still EXCEPT ![i] = 0]
  /\ UNCHANGED reported

Observe ==
  /\ still' = [i \in Normal |-> IF still[i] < stall_windows THEN still[i] + 1
                                ELSE stall_windows]
  /\ \E R \in SUBSET {i \in Normal : still'[i] = stall_windows} :
       reported' = reported \cup R

Next == (\E i \in Normal : Grow(i)) \/ Observe

Spec == Init /\ [][Next]_<<still, reported>>
=============================================================================
