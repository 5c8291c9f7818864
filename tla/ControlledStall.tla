-------------------------- MODULE ControlledStall --------------------------
(***************************************************************************)
(* The stall counters of mutated Aptos validators in BcbOracle,            *)
(* _observe_controlled_aptos of bcfuzzer/oracle.py.  They share the tables *)
(* of the detector for normal nodes (StallDetector) under keys of their    *)
(* own, and follow other rules.  The plan puts at most one mutation on a   *)
(* validator in a round.                                                   *)
(***************************************************************************)
EXTENDS Integers

CONSTANTS
  Controlled,     \* the controlled validators
  stall_windows,  \* PERSISTENCE_WINDOWS
  MaxLedger       \* bound: version of a ledger

ASSUME ControlledAssumption ==
  /\ stall_windows \in Nat \ {0}
  /\ MaxLedger \in Nat

VARIABLES
  ledger,    \* validator -> version of its ledger
  last,      \* _last[("c", n)]
  stall,     \* _stall[("c", n)], as far as stall_windows
  reported,  \* validators with a report of a stall
  still      \* history: validator -> observations since its ledger grew

controlledVars == <<ledger, last, stall, reported, still>>

Unset == -2  \* no entry in _last

ControlledTypeOK ==
  /\ ledger \in [Controlled -> 0 .. MaxLedger]
  /\ last \in [Controlled -> -2 .. MaxLedger]
  /\ stall \in [Controlled -> 0 .. stall_windows]
  /\ reported \subseteq Controlled
  /\ still \in [Controlled -> 0 .. stall_windows]

ControlledInit ==
  /\ ledger \in [Controlled -> 0 .. MaxLedger]
  /\ last = [n \in Controlled |-> Unset]
  /\ stall = [n \in Controlled |-> 0]
  /\ reported = {}
  /\ still = [n \in Controlled |-> 0]

Capped(k) == IF k < stall_windows THEN k + 1 ELSE stall_windows

\* A failed rpc reads as -1.
Reads == {r \in [Controlled -> -1 .. MaxLedger] :
            \A n \in Controlled : r[n] \in {ledger[n], -1}}

-----------------------------------------------------------------------------
\* Validator n commits.
Grow(n) ==
  /\ ledger[n] < MaxLedger
  /\ ledger' = [ledger EXCEPT ![n] = @ + 1]
  /\ still' = [still EXCEPT ![n] = 0]
  /\ UNCHANGED <<last, stall, reported>>

\* Without an entry the read itself is the reference ...
Reference(r, n) == IF last[n] = Unset THEN r[n] ELSE last[n]

\* ... and it is kept only where the read failed or lies above it.
LastAfter(r, n) ==
  IF r[n] < 0 THEN Reference(r, n)
  ELSE IF r[n] <= Reference(r, n) THEN last[n]
  ELSE r[n]

\* Defect: the counter survives growth.
StallKept(r, n) ==
  IF r[n] >= 0 /\ r[n] <= Reference(r, n) THEN Capped(stall[n]) ELSE stall[n]

StallAfter(r, n) ==
  IF r[n] < 0 THEN stall[n]
  ELSE IF r[n] <= Reference(r, n) THEN Capped(stall[n])
  ELSE 0

\* One observation.  Looked at are the validators alive whose mutation of the
\* round is round_initial_timeout_ms or sync_only; a stall is reported only
\* while the normal nodes grow.
ObserveControlled(looked, r, normal_growth) ==
  /\ last' = [n \in Controlled |-> IF n \in looked THEN LastAfter(r, n) ELSE last[n]]
  /\ stall' = [n \in Controlled |-> IF n \in looked THEN StallAfter(r, n) ELSE stall[n]]
  /\ reported' = reported \cup
       {n \in looked : normal_growth /\ stall'[n] >= stall_windows}
  /\ still' = [n \in Controlled |-> Capped(still[n])]
  /\ UNCHANGED ledger

ControlledNext ==
  \/ \E n \in Controlled : Grow(n)
  \/ \E looked \in SUBSET Controlled, r \in Reads, normal_growth \in BOOLEAN :
       ObserveControlled(looked, r, normal_growth)

ControlledSpec == ControlledInit /\ [][ControlledNext]_controlledVars

-----------------------------------------------------------------------------
(* Properties *)

\* A validator that has a reference is counted as stalled only for windows in
\* which its ledger stood still: growth in a round without its mutation, or
\* behind a failed rpc, shows in the next good read (oracle.py:407-415).
CoveredOnceReferenced ==
  \A n \in Controlled :
    last[n] # Unset => ledger[n] > last[n] \/ stall[n] <= still[n]

ControlledInv == ControlledTypeOK /\ CoveredOnceReferenced

\* "chain stops committing for PERSISTENCE_WINDOWS consecutive 20 s windows
\* while nodes stay alive" (oracle.py:11-12), said of the mutated validator.
Promise == INSTANCE StallPromise WITH Normal <- Controlled
ControlledStallIsReal == Promise!Spec
=============================================================================
