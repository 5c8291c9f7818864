-------------------------------- MODULE Mei --------------------------------
(***************************************************************************)
(* The Mutation-Effective Index of bcfuzzer/mei.py: which mutations of an  *)
(* item were tried, and whether the node survived them.                    *)
(*                                                                         *)
(* A mutation of an item is a (rule, value) pair.  The list kept in        *)
(* valid[item] is read only through membership and random choice, so it is *)
(* a set here; the dictionary key "rule=value" of invalid[item] identifies *)
(* the pair, and an absent key is a count of zero.                         *)
(***************************************************************************)
EXTENDS Naturals, FiniteSets

CONSTANTS
  Items,                \* the items of the target's catalog
  Pairs,                \* the (rule, value) pairs
  CONSISTENT_THRESHOLD  \* mei.py:25

ASSUME MeiAssumption ==
  /\ IsFiniteSet(Pairs)
  /\ CONSISTENT_THRESHOLD \in Nat \ {0}

VARIABLES
  valid,     \* item -> pairs admitted at least once
  invalid,   \* item -> pair -> number of rejections
  explored   \* item -> pairs tried

meiVars == <<valid, invalid, explored>>

MeiTypeOK ==
  /\ valid \in [Items -> SUBSET Pairs]
  /\ invalid \in [Items -> [Pairs -> Nat]]
  /\ explored \in [Items -> SUBSET Pairs]

Empty ==
  [valid    |-> [i \in Items |-> {}],
   invalid  |-> [i \in Items |-> [p \in Pairs |-> 0]],
   explored |-> [i \in Items |-> {}]]

\* cls(**saved): the index of a new campaign, or the one read from mei.json.
Load(saved) ==
  /\ valid' = saved.valid
  /\ invalid' = saved.invalid
  /\ explored' = saved.explored

\* What save writes.
Snapshot == [valid |-> valid, invalid |-> invalid, explored |-> explored]

MeiInit ==
  /\ valid = Empty.valid
  /\ invalid = Empty.invalid
  /\ explored = Empty.explored

-----------------------------------------------------------------------------
(* Classification *)

RejectedKeys(i) == {p \in Pairs : invalid[i][p] > 0}

\* rejected_count: distinct rejected keys, not rejections.
RejectedCount(i) == Cardinality(RejectedKeys(i))

\* Defect: the rejections are weighed before the admissions.
StatusReversed(i) ==
  IF RejectedCount(i) >= CONSISTENT_THRESHOLD THEN "consistent"
  ELSE IF valid[i] # {} THEN "inconsistent"
  ELSE "unexplored"

Status(i) ==
  IF valid[i] # {} THEN "inconsistent"
  ELSE IF RejectedCount(i) >= CONSISTENT_THRESHOLD THEN "consistent"
  ELSE "unexplored"

-----------------------------------------------------------------------------
(* record_admission, the only write path *)

\* Defect: a rejected pair is not entered in explored.
RecordAdmissionLost(i, p, admitted) ==
  /\ valid' = IF admitted THEN [valid EXCEPT ![i] = @ \cup {p}] ELSE valid
  /\ invalid' = IF admitted THEN invalid ELSE [invalid EXCEPT ![i][p] = @ + 1]
  /\ explored' = IF admitted THEN [explored EXCEPT ![i] = @ \cup {p}] ELSE explored

RecordAdmission(i, p, admitted) ==
  /\ \/ /\ admitted
        /\ valid' = [valid EXCEPT ![i] = @ \cup {p}]
        /\ UNCHANGED invalid
     \/ /\ ~admitted
        /\ invalid' = [invalid EXCEPT ![i][p] = @ + 1]
        /\ UNCHANGED valid
  /\ explored' = [explored EXCEPT ![i] = @ \cup {p}]

-----------------------------------------------------------------------------
(* Properties *)

\* "MEI state and observed behavior cannot drift apart" (mei.py:12-15): a pair
\* is explored exactly when a verdict on it is on record, so the scheduler
\* neither skips a pair nobody judged nor judges one it believes untried.
ExploredIsJudged ==
  \A i \in Items : explored[i] = valid[i] \cup RejectedKeys(i)

MeiInv == MeiTypeOK /\ ExploredIsJudged

Rank(s) == CASE s = "unexplored" -> 0 [] s = "consistent" -> 1 [] s = "inconsistent" -> 2

\* The classification only moves forward, unexplored to consistent to
\* inconsistent, whatever order verdicts arrive in: later rejections of an
\* admitted pair or a late first admission never send an item back.
StatusLadder ==
  [][\A i \in Items : Rank(Status(i)') >= Rank(Status(i))]_meiVars
=============================================================================
