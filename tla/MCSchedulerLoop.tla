-------------------------- MODULE MCSchedulerLoop --------------------------
(***************************************************************************)
(* Instances of the feedback loop.  "flag" is a bool item, of whose rules  *)
(* flip is kept: it draws one value.  "ptype" is an enum item, of whose    *)
(* rules switch is kept: it draws one of the two members not in use.       *)
(***************************************************************************)
EXTENDS SchedulerLoop

FeedbackPairs == {"flip", "switch_a", "switch_b"}

FeedbackDraws == [flag |-> {{"flip"}}, ptype |-> {{"switch_a", "switch_b"}}]

ItemRank == [flag |-> 1, ptype |-> 2]

\* Seeds: the two that are always runnable and one that needs the flag
\* flipped, as fisco-t-bad-signature needs check_transaction_signature=false.
SeedRanks == [bad_signature |-> 1, transfer |-> 2, truncated |-> 3]
SeedRequires ==
  [s \in Seeds |-> IF s = "bad_signature" THEN {<<"flag", "flip">>} ELSE {}]
=============================================================================
