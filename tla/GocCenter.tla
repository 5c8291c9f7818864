------------------------------ MODULE GocCenter ------------------------------
(***************************************************************************)
(* goc_utils.py for the arms that collect Go coverage (chainmaker, geth):  *)
(* instrumented nodes keep their counters in memory, and a goc server is   *)
(* asked to clear them or to write them all into one profile.  Every call  *)
(* of the goc client may raise; the round is then abandoned.               *)
(***************************************************************************)
EXTENDS ArmLoop

\* goc_clear: the counters of every running node restart from nothing.
ClearedCounters == [n \in Nodes |-> [proc[n] EXCEPT !.counters = {}]]

\* goc_profile: one file with the counters of the running nodes.  On failure
\* it returns False, and the file stays as an earlier run left it.
GocProfile(f, written) ==
  /\ file' = IF written THEN [file EXCEPT ![f] = InCounters(proc)] ELSE file
  /\ ok' = IF written THEN ok \cup {f} ELSE ok
  /\ kept' = IF written THEN kept \cup InCounters(proc) ELSE kept

\* Defect: the merge needs both snapshots.
MergedOfBoth(profiles, files) ==
  IF profiles = {"pre", "post"} THEN files["pre"] \cup files["post"] ELSE {}

\* goc_merge skips missing and empty profiles; with none left it writes nothing.
MergedOf(profiles, files) == UNION {files[f] : f \in profiles}

\* Defect: the latest profile replaces the cumulative one.
CumulativeIsLatest ==
  [file EXCEPT !["cumulative"] = IF file["round"] = {} THEN @ ELSE file["round"]]

\* merge_into_cumulative: a round without a profile adds nothing; else the
\* merge is written aside and replaces the cumulative profile in one step.
MergeIntoCumulative ==
  [file EXCEPT !["cumulative"] = IF file["round"] = {} THEN @ ELSE @ \cup file["round"]]

\* The end of run_round: the profile is merged, and covered_lines of the
\* cumulative profile goes to the timeline.  A merge that raises ends the arm.
Merge ==
  /\ pc = "merge"
  /\ \/ /\ pc' = "loop"
        /\ file' = MergeIntoCumulative
        /\ Record(Covered(file'["cumulative"]))
     \/ /\ file["round"] # {} /\ file["cumulative"] # {}
        /\ pc' = "failed"
        /\ UNCHANGED <<file, window>>
  /\ mishaps' = IF "round" \in ok THEN mishaps ELSE mishaps \cup {"unwritten"}
  /\ UNCHANGED <<fixedVars, left, late, proc, conf, ok, foreign, cycle, seen, kept>>
=============================================================================
