------------------------------ MODULE Workloads ------------------------------
(***************************************************************************)
(* The workload of one varied round, on fisco, chainmaker or geth.         *)
(***************************************************************************)
EXTENDS FiscoWork, ChainmakerWork, GethWork

VARIABLE target

vars == <<target, fiscoVars, chainVars, gethVars>>

\* The state of the workload that does not run.
FiscoUnused ==
  /\ key = "simple" /\ timed = FALSE /\ late = 0 /\ at = <<"unused">>
  /\ halted = FALSE /\ trigger = 0 /\ due = 0

ChainUnused ==
  /\ watched = "interact" /\ kind = "query" /\ next = Len(Calls) + 1
  /\ contracts = [c \in Contracts |-> "none"]
  /\ lockedOut = FALSE /\ up = {} /\ created = {} /\ refused = {}
  /\ spare = 0

GethUnused ==
  /\ case = "txpool" /\ step = -1 /\ pool = {} /\ special = {}
  /\ sentSimple = 0 /\ failedSend = FALSE /\ clash = FALSE

Init ==
  \/ target = "fisco" /\ FiscoInit /\ ChainUnused /\ GethUnused
  \/ target = "chainmaker" /\ ChainInit /\ FiscoUnused /\ GethUnused
  \/ target = "geth" /\ GethInit /\ FiscoUnused /\ ChainUnused

Progress ==
  \/ target = "fisco" /\ FiscoProgress /\ UNCHANGED <<target, chainVars, gethVars>>
  \/ target = "chainmaker" /\ ChainNext /\ UNCHANGED <<target, fiscoVars, gethVars>>
  \/ target = "geth" /\ GethWorkNext /\ UNCHANGED <<target, fiscoVars, chainVars>>

Next ==
  \/ Progress
  \/ target = "fisco" /\ (TimePasses \/ WaveRaises) /\ UNCHANGED <<target, chainVars, gethVars>>

\* Every call of the clients has a timeout, and time passes.
Spec ==
  /\ Init /\ [][Next]_vars
  /\ WF_vars(Progress)
  /\ WF_vars(TimePasses /\ UNCHANGED <<target, chainVars, gethVars>>)

-----------------------------------------------------------------------------
(* Properties *)

Parts == {"online", "cycle", "peer", "restart", "post", "endcycle", "sustain", "rest",
          "returned", "raised", "unused"}

\* Every accepted write of a fisco workload is in submitted_transactions, and
\* nothing else is, although the sums are written out by hand for each part;
\* only the transactions of native_filter_wave wait for the next part.  They
\* are lost when the deadline falls between the two (interact returns first).
SubmittedIsAccepted ==
  /\ at[1] \in Parts
  /\ due = trigger
  /\ trigger # 0 => at = <<"online", 9>> \/ at[1] = "raised" \/ (at[1] = "returned" /\ late = 4)

\* Wherever the deadline cuts an offline cycle short, node 0 is started again:
\* interact returns and sustains its load with node 0 restarted.
StoppedIsStarted == halted => at[1] \in {"peer", "restart", "raised"}

\* A round never reports more accepted calls than attempted ones, with eleven
\* workloads that return early, count some creations and not others, and
\* expect some calls to fail.
AcceptedIsAttempted == spare >= 0

\* What a workload freezes, a contract or the certificate of org 2 that later
\* workloads need, is unfrozen again, unless the chain refused just that call.
NothingStaysFrozen ==
  next > Len(Calls) =>
    /\ contracts["verify"] = "frozen" => "unfreeze" \in refused
    /\ lockedOut => "cert_unfreeze" \in refused

\* When every transaction is sent, the simple transactions of geth have the
\* nonces that follow one another, as long as no call of send_txs goes past the
\* transaction at which it reads the nonce again.
SimpleIsContiguous ==
  (~failedSend /\ step > 0 /\ \A j \in DOMAIN GethWaves : j < step => GethWaves[j].count <= Refresh) =>
    pool = 0..(sentSimple - 1)

\* The replacement, data and blob transactions are sent with nonces of their
\* own, which strong_varied_workload computes from the number of simple ones,
\* unless a simple transaction was lost.
NoncesDoNotClash == clash => failedSend

\* A workload ends: the lists of chainmaker and geth do, fisco's sustained part
\* only with a deadline.
WorkEnds ==
  (target # "fisco" \/ timed) =>
    <>CASE target = "fisco" -> at[1] \in {"returned", "raised"}
        [] target = "chainmaker" -> next > Len(Calls)
        [] target = "geth" -> GethWorkOver
=============================================================================
