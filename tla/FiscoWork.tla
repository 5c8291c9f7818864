------------------------------ MODULE FiscoWork ------------------------------
(***************************************************************************)
(* interact of live_node_fisco.py: the waves of transactions of one varied *)
(* round, online, with node 0 stopped, after its restart, and sustained    *)
(* until the deadline of the round.                                        *)
(*                                                                         *)
(* Every part adds what it wrote to submitted_total, by sums written out   *)
(* in several places.  The model follows the writes of one kind (key), and *)
(* keeps what is accepted but not yet counted instead of growing counters. *)
(***************************************************************************)
EXTENDS Integers, Sequences

CONSTANTS
  Many          \* bound: accepted writes of one kind in one wave

ASSUME ManyAssumption == Many \in Nat \ {0}

VARIABLES
  key,          \* the kind of write the model follows
  timed,        \* whether the round has a deadline
  late,         \* how many of the slacks 20, 15, 12, 0 the deadline has passed
  at,           \* program counter: <<part>> or <<part, cycle, index>>
  halted,       \* node 0 is stopped by the workload
  trigger,      \* filter_trigger_txs, not yet added
  due           \* accepted writes of key minus those in submitted_total

fiscoVars == <<key, timed, late, at, halted, trigger, due>>

\* What the waves write.
DagTransferWave == {"dag_adds", "dag_saves", "dag_transfers", "dag_draws"}
BfsWave == {"bfs_mkdirs", "bfs_links"}
BfsExtendedWave == {"bfs_touches", "bfs_rebuilds"}
SystemConfigWave == {"syscfg_writes"}
BalanceWave == {"balance_writes"}
AuthWave == {"auth_writes"}
TableManagerWave == {"table_writes"}
SimpleTransferWave == {"simple"}
NativeFilterWave == {"trigger"}

WriteActivityKeys ==
  DagTransferWave \cup BfsWave \cup BfsExtendedWave \cup SystemConfigWave
    \cup BalanceWave \cup AuthWave \cup TableManagerWave

Keys == WriteActivityKeys \cup SimpleTransferWave \cup NativeFilterWave

\* The waves before the first restart, in order.
Online ==
  << DagTransferWave, BfsWave, BfsExtendedWave, SystemConfigWave, BalanceWave, AuthWave,
     TableManagerWave, NativeFilterWave, SimpleTransferWave, DagTransferWave >>

\* submission_delta, and the sums written out in the offline cycles.
SubmissionDelta == WriteActivityKeys

\* Defect: what only the first peer runs is left out of its sum.
FirstPeerDeltaShort ==
  DagTransferWave \cup BfsWave \cup SystemConfigWave \cup SimpleTransferWave \cup NativeFilterWave

FirstPeerDelta ==
  DagTransferWave \cup BfsWave \cup SystemConfigWave \cup SimpleTransferWave \cup NativeFilterWave
    \cup BfsExtendedWave \cup BalanceWave \cup AuthWave \cup TableManagerWave

OtherPeerDelta ==
  DagTransferWave \cup BfsWave \cup SystemConfigWave \cup SimpleTransferWave

PeerDelta(first) == IF first THEN FirstPeerDelta ELSE OtherPeerDelta

PostDelta == DagTransferWave \cup SimpleTransferWave

\* What one peer writes while node 0 is down; the first one runs every wave.
PeerWaves(first) ==
  DagTransferWave \cup BfsWave \cup SystemConfigWave \cup SimpleTransferWave
    \cup (IF first THEN BfsExtendedWave \cup BalanceWave \cup AuthWave
                          \cup TableManagerWave \cup NativeFilterWave
                   ELSE {})

\* signed_call: any number of the writes of a wave is accepted.
Accepted(waves) == IF key \in waves THEN 0..Many ELSE {0}

\* n writes were accepted; the sum of the kinds in delta goes to submitted_total.
Count(n, delta) == due' = due + (IF key \in delta THEN 0 ELSE n)

\* A wave takes its time: the tests after it see a later clock.
Passing == late' \in (IF timed THEN late..4 ELSE {late})

\* expired(slack) at a time: no deadline, never.
Slack == [twenty |-> 1, fifteen |-> 2, twelve |-> 3, none |-> 4]

\* Defect: the comparison is reversed.
ExpiredBefore(slack, now) == timed /\ now < Slack[slack]

Expired(slack, now) == timed /\ now >= Slack[slack]

FiscoInit ==
  /\ key \in Keys
  /\ timed \in BOOLEAN
  /\ late = 0
  /\ at = <<"online", 1>>
  /\ halted = FALSE
  /\ trigger = 0 /\ due = 0

TimePasses ==
  /\ timed /\ late < 4
  /\ at[1] \notin {"returned", "raised"}
  /\ late' = late + 1
  /\ UNCHANGED <<key, timed, at, halted, trigger, due>>

\* The test of the deadline between two parts.
NextUnlessExpired(next) == at' = IF Expired("none", late') THEN <<"returned">> ELSE next

\* Wave i of the online part.  auth_wave is followed by table_manager_wave and
\* native_filter_wave by the query sweep without a test in between; what the
\* filters triggered is added to submitted_total with the simple transfers.
OnlineWave ==
  /\ at[1] = "online"
  /\ Passing
  /\ LET i == at[2]
         next == IF i = Len(Online) THEN <<"cycle", 1>> ELSE <<"online", i + 1>>
     IN /\ \E n \in Accepted(Online[i]) :
             CASE Online[i] = NativeFilterWave -> trigger' = n /\ Count(n, {})
               [] Online[i] = SimpleTransferWave -> trigger' = 0 /\ due' = due - trigger
               [] OTHER -> trigger' = trigger /\ Count(n, SubmissionDelta)
        /\ IF Online[i] = AuthWave THEN at' = next ELSE NextUnlessExpired(next)
  /\ UNCHANGED <<key, timed, halted>>

\* offline_cycle: not in the last 20 seconds; else node 0 is stopped.
BeginCycle ==
  /\ at[1] = "cycle"
  /\ IF Expired("twenty", late)
       THEN at' = <<"endcycle", at[2]>> /\ halted' = halted
       ELSE at' = <<"peer", at[2], 1>> /\ halted' = TRUE
  /\ UNCHANGED <<key, timed, late, trigger, due>>

\* One of three peers: all its waves, then their sum.
PeerWave ==
  /\ at[1] = "peer" /\ at[3] <= 3 /\ ~Expired("twenty", late)
  /\ Passing
  /\ \E n \in Accepted(PeerWaves(at[3] = 1)) : Count(n, PeerDelta(at[3] = 1))
  /\ at' = IF Expired("fifteen", late') THEN <<"restart", at[2]>> ELSE <<"peer", at[2], at[3] + 1>>
  /\ UNCHANGED <<key, timed, halted, trigger>>

\* Defect: a cycle that ran out of time returns at once.
PeersDoneReturn ==
  /\ at[1] = "peer" /\ (at[3] > 3 \/ Expired("twenty", late))
  /\ at' = IF at[3] > 3 THEN <<"restart", at[2]>> ELSE <<"endcycle", at[2]>>
  /\ UNCHANGED <<key, timed, late, halted, trigger, due>>

\* The last peer, or out of time: on to the restart in either case.
PeersDone ==
  /\ at[1] = "peer" /\ (at[3] > 3 \/ Expired("twenty", late))
  /\ at' = <<"restart", at[2]>>
  /\ UNCHANGED <<key, timed, late, halted, trigger, due>>

\* start_node; what it finds in the log goes to restart_sync_ok.
RestartFirst ==
  /\ at[1] = "restart"
  /\ halted' = FALSE
  /\ at' = <<"post", at[2], 1>>
  /\ UNCHANGED <<key, timed, late, trigger, due>>

\* Peers 1, 2 and 1 again after the restart.
PostWave ==
  /\ at[1] = "post" /\ at[3] <= 3 /\ ~Expired("fifteen", late)
  /\ Passing
  /\ \E n \in Accepted(PostDelta) : Count(n, PostDelta)
  /\ at' = <<"post", at[2], at[3] + 1>>
  /\ UNCHANGED <<key, timed, halted, trigger>>

PostDone ==
  /\ at[1] = "post" /\ (at[3] > 3 \/ Expired("fifteen", late))
  /\ at' = <<"endcycle", at[2]>>
  /\ UNCHANGED <<key, timed, late, halted, trigger, due>>

EndCycle ==
  /\ at[1] = "endcycle"
  /\ UNCHANGED <<key, timed, late, halted, trigger, due>>
  /\ NextUnlessExpired(IF at[2] = 1 THEN <<"cycle", 2>> ELSE <<"sustain", 0>>)

\* The test at the head of the sustained loop.
SustainOver == Expired("twenty", late)

\* Extension cycle c (modulo 6) begins with transfers ...
SustainTransfers ==
  /\ at[1] = "sustain" /\ ~SustainOver
  /\ \E n \in Accepted(DagTransferWave) : Count(n, SubmissionDelta)
  /\ Passing
  /\ at' = IF Expired("twelve", late') THEN <<"returned">> ELSE <<"rest", at[2]>>
  /\ UNCHANGED <<key, timed, halted, trigger>>

\* ... and goes on with files, with system settings every other time, and with
\* tables or rights every third time.
SustainRest ==
  /\ at[1] = "rest"
  /\ LET c == at[2]
         waves == BfsWave \cup SimpleTransferWave
                    \cup (IF c % 2 = 0 THEN SystemConfigWave ELSE {})
                    \cup (IF c % 3 = 1 THEN TableManagerWave ELSE {})
                    \cup (IF c % 3 = 2 THEN AuthWave ELSE {})
     IN /\ \E n \in Accepted(waves) : Count(n, SubmissionDelta \cup SimpleTransferWave)
        /\ Passing
        /\ at' = <<"sustain", (c + 1) % 6>>
  /\ UNCHANGED <<key, timed, halted, trigger>>

SustainEnds ==
  /\ at[1] = "sustain" /\ SustainOver
  /\ at' = <<"returned">>
  /\ UNCHANGED <<key, timed, late, halted, trigger, due>>

\* A reply with a null result makes signed_send or eth_call_result raise: the
\* exception leaves interact, and what it counted is lost with it.
WaveRaises ==
  /\ at[1] \in {"online", "peer", "post", "sustain", "rest"}
  /\ at' = <<"raised">>
  /\ UNCHANGED <<key, timed, late, halted, trigger, due>>

FiscoProgress ==
  \/ OnlineWave \/ BeginCycle \/ PeerWave \/ PeersDone \/ RestartFirst \/ PostWave
  \/ PostDone \/ EndCycle \/ SustainTransfers \/ SustainRest \/ SustainEnds

FiscoNext == FiscoProgress \/ TimePasses \/ WaveRaises
=============================================================================
