------------------------------- MODULE GethWork -------------------------------
(***************************************************************************)
(* strong_varied_workload of live_node_geth.py: transactions of one sender *)
(* on a fresh chain, whose nonces the code computes, and then blocks from  *)
(* the fake beacon.  No block is made while the transactions are sent, so  *)
(* the pool of the peer holds all of them and decides the pending nonce.   *)
(***************************************************************************)
EXTENDS Integers, Sequences

VARIABLES
  case,        \* "blobpool" (blobpool-constrained) or "txpool" (the others)
  step,        \* index of the next wave, -1 after an exception
  pool,        \* nonces of the simple transactions that reached the pool
  special,     \* nonces of the other transactions that were sent
  sentSimple,  \* sent_simple
  failedSend,  \* history: a transaction or a nonce was not read or sent
  clash        \* history: a transaction was sent with the nonce of another

gethVars == <<case, step, pool, special, sentSimple, failedSend, clash>>

\* send_txs reads the nonce again after this many transactions.
Refresh == 100

\* A wave: the function, the first nonce after the simple transactions, and how
\* many nonces it uses (the variants of a replacement share theirs).
Wave(sender, offset, count) == [sender |-> sender, offset |-> offset, count |-> count]

Simple(count) == Wave("simple", 0, count)

\* Defect: the data transactions begin where the replacements are.
GethWavesOverlapping ==
  IF case = "blobpool"
    THEN << Simple(48), Simple(64), Wave("special", 5, 8), Wave("special", 25, 1),
            Wave("special", 25, 6), Wave("beacon", 0, 0) >>
    ELSE << Simple(64), Simple(96), Simple(128), Wave("special", 5, 1),
            Wave("special", 5, 12), Wave("beacon", 0, 0) >>

GethWaves ==
  IF case = "blobpool"
    THEN << Simple(48), Simple(64), Wave("special", 5, 8), Wave("special", 25, 1),
            Wave("special", 40, 6), Wave("beacon", 0, 0) >>
    ELSE << Simple(64), Simple(96), Simple(128), Wave("special", 5, 1),
            Wave("special", 25, 12), Wave("beacon", 0, 0) >>

GethInit ==
  /\ case \in {"blobpool", "txpool"}
  /\ step = 1
  /\ pool = {} /\ special = {}
  /\ sentSimple = 0
  /\ failedSend = FALSE /\ clash = FALSE

\* eth_getTransactionCount "pending": the first nonce the pool does not hold.
Pending(nonces) ==
  CHOOSE n \in 0..400 : n \notin nonces /\ \A k \in 0..(n - 1) : k \in nonces

\* Bound: the transactions of a call that may be lost, one at a time.
LosableOf(count) == {0, count \div 2, Refresh - 1, Refresh, count - 1} \cap 0..(count - 1)

Losses(count) == {{}} \cup {{i} : i \in LosableOf(count)}

\* Defect: the first transaction has the next but one nonce.
SimpleNoncesShifted(first, indices) == {first + 1 + i : i \in indices}

\* The nonces of the transactions of a call after a read of the pending nonce:
\* the index in the call is added, also to a nonce read in its middle.
SimpleNonces(first, indices) == {first + i : i \in indices}

\* send_txs for one batch.  A nonce that cannot be read ends the call, and the
\* batch is counted in any case.
SendTxs ==
  /\ step \in DOMAIN GethWaves /\ GethWaves[step].sender = "simple"
  /\ LET count == GethWaves[step].count
     IN \E lost \in Losses(count), reads \in 0..2 :
          LET head == {i \in 0..(count - 1) : reads >= 1 /\ i < Refresh} \ lost
              tail == {i \in 0..(count - 1) : reads = 2 /\ i >= Refresh} \ lost
              half == SimpleNonces(Pending(pool), head)
              rest == SimpleNonces(Pending(pool \cup half), tail)
          IN /\ pool' = pool \cup half \cup rest
             /\ clash' = (clash \/ (half \cap pool # {}) \/ (rest \cap (pool \cup half) # {}))
             /\ failedSend' = (failedSend \/ lost # {} \/ reads < 2)
             /\ sentSimple' = sentSimple + count
  /\ step' = step + 1
  /\ UNCHANGED <<case, special>>

\* send_blob_txs, send_blob_replacements, send_replacement_txs, send_data_txs:
\* nonces counted from the simple transactions, with gaps on purpose.
SendSpecial ==
  /\ step \in DOMAIN GethWaves /\ GethWaves[step].sender = "special"
  /\ LET wave == GethWaves[step]
         first == sentSimple + wave.offset
         nonces == first..(first + wave.count - 1)
     IN /\ special' = special \cup nonces
        /\ clash' = (clash \/ nonces \cap (pool \cup special) # {})
  /\ step' = step + 1
  /\ UNCHANGED <<case, pool, sentSimple, failedSend>>

\* The payload rounds on node 0 and the updates of the peer: skipped without a
\* secret or a head, and a client that runs into its timeout raises.
DriveBeacon ==
  /\ step \in DOMAIN GethWaves /\ GethWaves[step].sender = "beacon"
  /\ step' \in {step + 1, -1}
  /\ UNCHANGED <<case, pool, special, sentSimple, failedSend, clash>>

GethWorkNext == SendTxs \/ SendSpecial \/ DriveBeacon

GethWorkOver == step = -1 \/ step > Len(GethWaves)
=============================================================================
