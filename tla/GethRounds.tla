----------------------------- MODULE GethRounds -----------------------------
(***************************************************************************)
(* The rounds of a geth campaign: GethNetwork of bcfuzzer/targets/         *)
(* geth_net.py, the geth branches of run_round and run_sequences, and the  *)
(* gasLimit branch of BcbOracle.observe.  Blocks are sealed by the node    *)
(* whose engine port is driven, on top of its own head, and reach the      *)
(* other nodes only when they are driven to a head.  One block here is the *)
(* outcome of one engine_drive, however many blocks that seals.            *)
(***************************************************************************)
EXTENDS Naturals, FiniteSets, SequencesExt

CONSTANTS
  Mutable,       \* the controlled nodes
  Producer,      \* the first of them
  Followers,     \* the normal nodes
  Successor,     \* the first of them, the new producer of run_sequences
  HandoverEvery, \* rotate_role runs in every fifth round
  CycleEvery,    \* restart_cycle runs in every third round
  Persistence,   \* PERSISTENCE_WINDOWS
  MaxHeight,     \* bound: blocks of a chain; engine_drive fails beyond it
  MaxEpochs,     \* bound: rounds
  MaxDeaths      \* bound: nodes that die or are killed

Foremost(n, S) == n \in S /\ \A m \in S : n <= m

ASSUME GethAssumption ==
  /\ Mutable \subseteq Nat /\ Followers \subseteq Nat
  /\ IsFiniteSet(Mutable) /\ IsFiniteSet(Followers)
  /\ Foremost(Producer, Mutable) /\ Foremost(Successor, Followers)
  /\ Mutable \cap Followers = {}
  /\ {HandoverEvery, CycleEvery, Persistence} \subseteq Nat \ {0}
  /\ {MaxHeight, MaxEpochs, MaxDeaths} \subseteq Nat

VARIABLES
  epoch,     \* id of the round
  phase,     \* what the round does next
  conf,      \* controlled node -> what its configuration of the round does
  alive,     \* nodes whose process runs
  chain,     \* node -> its chain, without the genesis block
  todo,      \* nodes the current loop has still to drive
  head,      \* head_hash of sync_all
  pass,      \* passes over the laggards
  converged, \* results["_converged"]
  below,     \* _collapse_rounds, as far as Persistence
  collapsed, \* nodes reported by the last observation
  sealers,   \* history: nodes that sealed blocks
  lost,      \* history: whether a node lost a block
  healthy,   \* history: node -> last observed round in which its head was
             \*   not low, or it was dead
  deaths

gethVars == <<epoch, phase, conf, alive, chain, todo, head, pass, converged, below,
              collapsed, sealers, lost, healthy, deaths>>

Executors == Mutable \cup Followers

Block == [by : Mutable \cup {Successor}, low : BOOLEAN]

\* Whether the gasLimit of a head is below GETH_COLLAPSE_THRESHOLD; that of
\* the genesis block is not.
Low(c) == c # <<>> /\ c[Len(c)].low

GethInit ==
  /\ epoch = 0
  /\ phase = "plan"
  /\ conf = [n \in Mutable |-> "plain"]
  /\ alive = Executors
  /\ chain = [n \in Executors |-> <<>>]
  /\ todo = {}
  /\ head = <<>>
  /\ pass = 0
  /\ converged = {}
  /\ below = [i \in Followers |-> 0]
  /\ collapsed = {}
  /\ sealers = {}
  /\ lost = FALSE
  /\ healthy = [i \in Followers |-> 0]
  /\ deaths = 0

oracleVars == <<below, collapsed, healthy>>

-----------------------------------------------------------------------------
\* What engine_drive of node n can make of chain c: it may stop with an error
\* before its first block.  A configuration with a small gasLimit lowers that
\* of the chain, block by block; other configurations raise it again.
Driven(n, c) ==
  IF n \notin alive THEN {c}
  ELSE {c} \cup
       {Append(c, [by |-> n, low |-> l]) :
          l \in IF Len(c) >= MaxHeight THEN {}
                ELSE {Low(c), n \in Mutable /\ conf[n] = "lowering"}}

\* Node n is driven on top of c.
Drive(n, c) ==
  \E d \in Driven(n, c) :
    /\ chain' = [chain EXCEPT ![n] = d]
    /\ sealers' = IF d # c THEN sealers \cup {n} ELSE sealers

\* connect_mesh gives every live node a peer, if there are two.
Meshed == IF Cardinality(alive) < 2 THEN {} ELSE alive

\* What drive_beacon to head h can make of the chain of node i: the fetch
\* needs a peer that has h, and may come too late.  A head that lies behind
\* the node's own is ignored.
Following(i, h) ==
  {chain[i]} \cup
    {g \in {h} : /\ i \in Meshed
                 /\ ~IsPrefix(h, chain[i])
                 /\ \E j \in Meshed : IsPrefix(h, chain[j])}

\* Nodes whose head block can be read; all six attempts may fail as well.
Answering == alive

\* stop_all, and start_all with the configurations of the round: a node with
\* one that geth does not accept exits at once.
Started(c) == {n \in Executors : n \in Mutable => c[n] # "fatal"}

BeginEpoch ==
  /\ phase = "plan"
  /\ epoch < MaxEpochs
  /\ epoch' = epoch + 1
  /\ conf' \in [Mutable -> {"plain", "lowering", "fatal"}]
  /\ alive' = Started(conf')
  /\ phase' = "admit"
  /\ converged' = {} /\ collapsed' = {} /\ head' = <<>>
  /\ UNCHANGED <<chain, todo, pass, below, sealers, lost, healthy, deaths>>

\* probe_admission drives the producer; the other controlled nodes only need a
\* peer.  An error of the engine api abandons the round, with the nodes running.
Admission ==
  /\ phase = "admit"
  /\ Drive(Producer, chain[Producer])
  /\ \/ phase' = "seeds" /\ todo' = Mutable
     \/ phase' = "plan" /\ UNCHANGED todo
  /\ UNCHANGED <<epoch, conf, alive, head, pass, converged, oracleVars, lost, deaths>>

\* One seed per controlled node; an engine_rapid seed drives the node itself.
EngineSeed(n) ==
  /\ phase = "seeds"
  /\ Foremost(n, todo)
  /\ Drive(n, chain[n])
  /\ todo' = todo \ {n}
  /\ phase' = IF todo' = {} THEN "drive" ELSE phase
  /\ UNCHANGED <<epoch, conf, alive, head, pass, converged, oracleVars, lost, deaths>>

AfterHandover == IF epoch % CycleEvery = 0 THEN "cycle" ELSE "sync"

DriveBlocks ==
  /\ phase = "drive"
  /\ Drive(Producer, chain[Producer])
  /\ phase' = IF epoch % HandoverEvery = 0 THEN "rotate" ELSE AfterHandover
  /\ UNCHANGED <<epoch, conf, alive, todo, head, pass, converged, oracleVars, lost, deaths>>

\* rotate_producer asks the new producer to follow the old one and drives it,
\* whether it followed or not.
RotateProducer ==
  /\ phase = "rotate"
  /\ phase' = AfterHandover
  /\ \/ UNCHANGED <<chain, sealers>>
     \/ /\ Producer \in Answering
        /\ \E c \in Following(Successor, chain[Producer]) : Drive(Successor, c)
  /\ UNCHANGED <<epoch, conf, alive, todo, head, pass, converged, oracleVars, lost, deaths>>

\* restart_cycle takes the whole network down and up again.
CycleNetwork ==
  /\ phase = "cycle"
  /\ alive' = Started(conf)
  /\ phase' = "sync"
  /\ UNCHANGED <<epoch, conf, chain, todo, head, pass, converged, oracleVars, sealers,
                 lost, deaths>>

\* height is 0 when the node does not answer.
HeightsRead(S) == {r \in [S -> 0 .. MaxHeight] :
  \A n \in S : r[n] \in {0} \cup (IF n \in alive THEN {Len(chain[n])} ELSE {})}

\* The source is the first of the highest controlled nodes.  Without a head
\* nothing is driven.
SyncBegins ==
  /\ phase = "sync"
  /\ \E r \in HeightsRead(Mutable) :
       \/ \E source \in Answering :
            /\ Foremost(source, {n \in Mutable : \A m \in Mutable : r[m] <= r[n]})
            /\ head' = chain[source]
            /\ todo' = Followers
            /\ phase' = "follow"
       \/ phase' = "observe" /\ UNCHANGED <<head, todo>>
  /\ UNCHANGED <<epoch, conf, alive, chain, pass, converged, oracleVars, sealers, lost,
                 deaths>>

Follow(i) ==
  /\ phase = "follow"
  /\ Foremost(i, todo)
  /\ \E c \in Following(i, head) : chain' = [chain EXCEPT ![i] = c]
  /\ todo' = todo \ {i}
  /\ UNCHANGED <<epoch, phase, conf, alive, head, pass, converged, oracleVars, sealers,
                 lost, deaths>>

Laggards(r) == {i \in Followers \cap alive : r[i] < Len(head)}

\* Up to three more passes over the nodes below the head.
Pass ==
  /\ phase = "follow" /\ todo = {}
  /\ pass < 3
  /\ pass' = pass + 1
  /\ \E r \in HeightsRead(Followers) : Laggards(r) # {} /\ todo' = Laggards(r)
  /\ UNCHANGED <<epoch, phase, conf, alive, chain, head, converged, oracleVars, sealers,
                 lost, deaths>>

\* Defect: a node one step behind has converged.
ReachedNearly(r) == {i \in Followers : r[i] + 1 >= Len(head)}

\* A node that is dead is at height 0.
Reached(r) == {i \in Followers : r[i] >= Len(head)}

SyncEnds ==
  /\ phase = "follow" /\ todo = {}
  /\ \E r \in HeightsRead(Followers) :
       /\ Laggards(r) = {} \/ pass = 3
       /\ converged' = Reached(r)
  /\ phase' = "observe"
  /\ pass' = 0
  /\ UNCHANGED <<epoch, conf, alive, chain, todo, head, oracleVars, sealers, lost, deaths>>

\* Defect: a failed read leaves the count.
BelowKept(read) ==
  [i \in Followers |->
     IF i \notin read THEN below[i]
     ELSE IF ~Low(chain[i]) THEN 0
     ELSE IF below[i] < Persistence THEN below[i] + 1 ELSE Persistence]

\* The counts after reading the gasLimit of some nodes; it is 0 for the others,
\* and starts their count anew.
BelowAfter(read) ==
  [i \in Followers |->
     IF i \notin read \/ ~Low(chain[i]) THEN 0
     ELSE IF below[i] < Persistence THEN below[i] + 1 ELSE Persistence]

StopAll == alive' = {}

\* observe, and stop_all at the end of the round.
ObserveGasLimits ==
  /\ phase = "observe"
  /\ \E read \in SUBSET (Followers \cap alive) :
       /\ below' = BelowAfter(read)
       /\ collapsed' = {i \in read : Low(chain[i]) /\ below'[i] >= Persistence}
  /\ healthy' = [i \in Followers |->
                   IF i \notin alive \/ ~Low(chain[i]) THEN epoch ELSE healthy[i]]
  /\ StopAll
  /\ phase' = "plan"
  /\ UNCHANGED <<epoch, conf, chain, todo, head, pass, converged, sealers, lost, deaths>>

\* A process ends, or is killed by a stop_all that waited 30 s for it, and may
\* lose what it had not written.
GethDies(n) ==
  /\ n \in alive
  /\ deaths < MaxDeaths
  /\ deaths' = deaths + 1
  /\ alive' = alive \ {n}
  /\ \/ UNCHANGED <<chain, lost>>
     \/ /\ chain[n] # <<>>
        /\ chain' = [chain EXCEPT ![n] = Front(@)]
        /\ lost' = TRUE
  /\ UNCHANGED <<epoch, phase, conf, todo, head, pass, converged, oracleVars, sealers>>

GethNext ==
  \/ BeginEpoch
  \/ Admission
  \/ \E n \in Mutable : EngineSeed(n)
  \/ DriveBlocks
  \/ RotateProducer
  \/ CycleNetwork
  \/ SyncBegins
  \/ \E i \in Followers : Follow(i)
  \/ Pass
  \/ SyncEnds
  \/ ObserveGasLimits
  \/ \E n \in Executors : GethDies(n)

GethSpec == GethInit /\ [][GethNext]_gethVars

-----------------------------------------------------------------------------
(* Properties *)

GethTypeOK ==
  /\ epoch \in 0 .. MaxEpochs
  /\ phase \in {"plan", "admit", "seeds", "drive", "rotate", "cycle", "sync", "follow",
                "observe"}
  /\ conf \in [Mutable -> {"plain", "lowering", "fatal"}]
  /\ alive \subseteq Executors
  /\ chain \in [Executors -> Seq(Block)]
  /\ \A n \in Executors : Len(chain[n]) <= MaxHeight
  /\ todo \subseteq Executors
  /\ head \in Seq(Block)
  /\ pass \in 0 .. 3
  /\ converged \subseteq Followers
  /\ below \in [Followers -> 0 .. Persistence]
  /\ collapsed \subseteq Followers
  /\ sealers \subseteq Mutable \cup {Successor}
  /\ lost \in BOOLEAN
  /\ healthy \in [Followers -> 0 .. MaxEpochs]
  /\ deaths \in 0 .. MaxDeaths

\* One node has sealed all blocks there are, and none was lost.
OneChain == Cardinality(sealers) <= 1 /\ ~lost

\* sync_all compares heights only.  While there is one chain that is enough: a
\* live node that counts as converged has the head, whatever failed.
ConvergedFollow ==
  phase = "observe" /\ OneChain =>
    \A i \in converged \cap alive : IsPrefix(head, chain[i])

GethInv == GethTypeOK /\ ConvergedFollow

\* geth_gaslimit_collapse is "normal-node gasLimit < 300k persisting"
\* (oracle.py:91): a reported node had a low head in all the last observed
\* rounds; and the report of a node that followed the only chain is about the
\* head of that chain, not about a head it was left at.
CollapseIsReal ==
  \A i \in collapsed :
    /\ healthy[i] + Persistence <= epoch
    /\ OneChain /\ i \in converged =>
         \A n \in sealers : head = chain[n] => Low(chain[n])

\* "Bring every non-excluded node to the current chain head" (geth_net.py:401):
\* the nodes that converged are at one head.
ConvergedAgree ==
  phase = "observe" =>
    \A i, j \in converged \cap alive : chain[i] = chain[j]
=============================================================================
