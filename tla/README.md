# TLA+ models of BCFuzzer

BCFuzzer searches blockchain networks for configuration bugs: it mutates the
configuration of a few controlled nodes of a 13-node network, judges whether a
node survives its mutation, runs transaction and message seeds and sequences,
and lets an oracle watch the normal nodes. This directory models the machinery
that decides: what is mutated, what a verdict is about, what is remembered and
saved, when a failure is reported, how the binaries and releases it runs are
built, and how the coverage experiments next to it run their rounds and count
what they did. The blockchains themselves are outside: they commit blocks, answer or do
not answer, die, and log.

Contents: [parts of the system](#parts-of-the-system) ·
[modules](#modules) · [runs](#runs) · [bounds](#bounds) ·
[fairness](#fairness) · [proofs](#proofs) ·
[what the checks found](#what-the-checks-found) · [not modelled](#not-modelled) ·
[plan](#plan)

## Parts of the system

| Part | State | Operations | What makes it correct |
|---|---|---|---|
| Mutation-Effective Index, `bcfuzzer/mei.py` | `valid`, `invalid`, `explored` per item | `record_admission`, `status`, `save`, `load` | the three tables agree; a classification only moves forward |
| Scheduler, `bcfuzzer/scheduler.py` | `round_id`, `pool`, `counts` | `next_round`, `admit_config`, `pick_seed`, `record_seed_execution`, `save`, `load` | rejected pairs are dropped; seeds share the executions; ids are not reused |
| Campaign, `bcfuzzer_campaign.py` | current plan, snapshot of the node files, network | `run_fuzz`, `run_round` and the steps it calls, `persist`, `_resume` | no accumulation of mutations; verdicts are about what the node runs; a campaign can end anywhere and go on |
| Oracle, `bcfuzzer/oracle.py` | baseline, last heights, stall counters, event counters, collapse counters, reports | `register_baseline`, `settle_after_restarts`, `observe`, `report`, `save`, `load` | no false report, no missed failure, under failing reads and restarts |
| Networks and adapters, `bcfuzzer/targets/*` | node files, processes, capability flags; on geth the chain of each node | start, stop, restart with flags, `apply_mutations`, `probe_admission`, `submit_seed`, `sync_all`, `rotate_producer` | a judged process runs the files of its verdict; a normal node sees the chain it is judged by |
| Mutator, `bcfuzzer/mutator.py` | backup files | `generate_value`, `mutate_one`, snapshot and rollback | the value written is the value recorded |
| Builds, `chainmaker_net.py`, `live_node_chainmaker.py` | source tree, lock files, binaries, stash | capability build, coverage build, 13-org release | clean and complete binaries under kills and failures |
| Coverage arms, `live_node_*.py`, `goc_utils.py` | timeline, profiles, node processes and their counters | `run_campaign_arm` or `run_arm`, `run_round`, `goc_profile`, `merge_into_cumulative`, `capture_coverage` | the coverage of an arm is what its nodes ran; nodes end with their round; an arm ends |
| Workloads of the arms, `live_node_*.py` | nonces, contracts, certificates, stopped nodes, sums of a round | `interact`, the waves and workloads it calls, `offline_cycle`, `send_txs` | the sums agree with what the chain accepted; what is stopped or frozen is put back |
| Sequences, `bcfuzzer/sequences.py` | none | `restart_cycle`, `drive_blocks`, `rotate_role`, ... | they restart nodes between settling and observation, and move the producer on geth |
| Calibration, regression, PoC runner | processes, timeouts, result files | `run_spec`, `run_bug`, ... | children end with their parent, verdicts follow the markers |

They interact by calls in one thread: the campaign plans a round with the
scheduler (which reads the index), edits and restarts nodes through an adapter,
feeds verdicts back to the index and pool, asks the scheduler for seeds, and
calls the oracle. The coverage arms are programs of their own, with one thread
and a loop of rounds each. What is concurrent is around them: the nodes, which
die and commit at any time; other BCFuzzer processes, which share the
chainmaker-go source tree, its lock files, and the machine; the clock, whose
deadline falls between any two steps; and the end of the process itself at any
point, followed by a resume from `state/`. The hard behaviours are therefore
stale state (a node that runs other files than the plan says, a profile of an
earlier run, a head nobody follows any more), partial failure (an exception in
mid-round), crash and resume, unreliable reads, and the feedback loop between
index and scheduler over many rounds. `PROJECT.json` lists the hazards at their
lines, with the property that covers each.

## Modules

| Module | Models | State and actions |
|---|---|---|
| `Mei` | `MeiState` | the three tables; `RecordAdmission` is the only write |
| `Scheduler` (extends `Mei`) | `TwoLevelScheduler` | `NextRound`, `AdmitConfig`, `RunSeed`, `SchedLoad`; the random generator is a choice from the values it can return |
| `SchedulerLoop` (extends `Scheduler`) | the loop of plan, admission and seeds | `PlanRound`, `Judge`, `Execute`; which seeds may run is fixed per behaviour |
| `Campaign` (extends `Scheduler`) | `Campaign.run_fuzz` on fisco, chainmaker and aptos | files, process and flags per node, whether the output path lets a node be stopped; `Apply`, `Judge`, `SetupFails`, `RunSeeds`, `RunSequences`, three saves, `End`, `Resume`, `NodeDies` |
| `StallPromise` | what `durable_stall` promises | windows since a chain last grew, nodes reported |
| `StallDetector` | the stall part of `observe` | heights, `_last`, `_stall`, `_ever_grew`; `Grow`, `RegisterBaseline`, `Observe`; implements `StallPromise` |
| `ControlledStall` | `_observe_controlled_aptos` | the same tables under keys of the controlled validators; compared with `StallPromise` |
| `StormDetector` | `settle_after_restarts` and the view-change part of `observe` | event counters, aftershocks of restarts, bad configurations |
| `GethRounds` | the rounds of a geth campaign and the gasLimit window of `observe` | chain of every node, who runs, `head_hash`, `converged`, `_collapse_rounds`; one action per call that drives, restarts, hands over or syncs, and `GethDies` |
| `OracleSignals` | the branches of `observe` by target | composes `StormDetector`, `ControlledStall`, `GethRounds` |
| `BinaryBuilds` | the capability and coverage builds | a process per build with its program counter, the lock, the tree, the compiler that reads it file by file; patch and restore may fail |
| `ReleaseBuild` | `build_13org_release` | tree and backup per directory, stash, one step per statement, each of which may raise, those of the finally clause included |
| `ChainmakerBuilds` | what `prepare` builds | composes `BinaryBuilds` and `ReleaseBuild` |
| `ArmLoop` | `run_campaign_arm`, state of an arm | deadline, round limit, the last covered lines, process and counters per node, profiles; `BeginRound`, `EndArm`, `NodeDies`, `DeadlinePasses` |
| `GocCenter` | `goc_utils.py` | `GocProfile`, `ClearedCounters`, `MergedOf`, `Merge` |
| `ChainmakerArm`, `GethArm` (extend `GocCenter`), `FiscoArm`, `AptosArm` (extend `ArmLoop`) | `run_round` of the four targets | starts, restarts, load, profiles, exceptions and clean-up, one action per part of the round |
| `CoverageArms` | an arm on any target | composes the four, next to another experiment |
| `FiscoWork`, `ChainmakerWork`, `GethWork` | the varied workload of a round | the position in the list of waves or calls, what the code adds to its sums and what the chain accepted |
| `Workloads` | a workload on any of the three | composes them |
| `Scheduler_proofs`, `SchedulerLoop_proofs`, `StallDetector_proofs`, `OracleSignals_proofs`, `ChainmakerBuilds_proofs`, `Campaign_proofs`, `CoverageArms_proofs`, `Workloads_proofs` | | theorems and proofs |
| `MCSchedulerLoop`, `MCStallDetector`, `MCCampaign` | | values of the constants |

Operators marked `Defect` (`NeverLost`, `CheckAny`, ...) are not part of the
models: each states a plausible mistake in the definition below it, and shows
that the property it belongs to notices (`PROJECT.json`, "mutants").

Abstractions that matter:

- A mutation is an item and a pair (rule, value); values are model values. A
  node's files are the items that differ from the snapshot taken at the start
  of the campaign, because the code restores that snapshot and then writes one
  mutation. Sanitizing touches the keys a plan does not mutate, and brings
  them to the same defaults each time; it is left out.
- `Draws[i]` holds, for each rule of an item, the set of pairs it can return.
  `_unexplored_candidates` draws one pair per rule, so it can come back empty
  exactly when every rule can draw a pair already tried.
- One FISCO node that is still running is left alone by its start script, and
  `start_node` waits in vain for a fresh log: the verdict is a rejection. A
  ChainMaker org that is still running answers. Aptos is stopped first.
- ChainMaker processes are found by comparing their resolved path with the
  output directory as it was given. With a relative one (`output`), or one
  through a symbolic link, a stop finds nothing (`CanStop`), and a second process
  does not replace the running one. Such a campaign is not resumed in the model.
- The process of a campaign ends in `End` at any step, by a crash, a signal or
  the deadline; the network is torn down, or left to be replaced: `ensure_ready`
  builds a new one in either case. A resume finds the saved state, or nothing
  when `--state` lies below the `--output` directory that `main` empties first.
- In `StallDetector` an observation is one round. A counter stops at
  `stall_windows`, because it is only compared with it.
- In `StormDetector` the settling sleeps until the aftershocks of the round's
  restarts are over. This is the assumption of the code (45 s against a
  measured 10 to 45 s).
- In `BinaryBuilds` a killed process loses its lock; its compiler dies with it
  or runs on, depending on who sends the signal. The files are patched in any
  order, and the patch may miss its anchor in any of them. In `ReleaseBuild` a
  directory is copied in one step, or half way by a copy or removal that raises
  or is killed, and the scripts of chainmaker-go are assumed to replace the old
  release directory.
- In `GethRounds` one block is the outcome of one `engine_drive`, however many
  blocks that seals. A node follows a head only when some peer has it, and may
  fail to; a head behind its own is ignored. A process that dies may lose its
  last block. Seeds that only send transactions leave the chains alone.
- In the arms a covered line is one of five kinds of code: startup with the
  stock and with another configuration, idling, working, catching up; a sixth
  stands for what another experiment ran, an earlier one that left files or, on
  fisco, one that uses the same build directory and writes to the same `.gcda`
  files. Every call of the goc client, every start and every process may fail.
  `mishaps` records what the properties except: a round without a profile of its
  own, strange nodes that wrote their counters or reset those of this arm, an
  org that takes longer to boot than `start_all` sleeps.
- In the workloads a wave adds its expected number of writes to the sums, one
  by one in `ChainmakerWork`, where the chain may refuse a call or execute it
  after the client gave up, and cmc may exit with 0 in either case; a wave of
  fisco accepts up to `Many` writes of one kind. The loops of `GethWork` keep their sizes.

## Runs

Passing (seconds with two workers):

| Run | Shows |
|---|---|
| `Sched` (60) | two nodes, three rounds of plan, verdicts and seeds: a rejected pair is not replayed (`LoopInv`), a pair is explored exactly when it was judged (`MeiInv`), classifications move forward (`StatusLadder`), runnable seeds are at most one execution apart with a blocked seed always first in the queue (`BalancedSeeds`), and every node has one to run (`EveryNodeIsServed`) |
| `Stall` (5) | `StallDetector` implements `StallPromise` when failed reads are -1 (`StallIsReal`), with the invariant that explains it (`StallInv`); a chain that stops is reported although reads fail in between (`StopIsReported`) |
| `Signals` (60) | fisco: no false storm in rounds without a restart cycle, abandoned rounds and failed probes included (`StormInv`); a strong burst is always reported (`BurstIsCaught`). aptos: mutated validators are counted rightly from the moment they have a reference (`ControlledInv`). geth: with one sealing node, who converged follows the head (`GethInv`), and a reported gasLimit was low round after round (`CollapseIsReal`) |
| `Campaign` (45) | three rounds, an end at any step and a resume, three targets, seeds that arm and disarm flags, exceptions in every step of the setup: at most one mutation in a node's files (`CampaignInv`), verdicts about what runs in a campaign that can stop its nodes (`VerdictsAreEvidence`), fresh ids (`PlannedIdsAreNew`), and whatever `persist` was cut off at, a saved pool id has its saved verdict (`SavedPoolIsJudged`) |
| `Builds` (65) | two builds of each kind, failures, missing anchors, two kills: everybody ends (`EveryBuildEnds`) and the lock is held by its owner only (`BuildInv`); a coverage binary is clean unless some capability build ended before its restore or some compiler outlived its build (`CoverageIsClean`); a capability binary carries the whole patch unless a compiler outlived its build (`CapabilityIsPatched`). Release builds: failing steps leave the tree as it was, also after several calls, and a kill or a failing restore leaves it whole in the backup until a later call drops that (`FourOrgRestored`); with at most one interrupted call a returned stash covers every org (`ReleaseInv`) |
| `Arms` (135) | arms of all four targets and three kinds, with and without limits, deadlines and files of an earlier run, next to another experiment: coverage is what the nodes of the arm ran, but for the named ways in which another experiment gets in (`CoverageIsExplained`), and not their boot (`BootIsNotCovered`); no snapshot is lost (`SnapshotsAreKept`); nodes end with their round, but for a start that raises before its try statement, a geth round that raises, and the swarm of aptos before its first round (`NodesEndWithTheRound`); covered lines never fall (`CoverageNeverFalls`); other experiments survive on two targets (`OthersAreLeftAlone`) |
| `ArmsEnd` (90) | arms of all four targets that have a limit, a deadline or a test for convergence come to their end, whatever fails (`ArmsEnd`) |
| `Work` (100) | the varied workload of one round, a deadline anywhere, failing, silently executed and falsely accepted calls: what is submitted is accepted (`SubmittedIsAccepted`), what is accepted was attempted (`AcceptedIsAttempted`); node 0 is started again (`StoppedIsStarted`) and nothing stays frozen (`NothingStaysFrozen`); nonces follow one another (`SimpleIsContiguous`) and do not clash (`NoncesDoNotClash`); a workload ends (`WorkEnds`) |

The runs that find a violation are listed [below](#what-the-checks-found).

The conditions in the properties are exact: each was found as a counterexample
to the property without it. A capability build killed before its restore leaves
the tree patched for the next coverage build; an orphaned compiler links a tree
that another build is patching; a release call that is killed after the build, or whose own restore raises,
makes the next one drop the good backup and back up what is left; and the tarballs of two interrupted
calls add up to thirteen without covering every org. A geth node that lost a
block and sealed another is as high as the head without having it. A fisco
round whose `lcov` fails reads the file of an earlier run, and the nodes of
another experiment that it ends after `reset_gcda` write their counters into
its files. A deadline between
`native_filter_wave` and the next wave loses its transactions from the sum.

## Bounds

| Bound | Value | Why it is enough |
|---|---|---|
| `MaxRounds` in `SchedulerLoop` | 3 | exploration on one node next to fuzzing on the other, then two rounds that can replay what was judged; three pairs of two items and a threshold of 2 give both sides of the threshold |
| `MaxRounds`, `MaxEnds` in `Campaign` | 3 and 1 | a round on what another left, one abandoned or cut off in between, and round 3 with the restart cycle; a resume before, between and after. The theorems cover the rounds that follow |
| `MaxHeight` in `StallDetector`, `MaxLedger` in `ControlledStall` | 2; 2 or 5 | a chain that never grows, one that grows once and again; 5 to grow in every window |
| `MaxEvents`, `Threshold`, `MaxRounds` in `StormDetector` | 4, 2, 4 | noise below, at and above the threshold, before and after the settling; round 4 observes what the restart cycle of round 3 left |
| `MaxEpochs`, `MaxHeight`, `MaxDeaths`, `Followers` in `GethRounds` | 3, 2, 1, one node (3, 3, 0, two nodes in `GethHeads`) | round 2 hands the producer over (`HandoverEvery` is 2, 5 in the code), round 3 has the restart cycle; a persistence of 2 fires in the second round and is undone in the third; the theorems cover more nodes, blocks and deaths |
| `MaxKills` in `BinaryBuilds` | 2 | one kill that leaves the tree patched and one that meets it |
| `MaxCuts`, `MaxErrors`, `MaxRuns` in `ReleaseBuild` | 1, 2, 3 | a defective call, one that builds on it, one that returns what is there |
| `MaxLimit`, `Converge`, `Nodes` in `ArmLoop` | 2, 2, two nodes (`MaxLimit` 1 in `ArmsEnd`) | a round after a round, a window that converges and one that does not; the configured node and one that is not |
| `Leftovers`, `SameBuild` in `ArmLoop` | both and TRUE (`Leftovers` only FALSE in `ArmsEnd`) | files of an earlier run or none; fisco next to an experiment with the same build directory, which contains the case without one. What leftover files can do to convergence is excepted by `ArmsEnd` |
| `Many` in `FiscoWork` | 2 | a wave may have none, some or all of its writes accepted |

`Campaign` runs one controlled node: the nodes share no files, and the index
they share is the subject of `Sched`. `MaxScan` is 2 in `Sched`, for three seeds
of which one can be blocked; the code has 8 for fewer than eight seeds that can
be. The stall detector is run with rounds of full length only
(`ShortRounds = FALSE`); the theorems cover short rounds too.

## Fairness

- `StallDetector!FairSpec` (`Stall`): the round loop goes on, and for every node there is
  again and again an observation that is long enough and reads its height. The
  loop is a `while True` that a failed round does not leave; a height rpc that
  never answers again is a different failure, and no detector could tell.
- `ChainmakerBuilds!Spec` (`Builds`): each process that is not killed takes its
  next step. This is weak fairness of a process under an operating system;
  `flock` needs no more because every process passes the lock once. The build
  has a timeout, so the compiler ends.
- `CoverageArms!FairSpec` (`ArmsEnd`): the arm takes its next step, because every
  helper it calls has a timeout, and the deadline passes. Nothing is assumed
  about nodes, and the sustained load of fisco is not progress: it may go on.
- `Workloads!Spec` (`Work`): the same for the calls of a workload and the clock.

The other runs check safety and assume none.

## Proofs

Eight modules hold 36 theorems about every value of the constants; they state
every safety property that a passing run checks, and the inductive invariants
were checked by TLC before they were proved. The assumptions are the named
`ASSUME`s of the modules, which the runs evaluate.

`SchedulerLoop_proofs` (`Scheduler_proofs` holds its lemmas about one verdict
and one plan), for every set of items, pairs, nodes and seeds, every threshold
and every number of rounds:

- `IndexIsJudged`: `LoopSpec => []MeiInv`. A verdict enters its pair in
  `explored` and in one of the two tables that `ExploredIsJudged` joins. It
  depends on the types of the plan: what is judged is a pair of an item.
- `RejectedPairsStayDropped`: `LoopSpec => []LoopInv`. That a pair without
  admission has at most one rejection per node is not inductive: in the middle
  of a round nothing says that the rejections counted so far are of this round.
  `PlannedPairsAreFresh` does: a planned pair without admission has at most as
  many rejections as nodes judged on it in this round. It holds at the plan
  because an offered pair is admitted or untried (`OfferedIsFresh`), and untried
  pairs have no rejection by `MeiInv`; so both invariants are proved together.
- `ClassificationIsForward`: `LoopSpec => StatusLadder`. Admissions are never
  withdrawn and counts never fall, so the set of rejected keys grows; its
  cardinality grows with it because the set of pairs is finite.
- `ExecutionsAreShared`: `LoopSpec => []BalancedSeeds`. The scheduler never reads
  what was submitted, it reads its counts, which grow by two for one execution:
  with `CountsAreExecutions` a seed that is picked has no more executions than
  one that is never blocked, because that one is not before it.
- `NoNodeStarves`: `LoopSpec => []EveryNodeIsServed`. The sets of seeds that come
  before one of the runnable seeds have a smallest one (strict inclusion of
  finite sets is well-founded); its seeds are all blocked, and those are fewer
  than `MaxScan` (an assumption: at most seven seeds of a corpus can be blocked).

`StallDetector_proofs`, for every set of nodes, number of windows and height:

- `StallCountersAreCovered`: `Spec => []StallInv`. The counter alone is not
  inductive. What is: either the chain is higher than the reference, so that
  the next good read will reset the counter, or every counted window is covered
  by one in which the chain stood still (`CounterIsCovered`), where the
  reference never passes the chain (`ReferenceIsPast`) and no counter runs before
  the baseline (`IdleUntilBaseline`).
- `OnlyStandingChainsAreReported`: `0 \notin FailedReads => (Spec => StallIsReal)`.
  Initial states map to initial states, and each step to a step of
  `StallPromise` or a stutter. The premise is necessary: the clients of FISCO and geth
  read 0 when the rpc fails, and while the reference is 0 such a read counts as a
  window without a block, also on a chain that goes on.

`OracleSignals_proofs`:

- `CountsCoverStandstill`: `ControlledSpec => []ControlledInv`; the same
  argument as for the normal nodes, once a reference exists.
- `QuietReportsAreReal` (`[]StormInv`) and `BurstsAreCaught`: what a node has
  logged since the counters were settled is what bad configurations caused, as
  long as no restart cycle came in between (`SettledCount`), and the settled
  counters are never ahead of the logs.
- `ConvergedNodesFollow` (`[]GethInv`) and `CollapsesAreReal`: while one node seals
  and nothing is lost, every chain is a prefix of the sealer's (`ChainsFollow`), so
  a node that is as high as the head has it (`ConvergedReach`); a count of the
  window is covered by observed rounds in which the head was low
  (`CountsArePast`).
- `SignalsAreSound`: the oracle on any target satisfies all five. A step of the
  composition is a step of one of the three and a stutter of the others, so it
  implements each of them (`SignalsAreComposed`).

`ChainmakerBuilds_proofs`:

- `LockIsExclusive` (`[]BuildInv`) comes first, because the tree belongs to who
  holds the lock. `CapabilityBinaryIsWhole` rests on `ReadsPatched` (a capability
  build compiles a wholly patched tree, and every file its compiler has read is
  patched); `CoverageBinaryIsClean` on `PatchedByHolder` (unless a build was cut
  off, only a capability build that holds the lock sees a patched tree) and
  `ReadsClean` (so a coverage build has read nothing patched).
- `FourOrgIsRestored` follows where the 4-org state is (`DirsAreSafe`): in the
  directories, or in a complete backup while the build and the restore change
  them; whole in the backup from a kill or a failing restore on; nowhere any
  more once a later call has dropped that backup.
  `ReturnedIsComplete` follows the tarballs: with at most one call
  cut short, those in the stash are of one call, or complete (`StashOfOneCall`),
  and as many tarballs of one call as there are orgs are one of each
  (`FullStash`, a fact about cardinalities).
- `PreparedArtifactsAreSound`: all five hold of the builds next to each other.

`Campaign_proofs`, over any number of nodes, items, rounds, ends and deaths, has
one invariant of four parts. `MutationsDoNotAccumulate` needs only that a node's
files are the snapshot with at most one mutation (`FilesAreSingle`).
`VerdictsHaveEvidence` needs that a node whose mutation is written and not probed
yet is down, with that mutation in its files (`AwaitingIsDown`), so that what the
probe starts has read it; this is of campaigns that can stop their nodes: the others
break it with their first mutation. `IdsAreNew` needs that ids in the pool, in memory and
on disk, are of rounds at or before the round number next to them (`IdsArePast`).
`SavedIsJudged` needs that the saved index is behind the one in memory and equal
to it when the pool is written (`PoolIsJudged`).

`CoverageArms_proofs`, for every set of nodes, window and limit of rounds, and
all four targets, has one invariant of nine parts (`CoverageIInv`):

- `ReportedCoverageIsExplained` (`[]CoverageIsExplained`): a process counts only
  what was seen, no process of the arm knows units of another experiment
  (`CountersAreSeen`); a profile that was written in this round, with `ok` set, is
  free of them even where its file held them before, and the files hold them
  only after what `OldIsExplained` lists (`FilesAreExplained`, and for the profile
  of a finished round `RoundIsExplained`). That list only grows (`MishapsStay`).
- `WrittenSnapshotsAreKept` (`[]SnapshotsAreKept`): between a snapshot and the end
  of its round it is in the first profile, then in the profile of the round, then
  in the cumulative one; `SnapshotsOnTheWay` says at which step it is where.
- `StockBootIsNotCovered` (`[]BootIsNotCovered`): the counters of an arm that only
  changes the configuration hold, from their clearing to the profile, its start
  with the changed configuration and idling, and nothing else, unless an org was
  slow to boot (`BootIsCleared`).
- `RoundsLeaveNoNodes` (`[]NodesEndWithTheRound`): `NodesAreDown` names the steps at
  which every node is down, those before the first start among them.
- `TimelineNeverFalls` (`CoverageNeverFalls`): not inductive as a property of the
  timeline. The last entry is at most the coverage there is (`LastIsCovered`),
  and merging adds to it. The rounds of fisco share their counter files, and a
  round has no file of its own before the capture, so that what is measured is
  the counter files.
- `OtherExperimentsGoOn` (`OthersAreLeftAlone`) and `ArmTypeCorrect` (`[]TypeOK`).

`Workloads_proofs`: the lists of waves and calls are those of the code; what is
arbitrary is how many writes a wave of fisco has accepted (`Many`), and every
failure.

- `AcceptedWritesAreSubmitted` and `StoppedNodeIsStarted`: at every place of the
  fisco workload the accepted writes that are not in the sum are those of
  `native_filter_wave`, which wait only right after it and are lost only when the
  round ends there; node 0 is stopped only inside a cycle (`FiscoInv`).
- `FrozenIsUnfrozen` (`[]NothingStaysFrozen`): whatever the position in the list,
  a contract that is frozen was frozen by one of the last two calls, the
  certificate by one of the last three, and the call that undoes it is still to
  come (`FrozenIsUndone`, `LockedOutIsUndone`), unless a call of its kind was refused.
  That the list undoes what it freezes (`Undone`) is shown per workload and
  carried over to their concatenation, without counting positions.
- `AcceptedCallsAreAttempted`: the difference of the sums never becomes negative,
  because each call is counted with its attempt (`ChainInv`). That accepted calls
  were executed is no property: the code looks at an exit status only, which
  `CmcResults` leaves open.
- `SimpleNoncesFollow` and `OffsetsKeepNoncesApart` (`GethInv`): as long as
  everything is sent, the pool is an interval up to the number of simple
  transactions, or, after the call of 128, that interval with the gap that
  `CallIsSent` computes; the other transactions lie above those before them, and
  below the far side of the gap.

Only model-checked: the liveness properties (`StopIsReported`, `EveryBuildEnds`,
`ArmsEnd`, `WorkEnds`), which are out of the prover's reach, and the runs that find
a violation, for which the counterexample is the proof.

## What the checks found

Runs with `expect: violation`; each is a disagreement between a text of the
repository and what the code does. `PROJECT.json` quotes the lines.

| Run | What happens |
|---|---|
| `ControlledFalse` | a healthy mutated validator is reported as stalled after three windows |
| `StormBenign` | the restart cycle of every third round is reported as a storm |
| `FiscoRounds` | a varied fisco arm with a round limit never ends its first round |
| `GethHeads` | after a handover two nodes on different chains both count as converged |

Other behaviour of this kind that the models contain, and the properties name as
conditions or the hazards of `PROJECT.json` describe at their lines:

- An execution of a seed is counted twice (`scheduler.py:209` and
  `bcfuzzer_campaign.py:310`); the counts stay balanced.
- The base configuration a plan names is not applied to the nodes that are
  edited in place (`bcfuzzer_campaign.py:229-230`, `scheduler.py:10-11`).
- Breadth picks an exhausted item while another has untried pairs; rejections of
  one pair count once, however many nodes reject it.
- A failed baseline read makes the first good read look like growth; a node
  without a mutation keeps the last one; capability flags outlive their round.
- `--state` below `--output` is deleted before it is read. A state that was saved
  with a baseline cannot be read: `_json_default` writes a `Baseline` as text
  (`common.py:120`), which `BcbOracle.load` (`oracle.py:525`) cannot unpack. `Resume`
  has this as a guard.
- With a relative `--output`, or one through a symbolic link, no ChainMaker
  process is found to be stopped (`live_node_chainmaker.py:342`,
  `bcfuzzer_campaign.py:504`), and a mutated node is admitted for the answer of the
  process that still runs the old configuration: `CanStop` is the premise of
  `VerdictsAreEvidence`.
- `cmc` of the workloads goes by the exit status (`live_node_chainmaker.py:451`),
  although `chainmaker_net.py:211-213` says that it is 0 also when the rpc fails, so
  a call that was not executed may count as accepted.
- `send_txs` of geth reads the nonce again at the hundredth transaction and goes
  on adding the call index to it (`live_node_geth.py:345` and `:358`), so the
  batch of 128 leaves a gap in the nonces.
- A geth round, `start_all` of chainmaker, `start_chain` of fisco and an attempt
  of `launch_swarm` leave nodes behind when they raise; the clean-up of fisco and
  geth also ends the nodes of other experiments, on fisco after `reset_gcda`
  (`live_node_fisco.py:1606`), so that those of the same build write into its files.
- A 13-org build whose restore raises leaves the 4-org state in the backup only
  (`chainmaker_net.py:201`), and the next call drops it.

## Not modelled

- Encodings, log parsing and the texts of configurations: the snapshot, the
  rollback and the one mutation of `ConfigEditor` are the restore and the write
  of `Campaign`; how a value is spelled in TOML, INI or YAML is text processing
  that no property here depends on. The sorting of pairs of mixed types in
  `MeiState.save` is not modelled either.
- The signals of the oracle that compare one read with a constant (panics,
  `block_limit`, classification of seed results), and the table of reports.
- The case tables of `targets.py`, the catalog and the corpora are data; they
  enter as constants and as arbitrary verdicts and reads.
- `calibration.py` and `regression.py` are straight scripts, one per known bug,
  over the networks and the oracle modelled here; `full_bcfuzzer.py` runs one
  script under a timeout and looks for markers in its output. They keep no state
  between the steps that another actor could disturb.
- Building networks, genesis files, keys and ports; the aptos workload, which is
  one step of `AptosArm`; starting the goc server and building the goc binary.
- `config_mutators.py` keeps nothing between calls. PoC scripts, seeded Go tests
  and `llvm_profile_flush.c` run outside.

## Plan

Done: the feedback loop of index and scheduler, the campaign around it, the
detectors with a memory, the rounds of geth, the builds that share a tree, the
release build, the coverage arms and their workloads; proofs of every safety
property that the passing runs check.

What would add most next:

1. `CalibrationRun`: the scripts of `calibration.py`, with their restarts and the
   windows they wait for, over the oracle of `StallDetector` and `GethRounds`.
2. `BugRunner`: `run_bug` with its timeout, process group and markers.
3. `Reports`: deduplication and the tables across a resume, with the abstract
   specification of at most one report per signal and node.
4. Proofs: the index and the rejections (`MeiInv`, `LoopInv`) across the ends and
   resumes of `Campaign`, and the promise of `Reports`.
