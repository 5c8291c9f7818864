----------------------- MODULE ChainmakerBuilds_proofs ----------------------
(***************************************************************************)
(* For any numbers of capability and coverage builds, patched files and    *)
(* kills: the lock keeps the builds apart, a capability binary carries the *)
(* whole patch, and a coverage binary nothing of it, unless a build was    *)
(* cut off before its restore or a compiler outlived its build.            *)
(*                                                                         *)
(* For any directories, orgs and numbers of calls, kills and errors: a     *)
(* release call leaves the 4-org state in its place or, when it is killed  *)
(* or its finally clause raises, in the backup until a later call drops    *)
(* it; and one that returns leaves a tarball of every org, as long as at   *)
(* most one step failed or one call was killed.                            *)
(***************************************************************************)
EXTENDS ChainmakerBuilds, FiniteSetTheorems, TLAPS

-----------------------------------------------------------------------------
(* Capability and coverage builds *)

\* Orphans appear only with the history of one.
NoOrphanUnseen == ~orphaned => \A p \in Builders : pc[p] # "orphan"

\* Only capability builds patch and restore.
PatcherIsCapability ==
  \A p \in Builders : pc[p] \in {"patch", "restore"} => p \in Capability

\* A capability build compiles the tree with the whole patch, and what it has
\* read is patched.
ReadsPatched ==
  \A p \in Capability :
    /\ pc[p] = "build" => tree = PatchedFiles /\ read[p].patched = read[p].all
    /\ pc[p] \in {"start", "check", "patch"} => read[p] = NothingRead

\* Unless a build was cut off, the tree is patched only while a capability
\* build holds the lock.
PatchedByHolder ==
  ~cutOff /\ tree # {} =>
    \E p \in Capability : lock = p /\ pc[p] \in {"patch", "build", "restore"}

\* Unless a build was cut off, a coverage build has read nothing patched.
ReadsClean ==
  ~cutOff =>
    \A p \in Coverage :
      pc[p] \in {"start", "check", "build"} => read[p].patched = {}

BuildIInv ==
  /\ BuildTypeOK
  /\ LockIsHeld
  /\ NoOrphanUnseen
  /\ PatcherIsCapability
  /\ ReadsPatched
  /\ PatchedByHolder
  /\ ReadsClean
  /\ CapabilityIsPatched
  /\ CoverageIsClean

LEMMA BuildInitial == BuildInit => BuildIInv
<1> SUFFICES ASSUME BuildInit PROVE BuildIInv
  OBVIOUS
<1> USE BuildAssumption DEF BuildInit
<1>1. BuildTypeOK
  BY DEF BuildTypeOK, Steps, NothingRead
<1>2. LockIsHeld
  BY DEF LockIsHeld, Holding, Builders
<1>3. NoOrphanUnseen /\ PatcherIsCapability /\ ReadsPatched
  BY DEF NoOrphanUnseen, PatcherIsCapability, ReadsPatched, Builders
<1>4. PatchedByHolder /\ ReadsClean
  BY DEF PatchedByHolder, ReadsClean, NothingRead, Builders
<1>5. CapabilityIsPatched /\ CoverageIsClean
  BY DEF CapabilityIsPatched, CoverageIsClean
<1> QED BY <1>1, <1>2, <1>3, <1>4, <1>5 DEF BuildIInv

\* Every step keeps the types.
LEMMA BuildTypeStep ==
  ASSUME BuildTypeOK, NEW p \in Builders, Step(p) \/ Kill(p)
  PROVE  BuildTypeOK'
<1> USE BuildAssumption DEF BuildTypeOK, Goto, Forget, NothingRead, history, Steps, KindOf
<1>1. CASE Take(p)
  BY <1>1 DEF Take
<1>2. CASE Check(p)
  BY <1>2 DEF Check
<1>3. CASE Patch(p)
  BY <1>3 DEF Patch
<1>4. CASE PatchFails(p)
  BY <1>4 DEF PatchFails
<1>5. CASE Compile(p)
  BY <1>5 DEF Compile
<1>6. CASE Link(p)
  BY <1>6 DEF Link
<1>7. CASE LinkOrphan(p)
  BY <1>7 DEF LinkOrphan
<1>8. CASE BuildFails(p)
  BY <1>8 DEF BuildFails
<1>9. CASE Restore(p)
  BY <1>9 DEF Restore
<1>11. CASE CheckoutFails(p)
  BY <1>11 DEF CheckoutFails
<1>10. CASE Kill(p)
  <2>1. \E step \in {"killed", "orphan"} : pc' = [pc EXCEPT ![p] = step]
    BY <1>10 DEF Kill
  <2>2. pc' \in [Builders -> Steps]
    BY <2>1
  <2>3. kills' \in Nat /\ lock' = None
    BY <1>10 DEF Kill
  <2>4. orphaned' \in BOOLEAN
    <3>1. orphaned \in BOOLEAN
      OBVIOUS
    <3>2. orphaned' = orphaned \/ orphaned' = TRUE
      BY <1>10 DEF Kill
    <3> QED BY <3>1, <3>2, Zenon
  <2>5. UNCHANGED <<anchored, tree, binary>>
    BY <1>10 DEF Kill
  <2>7. imports' \subseteq PatchedFiles
    BY <1>10 DEF Kill
  <2>8. read' \in [Builders -> [all : SUBSET PatchedFiles, patched : SUBSET PatchedFiles]]
    BY <1>10 DEF Kill
  <2>6. cutOff' \in BOOLEAN
    BY <1>10 DEF Kill
  <2> QED BY <2>2, <2>3, <2>4, <2>5, <2>6, <2>7, <2>8
<1> QED
  BY <1>1, <1>2, <1>3, <1>4, <1>5, <1>6, <1>7, <1>8, <1>9, <1>10, <1>11 DEF Step

\* The lock goes to one process at a time, and goes with it.
LEMMA LockStep ==
  ASSUME BuildTypeOK, LockIsHeld, NEW p \in Builders, Step(p) \/ Kill(p)
  PROVE  LockIsHeld'
<1> USE BuildAssumption DEF BuildTypeOK, LockIsHeld, Holding, Goto, Forget, history, KindOf, Builders
<1>1. CASE Take(p)
  BY <1>1 DEF Take
<1>2. CASE Check(p)
  BY <1>2 DEF Check
<1>3. CASE Patch(p)
  BY <1>3 DEF Patch
<1>4. CASE PatchFails(p)
  BY <1>4 DEF PatchFails
<1>5. CASE Compile(p)
  BY <1>5 DEF Compile
<1>6. CASE Link(p)
  BY <1>6 DEF Link
<1>7. CASE LinkOrphan(p)
  BY <1>7 DEF LinkOrphan
<1>8. CASE BuildFails(p)
  BY <1>8 DEF BuildFails
<1>9. CASE Restore(p)
  BY <1>9 DEF Restore
<1>10. CASE Kill(p)
  BY <1>10 DEF Kill
<1>11. CASE CheckoutFails(p)
  BY <1>11 DEF CheckoutFails
<1> QED
  BY <1>1, <1>2, <1>3, <1>4, <1>5, <1>6, <1>7, <1>8, <1>9, <1>10, <1>11 DEF Step

\* The rest follows for the step of a process that is the only one to hold
\* the lock, or holds none.
LEMMA RestStep ==
  ASSUME BuildIInv, NEW p \in Builders, Step(p) \/ Kill(p)
  PROVE  (NoOrphanUnseen /\ PatcherIsCapability /\ ReadsPatched /\ PatchedByHolder /\ ReadsClean
            /\ CapabilityIsPatched /\ CoverageIsClean)'
<1> USE BuildAssumption
    DEF BuildIInv, BuildTypeOK, LockIsHeld, NoOrphanUnseen, PatcherIsCapability,
        ReadsPatched, PatchedByHolder, ReadsClean, CapabilityIsPatched, CoverageIsClean, Holding,
        Goto, Forget, history, KindOf, Builders
<1>1. CASE Take(p)
  BY <1>1 DEF Take
<1>2. CASE Check(p)
  BY <1>2 DEF Check
<1>3. CASE Patch(p)
  <2>1. NoOrphanUnseen' /\ PatcherIsCapability'
    BY <1>3 DEF Patch
  <2>2. ReadsPatched'
    <3>1. p \in Capability /\ read' = read /\ lock = p
      BY <1>3 DEF Patch
    <3>2. read[p] = NothingRead
      BY <1>3, <3>1 DEF Patch
    <3>3. \A q \in Builders : q # p => pc'[q] = pc[q] /\ pc[q] # "build"
      BY <1>3, <3>1 DEF Patch
    <3>4. pc'[p] \in {"patch", "build"} /\ (pc'[p] = "build" => tree' = PatchedFiles)
      BY <1>3 DEF Patch
    <3> QED BY <3>1, <3>2, <3>3, <3>4 DEF NothingRead
  <2>3. PatchedByHolder'
    BY <1>3 DEF Patch
  <2>4. ReadsClean'
    BY <1>3 DEF Patch
  <2>5. CapabilityIsPatched'
    BY <1>3 DEF Patch
  <2>6. CoverageIsClean'
    BY <1>3 DEF Patch
  <2> QED BY <2>1, <2>2, <2>3, <2>4, <2>5, <2>6
<1>4. CASE PatchFails(p)
  BY <1>4 DEF PatchFails
<1>5. CASE Compile(p)
  <2>1. NoOrphanUnseen' /\ PatcherIsCapability'
    BY <1>5 DEF Compile
  <2>2. ReadsPatched'
    <3>1. PICK f \in PatchedFiles \ read[p].all :
            read' = [read EXCEPT ![p] = [all |-> read[p].all \cup {f},
                                         patched |-> read[p].patched \cup ({f} \cap tree)]]
      BY <1>5 DEF Compile
    <3>2. read'[p].all = read[p].all \cup {f}
          /\ read'[p].patched = read[p].patched \cup ({f} \cap tree)
      BY <3>1
    <3>3. \A q \in Builders : q # p => read'[q] = read[q]
      BY <3>1
    <3>4. pc' = pc /\ tree' = tree /\ pc[p] \in {"build", "orphan"}
      BY <1>5 DEF Compile
    <3>5. ASSUME NEW q \in Capability, pc[q] = "build"
          PROVE  tree = PatchedFiles /\ read'[q].patched = read'[q].all
      <4>1. tree = PatchedFiles /\ read[q].patched = read[q].all
        BY <3>5
      <4>2. {f} \cap tree = {f}
        BY <3>1, <4>1
      <4> QED BY <3>2, <3>3, <4>1, <4>2
    <3>6. ASSUME NEW q \in Capability, pc[q] \in {"start", "check", "patch"}
          PROVE  read'[q] = NothingRead
      BY <3>3, <3>4, <3>6
    <3> QED BY <3>4, <3>5, <3>6
  <2>3. PatchedByHolder'
    BY <1>5 DEF Compile
  <2>4. ReadsClean'
    BY <1>5 DEF Compile
  <2>5. CapabilityIsPatched'
    BY <1>5 DEF Compile
  <2>6. CoverageIsClean'
    BY <1>5 DEF Compile
  <2> QED BY <2>1, <2>2, <2>3, <2>4, <2>5, <2>6
<1>6. CASE Link(p)
  BY <1>6 DEF Link
<1>7. CASE LinkOrphan(p)
  BY <1>7 DEF LinkOrphan
<1>8. CASE BuildFails(p)
  BY <1>8 DEF BuildFails
<1>9. CASE Restore(p)
  BY <1>9 DEF Restore
<1>10. CASE Kill(p)
  <2>1. NoOrphanUnseen' /\ PatcherIsCapability'
    BY <1>10 DEF Kill
  <2>2. ReadsPatched'
    BY <1>10 DEF Kill
  <2>3. PatchedByHolder'
    BY <1>10 DEF Kill
  <2>4. ReadsClean'
    BY <1>10 DEF Kill
  <2>5. CapabilityIsPatched'
    BY <1>10 DEF Kill
  <2>6. CoverageIsClean'
    BY <1>10 DEF Kill
  <2> QED BY <2>1, <2>2, <2>3, <2>4, <2>5, <2>6
<1>11. CASE CheckoutFails(p)
  BY <1>11 DEF CheckoutFails
<1> QED
  BY <1>1, <1>2, <1>3, <1>4, <1>5, <1>6, <1>7, <1>8, <1>9, <1>10, <1>11 DEF Step

\* Every step keeps the invariant.
LEMMA BuildStep == BuildIInv /\ [BuildNext]_buildVars => BuildIInv'
<1> SUFFICES ASSUME BuildIInv, [BuildNext]_buildVars PROVE BuildIInv'
  OBVIOUS
<1>1. ASSUME NEW p \in Builders, Step(p) \/ Kill(p)
      PROVE  BuildIInv'
  BY <1>1, BuildTypeStep, LockStep, RestStep DEF BuildIInv
<1>2. CASE UNCHANGED buildVars
  BY <1>2
  DEF buildVars, history, BuildIInv, BuildTypeOK, LockIsHeld, NoOrphanUnseen,
      PatcherIsCapability, ReadsPatched, PatchedByHolder, ReadsClean,
      CapabilityIsPatched, CoverageIsClean, Holding
<1> QED BY <1>1, <1>2 DEF BuildNext

LEMMA BuildsAreInvariant == BuildSpec => []BuildIInv
BY BuildInitial, BuildStep, PTL DEF BuildSpec

\* Two builds never hold the lock at once (chainmaker_net.py:153-168), however
\* many processes build and are killed.
THEOREM LockIsExclusive == BuildSpec => []BuildInv
<1>1. BuildIInv => BuildInv
  BY DEF BuildIInv, BuildInv
<1> QED BY <1>1, BuildsAreInvariant, PTL

\* The capability binary carries the whole patch or is missing
\* (ensure_capability_binary), for any files, processes and kills.
THEOREM CapabilityBinaryIsWhole == BuildSpec => []CapabilityIsPatched
<1>1. BuildIInv => CapabilityIsPatched
  BY DEF BuildIInv
<1> QED BY <1>1, BuildsAreInvariant, PTL

\* No coverage binary is built from a patched tree (chainmaker_net.py:50-52),
\* unless a build ended before its restore or a compiler outlived it.
THEOREM CoverageBinaryIsClean == BuildSpec => []CoverageIsClean
<1>1. BuildIInv => CoverageIsClean
  BY DEF BuildIInv
<1> QED BY <1>1, BuildsAreInvariant, PTL

-----------------------------------------------------------------------------
(* Release builds: the directories *)

\* The directories are touched only between backup and restore, and the backup
\* is complete by then.  Between the calls after one that left them in the
\* backup nothing touches it.
DirsAreSafe ==
  /\ whole = "dirs" =>
       /\ at \notin {"build", "move", "restore"} => \A d \in Dirs : dirs[d] = "four"
       /\ at = "backup" => \A d \in Dirs \ todo : backup[d] = "four"
       /\ at \in {"build", "move", "restore"} => \A d \in Dirs : backup[d] = "four"
       /\ at = "restore" => \A d \in Dirs \ todo : dirs[d] = "four"
  /\ whole = "backup" =>
       /\ at \in {"idle", "check", "drop", "returned", "raised"}
       /\ \A d \in Dirs : backup[d] = "four"

\* Calls are numbered from 1.
CalledOnce == at # "idle" => run >= 1

LEMMA ReleaseInitial == ReleaseInit => ReleaseTypeOK /\ CalledOnce /\ DirsAreSafe
<1> SUFFICES ASSUME ReleaseInit PROVE ReleaseTypeOK /\ CalledOnce /\ DirsAreSafe
  OBVIOUS
<1> USE ReleaseAssumption DEF ReleaseInit
<1>1. failing \in BOOLEAN
  BY Zenon
<1>2. ReleaseTypeOK
  BY <1>1 DEF ReleaseTypeOK
<1>3. CalledOnce /\ DirsAreSafe
  BY DEF CalledOnce, DirsAreSafe
<1> QED
  BY <1>2, <1>3

\* Every step keeps the types.
LEMMA ReleaseTypeStep ==
  ReleaseTypeOK /\ CalledOnce /\ [ReleaseNext]_releaseVars
    => ReleaseTypeOK' /\ CalledOnce'
<1> SUFFICES ASSUME ReleaseTypeOK, CalledOnce, [ReleaseNext]_releaseVars
             PROVE  ReleaseTypeOK' /\ CalledOnce'
  OBVIOUS
<1> USE ReleaseAssumption DEF ReleaseTypeOK, CalledOnce
<1>1. CASE Call
  <2>1. failing' \in BOOLEAN
    BY <1>1, Zenon DEF Call
  <2> QED
    BY <1>1, <2>1 DEF Call
<1>2. CASE CheckStash
  BY <1>2 DEF CheckStash
<1>3. CASE DropBackup
  BY <1>3 DEF DropBackup
<1>4. ASSUME NEW d \in Dirs, Backup(d) PROVE ReleaseTypeOK' /\ CalledOnce'
  BY <1>4 DEF Backup
<1>5. ASSUME NEW d \in Dirs, BackupFails(d) PROVE ReleaseTypeOK' /\ CalledOnce'
  BY <1>5 DEF BackupFails
<1>6. ASSUME NEW d \in Dirs, RestoreDir(d) PROVE ReleaseTypeOK' /\ CalledOnce'
  BY <1>6 DEF RestoreDir
<1>7. ASSUME NEW ok \in BOOLEAN, Build(ok) PROVE ReleaseTypeOK' /\ CalledOnce'
  <2>1. failing' \in BOOLEAN
    BY <1>7, Zenon DEF Build
  <2>2. CASE ok
    BY <1>7, <2>1, <2>2 DEF Build
  <2>3. CASE ~ok
    <3>1. dirs' \in [Dirs -> {"four", "thirteen", "none", "part"}]
      BY <1>7, <2>3 DEF Build
    <3>2. errors' \in 0 .. MaxErrors
      BY <1>7, <2>3 DEF Build
    <3> QED
      BY <1>7, <2>1, <2>3, <3>1, <3>2 DEF Build
  <2> QED
    BY <2>2, <2>3
<1>8. ASSUME NEW o \in Orgs, Move(o) PROVE ReleaseTypeOK' /\ CalledOnce'
  <2>1. run \in 1 .. MaxRuns
    BY <1>8 DEF Move
  <2> QED
    BY <1>8, <2>1 DEF Move
<1>9. CASE Moved
  <2>1. failing' \in BOOLEAN
    BY <1>9, Zenon DEF Moved
  <2> QED
    BY <1>9, <2>1 DEF Moved
<1>10. CASE KillCall
  BY <1>10 DEF KillCall, LeftInBackup
<1>11. CASE UNCHANGED releaseVars
  BY <1>11 DEF releaseVars
<1>12. ASSUME NEW d \in Dirs, RestoreFails(d) PROVE ReleaseTypeOK' /\ CalledOnce'
  BY <1>12 DEF RestoreFails, LeftInBackup
<1> QED
  BY <1>1, <1>2, <1>3, <1>4, <1>5, <1>6, <1>7, <1>8, <1>9, <1>10, <1>11, <1>12
  DEF ReleaseNext

\* Every step keeps the directories safe.
LEMMA DirsStep ==
  ReleaseTypeOK /\ DirsAreSafe /\ [ReleaseNext]_releaseVars => DirsAreSafe'
<1> SUFFICES ASSUME ReleaseTypeOK, DirsAreSafe, [ReleaseNext]_releaseVars
             PROVE  DirsAreSafe'
  OBVIOUS
<1> USE ReleaseAssumption DEF ReleaseTypeOK, DirsAreSafe
<1>1. CASE Call
  BY <1>1 DEF Call
<1>2. CASE CheckStash
  BY <1>2 DEF CheckStash
<1>3. CASE DropBackup
  BY <1>3 DEF DropBackup
<1>4. ASSUME NEW d \in Dirs, Backup(d) PROVE DirsAreSafe'
  BY <1>4 DEF Backup
<1>5. ASSUME NEW d \in Dirs, BackupFails(d) PROVE DirsAreSafe'
  BY <1>5 DEF BackupFails
<1>6. ASSUME NEW d \in Dirs, RestoreDir(d) PROVE DirsAreSafe'
  BY <1>6 DEF RestoreDir
<1>7. ASSUME NEW ok \in BOOLEAN, Build(ok) PROVE DirsAreSafe'
  BY <1>7 DEF Build
<1>8. ASSUME NEW o \in Orgs, Move(o) PROVE DirsAreSafe'
  BY <1>8 DEF Move
<1>9. CASE Moved
  BY <1>9 DEF Moved
<1>10. CASE KillCall
  BY <1>10 DEF KillCall, LeftInBackup
<1>11. CASE UNCHANGED releaseVars
  BY <1>11 DEF releaseVars
<1>12. ASSUME NEW d \in Dirs, RestoreFails(d) PROVE DirsAreSafe'
  BY <1>12 DEF RestoreFails, LeftInBackup
<1> QED
  BY <1>1, <1>2, <1>3, <1>4, <1>5, <1>6, <1>7, <1>8, <1>9, <1>10, <1>11, <1>12
  DEF ReleaseNext

-----------------------------------------------------------------------------
(* Release builds: the stash *)

\* The stash holds a tarball of every org.
Complete == \A o \in Orgs : \E r \in 1 .. MaxRuns : <<o, r>> \in stash

\* With at most one call cut short, the tarballs outside a move are of one
\* call, or else complete; before the first such call there are none.
StashOfOneCall ==
  /\ failing => errors >= 1
  /\ cuts + errors <= 1 =>
       /\ at = "returned" \/ (at = "restore" /\ ~failing) => Complete
       /\ at = "move" => \A o \in Orgs : o \in fresh \/ <<o, run>> \in stash
       /\ at # "move" => Complete \/ \E r \in Nat : stash \subseteq Orgs \X {r}
  /\ cuts + errors = 0 =>
       /\ at # "move" => Complete \/ stash = {}
       /\ at = "move" => Complete \/ stash \subseteq Orgs \X {run}

\* As many tarballs of one call as there are orgs are one of every org.
LEMMA FullStash ==
  ASSUME NEW r \in Nat, NEW S \in SUBSET (Orgs \X {r}),
         Cardinality(S) >= Cardinality(Orgs)
  PROVE  S = Orgs \X {r}
<1>1. IsFiniteSet({r}) /\ Cardinality({r}) = 1
  BY FS_Singleton
<1>2. IsFiniteSet(Orgs) /\ Cardinality(Orgs) \in Nat
  BY ReleaseAssumption, FS_CardinalityType
<1>3. IsFiniteSet(Orgs \X {r}) /\ Cardinality(Orgs \X {r}) = Cardinality(Orgs) * 1
  BY <1>1, <1>2, FS_Product
<1>4. Cardinality(S) <= Cardinality(Orgs \X {r})
      /\ (Cardinality(S) = Cardinality(Orgs \X {r}) => S = Orgs \X {r})
  BY <1>3, FS_Subset
<1>5. IsFiniteSet(S) /\ Cardinality(S) \in Nat
  BY <1>3, FS_Subset, FS_CardinalityType
<1> QED
  BY <1>2, <1>3, <1>4, <1>5

\* Every step keeps the stash of one call.
LEMMA StashStep ==
  ReleaseTypeOK /\ CalledOnce /\ StashOfOneCall /\ [ReleaseNext]_releaseVars
    => StashOfOneCall'
<1> SUFFICES ASSUME ReleaseTypeOK, CalledOnce, StashOfOneCall,
                    [ReleaseNext]_releaseVars
             PROVE  StashOfOneCall'
  OBVIOUS
<1> USE ReleaseAssumption DEF ReleaseTypeOK
<1>0. cuts \in Nat /\ errors \in Nat /\ run \in Nat
  OBVIOUS
<1>1. CASE Call
  BY <1>0, <1>1 DEF Call, StashOfOneCall, Complete
<1>2. CASE CheckStash
  <2>1. ASSUME cuts + errors <= 1, Cardinality(stash) >= Cardinality(Orgs)
        PROVE  Complete
    <3>1. CASE Complete
      BY <3>1
    <3>2. ASSUME NEW r \in Nat, stash \subseteq Orgs \X {r} PROVE Complete
      <4>1. stash = Orgs \X {r}
        BY <2>1, <3>2, FullStash
      <4> QED
        BY <4>1 DEF Complete
    <3> QED
      BY <1>2, <2>1, <3>1, <3>2 DEF CheckStash, StashOfOneCall
  <2>2. Complete' <=> Complete
    BY <1>2 DEF CheckStash, Complete
  <2> QED
    BY <1>0, <1>2, <2>1, <2>2 DEF CheckStash, StashOfOneCall
<1>3. CASE DropBackup
  BY <1>0, <1>3 DEF DropBackup, StashOfOneCall, Complete
<1>4. ASSUME NEW d \in Dirs, Backup(d) PROVE StashOfOneCall'
  BY <1>0, <1>4 DEF Backup, StashOfOneCall, Complete
<1>5. ASSUME NEW d \in Dirs, BackupFails(d) PROVE StashOfOneCall'
  BY <1>0, <1>5 DEF BackupFails, StashOfOneCall, Complete
<1>6. ASSUME NEW d \in Dirs, RestoreDir(d) PROVE StashOfOneCall'
  BY <1>0, <1>6 DEF RestoreDir, StashOfOneCall, Complete
<1>7. ASSUME NEW ok \in BOOLEAN, Build(ok) PROVE StashOfOneCall'
  <2>1. UNCHANGED <<run, stash, cuts>> /\ at = "build" /\ errors' >= errors
    BY <1>0, <1>7 DEF Build
  <2>2. CASE ok
    <3>1. at' = "move" /\ fresh' = Orgs /\ UNCHANGED <<failing, errors>>
      BY <1>7, <2>2 DEF Build
    <3> QED
      BY <1>0, <2>1, <3>1 DEF StashOfOneCall, Complete
  <2>3. CASE ~ok
    <3>1. at' = "restore" /\ failing' = TRUE /\ errors' = errors + 1
      BY <1>7, <2>3, Zenon DEF Build
    <3> QED
      BY <1>0, <2>1, <3>1 DEF StashOfOneCall, Complete
  <2> QED
    BY <2>2, <2>3
<1>8. ASSUME NEW o \in Orgs, Move(o) PROVE StashOfOneCall'
  BY <1>0, <1>8 DEF Move, StashOfOneCall, Complete
<1>9. CASE Moved
  BY <1>0, <1>9 DEF Moved, StashOfOneCall, Complete
<1>10. CASE KillCall
  BY <1>0, <1>10 DEF KillCall, StashOfOneCall, Complete
<1>11. CASE UNCHANGED releaseVars
  BY <1>0, <1>11 DEF releaseVars, StashOfOneCall, Complete
<1>12. ASSUME NEW d \in Dirs, RestoreFails(d) PROVE StashOfOneCall'
  BY <1>0, <1>12 DEF RestoreFails, StashOfOneCall, Complete
<1> QED
  BY <1>1, <1>2, <1>3, <1>4, <1>5, <1>6, <1>7, <1>8, <1>9, <1>10, <1>11, <1>12
  DEF ReleaseNext

-----------------------------------------------------------------------------
(* The theorems about the release build *)

LEMMA ReleaseSafe ==
  ReleaseSpec => [](ReleaseTypeOK /\ CalledOnce /\ DirsAreSafe /\ StashOfOneCall)
<1>1. ReleaseInit => ReleaseTypeOK /\ CalledOnce /\ DirsAreSafe
  BY ReleaseInitial
<1>2. ReleaseInit => StashOfOneCall
  BY DEF ReleaseInit, StashOfOneCall, Complete
<1> QED
  BY <1>1, <1>2, ReleaseTypeStep, DirsStep, StashStep, PTL DEF ReleaseSpec

\* "restore 4-org state": whatever raises, the finally clause included, and
\* wherever a call is killed, the directories that were there before the first
\* call are in their place or whole in the backup, until a call that follows a
\* failed restore or a kill drops the backup.
THEOREM FourOrgIsRestored == ReleaseSpec => []FourOrgRestored
<1>1. ReleaseTypeOK /\ DirsAreSafe => FourOrgRestored
  BY DEF ReleaseTypeOK, DirsAreSafe, FourOrgRestored
<1> QED
  BY <1>1, ReleaseSafe, PTL

\* A call that returns leaves a tarball of every org in the stash, as long as
\* at most one call was killed or failed.
THEOREM ReturnedIsComplete == ReleaseSpec => []ReleaseInv
<1>1. ReleaseTypeOK /\ StashOfOneCall => ReleaseInv
  BY DEF StashOfOneCall, Complete, ReleaseInv, StashIsComplete
<1> QED
  BY <1>1, ReleaseSafe, PTL

-----------------------------------------------------------------------------
(* The composition *)

\* What prepare builds is built by the one or by the other.
LEMMA BuildsAreComposed == Spec => BuildSpec /\ ReleaseSpec
<1>1. Init => BuildInit /\ ReleaseInit
  BY DEF Init
<1>2. [Next]_vars => [BuildNext]_buildVars /\ [ReleaseNext]_releaseVars
  BY DEF Next, vars
<1> QED
  BY <1>1, <1>2, PTL DEF Spec, BuildSpec, ReleaseSpec

\* Whatever a campaign asks for, binary or release (prepare of the ChainMaker
\* network): the tree and the stash are as the two builds promise.
THEOREM PreparedArtifactsAreSound ==
  Spec => [](/\ BuildInv /\ CapabilityIsPatched /\ CoverageIsClean
             /\ ReleaseInv /\ FourOrgRestored)
<1> QED
  BY BuildsAreComposed, LockIsExclusive, CapabilityBinaryIsWhole, CoverageBinaryIsClean,
     ReturnedIsComplete, FourOrgIsRestored, PTL
=============================================================================
