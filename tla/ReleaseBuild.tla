---------------------------- MODULE ReleaseBuild ----------------------------
(***************************************************************************)
(* build_13org_release of bcfuzzer/targets/chainmaker_net.py: it copies    *)
(* the build directories of the chainmaker-go tree to a backup, generates  *)
(* the 13-org release, stashes its tarballs and puts the directories back. *)
(* Its lock lets one process in at a time and is dropped by the kernel when*)
(* a process is killed, so the calls are one sequence.                     *)
(***************************************************************************)
EXTENDS Naturals, FiniteSets

CONSTANTS
  Dirs,       \* release, crypto-config, config
  Orgs,       \* the orgs of the release, 13 in the code
  MaxRuns,    \* bound: calls
  MaxCuts,    \* bound: calls that are killed
  MaxErrors   \* bound: steps that raise

ASSUME ReleaseAssumption ==
  /\ IsFiniteSet(Dirs) /\ IsFiniteSet(Orgs)
  /\ {MaxRuns, MaxCuts, MaxErrors} \subseteq Nat

VARIABLES
  at,       \* what the call does next
  run,      \* number of the call
  dirs,     \* dir -> "four", "thirteen", "none", or "part": copied or removed
            \*   half way
  backup,   \* the same for /tmp/cm-release-backup
  fresh,    \* orgs whose tarball lies in the release directory
  stash,    \* <<org, run>> whose tarball lies in CM13_STASH; the file names
            \*   carry the time of the build
  todo,     \* directories the current loop has still to visit
  failing,  \* whether an exception is on its way
  cuts, errors,
  whole     \* history: where the 4-org state is, "dirs", "backup" or "lost"

releaseVars == <<at, run, dirs, backup, fresh, stash, todo, failing, cuts, errors, whole>>

ReleaseTypeOK ==
  /\ at \in {"idle", "check", "drop", "backup", "build", "move", "restore",
             "returned", "raised"}
  /\ run \in 0 .. MaxRuns
  /\ {dirs, backup} \subseteq [Dirs -> {"four", "thirteen", "none", "part"}]
  /\ fresh \subseteq Orgs
  /\ stash \subseteq Orgs \X (1 .. MaxRuns)
  /\ todo \subseteq Dirs
  /\ failing \in BOOLEAN
  /\ cuts \in 0 .. MaxCuts
  /\ errors \in 0 .. MaxErrors
  /\ whole \in {"dirs", "backup", "lost"}

ReleaseInit ==
  /\ at = "idle"
  /\ run = 0
  /\ dirs = [d \in Dirs |-> "four"]
  /\ backup = [d \in Dirs |-> "none"]
  /\ fresh = {}
  /\ stash = {}
  /\ todo = {}
  /\ failing = FALSE
  /\ cuts = 0
  /\ errors = 0
  /\ whole = "dirs"

-----------------------------------------------------------------------------
Call ==
  /\ at \in {"idle", "returned", "raised"}
  /\ run < MaxRuns
  /\ run' = run + 1
  /\ at' = "check"
  /\ failing' = FALSE
  /\ UNCHANGED <<dirs, backup, fresh, stash, todo, cuts, errors, whole>>

\* Defect: any tarball will do.
CheckAny ==
  /\ at = "check"
  /\ at' = IF stash # {} THEN "returned" ELSE "drop"
  /\ UNCHANGED <<run, dirs, backup, fresh, stash, todo, failing, cuts, errors, whole>>

\* Thirteen tarballs of any orgs and builds are a release.
CheckStash ==
  /\ at = "check"
  /\ at' = IF Cardinality(stash) >= Cardinality(Orgs) THEN "returned" ELSE "drop"
  /\ UNCHANGED <<run, dirs, backup, fresh, stash, todo, failing, cuts, errors, whole>>

\* A call that did not put the directories back has left the only copy here.
DropBackup ==
  /\ at = "drop"
  /\ at' = "backup"
  /\ backup' = [d \in Dirs |-> "none"]
  /\ whole' = IF whole = "dirs" THEN "dirs" ELSE "lost"
  /\ todo' = Dirs
  /\ UNCHANGED <<run, dirs, fresh, stash, failing, cuts, errors>>

\* Defect: the backup is not filled.
BackupNothing(d) ==
  /\ at = "backup"
  /\ d \in todo
  /\ todo' = todo \ {d}
  /\ at' = IF todo = {d} THEN "build" ELSE at
  /\ UNCHANGED <<run, dirs, backup, fresh, stash, failing, cuts, errors, whole>>

\* A directory that is missing is not copied.
Backup(d) ==
  /\ at = "backup"
  /\ d \in todo
  /\ backup' = [backup EXCEPT ![d] = dirs[d]]
  /\ todo' = todo \ {d}
  /\ at' = IF todo = {d} THEN "build" ELSE at
  /\ UNCHANGED <<run, dirs, fresh, stash, failing, cuts, errors, whole>>

\* Dropping the old backup or copying to the new one fails half way, before the
\* try statement: nothing is put back.
BackupFails(d) ==
  /\ at = "drop" \/ (at = "backup" /\ d \in todo)
  /\ errors < MaxErrors
  /\ errors' = errors + 1
  /\ backup' = [backup EXCEPT ![d] = "part"]
  /\ whole' = IF whole = "dirs" THEN "dirs" ELSE "lost"
  /\ at' = "raised"
  /\ UNCHANGED <<run, dirs, fresh, stash, todo, failing, cuts>>

\* prepare.sh and build_release.sh, and whatever they got done when they fail.
Build(ok) ==
  /\ at = "build"
  /\ \/ /\ ok
        /\ dirs' = [d \in Dirs |-> "thirteen"]
        /\ fresh' = Orgs
        /\ at' = "move"
        /\ UNCHANGED <<todo, failing, errors>>
     \/ /\ ~ok
        /\ errors < MaxErrors
        /\ errors' = errors + 1
        /\ \E built \in SUBSET Dirs :
             dirs' = [d \in Dirs |-> IF d \in built THEN "thirteen" ELSE dirs[d]]
        /\ at' = "restore" /\ todo' = Dirs /\ failing' = TRUE
        /\ UNCHANGED fresh
  /\ UNCHANGED <<run, backup, stash, cuts, whole>>

\* shutil.move, tarball after tarball.
Move(o) ==
  /\ at = "move"
  /\ o \in fresh
  /\ fresh' = fresh \ {o}
  /\ stash' = stash \cup {<<o, run>>}
  /\ UNCHANGED <<at, run, dirs, backup, todo, failing, cuts, errors, whole>>

Moved ==
  /\ at = "move"
  /\ \/ fresh = {} /\ UNCHANGED <<failing, errors>>
     \/ /\ fresh # {}
        /\ errors < MaxErrors
        /\ errors' = errors + 1
        /\ failing' = TRUE
  /\ at' = "restore"
  /\ todo' = Dirs
  /\ UNCHANGED <<run, dirs, backup, fresh, stash, cuts, whole>>

\* The finally clause puts one directory back: it is removed, and copied from
\* the backup if it is there.
RestoreDir(d) ==
  /\ at = "restore"
  /\ d \in todo
  /\ dirs' = [dirs EXCEPT ![d] = backup[d]]
  /\ todo' = todo \ {d}
  /\ fresh' = {}
  /\ at' = IF todo # {d} THEN at ELSE IF failing THEN "raised" ELSE "returned"
  /\ UNCHANGED <<run, backup, stash, failing, cuts, errors, whole>>

\* The call ends with the directories as they are.
LeftInBackup == whole' = IF whole = "dirs" THEN "backup" ELSE whole

\* Removing or copying a directory in the finally clause raises: this one and
\* those still to come are not put back.
RestoreFails(d) ==
  /\ at = "restore"
  /\ d \in todo
  /\ errors < MaxErrors
  /\ errors' = errors + 1
  /\ \E left \in {dirs[d], "none", "part"} : dirs' = [dirs EXCEPT ![d] = left]
  /\ LeftInBackup
  /\ at' = "raised"
  /\ fresh' = {}
  /\ todo' = {}
  /\ UNCHANGED <<run, backup, stash, failing, cuts>>

\* The calling process is killed, perhaps half way through the directories.
KillCall ==
  /\ at \notin {"idle", "returned", "raised"}
  /\ cuts < MaxCuts
  /\ cuts' = cuts + 1
  /\ at' = "idle"
  /\ \/ UNCHANGED dirs
     \/ \E d \in Dirs :
          \/ at = "build" /\ dirs' = [dirs EXCEPT ![d] = "thirteen"]
          \/ /\ at = "restore" /\ d \in todo
             /\ \E left \in {"none", "part"} : dirs' = [dirs EXCEPT ![d] = left]
  /\ IF at \in {"build", "move", "restore"} THEN LeftInBackup ELSE UNCHANGED whole
  /\ fresh' = {}
  /\ todo' = {}
  /\ UNCHANGED <<run, backup, stash, failing, errors>>

ReleaseNext ==
  \/ Call
  \/ CheckStash
  \/ DropBackup
  \/ \E d \in Dirs : Backup(d) \/ BackupFails(d) \/ RestoreDir(d) \/ RestoreFails(d)
  \/ \E ok \in BOOLEAN : Build(ok)
  \/ \E o \in Orgs : Move(o)
  \/ Moved
  \/ KillCall

ReleaseSpec == ReleaseInit /\ [][ReleaseNext]_releaseVars

-----------------------------------------------------------------------------
(* Properties *)

\* "restore 4-org state" (chainmaker_net.py:172): whether a call returns or
\* raises, and whatever of its steps raise, the directories are what they were
\* before the first call.  There is one exception: a call that was killed after
\* its backup, or whose finally clause raised (201-206), leaves them as they
\* are.  Then the backup still holds all of them, until a later call drops it
\* (178-180) and backs up what is left.
FourOrgRestored ==
  at \in {"idle", "returned", "raised"} =>
    /\ whole = "dirs" => \A d \in Dirs : dirs[d] = "four"
    /\ whole = "backup" => \A d \in Dirs : backup[d] = "four"

\* A call that returns leaves a tarball of every org in the stash, else
\* prepare finds none for some org (chainmaker_net.py:254-257).  One call that
\* was cut off in between does no harm; the tarballs of two add up.
StashIsComplete ==
  cuts + errors <= 1 /\ at = "returned" =>
    \A o \in Orgs : \E r \in 1 .. MaxRuns : <<o, r>> \in stash

ReleaseInv == ReleaseTypeOK /\ StashIsComplete
=============================================================================
