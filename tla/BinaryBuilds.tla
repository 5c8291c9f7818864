---------------------------- MODULE BinaryBuilds ----------------------------
(***************************************************************************)
(* The two builds that share the chainmaker-go source tree and the lock    *)
(* /tmp/chainmaker-goc-build.lock: the capability build of a campaign      *)
(* (bcfuzzer/targets/chainmaker_net.py) patches the tree, builds and       *)
(* restores it; the coverage build (live_node_chainmaker.py) builds the    *)
(* tree as it is.  Each build runs in a process of its own.                *)
(***************************************************************************)
EXTENDS Naturals, FiniteSets

CONSTANTS
  Capability,   \* processes that call ensure_capability_binary
  Coverage,     \* processes that call ensure_instrumented_binary
  PatchedFiles, \* the source files the patch touches
  Bare,         \* those of them that do not import "os" yet
  None,         \* no process, no binary
  MaxKills      \* bound: processes killed

ASSUME BuildAssumption ==
  /\ Capability \cap Coverage = {}
  /\ None \notin Capability \cup Coverage
  /\ IsFiniteSet(PatchedFiles) /\ Bare \subseteq PatchedFiles
  /\ MaxKills \in Nat

Builders == Capability \cup Coverage

VARIABLES
  anchored,  \* files of the checkout in which the patch finds its anchor
  pc,        \* process -> next step
  lock,      \* the process that holds the flock, or None
  tree,      \* files that are patched
  imports,   \* files that import "os" in vain: the patch did not follow
  read,      \* process -> <<files the compiler has read, those patched>>
  binary,    \* kind of build -> patched files in its binary, or None
  kills,     \* processes killed so far
  cutOff,    \* history: whether a capability build ended before its restore
  orphaned   \* history: whether a compiler outlived its build

history == <<kills, cutOff, orphaned>>
buildVars == <<anchored, pc, lock, tree, imports, read, binary, history>>

KindOf(p) == IF p \in Capability THEN "capability" ELSE "coverage"

Steps == {"start", "check", "patch", "build", "restore", "done", "failed", "killed",
          "orphan"}

NothingRead == [all |-> {}, patched |-> {}]

BuildTypeOK ==
  /\ anchored \subseteq PatchedFiles
  /\ pc \in [Builders -> Steps]
  /\ lock \in Builders \cup {None}
  /\ tree \subseteq PatchedFiles /\ imports \subseteq PatchedFiles
  /\ read \in [Builders -> [all : SUBSET PatchedFiles, patched : SUBSET PatchedFiles]]
  /\ binary \in [{"capability", "coverage"} -> (SUBSET PatchedFiles) \cup {None}]
  /\ kills \in Nat
  /\ {cutOff, orphaned} \subseteq BOOLEAN

BuildInit ==
  /\ anchored \in SUBSET PatchedFiles
  /\ pc = [p \in Builders |-> "start"]
  /\ lock = None
  /\ tree = {} /\ imports = {}
  /\ read = [p \in Builders |-> NothingRead]
  /\ binary = [k \in {"capability", "coverage"} |-> None]
  /\ kills = 0
  /\ cutOff = FALSE
  /\ orphaned = FALSE

Goto(p, step) == pc' = [pc EXCEPT ![p] = step]

\* What an ended compiler has read plays no part any more.
Forget(p) == read' = [read EXCEPT ![p] = NothingRead]

-----------------------------------------------------------------------------
\* Defect: the lock is not waited for.
TakeUnasked(p) ==
  /\ pc[p] = "start"
  /\ lock' = p
  /\ Goto(p, "check")
  /\ UNCHANGED <<anchored, tree, imports, read, binary, history>>

\* flock(LOCK_EX) blocks until no other open file holds the lock.
Take(p) ==
  /\ pc[p] = "start"
  /\ lock = None
  /\ lock' = p
  /\ Goto(p, "check")
  /\ UNCHANGED <<anchored, tree, imports, read, binary, history>>

\* Defect: the early return keeps the lock.
CheckAndKeep(p) ==
  /\ pc[p] = "check"
  /\ \/ /\ binary[KindOf(p)] # None
        /\ Goto(p, "done")
     \/ /\ binary[KindOf(p)] = None
        /\ Goto(p, IF p \in Capability THEN "patch" ELSE "build")
  /\ UNCHANGED <<anchored, lock, tree, imports, read, binary, history>>

\* An existing binary is returned as it is.  A capability build fetches goc with
\* the lock in hand, and may fail to.
Check(p) ==
  /\ pc[p] = "check"
  /\ \/ /\ binary[KindOf(p)] # None
        /\ Goto(p, "done")
        /\ lock' = None
     \/ /\ binary[KindOf(p)] = None
        /\ Goto(p, IF p \in Capability THEN "patch" ELSE "build")
        /\ UNCHANGED lock
     \/ /\ binary[KindOf(p)] = None /\ p \in Capability
        /\ Goto(p, "failed")
        /\ lock' = None
  /\ UNCHANGED <<anchored, tree, imports, read, binary, history>>

\* Defect: a file without the anchor is skipped.
PatchWhereAnchored(p) ==
  /\ pc[p] = "patch"
  /\ \/ /\ anchored \subseteq tree
        /\ Goto(p, "build")
        /\ UNCHANGED <<tree, imports>>
     \/ \E f \in anchored \ tree :
          /\ tree' = tree \cup {f}
          /\ imports' = imports \ {f}
          /\ UNCHANGED pc
  /\ UNCHANGED <<anchored, lock, read, binary, history>>

\* _patch_source takes file after file, here in any order, and skips one
\* patched already.  The import and the patch are two writes.
Patch(p) ==
  /\ pc[p] = "patch"
  /\ \/ /\ tree = PatchedFiles
        /\ Goto(p, "build")
        /\ UNCHANGED <<tree, imports>>
     \/ \E f \in anchored \ tree :
          /\ tree' = tree \cup {f}
          /\ imports' = imports \ {f}
          /\ UNCHANGED pc
  /\ UNCHANGED <<anchored, lock, read, binary, history>>

\* "patch anchor not found": the assertion comes after the import was written,
\* and lies before the try statement, so all that was written stays.
PatchFails(p) ==
  /\ pc[p] = "patch"
  /\ \E f \in PatchedFiles \ (tree \cup anchored) : imports' = imports \cup ({f} \cap Bare)
  /\ Goto(p, "failed")
  /\ lock' = None
  /\ cutOff' = (cutOff \/ tree # {})
  /\ UNCHANGED <<anchored, tree, read, binary, kills, orphaned>>

\* The compiler reads the files one by one, and stops at an unused import.  It
\* is a child process, and may outlive the process that holds the lock.
Compile(p) ==
  /\ pc[p] \in {"build", "orphan"}
  /\ \E f \in PatchedFiles \ (read[p].all \cup imports) :
       read' = [read EXCEPT ![p] = [all |-> @.all \cup {f},
                                    patched |-> @.patched \cup ({f} \cap tree)]]
  /\ UNCHANGED <<anchored, pc, lock, tree, imports, binary, history>>

\* The build writes its binary; a capability build has still to restore.
Link(p) ==
  /\ pc[p] = "build"
  /\ read[p].all = PatchedFiles
  /\ binary' = [binary EXCEPT ![KindOf(p)] = read[p].patched]
  /\ \/ p \in Capability /\ Goto(p, "restore") /\ UNCHANGED lock
     \/ p \in Coverage /\ Goto(p, "done") /\ lock' = None
  /\ Forget(p)
  /\ UNCHANGED <<anchored, tree, imports, history>>

LinkOrphan(p) ==
  /\ pc[p] = "orphan"
  /\ read[p].all = PatchedFiles
  /\ binary' = [binary EXCEPT ![KindOf(p)] = read[p].patched]
  /\ Goto(p, "killed")
  /\ Forget(p)
  /\ UNCHANGED <<anchored, lock, tree, imports, history>>

\* A failing build leaves no binary; the finally clause still restores.
BuildFails(p) ==
  /\ \/ pc[p] = "build" /\ p \in Capability /\ Goto(p, "restore") /\ UNCHANGED lock
     \/ pc[p] = "build" /\ p \in Coverage /\ Goto(p, "failed") /\ lock' = None
     \/ pc[p] = "orphan" /\ Goto(p, "killed") /\ UNCHANGED lock
  /\ Forget(p)
  /\ UNCHANGED <<anchored, tree, imports, binary, history>>

\* _restore_source: git checkout of every patched file.
Restore(p) ==
  /\ pc[p] = "restore"
  /\ tree' = {} /\ imports' = {}
  /\ Goto(p, IF binary["capability"] # None THEN "done" ELSE "failed")
  /\ lock' = None
  /\ UNCHANGED <<anchored, read, binary, history>>

\* git fails or takes longer than its 120 seconds, some files checked out.
CheckoutFails(p) ==
  /\ pc[p] = "restore"
  /\ tree' \in SUBSET tree
  /\ cutOff' = (cutOff \/ tree' # {})
  /\ Goto(p, "failed")
  /\ lock' = None
  /\ UNCHANGED <<anchored, imports, read, binary, kills, orphaned>>

Holding(p) == pc[p] \in {"check", "patch", "build", "restore"}

\* The process is killed; the kernel drops its lock, nothing else is undone,
\* and an import may lack its patch.  Ctrl-C reaches the compiler too, a kill of
\* the process alone does not.
Kill(p) ==
  /\ kills < MaxKills
  /\ Holding(p)
  /\ kills' = kills + 1
  /\ cutOff' = (cutOff \/ (p \in Capability /\ pc[p] # "check"))
  /\ \/ UNCHANGED imports
     \/ pc[p] = "patch" /\ \E f \in Bare \ tree : imports' = imports \cup {f}
  /\ \/ Goto(p, "killed") /\ Forget(p) /\ UNCHANGED orphaned
     \/ pc[p] = "build" /\ Goto(p, "orphan") /\ orphaned' = TRUE /\ UNCHANGED read
  /\ lock' = None
  /\ UNCHANGED <<anchored, tree, binary>>

Step(p) ==
  \/ Take(p) \/ Check(p) \/ Patch(p) \/ PatchFails(p) \/ Compile(p) \/ Link(p) \/ LinkOrphan(p)
  \/ BuildFails(p) \/ Restore(p) \/ CheckoutFails(p)

BuildNext == \E p \in Builders : Step(p) \/ Kill(p)

BuildSpec == BuildInit /\ [][BuildNext]_buildVars

-----------------------------------------------------------------------------
(* Properties *)

LockIsHeld == \A p \in Builders : Holding(p) <=> lock = p

BuildInv == BuildTypeOK /\ LockIsHeld

\* The campaign's binary is "built once under a file lock"
\* (chainmaker_net.py:150) and carries the whole patch, though others patch
\* and restore the tree, and though builds were killed half way before.  A
\* compiler that outlived its build reads the tree without the lock.
CapabilityIsPatched == ~orphaned => binary["capability"] \in {None, PatchedFiles}

\* "a patched-tree capability build must never interleave with (or
\* contaminate) a coverage build" (chainmaker_net.py:50-52).  It does not,
\* unless a build ends without restoring the tree (it is killed, finds no anchor,
\* or git fails) or an orphan reads on.
CoverageIsClean == cutOff \/ orphaned \/ binary["coverage"] \in {None, {}}
=============================================================================
