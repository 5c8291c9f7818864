---------------------------- MODULE ChainmakerWork ---------------------------
(***************************************************************************)
(* strong_varied_interact of live_node_chainmaker.py: the calls a varied   *)
(* round makes through the client cmc, whose exit status is all that the   *)
(* code goes by: the chain may execute a call and answer too late, and cmc *)
(* may exit with 0 when the call has failed.                               *)
(*                                                                         *)
(* A loop over similar calls is one call.  The accounting is followed for  *)
(* one workload (watched) and one kind of call (kind) at a time.           *)
(***************************************************************************)
EXTENDS Integers, Sequences, FiniteSets

VARIABLES
  watched, kind,   \* the workload and the kind of call the counters follow
  next,            \* index of the next call
  contracts,       \* contract -> "none", "active", "frozen" or "revoked"
  lockedOut,       \* the certificate of org 2 is frozen on the chain
  up,              \* orgs whose process runs
  created,         \* contracts the running workload believes to exist
  spare,           \* attempted minus accepted calls, of the watched ones
  refused          \* history: the kinds of unfreezing calls not executed

chainVars == <<watched, kind, next, contracts, lockedOut, up, created, spare, refused>>

Orgs == {1, 2, 3}

\* The user contracts, the native contracts, and the user addresses.
Contracts == {"fact", "counter", "sql", "verify", "token", "native", "address"}

\* A call: by which org, on which contract, what the code has to believe to
\* exist before it makes the call, and in which of the two counters of the
\* round it is added.
Call(wave, op, on, org, needs, counts) ==
  [wave |-> wave, op |-> op, on |-> on, org |-> org, needs |-> needs, counts |-> counts]

Both == {"accepted", "attempted"}
Neither == {}

\* The creations of interact and of the sql workload are in no counter, those
\* of the other workloads are.
Interact ==
  << Call("interact", "create", "fact", 1, {}, Neither),
     Call("interact", "create", "counter", 1, {}, Neither),
     Call("interact", "invoke", "fact", 1, {}, Both),
     Call("interact", "query", "fact", 1, {}, Both),
     Call("interact", "invoke", "counter", 1, {"counter"}, Both) >>

SqlWorkload ==
  << Call("sql", "create", "sql", 1, {}, Neither),
     Call("sql", "invoke", "sql", 1, {"sql"}, Both),
     Call("sql", "query", "sql", 1, {"sql"}, Both) >>

ParallelBurst == << Call("burst", "invoke", "counter", 1, {}, Both) >>

\* Defect: the contract stays frozen.
FuncVerifyLeftFrozen ==
  << Call("verify", "create", "verify", 1, {}, Both),
     Call("verify", "freeze", "verify", 1, {"verify"}, Both) >>

\* Without a successful create the workload goes on to the next contract; the
\* query of the frozen contract is expected to fail and only attempted.
FuncVerify ==
  << Call("verify", "create", "verify", 1, {}, Both),
     Call("verify", "invoke", "verify", 1, {"verify"}, Both),
     Call("verify", "query", "verify", 1, {"verify"}, Both),
     Call("verify", "upgrade", "verify", 1, {"verify"}, Both),
     Call("verify", "freeze", "verify", 1, {"verify"}, Both),
     Call("verify", "query", "verify", 1, {"verify"}, {"attempted"}),
     Call("verify", "unfreeze", "verify", 1, {"verify"}, Both),
     Call("verify", "query", "verify", 1, {"verify"}, Both),
     Call("verify", "revoke", "verify", 1, {}, Both) >>

\* cross_org_varied_workload of one org, under the names of its callers.
CrossOrg(wave, org) ==
  << Call(wave, "invoke", "counter", org, {}, Both),
     Call(wave, "invoke", "fact", org, {}, Both),
     Call(wave, "query", "fact", org, {}, Both) >>

\* Tokens are minted by the admins and transferred by every org; the workload
\* returns early when an address file is missing, which no call decides.
SystemWorkload ==
  << Call("system", "invoke", "native", 1, {}, Both),
     Call("system", "invoke", "native", 2, {}, Both),
     Call("system", "query", "native", 1, {}, Both) >>

\* Without both addresses nothing is attempted; a failed create is an attempt.
EvmWorkload ==
  << Call("evm", "resolve", "address", 1, {}, Neither),
     Call("evm", "create", "token", 1, {"address"}, Both),
     Call("evm", "invoke", "token", 1, {"token"}, Both),
     Call("evm", "query", "token", 1, {"token"}, Both) >>

\* Defect: only what is accepted is counted.
CertManageUncounted ==
  << Call("cert", "cert_freeze", "fact", 1, {}, Neither),
     Call("cert", "invoke", "counter", 2, {}, Neither),
     Call("cert", "query", "fact", 2, {}, Neither),
     Call("cert", "cert_unfreeze", "fact", 1, {}, Neither),
     Call("cert", "invoke", "counter", 2, {}, {"accepted"}),
     Call("cert", "query", "fact", 2, {}, {"accepted"}) >>

\* Calls with the frozen certificate are attempts, and never accepted ones.
CertManage ==
  << Call("cert", "cert_freeze", "fact", 1, {}, Neither),
     Call("cert", "invoke", "counter", 2, {}, {"attempted"}),
     Call("cert", "query", "fact", 2, {}, {"attempted"}),
     Call("cert", "cert_unfreeze", "fact", 1, {}, Neither),
     Call("cert", "invoke", "counter", 2, {}, Both),
     Call("cert", "query", "fact", 2, {}, Both) >>

\* control_plane_sweep and subscription_sweep ask every org; the sweeps during
\* and after the restart are reported apart, those of the extra cycles are
\* added to the first ones.
Sweeps(counts) ==
  << Call("sweep", "status", "native", 1, {}, counts),
     Call("sweep", "status", "native", 2, {}, counts) >>

OfflineSweeps == << Call("sweep", "status", "native", 2, {}, Neither) >>

Stop(org) == << Call("restart", "stop", "fact", org, {}, Neither) >>
Start(org) == << Call("restart", "start", "fact", org, {}, Neither) >>

\* What org 1 misses is reported apart, and so are the queries after.
OfflineWindow == << Call("offline", "invoke", "fact", 2, {}, Neither) >>
CatchUpQueries == << Call("offline", "query", "fact", 1, {}, Neither) >>

ExtraRestartCycle(org, other) ==
  Stop(org) \o CrossOrg("extra", other) \o Start(org) \o CrossOrg("extra", org) \o Sweeps(Both)

\* The order of strong_varied_interact.
Calls ==
  Interact \o SqlWorkload \o ParallelBurst \o FuncVerify \o CrossOrg("cross", 2)
    \o SystemWorkload \o EvmWorkload \o CertManage \o Sweeps(Both)
    \o Stop(1) \o OfflineWindow \o OfflineSweeps \o Start(1) \o CatchUpQueries
    \o CrossOrg("post", 1) \o Sweeps(Neither)
    \o ExtraRestartCycle(2, 3) \o ExtraRestartCycle(3, 2)

Waves ==
  {"interact", "sql", "burst", "verify", "cross", "system", "evm", "cert", "sweep", "post", "extra"}

ChainInit ==
  /\ watched \in Waves
  /\ kind \in {"invoke", "query"}
  /\ next = 1
  /\ contracts = [c \in Contracts |-> IF c = "native" THEN "active" ELSE "none"]
  /\ lockedOut = FALSE
  /\ up = Orgs
  /\ created = {}
  /\ spare = 0
  /\ refused = {}

\* What the chain accepts.
Executable(c) ==
  /\ c.org \in up
  /\ c.org = 2 => ~lockedOut
  /\ CASE c.op = "create" -> contracts[c.on] = "none"
       [] c.op \in {"invoke", "query", "upgrade", "freeze"} -> contracts[c.on] = "active"
       [] c.op = "unfreeze" -> contracts[c.on] = "frozen"
       [] c.op = "revoke" -> contracts[c.on] \in {"active", "frozen"}
       [] OTHER -> TRUE

\* What an executed call does to the chain.
Executed(c) ==
  /\ contracts' =
       CASE c.op \in {"create", "unfreeze"} -> [contracts EXCEPT ![c.on] = "active"]
         [] c.op = "freeze" -> [contracts EXCEPT ![c.on] = "frozen"]
         [] c.op = "revoke" -> [contracts EXCEPT ![c.on] = "revoked"]
         [] OTHER -> contracts
  /\ lockedOut' = (IF c.op = "cert_freeze" THEN TRUE
                   ELSE IF c.op = "cert_unfreeze" THEN FALSE ELSE lockedOut)

Watched(c) ==
  /\ c.wave = watched
  /\ (c.op \in {"query", "status"}) <=> (kind = "query")

\* What a workload learned is local to it.
Believed(learned) ==
  IF next < Len(Calls) /\ Calls[next + 1].wave = Calls[next].wave THEN learned ELSE {}

\* cmc: a timeout is a failure, and else the exit status decides.  Nothing
\* that cmc prints is read, and its exit status may be 0 without an execution.
CmcResults(answered) == IF answered THEN BOOLEAN ELSE {FALSE}

\* What is known to exist after a call: resolve_user_addr also looks for the
\* address in the output.
Learned(c, executed, success) ==
  IF success /\ (c.op = "create" \/ (c.op = "resolve" /\ executed))
  THEN created \cup {c.on} ELSE created

\* cmc with the counters of the round around it.
SendCall ==
  /\ next <= Len(Calls)
  /\ Calls[next].op \notin {"stop", "start"}
  /\ Calls[next].needs \subseteq created
  /\ LET c == Calls[next]
         one(happens) == IF Watched(c) /\ happens THEN 1 ELSE 0
     IN \E executed, answered \in BOOLEAN : \E success \in CmcResults(answered) :
          /\ executed => Executable(c)
          /\ IF executed THEN Executed(c) ELSE UNCHANGED <<contracts, lockedOut>>
          /\ created' = Believed(Learned(c, executed, success))
          /\ spare' = spare + one("attempted" \in c.counts)
                           - one(success /\ "accepted" \in c.counts)
          /\ refused' = IF executed THEN refused
                        ELSE refused \cup ({c.op} \cap {"unfreeze", "cert_unfreeze"})
  /\ next' = next + 1
  /\ UNCHANGED <<watched, kind, up>>

\* A call the code leaves out because a contract was not created.
SkipCall ==
  /\ next <= Len(Calls)
  /\ ~(Calls[next].needs \subseteq created)
  /\ next' = next + 1
  /\ created' = Believed(created)
  /\ UNCHANGED <<watched, kind, contracts, lockedOut, up, spare, refused>>

\* stop_org and start_org, which may not bring the process up.
RestartOrg ==
  /\ next <= Len(Calls)
  /\ Calls[next].op \in {"stop", "start"}
  /\ up' \in IF Calls[next].op = "stop" THEN {up \ {Calls[next].org}}
             ELSE {up, up \cup {Calls[next].org}}
  /\ next' = next + 1
  /\ UNCHANGED <<watched, kind, contracts, lockedOut, created, spare, refused>>

ChainNext == SendCall \/ SkipCall \/ RestartOrg
=============================================================================
