----------------------------- MODULE Enforcement -----------------------------
(***************************************************************************)
(* Kernel enforcement while rules change: the collector task that loads    *)
(* the eBPF programs and publishes the Enforcer (main.rs), the pipeline's  *)
(* reload arm (main.rs), the rules watcher (hotreload.rs), load_rules and  *)
(* its key-by-key updates (enforcer.rs), and the tracepoint and LSM        *)
(* programs that read the same maps on behalf of running processes         *)
(* (vectorguard-ebpf).  Every map operation is a step of its own: programs *)
(* run on any CPU between two of the Enforcer's system calls.              *)
(*                                                                         *)
(* Abstractions: a directory is read in one step; the pipeline is taken to *)
(* come back to its select loop (EventPipeline shows what that rests on);  *)
(* processes other than the daemon's own are modelled.                     *)
(***************************************************************************)
EXTENDS Policy

CONSTANTS
  Process,      \* processes that make system calls
  FirstComm,    \* FirstComm[p]: the comm a process starts with
  UidOf,        \* UidOf[p]: the user it runs as
  Dirs,         \* contents the rules directory takes: file -> rules or None
  Builtin,      \* RuleSet::builtin_rules
  MaxEntries,   \* with_max_entries of the three maps
  RingCap       \* raw events that fit into EVENTS

RuleLists == UNION {LoadDir(d, Builtin) : d \in Dirs}

ASSUME EnforcementAssumption ==
  /\ FirstComm \in [Process -> Binary]
  /\ UidOf \in [Process -> Uid]
  /\ \A d \in Dirs : LoadDir(d, Builtin) # {}
  /\ \A rs \in RuleLists : rs \in Seq(Rule)
  /\ MaxEntries \in Nat \ {0} /\ RingCap \in Nat \ {0}

VARIABLES
  \* userspace
  dir,         \* the files in rules_path
  watching,    \* hotreload::watch has registered the directory
  changed,     \* a notification waits in hotreload's channel
  notified,    \* reload_rx.changed() is ready
  cpc,         \* the collector task
  ppc,         \* the main task, then the pipeline task it spawns
  enf,         \* enf_shared holds an Enforcer
  fp,          \* the rules of the pipeline's Fast Path
  load,        \* the call of load_rules in progress
  lastLoaded,  \* history: the rules of the last call that ended
  reloaded,    \* history: the pipeline has called load_rules
  \* kernel
  kmap,        \* BLOCKED_COMMS, BLOCKED_PORTS, BLOCKED_UIDS
  ring,        \* EVENTS
  lsm,         \* attach_lsm found BPF LSM support
  pc, comm,    \* each process: where it is, its comm
  sys,         \* the system call it is in
  should_block,
  signalled,   \* SIGKILL is pending
  audited      \* history: processes whose blocked event was collected

dirVars    == <<dir, watching, changed>>
loaderVars == <<load, lastLoaded, kmap>>
tasks      == <<notified, cpc, ppc, enf, fp, reloaded>>
procVars   == <<pc, comm, sys, should_block, signalled>>
userspace  == <<dirVars, loaderVars, tasks>>
kernel     == <<ring, lsm, procVars, audited>>
vars == <<userspace, kernel>>

-----------------------------------------------------------------------------
NoKeys == [comms |-> {}, ports |-> {}, uids |-> {}]
Idle   == [by |-> "nobody", phase |-> "clear", rules |-> <<>>]

Init ==
  /\ dir \in Dirs
  /\ watching = FALSE /\ changed = FALSE /\ notified = FALSE
  /\ cpc = "boot" /\ ppc = "boot"
  /\ enf = FALSE /\ fp = <<>>
  /\ load = Idle /\ lastLoaded = <<>> /\ reloaded = FALSE
  /\ kmap = NoKeys /\ ring = <<>> /\ lsm = FALSE
  /\ pc = [p \in Process |-> "user"]
  /\ comm = FirstComm
  /\ sys = [p \in Process |-> None]
  /\ should_block = [p \in Process |-> FALSE]
  /\ signalled = [p \in Process |-> FALSE]
  /\ audited = {}

(***************************************************************************)
(* The rules directory and its watcher.                                    *)
(***************************************************************************)
\* A reviewer, the advisor or the reaper writes files, not always other ones.
EditRules(d) ==
  /\ dir' = d
  /\ changed' = (changed \/ watching)
  /\ UNCHANGED <<watching, loaderVars, tasks, kernel>>

Watch ==
  /\ ~watching
  /\ watching' = TRUE
  /\ UNCHANGED <<dir, changed, loaderVars, tasks, kernel>>

\* Slip: nothing is sent to reload_tx.
HotReloadSilently ==
  /\ changed
  /\ changed' = FALSE
  /\ UNCHANGED <<dir, watching, loaderVars, tasks, kernel>>

\* recv, drain, and a config goes to reload_tx, whether it parsed or not.
HotReload ==
  /\ changed
  /\ changed' = FALSE /\ notified' = TRUE
  /\ UNCHANGED <<dir, watching, loaderVars, cpc, ppc, enf, fp, reloaded, kernel>>

(***************************************************************************)
(* Enforcer::load_rules.  One call at a time: the collector's ends before  *)
(* it publishes the Enforcer, and the pipeline's holds the mutex.          *)
(***************************************************************************)
MapOrder == <<"comms", "ports", "uids">>
Loading  == load.by # "nobody"
Target   == compute_block_keys(load.rules)

\* Slip: insert without clearing first.
BeginWithInsert(who, rules) ==
  /\ load' = [by |-> who, phase |-> "insert", rules |-> rules]
  /\ UNCHANGED <<lastLoaded, kmap>>

BeginLoad(who, rules) ==
  /\ load' = [by |-> who, phase |-> "clear", rules |-> rules]
  /\ UNCHANGED <<lastLoaded, kmap>>

\* clear empties one map after the other, a key at a time.
ClearKey ==
  /\ Loading /\ load.phase = "clear"
  /\ \E i \in DOMAIN MapOrder :
       LET m == MapOrder[i]
       IN  /\ \A j \in 1..(i-1) : kmap[MapOrder[j]] = {}
           /\ \E k \in kmap[m] : kmap' = [kmap EXCEPT ![m] = @ \ {k}]
  /\ UNCHANGED <<load, lastLoaded, dirVars, tasks, kernel>>

ClearDone ==
  /\ Loading /\ load.phase = "clear" /\ kmap = NoKeys
  /\ load' = [load EXCEPT !.phase = "insert"]
  /\ UNCHANGED <<lastLoaded, kmap, dirVars, tasks, kernel>>

Inserting(m) ==
  /\ Loading /\ load.phase = "insert"
  /\ Target[m] \ kmap[m] # {}
  /\ \A i, j \in DOMAIN MapOrder :
       MapOrder[i] = m /\ j < i => Target[MapOrder[j]] \subseteq kmap[MapOrder[j]]

InsertKey(m) ==
  /\ Inserting(m)
  /\ Cardinality(kmap[m]) < MaxEntries
  /\ \E k \in Target[m] \ kmap[m] : kmap' = [kmap EXCEPT ![m] = @ \cup {k}]
  /\ UNCHANGED <<load, lastLoaded, dirVars, tasks, kernel>>

\* The caller carries on whether load_rules succeeded or not.
EndLoad ==
  /\ load' = Idle
  /\ lastLoaded' = load.rules
  /\ cpc' = IF load.by = "collector" THEN "publish" ELSE cpc
  /\ ppc' = IF load.by = "pipeline" THEN "idle" ELSE ppc
  /\ UNCHANGED <<kmap, notified, enf, fp, reloaded, dirVars, kernel>>

\* insert(..)? on a full map: the remaining keys are not tried.
InsertFails(m) ==
  /\ Inserting(m)
  /\ Cardinality(kmap[m]) >= MaxEntries
  /\ EndLoad

\* Slip: the user keys are left out.
LoadWithoutUids ==
  /\ Loading /\ load.phase = "insert"
  /\ kmap.comms = Target.comms /\ kmap.ports = Target.ports
  /\ EndLoad

LoadDone ==
  /\ Loading /\ load.phase = "insert" /\ kmap = Target
  /\ EndLoad

LoadStep ==
  \/ ClearKey \/ ClearDone \/ LoadDone
  \/ \E m \in {"comms", "ports", "uids"} : InsertKey(m) \/ InsertFails(m)

(***************************************************************************)
(* The collector task: load and attach the programs, build the Enforcer,   *)
(* load its rules from its own reading of the directory, publish it.       *)
(***************************************************************************)
\* LSM hooks are attached where the kernel supports them.
LoadEbpf ==
  /\ cpc = "boot"
  /\ cpc' = "attached"
  /\ lsm' \in BOOLEAN
  /\ UNCHANGED <<notified, ppc, enf, fp, reloaded, dirVars, loaderVars, ring, procVars, audited>>

LoadEbpfFails ==
  /\ cpc = "boot"
  /\ cpc' = "failed"
  /\ UNCHANGED <<notified, ppc, enf, fp, reloaded, dirVars, loaderVars, kernel>>

EnforcerInit ==
  /\ cpc = "attached"
  /\ cpc' = "loading"
  /\ \E rules \in LoadDir(dir, Builtin) : BeginLoad("collector", rules)
  /\ UNCHANGED <<notified, ppc, enf, fp, reloaded, dirVars, kernel>>

\* from_ebpf failed: events are collected, and nothing is ever enforced.
EnforcerInitFails ==
  /\ cpc = "attached"
  /\ cpc' = "run"
  /\ UNCHANGED <<notified, ppc, enf, fp, reloaded, dirVars, loaderVars, kernel>>

PublishEnforcer ==
  /\ cpc = "publish"
  /\ cpc' = "run" /\ enf' = TRUE
  /\ UNCHANGED <<notified, ppc, fp, reloaded, dirVars, loaderVars, kernel>>

\* run_collector returned an error and Ebpf is dropped: programs and hooks are
\* detached, and what is unread in EVENTS is lost with the map.
CollectorFails ==
  /\ cpc = "run"
  /\ cpc' = "failed"
  /\ ring' = <<>> /\ lsm' = FALSE
  /\ UNCHANGED <<notified, ppc, enf, fp, reloaded, dirVars, loaderVars, procVars, audited>>

\* run_collector takes the oldest raw event off the ring.
Collect ==
  /\ cpc = "run" /\ ring # <<>>
  /\ ring' = Tail(ring)
  /\ audited' = IF Head(ring).blocked THEN audited \cup {Head(ring).pid} ELSE audited
  /\ UNCHANGED <<userspace, lsm, procVars>>

(***************************************************************************)
(* The main task reads the directory for the pipeline's Fast Path; from    *)
(* then on the pipeline's reload arm does, and hands its rules to the      *)
(* Enforcer if there is one by then.                                       *)
(***************************************************************************)
StartPipeline ==
  /\ ppc = "boot"
  /\ ppc' = "idle"
  /\ fp' \in LoadDir(dir, Builtin)
  /\ UNCHANGED <<notified, cpc, enf, reloaded, dirVars, loaderVars, kernel>>

Reload ==
  /\ ppc = "idle" /\ notified
  /\ notified' = FALSE
  /\ fp' \in LoadDir(dir, Builtin)
  /\ ppc' = "enforce"
  /\ UNCHANGED <<cpc, enf, reloaded, dirVars, loaderVars, kernel>>

\* Slip: the Enforcer is given the rules it already has.
ReloadSameRules ==
  /\ ppc = "enforce" /\ enf
  /\ ppc' = "loading"
  /\ reloaded' = TRUE
  /\ BeginLoad("pipeline", lastLoaded)
  /\ UNCHANGED <<notified, cpc, enf, fp, dirVars, kernel>>

ReloadEnforcer ==
  /\ ppc = "enforce" /\ enf
  /\ ppc' = "loading"
  /\ reloaded' = TRUE
  /\ BeginLoad("pipeline", fp)
  /\ UNCHANGED <<notified, cpc, enf, fp, dirVars, kernel>>

ReloadWithoutEnforcer ==
  /\ ppc = "enforce" /\ ~enf
  /\ ppc' = "idle"
  /\ UNCHANGED <<notified, cpc, enf, fp, reloaded, dirVars, loaderVars, kernel>>

(***************************************************************************)
(* The kernel programs, on behalf of process p.  They run from the moment  *)
(* they are attached; a lookup is one step, so that the maps can change    *)
(* between two lookups of the same program.                                *)
(***************************************************************************)
Attached == cpc \notin {"boot", "failed"}

Goto(p, where) == pc' = [pc EXCEPT ![p] = where]

\* A system call enters its tracepoint program; the call is described the way
\* the Fast Path will see it.
Enter(p, type, port, path, hit, where) ==
  /\ Attached /\ pc[p] = "user"
  /\ sys' = [sys EXCEPT ![p] = [type |-> type, binary |-> comm[p], uid |-> UidOf[p],
                                port |-> port, path |-> path, k8s |-> None]]
  /\ should_block' = [should_block EXCEPT ![p] = hit]
  /\ Goto(p, where)
  /\ UNCHANGED <<userspace, ring, lsm, comm, signalled, audited>>

\* comm_is_blocked, the first half of should_block
HandleExec(p) == Enter(p, "Exec", None, None, comm[p] \in kmap.comms, "exec_uid")

\* || uid_is_blocked, the second half
HandleExecUid(p) ==
  /\ pc[p] = "exec_uid"
  /\ should_block' = [should_block EXCEPT ![p] = @ \/ UidOf[p] \in kmap.uids]
  /\ Goto(p, "reserve")
  /\ UNCHANGED <<userspace, ring, lsm, comm, sys, signalled, audited>>

\* openat is reported, never blocked
HandleFileOpen(p, path) == Enter(p, "FileAccess", None, path, FALSE, "reserve")

\* An address that is null, unreadable or not of the internet returns before any
\* of this: such a call changes nothing here.
HandleNetConnect(p, port) ==
  Enter(p, "Network", port, None, port \in kmap.ports, "reserve")

\* After the tracepoint an execve meets the LSM hook, if there is one.
AfterTracepoint(p) == IF sys[p].type = "Exec" /\ lsm THEN "lsm_comm" ELSE "return"

\* EVENTS.reserve .. submit.  A program still running after the collector has
\* failed writes to a ring that nobody will read.
Submit(p) ==
  /\ pc[p] = "reserve" /\ Len(ring) < RingCap
  /\ ring' = IF cpc = "failed" THEN ring
             ELSE Append(ring, [pid |-> p, blocked |-> should_block[p]])
  /\ Goto(p, IF should_block[p] THEN "signal" ELSE AfterTracepoint(p))
  /\ UNCHANGED <<userspace, lsm, comm, sys, should_block, signalled, audited>>

\* Slip: the signal is sent although nothing was reserved.
SignalAnyway(p) ==
  /\ pc[p] = "reserve" /\ (Len(ring) >= RingCap \/ cpc = "failed")
  /\ Goto(p, IF should_block[p] THEN "signal" ELSE AfterTracepoint(p))
  /\ UNCHANGED <<userspace, ring, lsm, comm, sys, should_block, signalled, audited>>

\* reserve found no room, in this ring or in the one that was lost: return Ok(0)
ReserveFails(p) ==
  /\ pc[p] = "reserve" /\ (Len(ring) >= RingCap \/ cpc = "failed")
  /\ Goto(p, AfterTracepoint(p))
  /\ UNCHANGED <<userspace, ring, lsm, comm, sys, should_block, signalled, audited>>

\* bpf_send_signal(9)
SendSignal(p) ==
  /\ pc[p] = "signal"
  /\ signalled' = [signalled EXCEPT ![p] = TRUE]
  /\ Goto(p, AfterTracepoint(p))
  /\ UNCHANGED <<userspace, ring, lsm, comm, sys, should_block, audited>>

LsmComm(p) ==
  /\ pc[p] = "lsm_comm"
  /\ Goto(p, IF comm[p] \in kmap.comms THEN "denied" ELSE "lsm_uid")
  /\ UNCHANGED <<userspace, ring, lsm, comm, sys, should_block, signalled, audited>>

LsmUid(p) ==
  /\ pc[p] = "lsm_uid"
  /\ Goto(p, IF UidOf[p] \in kmap.uids THEN "denied" ELSE "return")
  /\ UNCHANGED <<userspace, ring, lsm, comm, sys, should_block, signalled, audited>>

\* Back to user mode, where a pending SIGKILL takes effect; a completed execve
\* has given the process the comm of another binary.
ReturnToUser(p) ==
  /\ pc[p] \in {"denied", "return"}
  /\ Goto(p, IF signalled[p] THEN "dead" ELSE "user")
  /\ IF pc[p] = "return" /\ sys[p].type = "Exec" /\ ~signalled[p]
     THEN \E b \in Binary : comm' = [comm EXCEPT ![p] = b]
     ELSE UNCHANGED comm
  /\ sys' = [sys EXCEPT ![p] = None]
  /\ should_block' = [should_block EXCEPT ![p] = FALSE]
  /\ UNCHANGED <<userspace, ring, lsm, signalled, audited>>

ProcessStep(p) ==
  \/ HandleExec(p) \/ HandleExecUid(p)
  \/ \E path \in Path : HandleFileOpen(p, path)
  \/ \E port \in Port : HandleNetConnect(p, port)
  \/ Submit(p) \/ ReserveFails(p) \/ SendSignal(p)
  \/ LsmComm(p) \/ LsmUid(p) \/ ReturnToUser(p)

-----------------------------------------------------------------------------
UserStep ==
  \/ Watch \/ HotReload
  \/ LoadEbpf \/ LoadEbpfFails \/ EnforcerInit \/ EnforcerInitFails \/ PublishEnforcer
  \/ CollectorFails \/ Collect
  \/ StartPipeline \/ Reload \/ ReloadEnforcer \/ ReloadWithoutEnforcer
  \/ LoadStep

Next ==
  \/ \E d \in Dirs : EditRules(d)
  \/ UserStep
  \/ \E p \in Process : ProcessStep(p)

Spec == Init /\ [][Next]_vars

\* The daemon's tasks are scheduled; nobody has to edit rules or make calls.
Fairness ==
  /\ WF_vars(HotReload) /\ WF_vars(LoadStep) /\ WF_vars(PublishEnforcer)
  /\ WF_vars(Reload) /\ WF_vars(ReloadEnforcer) /\ WF_vars(ReloadWithoutEnforcer)

FairSpec == Spec /\ Fairness

-----------------------------------------------------------------------------
TypeOK ==
  /\ dir \in Dirs
  /\ watching \in BOOLEAN /\ changed \in BOOLEAN /\ notified \in BOOLEAN
  /\ cpc \in {"boot", "attached", "loading", "publish", "run", "failed"}
  /\ ppc \in {"boot", "idle", "enforce", "loading"}
  /\ enf \in BOOLEAN /\ reloaded \in BOOLEAN
  /\ fp \in RuleLists \cup {<<>>}
  /\ load \in [by : {"nobody", "collector", "pipeline"}, phase : {"clear", "insert"},
               rules : RuleLists \cup {<<>>}]
  /\ lastLoaded \in RuleLists \cup {<<>>}
  /\ DOMAIN kmap = {"comms", "ports", "uids"}
  /\ ring \in Seq([pid : Process, blocked : BOOLEAN]) /\ Len(ring) <= RingCap
  /\ lsm \in BOOLEAN
  /\ pc \in [Process -> {"user", "exec_uid", "reserve", "signal", "lsm_comm",
                         "lsm_uid", "denied", "return", "dead"}]
  /\ comm \in [Process -> Binary]
  /\ sys \in [Process -> Event \cup {None}]
  /\ should_block \in [Process -> BOOLEAN]
  /\ signalled \in [Process -> BOOLEAN]
  /\ audited \subseteq Process

(***************************************************************************)
(* The rules the kernel maps are to be read as: while load_rules clears    *)
(* them, still those of the call before; once it inserts, its own.         *)
(***************************************************************************)
RulesInKernel == IF Loading /\ load.phase = "insert" THEN load.rules ELSE lastLoaded

\* No key outlives the rules it came from: through every partial clear, partial
\* load and failed load the maps hold keys of block rules of one list only.
KeysComeFromRules ==
  \A m \in DOMAIN kmap : kmap[m] \subseteq compute_block_keys(RulesInKernel)[m]

\* Between two calls of load_rules the maps hold all the keys of the last
\* call's rules, up to the first map that was too small for its own.
SettledMapsAreComplete ==
  ~Loading =>
    LET wanted == compute_block_keys(lastLoaded)
    IN  \A i \in DOMAIN MapOrder :
          \/ kmap[MapOrder[i]] = wanted[MapOrder[i]]
          \/ \E j \in 1..i : /\ kmap[MapOrder[j]] # wanted[MapOrder[j]]
                            /\ Cardinality(kmap[MapOrder[j]]) >= MaxEntries

\* A system call is marked as blocked, or an execve denied by the LSM hook, only
\* if the rules in the kernel at that lookup block it, however the lookups of a
\* program and the updates of the maps interleave.
BlockingIsJustified ==
  [][\A p \in Process :
       /\ \/ should_block'[p] /\ ~should_block[p]
          \/ pc'[p] = "denied" /\ pc[p] # "denied"
       /\ KernelExpressible(RulesInKernel)
       =>
         \E i \in FirstMatches(RulesInKernel, sys'[p]) :
           RulesInKernel[i].action = "Block"]_vars

\* As long as the collector has not failed nobody is killed off the record: the
\* raw event that reports the block is in the ring, or was collected, before the
\* signal is sent.  A collector that fails takes the unread events with it.
KillsAreAudited ==
  cpc # "failed" =>
    \A p \in Process : signalled[p] =>
      \/ p \in audited
      \/ \E i \in DOMAIN ring : ring[i].pid = p /\ ring[i].blocked

\* Once the pipeline has reached the Enforcer, kernel and Fast Path are given
\* the same rules by every later reload.
ReloadKeepsKernelInStep ==
  reloaded /\ ppc = "idle" => lastLoaded = fp

\* A change of the rules that the watcher saw reaches the Fast Path, unless it
\* is overtaken by another one.
ChangesReachFastPath ==
  \A d \in Dirs :
    (changed /\ dir = d /\ ppc # "boot") ~> (dir # d \/ fp \in LoadDir(d, Builtin))

\* If the Enforcer is published by then, it reaches the kernel as well.
ChangesReachKernel ==
  \A d \in Dirs :
    (changed /\ dir = d /\ enf /\ ppc # "boot")
      ~> (dir # d \/ lastLoaded \in LoadDir(d, Builtin))

=============================================================================
