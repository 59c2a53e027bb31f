---------------------------- MODULE PolicyProofs ----------------------------
(***************************************************************************)
(* One rule list, its two interpreters and the two machines that run them: *)
(* lemmas about the readings of a rule list, for rule lists and events of  *)
(* any size; then EventPath, for every configuration and every event; then *)
(* Enforcement, for any number of processes and rules and any contents of  *)
(* the rules directory.                                                    *)
(***************************************************************************)
EXTENDS EventPath, Enforcement, SequenceTheorems, WellFoundedInduction, TLAPS

\* A nonempty set of naturals has a least element.
LEMMA LeastElement ==
  ASSUME NEW M \in SUBSET Nat, M # {}
  PROVE  \E f \in M : \A j \in M : f <= j
<1>1. OpToRel(<, Nat) = {ss \in Nat \X Nat : ss[1] < ss[2]}
  BY Zenon DEF OpToRel
<1>2. PICK f \in M : \A j \in M : ~(<<j, f>> \in OpToRel(<, Nat))
  BY NatLessThanWellFounded, WFMin, Zenon
<1>3. ASSUME NEW j \in M
      PROVE  f <= j
  <2>1. <<j, f>> \notin {ss \in Nat \X Nat : ss[1] < ss[2]}
    BY <1>1, <1>2
  <2>. QED
    BY <2>1
<1>. QED
  BY <1>3

\* If any rule matches an event there is a first one that does.
LEMMA FirstMatchExists ==
  ASSUME NEW rules \in Seq(Rule), NEW ev,
         NEW i \in DOMAIN rules, Matches(rules[i], ev)
  PROVE  \E f \in FirstMatches(rules, ev) : f <= i
<1> DEFINE M == {j \in DOMAIN rules : Matches(rules[j], ev)}
<1>1. M \subseteq Nat /\ i \in M
  OBVIOUS
<1>2. PICK f \in M : \A j \in M : f <= j
  BY <1>1, LeastElement
<1>3. f \in FirstMatches(rules, ev)
  <2>1. f \in DOMAIN rules /\ Matches(rules[f], ev)
    OBVIOUS
  <2>2. \A j \in 1..(f-1) : j \in DOMAIN rules /\ ~(f <= j)
    BY <2>1
  <2>. QED
    BY <1>2, <2>1, <2>2 DEF FirstMatches
<1>. QED
  BY <1>2, <1>3, <1>1

\* A single-condition block rule whose key is hit matches the event.
LEMMA KeyOfMatchingRule ==
  ASSUME NEW rules \in Seq(Rule), NEW ev \in Event, KernelExpressible(rules),
         KernelBlocks(compute_block_keys(rules), ev)
  PROVE  \E i \in DOMAIN rules : rules[i].action = "Block" /\ Matches(rules[i], ev)
<1> DEFINE block_keys == compute_block_keys(rules)
<1>1. \A i \in DOMAIN rules : rules[i].action = "Block" => SingleCondition(rules[i])
  BY DEF KernelExpressible
<1>2. \A r \in BlockRules(rules) :
        \E i \in DOMAIN rules : r = rules[i] /\ rules[i].action = "Block"
  BY DEF BlockRules
<1>3. CASE ev.type = "Exec" /\ ev.binary \in block_keys.comms
  <2>1. PICK r \in BlockRules(rules) :
          \E p \in r.match_process : ev.binary = CommKey[p]
    BY <1>3 DEF compute_block_keys
  <2>2. PICK i \in DOMAIN rules : r = rules[i] /\ rules[i].action = "Block"
    BY <1>2, <2>1
  <2>3. Matches(rules[i], ev)
    BY <1>1, <2>1, <2>2 DEF SingleCondition, Matches
  <2>. QED
    BY <2>2, <2>3
<1>4. CASE ev.type = "Exec" /\ ev.uid \in block_keys.uids
  <2>1. PICK r \in BlockRules(rules) : ev.uid = r.match_uid /\ r.match_uid # None
    BY <1>4 DEF compute_block_keys
  <2>2. PICK i \in DOMAIN rules : r = rules[i] /\ rules[i].action = "Block"
    BY <1>2, <2>1
  <2>3. Matches(rules[i], ev)
    BY <1>1, <2>1, <2>2 DEF SingleCondition, Matches
  <2>. QED
    BY <2>2, <2>3
<1>5. CASE ev.type = "Network" /\ ev.port \in block_keys.ports
  <2>1. PICK r \in BlockRules(rules) : ev.port \in r.match_port
    BY <1>5 DEF compute_block_keys
  <2>2. PICK i \in DOMAIN rules : r = rules[i] /\ rules[i].action = "Block"
    BY <1>2, <2>1
  <2>3. Matches(rules[i], ev)
    BY <1>1, <1>5, <2>1, <2>2 DEF SingleCondition, Matches
  <2>. QED
    BY <2>2, <2>3
<1>. QED
  BY <1>3, <1>4, <1>5 DEF KernelBlocks

\* For expressible rule lists the kernel never goes further than the Fast Path:
\* an event that hits a key is decided by a block rule.
LEMMA KernelImpliesFirstMatchBlocks ==
  ASSUME NEW rules \in Seq(Rule), NEW ev \in Event, KernelExpressible(rules),
         KernelBlocks(compute_block_keys(rules), ev)
  PROVE  \E f \in FirstMatches(rules, ev) : rules[f].action = "Block"
<1>1. PICK i \in DOMAIN rules : rules[i].action = "Block" /\ Matches(rules[i], ev)
  BY KeyOfMatchingRule
<1>2. PICK f \in FirstMatches(rules, ev) : f <= i
  BY <1>1, FirstMatchExists
<1>3. f \in DOMAIN rules /\ Matches(rules[f], ev)
  BY DEF FirstMatches
<1>4. CASE f = i
  BY <1>1, <1>4
<1>5. CASE f # i
  <2>1. f \in 1..(i-1)
    BY <1>2, <1>3, <1>5
  <2>. QED
    BY <1>1, <1>3, <2>1 DEF KernelExpressible
<1>. QED
  BY <1>4, <1>5

\* The first match is a rule of the list.
LEMMA FirstMatchIsRule ==
  ASSUME NEW rules \in Seq(Rule), NEW ev, NEW f \in FirstMatches(rules, ev)
  PROVE  rules[f].action \in RuleAction
<1>1. f \in DOMAIN rules
  BY DEF FirstMatches
<1>2. rules[f] \in Rule
  BY <1>1
<1>. QED
  BY <1>2 DEF Rule

\* Two rules cannot both be the first that matches.
LEMMA FirstMatchUnique ==
  ASSUME NEW rules \in Seq(Rule), NEW ev,
         NEW f \in FirstMatches(rules, ev), NEW g \in FirstMatches(rules, ev)
  PROVE  f = g
<1>1. f \in Nat /\ g \in Nat /\ f >= 1 /\ g >= 1
  BY DEF FirstMatches
<1>2. ~(f \in 1..(g-1)) /\ ~(g \in 1..(f-1))
  BY DEF FirstMatches
<1>. QED
  BY <1>1, <1>2

\* Rule actions map to event actions, and only Block maps to Blocked.
LEMMA ToActionValues ==
  ASSUME NEW a \in RuleAction
  PROVE  ToAction(a) \in Action /\ (ToAction(a) = "Blocked" <=> a = "Block")
BY DEF ToAction, RuleAction, Action

\* The verdict of an enabled Fast Path on an event that a rule matches.
LEMMA VerdictOfFirstMatch ==
  ASSUME NEW policy, policy.rules \in Seq(Rule), policy.enabled, NEW ev, NEW given,
         NEW f \in FirstMatches(policy.rules, ev)
  PROVE  Evaluate(policy, ev, given) = ToAction(policy.rules[f].action)
<1>1. (CHOOSE i \in FirstMatches(policy.rules, ev) : TRUE) \in FirstMatches(policy.rules, ev)
  OBVIOUS
<1>2. (CHOOSE i \in FirstMatches(policy.rules, ev) : TRUE) = f
  BY <1>1, FirstMatchUnique
<1>. QED
  BY <1>2, Zenon DEF Evaluate

\* Nor does it stop short of an execve that a block rule decides.
LEMMA FirstMatchBlocksExecInKernel ==
  ASSUME NEW rules \in Seq(Rule), NEW ev \in Event, KernelExpressible(rules),
         NEW f \in FirstMatches(rules, ev), rules[f].action = "Block",
         ev.type = "Exec"
  PROVE  KernelBlocks(compute_block_keys(rules), ev)
<1> DEFINE r == rules[f]
<1>1. f \in DOMAIN rules /\ Matches(r, ev) /\ r \in Rule
  BY DEF FirstMatches
<1>2. SingleCondition(r)
  BY <1>1 DEF KernelExpressible
<1>3. r \in BlockRules(rules)
  BY <1>1 DEF BlockRules
<1>4. r.match_port = {}
  BY <1>1 DEF Matches
<1>5. CASE r.match_process # {}
  <2>1. PICK p \in r.match_process : ev.binary \in Covers[p]
    BY <1>1, <1>5 DEF Matches
  <2>2. ev.binary = CommKey[p]
    BY <1>2, <1>5, <2>1 DEF SingleCondition
  <2>3. ev.binary \in compute_block_keys(rules).comms
    BY <1>3, <2>2 DEF compute_block_keys
  <2>. QED
    BY <2>3 DEF KernelBlocks
<1>6. CASE r.match_process = {}
  <2>1. r.match_uid # None
    BY <1>2, <1>4, <1>6 DEF SingleCondition
  <2>2. ev.uid = r.match_uid
    BY <1>1, <2>1 DEF Matches
  <2>3. ev.uid \in compute_block_keys(rules).uids
    BY <1>3, <2>1, <2>2 DEF compute_block_keys
  <2>. QED
    BY <2>3 DEF KernelBlocks
<1>. QED
  BY <1>5, <1>6

-----------------------------------------------------------------------------
(***************************************************************************)
(* EventPath: the event path is well typed, and on expressible rule lists  *)
(* the kernel and the Fast Path agree.                                     *)
(***************************************************************************)

(***************************************************************************)
(* What is known of the event in flight at each stage.                     *)
(***************************************************************************)
Known ==
  /\ stage = "idle" => call = None /\ blocked = FALSE
  /\ stage = "raw" => call \in Syscalls /\ blocked = KernelBlocks(keys, Probe(call))
  /\ stage \in {"normalized", "judged"} =>
       /\ event \in Event
       /\ call = None => blocked = FALSE
       /\ call # None => blocked = KernelBlocks(keys, event)
  /\ Judged => \E a \in Action : action = Evaluate(fast_path, event, a)

PathIInv == PathTypeOK /\ Known

LEMMA FastPathFields ==
  ASSUME NEW f \in FastPaths
  PROVE  /\ f.rules \in Seq(Rule) /\ f.enabled \in BOOLEAN
         /\ f.default_action \in {"Blocked", "Alerted", "Logged"}
<1> DEFINE D == {"Blocked", "Alerted", "Logged"}
           R == {g.rules : g \in FastPaths}
<1>1. f \in [rules : R, default_action : D, enabled : BOOLEAN]
  BY EventPathAssumption
<1>2. f.enabled \in BOOLEAN /\ f.default_action \in D
  BY <1>1
<1>. QED
  BY <1>2, EventPathAssumption

\* A verdict is an action of the event type, whatever was given before.
LEMMA EvaluateType ==
  ASSUME NEW f \in FastPaths, NEW ev, NEW a \in Action
  PROVE  Evaluate(f, ev, a) \in Action
<1>1. /\ f.rules \in Seq(Rule) /\ f.enabled \in BOOLEAN
      /\ f.default_action \in Action
  BY FastPathFields DEF Action
<1>2. CASE ~f.enabled
  BY <1>2 DEF Evaluate
<1>3. CASE f.enabled /\ FirstMatches(f.rules, ev) = {}
  BY <1>1, <1>3 DEF Evaluate
<1>4. CASE f.enabled /\ FirstMatches(f.rules, ev) # {}
  <2>1. PICK i \in FirstMatches(f.rules, ev) : TRUE
    BY <1>4
  <2>2. Evaluate(f, ev, a) = ToAction(f.rules[i].action)
    BY <1>1, <1>4, <2>1, VerdictOfFirstMatch
  <2>3. f.rules[i].action \in RuleAction
    BY <1>1, <2>1, FirstMatchIsRule
  <2>. QED
    BY <2>2, <2>3, ToActionValues
<1>. QED
  BY <1>1, <1>2, <1>3, <1>4

\* The event that parse_raw_event makes of a system call.
LEMMA NormalizedIsEvent ==
  ASSUME NEW s \in Syscalls
  PROVE  [type |-> s.type, binary |-> s.comm, uid |-> s.uid, port |-> s.port,
          k8s |-> None,
          path |-> IF s.type = "FileAccess" THEN s.path ELSE None] \in Event
<1>1. s \in Syscall
  BY EventPathAssumption
<1>. QED
  BY <1>1, PolicyAssumption DEF Syscall, Event, EventType, K8sMeta

LEMMA InitPathIInv == PathInit => PathIInv
BY FastPathFields DEF PathInit, PathIInv, PathTypeOK, Known, Judged, Action

LEMMA StepPathIInv == PathIInv /\ [PathNext]_pathVars => PathIInv'
<1> SUFFICES ASSUME PathIInv, [PathNext]_pathVars PROVE PathIInv'
  OBVIOUS
<1>. USE DEF PathIInv
<1>1. ASSUME NEW s \in Syscalls, Trace(s) PROVE PathIInv'
  BY <1>1, EventPathAssumption
  DEF PathTypeOK, Known, Judged, Trace, config, KernelBlocks
<1>2. ASSUME NEW e \in Reports, Report(e) PROVE PathIInv'
  BY <1>2, EventPathAssumption DEF PathTypeOK, Known, Judged, Report, config, Action
<1>3. CASE Normalize
  <2>1. event' \in Event
    BY <1>3, NormalizedIsEvent DEF Normalize, Known
  <2>2. PathTypeOK'
    BY <1>3, <2>1 DEF PathTypeOK, Normalize, config, Action
  <2>3. KernelBlocks(keys, event') = KernelBlocks(keys, Probe(call))
    BY <1>3 DEF Normalize, KernelBlocks, Probe
  <2>. QED
    BY <1>3, <2>1, <2>2, <2>3, EventPathAssumption
    DEF Known, Judged, Normalize, config
<1>4. CASE Judge
  <2>1. action' \in Action
    BY <1>4, EvaluateType DEF Judge, PathTypeOK
  <2>2. PathTypeOK'
    BY <1>4, <2>1 DEF PathTypeOK, Judge, Finish, config
  <2>. QED
    BY <1>4, <2>2 DEF Known, Judged, PathTypeOK, Judge, Finish, config
<1>5. CASE Forget
  BY <1>5 DEF PathTypeOK, Known, Judged, Forget, Finish, config, Action
<1>6. CASE UNCHANGED pathVars
  BY <1>6 DEF PathTypeOK, Known, Judged, pathVars
<1>. QED
  BY <1>1, <1>2, <1>3, <1>4, <1>5, <1>6 DEF PathNext, OutOfScope, Forward

LEMMA PathInvariant == PathSpec => []PathIInv
BY InitPathIInv, StepPathIInv, PTL DEF PathSpec

\* Every state of the event path is well typed.
THEOREM PathTypeCorrect == PathSpec => []PathTypeOK
BY PathInvariant, PTL DEF PathIInv

\* On rule lists the kernel keys can express, every system call the kernel
\* programs block is one the Fast Path calls blocked.
THEOREM KernelIsNoStricter == PathSpec => []KernelBlocksOnlyBlocked
<1>1. PathIInv => KernelBlocksOnlyBlocked
  <2> SUFFICES ASSUME PathIInv, Judged, KernelExpressible(fast_path.rules), blocked
               PROVE  action = "Blocked"
    BY DEF KernelBlocksOnlyBlocked
  <2>1. fast_path.rules \in Seq(Rule) /\ fast_path.enabled
    BY FastPathFields DEF PathIInv, PathTypeOK, Judged
  <2>2. event \in Event /\ KernelBlocks(compute_block_keys(fast_path.rules), event)
    BY DEF PathIInv, PathTypeOK, Known, Judged
  <2>3. PICK f \in FirstMatches(fast_path.rules, event) : fast_path.rules[f].action = "Block"
    BY <2>1, <2>2, KernelImpliesFirstMatchBlocks
  <2>4. PICK a \in Action : action = Evaluate(fast_path, event, a)
    BY DEF PathIInv, Known
  <2>5. Evaluate(fast_path, event, a) = ToAction(fast_path.rules[f].action)
    BY <2>1, <2>3, VerdictOfFirstMatch
  <2>. QED
    BY <2>3, <2>4, <2>5, ToActionValues DEF RuleAction
<1>. QED
  BY <1>1, PathInvariant, PTL

\* On the same rule lists, every execve that a block rule decides is one the
\* kernel programs block.
THEOREM KernelIsNoLaxer == PathSpec => []KernelBlocksEveryBlockedExec
<1>1. PathIInv => KernelBlocksEveryBlockedExec
  <2> SUFFICES ASSUME PathIInv, Judged, KernelExpressible(fast_path.rules), call # None,
                      event.type = "Exec", FirstMatches(fast_path.rules, event) # {},
                      action = "Blocked"
               PROVE  blocked
    BY DEF KernelBlocksEveryBlockedExec
  <2>1. fast_path.rules \in Seq(Rule) /\ fast_path.enabled
    BY FastPathFields DEF PathIInv, PathTypeOK, Judged
  <2>2. event \in Event /\ blocked = KernelBlocks(compute_block_keys(fast_path.rules), event)
    BY DEF PathIInv, PathTypeOK, Known, Judged
  <2>3. PICK f \in FirstMatches(fast_path.rules, event) : TRUE
    OBVIOUS
  <2>4. PICK a \in Action : action = Evaluate(fast_path, event, a)
    BY DEF PathIInv, Known
  <2>5. Evaluate(fast_path, event, a) = ToAction(fast_path.rules[f].action)
    BY <2>1, <2>3, VerdictOfFirstMatch
  <2>6. fast_path.rules[f].action \in RuleAction
    BY <2>1, <2>3, FirstMatchIsRule
  <2>7. fast_path.rules[f].action = "Block"
    BY <2>4, <2>5, <2>6, ToActionValues
  <2>. QED
    BY <2>1, <2>2, <2>3, <2>7, FirstMatchBlocksExecInKernel
<1>. QED
  BY <1>1, PathInvariant, PTL

-----------------------------------------------------------------------------
(***************************************************************************)
(* Enforcement: block maps, audit trail and signals.                       *)
(***************************************************************************)

(***************************************************************************)
(* Type correctness.                                                       *)
(***************************************************************************)
LEMMA LoadDirIsRuleList ==
  ASSUME NEW d \in Dirs, NEW rules \in LoadDir(d, Builtin)
  PROVE  rules \in RuleLists
BY DEF RuleLists

LEMMA InitTypeOK == Init => TypeOK
<1> SUFFICES ASSUME Init PROVE TypeOK
  OBVIOUS
<1>1. /\ should_block \in [Process -> BOOLEAN] /\ signalled \in [Process -> BOOLEAN]
      /\ {watching, changed, notified, enf, reloaded, lsm} \subseteq BOOLEAN
  BY DEF Init
<1>2. /\ load \in [by : {"nobody", "collector", "pipeline"}, phase : {"clear", "insert"},
                  rules : RuleLists \cup {<<>>}]
      /\ DOMAIN kmap = {"comms", "ports", "uids"}
  BY DEF Init, Idle, NoKeys
<1>3. ring \in Seq([pid : Process, blocked : BOOLEAN]) /\ Len(ring) <= RingCap
  BY EnforcementAssumption DEF Init
<1>4. /\ dir \in Dirs /\ cpc = "boot" /\ ppc = "boot"
      /\ fp = <<>> /\ lastLoaded = <<>> /\ audited = {}
      /\ pc = [p \in Process |-> "user"] /\ comm \in [Process -> Binary]
      /\ sys = [p \in Process |-> None]
  BY EnforcementAssumption DEF Init
<1>. QED
  BY <1>1, <1>2, <1>3, <1>4 DEF TypeOK

\* The records a system call enters its program with are events.
LEMMA SyscallIsEvent ==
  ASSUME NEW b \in Binary, NEW u \in Uid, NEW type \in EventType,
         NEW port \in Port \cup {None}, NEW path \in Path \cup {None},
         port # None <=> type = "Network", path # None <=> type = "FileAccess"
  PROVE  [type |-> type, binary |-> b, uid |-> u, port |-> port,
          path |-> path, k8s |-> None] \in Event
BY DEF Event

LEMMA EnterType ==
  ASSUME TypeOK, NEW p \in Process, NEW type \in EventType,
         NEW port \in Port \cup {None}, NEW path \in Path \cup {None},
         port # None <=> type = "Network", path # None <=> type = "FileAccess",
         NEW hit \in BOOLEAN, NEW where \in {"exec_uid", "reserve"},
         Enter(p, type, port, path, hit, where)
  PROVE  TypeOK'
<1> DEFINE e == [type |-> type, binary |-> comm[p], uid |-> UidOf[p],
                 port |-> port, path |-> path, k8s |-> None]
<1>1. e \in Event
  <2>1. comm[p] \in Binary /\ UidOf[p] \in Uid
    BY EnforcementAssumption DEF TypeOK
  <2>. QED
    BY <2>1, SyscallIsEvent
<1>2. sys' = [sys EXCEPT ![p] = e]
  BY DEF Enter
<1>3. sys' \in [Process -> Event \cup {None}]
  BY <1>1, <1>2 DEF TypeOK
<1>. QED
  BY <1>3 DEF TypeOK, Enter, Goto, userspace, dirVars, loaderVars, tasks

LEMMA EndLoadType == ASSUME TypeOK, EndLoad PROVE TypeOK'
BY DEF TypeOK, EndLoad, Idle, dirVars, kernel, procVars

LEMMA LoadStepType == ASSUME TypeOK, LoadStep PROVE TypeOK'
<1>. USE DEF dirVars, tasks, kernel, procVars
<1>1. CASE ClearKey
  BY <1>1 DEF TypeOK, ClearKey
<1>2. CASE ClearDone
  BY <1>2 DEF TypeOK, ClearDone
<1>3. ASSUME NEW m \in {"comms", "ports", "uids"}, InsertKey(m) PROVE TypeOK'
  BY <1>3 DEF TypeOK, InsertKey
<1>4. ASSUME NEW m \in {"comms", "ports", "uids"}, InsertFails(m) PROVE TypeOK'
  BY <1>4, EndLoadType DEF InsertFails
<1>5. CASE LoadDone
  BY <1>5, EndLoadType DEF LoadDone
<1>. QED
  BY <1>1, <1>2, <1>3, <1>4, <1>5 DEF LoadStep

LEMMA ProcessStepType ==
  ASSUME TypeOK, NEW p \in Process, ProcessStep(p) PROVE TypeOK'
<1>. USE DEF userspace, dirVars, loaderVars, tasks, Goto
<1>0. None \notin Port /\ None \notin Path
  BY PolicyAssumption
<1>1. CASE HandleExec(p)
  <2> DEFINE hit == comm[p] \in kmap.comms
  <2>1. hit \in BOOLEAN
    OBVIOUS
  <2>2. Enter(p, "Exec", None, None, hit, "exec_uid")
    BY <1>1 DEF HandleExec
  <2> HIDE DEF hit
  <2>. QED
    BY <2>1, <2>2, EnterType DEF EventType
<1>2. CASE HandleExecUid(p)
  BY <1>2 DEF TypeOK, HandleExecUid
<1>3. ASSUME NEW path \in Path, HandleFileOpen(p, path) PROVE TypeOK'
  BY <1>0, <1>3, EnterType DEF HandleFileOpen, EventType
<1>4. ASSUME NEW port \in Port, HandleNetConnect(p, port) PROVE TypeOK'
  <2> DEFINE hit == port \in kmap.ports
  <2>1. hit \in BOOLEAN
    OBVIOUS
  <2>2. Enter(p, "Network", port, None, hit, "reserve")
    BY <1>4 DEF HandleNetConnect
  <2> HIDE DEF hit
  <2>. QED
    BY <1>0, <2>1, <2>2, EnterType DEF EventType
<1>5. CASE Submit(p)
  <2>1. ring' \in Seq([pid : Process, blocked : BOOLEAN]) /\ Len(ring') <= RingCap
    <3> DEFINE new == [pid |-> p, blocked |-> should_block[p]]
    <3>1. ring' = ring \/ ring' = Append(ring, new)
      BY <1>5 DEF Submit
    <3>2. new \in [pid : Process, blocked : BOOLEAN] /\ Len(ring) < RingCap
      BY <1>5 DEF Submit, TypeOK
    <3>3. ring \in Seq([pid : Process, blocked : BOOLEAN])
      BY DEF TypeOK
    <3> HIDE DEF new
    <3>4. Len(ring) + 1 <= RingCap /\ Len(ring) <= RingCap
      BY <3>2, <3>3, EnforcementAssumption, LenProperties
    <3>5. /\ Append(ring, new) \in Seq([pid : Process, blocked : BOOLEAN])
          /\ Len(Append(ring, new)) = Len(ring) + 1
      BY <3>2, <3>3, AppendProperties
    <3>. QED
      BY <3>1, <3>3, <3>4, <3>5
  <2>. QED
    BY <1>5, <2>1 DEF TypeOK, Submit, AfterTracepoint
<1>6. CASE ReserveFails(p)
  BY <1>6 DEF TypeOK, ReserveFails, AfterTracepoint
<1>7. CASE SendSignal(p)
  BY <1>7 DEF TypeOK, SendSignal, AfterTracepoint
<1>8. CASE LsmComm(p)
  BY <1>8 DEF TypeOK, LsmComm
<1>9. CASE LsmUid(p)
  BY <1>9 DEF TypeOK, LsmUid
<1>10. CASE ReturnToUser(p)
  BY <1>10 DEF TypeOK, ReturnToUser
<1>. QED
  BY <1>1, <1>2, <1>3, <1>4, <1>5, <1>6, <1>7, <1>8, <1>9, <1>10 DEF ProcessStep

LEMMA StepTypeOK == TypeOK /\ [Next]_vars => TypeOK'
<1> SUFFICES ASSUME TypeOK, [Next]_vars PROVE TypeOK'
  OBVIOUS
<1>. USE DEF userspace, dirVars, loaderVars, tasks, kernel, procVars
<1>1. ASSUME NEW d \in Dirs, EditRules(d) PROVE TypeOK'
  BY <1>1 DEF TypeOK, EditRules
<1>2. CASE Watch
  BY <1>2 DEF TypeOK, Watch
<1>3. CASE HotReload
  <2>1. changed' \in BOOLEAN /\ notified' \in BOOLEAN
    BY <1>3 DEF HotReload
  <2>2. UNCHANGED <<dir, watching, loaderVars, cpc, ppc, enf, fp, reloaded, kernel>>
    BY <1>3 DEF HotReload
  <2>. QED
    BY <2>1, <2>2 DEF TypeOK
<1>4. CASE LoadEbpf
  BY <1>4 DEF TypeOK, LoadEbpf
<1>5. CASE LoadEbpfFails
  BY <1>5 DEF TypeOK, LoadEbpfFails
<1>6. CASE EnforcerInit
  BY <1>6, LoadDirIsRuleList DEF TypeOK, EnforcerInit, BeginLoad
<1>7. CASE PublishEnforcer
  BY <1>7 DEF TypeOK, PublishEnforcer
<1>8. CASE EnforcerInitFails
  BY <1>8 DEF TypeOK, EnforcerInitFails
<1>15. CASE CollectorFails
  <2>1. ring' = <<>> /\ cpc' = "failed" /\ lsm' = FALSE
    BY <1>15 DEF CollectorFails
  <2>2. ring' \in Seq([pid : Process, blocked : BOOLEAN]) /\ Len(ring') <= RingCap
    BY <2>1, EnforcementAssumption, EmptySeq
  <2>3. UNCHANGED <<notified, ppc, enf, fp, reloaded, dirVars, loaderVars, procVars, audited>>
    BY <1>15 DEF CollectorFails
  <2>4. cpc' \in {"boot", "attached", "loading", "publish", "run", "failed"}
          /\ lsm' \in BOOLEAN
    BY <2>1
  <2>. QED
    BY <2>2, <2>3, <2>4 DEF TypeOK
<1>9. CASE Collect
  <2>1. ring' \in Seq([pid : Process, blocked : BOOLEAN]) /\ Len(ring') <= RingCap
    BY <1>9, EnforcementAssumption DEF TypeOK, Collect
  <2>2. Head(ring) \in [pid : Process, blocked : BOOLEAN]
    BY <1>9, HeadTailProperties DEF TypeOK, Collect
  <2>. QED
    BY <1>9, <2>1, <2>2 DEF TypeOK, Collect
<1>10. CASE StartPipeline
  BY <1>10, LoadDirIsRuleList DEF TypeOK, StartPipeline
<1>11. CASE Reload
  <2>1. notified' \in BOOLEAN
    BY <1>11 DEF Reload
  <2>2. /\ fp' \in RuleLists /\ ppc' = "enforce"
        /\ UNCHANGED <<cpc, enf, reloaded, dirVars, loaderVars, kernel>>
    BY <1>11, LoadDirIsRuleList DEF TypeOK, Reload
  <2>. QED
    BY <2>1, <2>2 DEF TypeOK
<1>12. CASE ReloadEnforcer
  BY <1>12 DEF TypeOK, ReloadEnforcer, BeginLoad
<1>13. CASE ReloadWithoutEnforcer
  BY <1>13 DEF TypeOK, ReloadWithoutEnforcer
<1>14. CASE UNCHANGED vars
  BY <1>14 DEF TypeOK, vars
<1>. QED
  BY <1>1, <1>2, <1>3, <1>4, <1>5, <1>6, <1>7, <1>8, <1>9, <1>10, <1>11, <1>12,
     <1>13, <1>14, <1>15, LoadStepType, ProcessStepType DEF Next, UserStep

\* Every state of the enforcement machinery is well typed.
THEOREM TypeCorrect == Spec => []TypeOK
BY InitTypeOK, StepTypeOK, PTL DEF Spec

(***************************************************************************)
(* The two tasks and the call of load_rules in progress: at most one task  *)
(* is in load_rules, because the pipeline only calls it on a published     *)
(* Enforcer.                                                               *)
(***************************************************************************)
Tasks ==
  /\ load.by = "collector" <=> cpc = "loading"
  /\ load.by = "pipeline" <=> ppc = "loading"
  /\ ppc = "loading" => load.rules = fp
  /\ enf => cpc \in {"run", "failed"}
  /\ ppc = "loading" \/ reloaded => enf
  /\ reloaded => ppc # "boot"

LEMMA InitTasks == Init => Tasks
BY DEF Init, Tasks, Idle

LEMMA StepTasks == TypeOK /\ Tasks /\ [Next]_vars => Tasks'
<1> SUFFICES ASSUME TypeOK, Tasks, [Next]_vars PROVE Tasks'
  OBVIOUS
<1>. USE DEF userspace, dirVars, loaderVars, tasks, kernel, procVars
<1>1. CASE EnforcerInit
  BY <1>1 DEF TypeOK, Tasks, EnforcerInit, BeginLoad
<1>2. CASE ReloadEnforcer
  BY <1>2 DEF TypeOK, Tasks, ReloadEnforcer, BeginLoad
<1>3. CASE EndLoad /\ Loading
  BY <1>3 DEF TypeOK, Tasks, EndLoad, Idle, Loading
<1>4. ASSUME load'.by = load.by, load'.rules = load.rules, UNCHANGED tasks
      PROVE  Tasks'
  BY <1>4 DEF Tasks
<1>5. CASE LoadStep
  <2>1. CASE ClearDone
    BY <1>4, <2>1 DEF TypeOK, ClearDone
  <2>2. CASE ClearKey \/ \E m \in {"comms", "ports", "uids"} : InsertKey(m)
    BY <1>4, <2>2 DEF ClearKey, InsertKey
  <2>3. CASE LoadDone \/ \E m \in {"comms", "ports", "uids"} : InsertFails(m)
    BY <1>3, <2>3 DEF LoadDone, InsertFails, Inserting
  <2>. QED
    BY <1>5, <2>1, <2>2, <2>3 DEF LoadStep
<1>6. CASE LoadEbpf \/ LoadEbpfFails \/ EnforcerInitFails \/ PublishEnforcer
             \/ CollectorFails
  BY <1>6
  DEF TypeOK, Tasks, LoadEbpf, LoadEbpfFails, EnforcerInitFails, PublishEnforcer,
      CollectorFails
<1>7. CASE StartPipeline \/ Reload \/ ReloadWithoutEnforcer
  BY <1>7 DEF TypeOK, Tasks, StartPipeline, Reload, ReloadWithoutEnforcer
<1>8. CASE Watch \/ HotReload \/ Collect \/ \E d \in Dirs : EditRules(d)
  BY <1>8 DEF Tasks, Watch, HotReload, Collect, EditRules
<1>9. ASSUME NEW p \in Process, ProcessStep(p) PROVE Tasks'
  BY <1>4, <1>9
  DEF ProcessStep, HandleExec, HandleExecUid, HandleFileOpen, HandleNetConnect,
      Enter, Submit, ReserveFails, SendSignal, LsmComm, LsmUid, ReturnToUser
<1>10. CASE UNCHANGED vars
  BY <1>10 DEF Tasks, vars
<1>. QED
  BY <1>1, <1>2, <1>5, <1>6, <1>7, <1>8, <1>9, <1>10 DEF Next, UserStep

\* Neither task enters load_rules while the other is in it.
LEMMA LoadsStartAlone ==
  ASSUME TypeOK, Tasks, EnforcerInit \/ ReloadEnforcer PROVE ~Loading
BY DEF TypeOK, Tasks, EnforcerInit, ReloadEnforcer, Loading

(***************************************************************************)
(* ReloadKeepsKernelInStep                                                 *)
(***************************************************************************)
LEMMA StepInStep ==
  TypeOK /\ Tasks /\ ReloadKeepsKernelInStep /\ [Next]_vars
    => ReloadKeepsKernelInStep'
<1> SUFFICES ASSUME TypeOK, Tasks, ReloadKeepsKernelInStep, [Next]_vars
             PROVE  ReloadKeepsKernelInStep'
  OBVIOUS
<1>. USE DEF userspace, dirVars, loaderVars, tasks, kernel, procVars
<1>1. ASSUME UNCHANGED <<ppc, fp, reloaded, lastLoaded>>
      PROVE  ReloadKeepsKernelInStep'
  BY <1>1 DEF ReloadKeepsKernelInStep
<1>2. CASE EndLoad /\ Loading
  BY <1>2 DEF TypeOK, Tasks, EndLoad, Loading, ReloadKeepsKernelInStep
<1>3. CASE LoadStep
  <2>1. CASE ClearDone \/ ClearKey \/ \E m \in {"comms", "ports", "uids"} : InsertKey(m)
    BY <1>1, <2>1 DEF ClearKey, ClearDone, InsertKey
  <2>2. CASE LoadDone \/ \E m \in {"comms", "ports", "uids"} : InsertFails(m)
    BY <1>2, <2>2 DEF LoadDone, InsertFails, Inserting
  <2>. QED
    BY <1>3, <2>1, <2>2 DEF LoadStep
<1>4. CASE EnforcerInit \/ ReloadEnforcer
  BY <1>4 DEF EnforcerInit, ReloadEnforcer, BeginLoad, ReloadKeepsKernelInStep
<1>5. CASE LoadEbpf \/ LoadEbpfFails \/ EnforcerInitFails \/ PublishEnforcer
             \/ CollectorFails
  BY <1>1, <1>5
  DEF LoadEbpf, LoadEbpfFails, EnforcerInitFails, PublishEnforcer, CollectorFails
<1>6. CASE StartPipeline
  BY <1>6 DEF TypeOK, Tasks, StartPipeline, ReloadKeepsKernelInStep
<1>7. CASE Reload \/ ReloadWithoutEnforcer
  BY <1>7 DEF Tasks, Reload, ReloadWithoutEnforcer, ReloadKeepsKernelInStep
<1>8. CASE Watch \/ HotReload \/ Collect \/ \E d \in Dirs : EditRules(d)
  BY <1>1, <1>8 DEF Watch, HotReload, Collect, EditRules
<1>9. ASSUME NEW p \in Process, ProcessStep(p) PROVE ReloadKeepsKernelInStep'
  BY <1>1, <1>9
  DEF ProcessStep, HandleExec, HandleExecUid, HandleFileOpen, HandleNetConnect,
      Enter, Submit, ReserveFails, SendSignal, LsmComm, LsmUid, ReturnToUser
<1>10. CASE UNCHANGED vars
  BY <1>1, <1>10 DEF vars
<1>. QED
  BY <1>3, <1>4, <1>5, <1>6, <1>7, <1>8, <1>9, <1>10 DEF Next, UserStep

(***************************************************************************)
(* The kernel maps.                                                        *)
(***************************************************************************)
LEMMA NoRulesNoKeys == compute_block_keys(<<>>) = NoKeys
<1>1. BlockRules(<<>>) = {}
  BY DEF BlockRules
<1>. QED
  BY <1>1 DEF compute_block_keys, NoKeys

LEMMA KeysDomain ==
  ASSUME NEW rules
  PROVE  DOMAIN compute_block_keys(rules) = {"comms", "ports", "uids"}
BY DEF compute_block_keys

\* A call of load_rules ends with the maps holding keys of its own rules.
LEMMA EndLoadKeys ==
  ASSUME TypeOK, KeysComeFromRules, Loading, load.phase = "insert", EndLoad
  PROVE  KeysComeFromRules'
BY DEF TypeOK, KeysComeFromRules, RulesInKernel, Loading, EndLoad, Idle

LEMMA StepKeys ==
  TypeOK /\ Tasks /\ KeysComeFromRules /\ [Next]_vars => KeysComeFromRules'
<1> SUFFICES ASSUME TypeOK, Tasks, KeysComeFromRules, [Next]_vars
             PROVE  KeysComeFromRules'
  OBVIOUS
<1>. USE DEF userspace, dirVars, loaderVars, tasks, kernel, procVars
<1>1. ASSUME UNCHANGED <<load, lastLoaded, kmap>> PROVE KeysComeFromRules'
  BY <1>1 DEF KeysComeFromRules, RulesInKernel, Loading
<1>2. CASE ClearKey
  <2>1. RulesInKernel' = RulesInKernel
    BY <1>2 DEF ClearKey, RulesInKernel, Loading
  <2>2. DOMAIN kmap' = DOMAIN kmap /\ \A m \in DOMAIN kmap : kmap'[m] \subseteq kmap[m]
    BY <1>2 DEF ClearKey, TypeOK, MapOrder
  <2>. QED
    BY <2>1, <2>2 DEF KeysComeFromRules
<1>3. CASE ClearDone
  <2>1. \A m \in DOMAIN kmap' : kmap'[m] = {}
    BY <1>3 DEF ClearDone, NoKeys
  <2>. QED
    BY <2>1 DEF KeysComeFromRules
<1>4. ASSUME NEW m \in {"comms", "ports", "uids"}, InsertKey(m)
      PROVE  KeysComeFromRules'
  <2>1. RulesInKernel' = RulesInKernel /\ RulesInKernel = load.rules
    BY <1>4 DEF InsertKey, Inserting, RulesInKernel, Loading
  <2>2. PICK k \in Target[m] : kmap' = [kmap EXCEPT ![m] = @ \cup {k}]
    BY <1>4 DEF InsertKey
  <2>. QED
    BY <2>1, <2>2 DEF KeysComeFromRules, Target, TypeOK
<1>5. CASE LoadDone \/ \E m \in {"comms", "ports", "uids"} : InsertFails(m)
  BY <1>5, EndLoadKeys DEF LoadDone, InsertFails, Inserting
<1>6. CASE EnforcerInit \/ ReloadEnforcer
  <2>1. RulesInKernel' = lastLoaded /\ UNCHANGED kmap
    BY <1>6 DEF EnforcerInit, ReloadEnforcer, BeginLoad, RulesInKernel
  <2>2. RulesInKernel = lastLoaded
    BY <1>6, LoadsStartAlone DEF RulesInKernel
  <2>. QED
    BY <2>1, <2>2 DEF KeysComeFromRules
<1>7. CASE LoadEbpf \/ LoadEbpfFails \/ EnforcerInitFails \/ PublishEnforcer
             \/ CollectorFails
  BY <1>1, <1>7
  DEF LoadEbpf, LoadEbpfFails, EnforcerInitFails, PublishEnforcer, CollectorFails
<1>8. CASE StartPipeline \/ Reload \/ ReloadWithoutEnforcer
  BY <1>1, <1>8 DEF StartPipeline, Reload, ReloadWithoutEnforcer
<1>9. CASE Watch \/ HotReload \/ Collect \/ \E d \in Dirs : EditRules(d)
  BY <1>1, <1>9 DEF Watch, HotReload, Collect, EditRules
<1>10. ASSUME NEW p \in Process, ProcessStep(p) PROVE KeysComeFromRules'
  BY <1>1, <1>10
  DEF ProcessStep, HandleExec, HandleExecUid, HandleFileOpen, HandleNetConnect,
      Enter, Submit, ReserveFails, SendSignal, LsmComm, LsmUid, ReturnToUser
<1>11. CASE UNCHANGED vars
  BY <1>1, <1>11 DEF vars
<1>. QED
  BY <1>2, <1>3, <1>4, <1>5, <1>6, <1>7, <1>8, <1>9, <1>10, <1>11
  DEF Next, UserStep, LoadStep

\* A load that has inserted every key leaves complete maps; one that stops at
\* a full map leaves the maps before it complete.
LEMMA LoadDoneSettles ==
  ASSUME LoadDone PROVE SettledMapsAreComplete'
BY DEF LoadDone, EndLoad, Target, SettledMapsAreComplete, MapOrder

LEMMA InsertFailsSettles ==
  ASSUME TypeOK, KeysComeFromRules, NEW m \in {"comms", "ports", "uids"},
         InsertFails(m)
  PROVE  SettledMapsAreComplete'
<1> DEFINE wanted == compute_block_keys(load.rules)
<1>1. lastLoaded' = load.rules /\ kmap' = kmap
  BY DEF InsertFails, EndLoad
<1>2. \A k \in {"comms", "ports", "uids"} : kmap[k] \subseteq wanted[k]
  BY DEF TypeOK, KeysComeFromRules, RulesInKernel, InsertFails, Inserting
<1>3. PICK i \in DOMAIN MapOrder : MapOrder[i] = m
  BY DEF MapOrder
<1>4. \A j \in DOMAIN MapOrder : j < i => kmap[MapOrder[j]] = wanted[MapOrder[j]]
  <2>1. \A j \in DOMAIN MapOrder :
          j < i => wanted[MapOrder[j]] \subseteq kmap[MapOrder[j]]
    BY <1>3 DEF InsertFails, Inserting, Target
  <2>2. \A j \in DOMAIN MapOrder : MapOrder[j] \in {"comms", "ports", "uids"}
    BY DEF MapOrder
  <2>. QED
    BY <1>2, <2>1, <2>2
<1>5. kmap[m] # wanted[m] /\ Cardinality(kmap[m]) >= MaxEntries
  BY DEF InsertFails, Inserting, Target
<1>6. DOMAIN MapOrder = 1..3
  BY DEF MapOrder
<1>7. ASSUME NEW n \in DOMAIN MapOrder
      PROVE  \/ kmap[MapOrder[n]] = wanted[MapOrder[n]]
             \/ \E j \in 1..n : /\ kmap[MapOrder[j]] # wanted[MapOrder[j]]
                               /\ Cardinality(kmap[MapOrder[j]]) >= MaxEntries
  <2>1. CASE n < i
    BY <1>4, <2>1
  <2>2. CASE ~(n < i)
    <3>1. i \in 1..n
      BY <1>3, <1>6, <2>2
    <3>. QED
      BY <1>3, <1>5, <3>1
  <2>. QED
    BY <2>1, <2>2
<1>. QED
  BY <1>1, <1>7 DEF SettledMapsAreComplete

LEMMA StepSettled ==
  TypeOK /\ Tasks /\ KeysComeFromRules /\ SettledMapsAreComplete /\ [Next]_vars
    => SettledMapsAreComplete'
<1> SUFFICES ASSUME TypeOK, Tasks, KeysComeFromRules, SettledMapsAreComplete,
                    [Next]_vars
             PROVE  SettledMapsAreComplete'
  OBVIOUS
<1>. USE DEF userspace, dirVars, loaderVars, tasks, kernel, procVars
<1>1. ASSUME UNCHANGED <<load, lastLoaded, kmap>> PROVE SettledMapsAreComplete'
  BY <1>1 DEF SettledMapsAreComplete, Loading
<1>2. ASSUME Loading' PROVE SettledMapsAreComplete'
  BY <1>2 DEF SettledMapsAreComplete
<1>3. CASE ClearKey \/ ClearDone \/ \E m \in {"comms", "ports", "uids"} : InsertKey(m)
  <2>1. Loading'
    BY <1>3 DEF ClearKey, ClearDone, InsertKey, Inserting, Loading, TypeOK
  <2>. QED
    BY <1>2, <2>1
<1>4. CASE EnforcerInit \/ ReloadEnforcer
  <2>1. Loading'
    BY <1>4 DEF EnforcerInit, ReloadEnforcer, BeginLoad, Loading
  <2>. QED
    BY <1>2, <2>1
<1>5. CASE LoadDone \/ \E m \in {"comms", "ports", "uids"} : InsertFails(m)
  BY <1>5, LoadDoneSettles, InsertFailsSettles
<1>6. CASE LoadEbpf \/ LoadEbpfFails \/ EnforcerInitFails \/ PublishEnforcer
             \/ CollectorFails
  BY <1>1, <1>6
  DEF LoadEbpf, LoadEbpfFails, EnforcerInitFails, PublishEnforcer, CollectorFails
<1>7. CASE StartPipeline \/ Reload \/ ReloadWithoutEnforcer
  BY <1>1, <1>7 DEF StartPipeline, Reload, ReloadWithoutEnforcer
<1>8. CASE Watch \/ HotReload \/ Collect \/ \E d \in Dirs : EditRules(d)
  BY <1>1, <1>8 DEF Watch, HotReload, Collect, EditRules
<1>9. ASSUME NEW p \in Process, ProcessStep(p) PROVE SettledMapsAreComplete'
  BY <1>1, <1>9
  DEF ProcessStep, HandleExec, HandleExecUid, HandleFileOpen, HandleNetConnect,
      Enter, Submit, ReserveFails, SendSignal, LsmComm, LsmUid, ReturnToUser
<1>10. CASE UNCHANGED vars
  BY <1>1, <1>10 DEF vars
<1>. QED
  BY <1>3, <1>4, <1>5, <1>6, <1>7, <1>8, <1>9, <1>10 DEF Next, UserStep, LoadStep

(***************************************************************************)
(* KillsAreAudited, which must already hold of a process about to be       *)
(* signalled.  A collector that has failed never runs again.               *)
(***************************************************************************)
Recorded(p) ==
  \/ p \in audited
  \/ \E i \in DOMAIN ring : ring[i].pid = p /\ ring[i].blocked

KillsRecorded ==
  cpc # "failed" =>
    \A p \in Process : pc[p] = "signal" \/ signalled[p] => Recorded(p)

LEMMA FailedForGood ==
  ASSUME TypeOK, Tasks, [Next]_vars, cpc = "failed" PROVE cpc' = "failed"
<1>. USE DEF userspace, dirVars, loaderVars, tasks, kernel, procVars
<1>1. CASE LoadStep
  <2>1. load.by # "collector"
    BY DEF Tasks
  <2>. QED
    BY <1>1, <2>1
    DEF LoadStep, ClearKey, ClearDone, InsertKey, InsertFails, LoadDone, EndLoad
<1>2. CASE UserStep /\ ~LoadStep
  BY <1>2
  DEF UserStep, EnforcerInit, EnforcerInitFails, PublishEnforcer, CollectorFails,
      LoadEbpf, LoadEbpfFails, StartPipeline, Reload, ReloadEnforcer,
      ReloadWithoutEnforcer, Watch, HotReload, Collect
<1>3. ASSUME NEW p \in Process, ProcessStep(p) PROVE cpc' = cpc
  BY <1>3
  DEF ProcessStep, HandleExec, HandleExecUid, HandleFileOpen, HandleNetConnect,
      Enter, Submit, ReserveFails, SendSignal, LsmComm, LsmUid, ReturnToUser
<1>4. CASE (\E d \in Dirs : EditRules(d)) \/ UNCHANGED vars
  BY <1>4 DEF EditRules, vars
<1>. QED
  BY <1>1, <1>2, <1>3, <1>4 DEF Next

\* Collecting the oldest entry moves its process to audited.
LEMMA CollectKeepsRecords ==
  ASSUME TypeOK, Collect, NEW p \in Process, Recorded(p) PROVE Recorded(p)'
<1>1. CASE p \in audited
  BY <1>1 DEF Collect, Recorded
<1>2. ASSUME NEW i \in DOMAIN ring, ring[i].pid = p, ring[i].blocked
      PROVE  Recorded(p)'
  <2>1. CASE i = 1
    BY <1>2, <2>1 DEF Collect, Recorded, TypeOK
  <2>2. CASE i # 1
    <3>1. /\ ring' = Tail(ring) /\ i - 1 \in DOMAIN ring'
          /\ ring'[i - 1] = ring[i]
      BY <1>2, <2>2 DEF Collect, TypeOK
    <3>. QED
      BY <1>2, <3>1 DEF Recorded
  <2>. QED
    BY <2>1, <2>2
<1>. QED
  BY <1>1, <1>2 DEF Recorded

LEMMA SubmitKeepsRecords ==
  ASSUME TypeOK, cpc # "failed", NEW q \in Process, Submit(q),
         NEW p \in Process, Recorded(p) \/ (p = q /\ should_block[p])
  PROVE  Recorded(p)'
<1> DEFINE new == [pid |-> q, blocked |-> should_block[q]]
<1>1. /\ ring \in Seq([pid : Process, blocked : BOOLEAN]) /\ audited' = audited
      /\ ring' = Append(ring, new)
  BY DEF TypeOK, Submit
<1>2. DOMAIN ring' = 1..(Len(ring) + 1) /\ ring'[Len(ring) + 1] = new
  BY <1>1
<1>3. \A i \in DOMAIN ring : i \in DOMAIN ring' /\ ring'[i] = ring[i]
  BY <1>1
<1>4. CASE Recorded(p)
  BY <1>1, <1>3, <1>4 DEF Recorded
<1>5. CASE p = q /\ should_block[p]
  <2>1. Len(ring) + 1 \in DOMAIN ring'
    BY <1>1, <1>2
  <2>2. ring'[Len(ring) + 1].pid = p /\ ring'[Len(ring) + 1].blocked
    BY <1>2, <1>5
  <2>. QED
    BY <2>1, <2>2 DEF Recorded
<1>. QED
  BY <1>4, <1>5

LEMMA StepKills == TypeOK /\ Tasks /\ KillsRecorded /\ [Next]_vars => KillsRecorded'
<1> SUFFICES ASSUME TypeOK, Tasks, KillsRecorded, [Next]_vars, cpc' # "failed",
                    NEW p \in Process, pc'[p] = "signal" \/ signalled'[p]
             PROVE  Recorded(p)'
  BY DEF KillsRecorded
<1>0. cpc # "failed"
  BY FailedForGood
<1>. USE DEF userspace, dirVars, loaderVars, tasks, kernel, procVars
<1>1. ASSUME UNCHANGED <<ring, audited, pc, signalled>> PROVE Recorded(p)'
  BY <1>0, <1>1 DEF KillsRecorded, Recorded
<1>2. ASSUME NEW q \in Process, ProcessStep(q) PROVE Recorded(p)'
  <2>1. CASE Submit(q)
    <3>1. Recorded(p) \/ (p = q /\ should_block[p])
      BY <1>0, <2>1 DEF Submit, Goto, TypeOK, KillsRecorded, AfterTracepoint
    <3>. QED
      BY <1>0, <2>1, <3>1, SubmitKeepsRecords
  <2>2. ASSUME UNCHANGED <<ring, audited>>, pc'[p] = "signal" \/ signalled'[p] =>
                 pc[p] = "signal" \/ signalled[p]
        PROVE  Recorded(p)'
    BY <1>0, <2>2 DEF KillsRecorded, Recorded
  <2>3. CASE SendSignal(q)
    BY <2>2, <2>3 DEF SendSignal, Goto, TypeOK, AfterTracepoint
  <2>4. CASE ReserveFails(q)
    BY <2>2, <2>4 DEF ReserveFails, Goto, TypeOK, AfterTracepoint
  <2>5. CASE HandleExec(q) \/ (\E path \in Path : HandleFileOpen(q, path))
               \/ (\E port \in Port : HandleNetConnect(q, port))
    BY <2>2, <2>5
    DEF HandleExec, HandleFileOpen, HandleNetConnect, Enter, Goto, TypeOK
  <2>6. CASE HandleExecUid(q) \/ LsmComm(q) \/ LsmUid(q) \/ ReturnToUser(q)
    BY <2>2, <2>6 DEF HandleExecUid, LsmComm, LsmUid, ReturnToUser, Goto, TypeOK
  <2>. QED
    BY <1>2, <2>1, <2>3, <2>4, <2>5, <2>6 DEF ProcessStep
<1>3. CASE Collect
  BY <1>0, <1>3, CollectKeepsRecords DEF Collect, KillsRecorded
<1>4. CASE LoadStep
  BY <1>1, <1>4
  DEF LoadStep, ClearKey, ClearDone, InsertKey, InsertFails, LoadDone, EndLoad
<1>5. CASE LoadEbpf \/ LoadEbpfFails \/ EnforcerInit \/ EnforcerInitFails
             \/ PublishEnforcer
  BY <1>1, <1>5
  DEF LoadEbpf, LoadEbpfFails, EnforcerInit, EnforcerInitFails, PublishEnforcer
<1>9. CASE CollectorFails
  BY <1>9 DEF CollectorFails
<1>6. CASE StartPipeline \/ Reload \/ ReloadEnforcer \/ ReloadWithoutEnforcer
  BY <1>1, <1>6 DEF StartPipeline, Reload, ReloadEnforcer, ReloadWithoutEnforcer
<1>7. CASE Watch \/ HotReload \/ \E d \in Dirs : EditRules(d)
  BY <1>1, <1>7 DEF Watch, HotReload, EditRules
<1>8. CASE UNCHANGED vars
  BY <1>1, <1>8 DEF vars
<1>. QED
  BY <1>2, <1>3, <1>4, <1>5, <1>6, <1>7, <1>8, <1>9 DEF Next, UserStep

(***************************************************************************)
(* BlockingIsJustified.  From its first lookup to its return a system call *)
(* remembers whose it is, and only an execve has more than one lookup.     *)
(***************************************************************************)
CallInProgress ==
  \A p \in Process : pc[p] \notin {"user", "dead"} =>
    /\ sys[p] \in Event /\ sys[p].binary = comm[p] /\ sys[p].uid = UidOf[p]
    /\ pc[p] \in {"exec_uid", "lsm_comm", "lsm_uid"} => sys[p].type = "Exec"

\* What a process finds in the first lookup of its program.
LEMMA EnterState ==
  ASSUME TypeOK, NEW p \in Process, NEW type \in EventType,
         NEW port \in Port \cup {None}, NEW path \in Path \cup {None},
         port # None <=> type = "Network", path # None <=> type = "FileAccess",
         NEW hit, NEW where, Enter(p, type, port, path, hit, where)
  PROVE  /\ sys'[p] \in Event /\ sys'[p].type = type /\ sys'[p].uid = UidOf[p]
         /\ sys'[p].binary = comm[p] /\ sys'[p].port = port
<1> DEFINE e == [type |-> type, binary |-> comm[p], uid |-> UidOf[p],
                 port |-> port, path |-> path, k8s |-> None]
<1>1. e \in Event
  <2>1. comm[p] \in Binary /\ UidOf[p] \in Uid
    BY EnforcementAssumption DEF TypeOK
  <2>. QED
    BY <2>1, SyscallIsEvent
<1>2. sys' = [sys EXCEPT ![p] = e]
  BY DEF Enter
<1>. QED
  BY <1>1, <1>2 DEF TypeOK

LEMMA StepCall == TypeOK /\ CallInProgress /\ [Next]_vars => CallInProgress'
<1> DEFINE Own(p) == /\ sys[p] \in Event /\ sys[p].binary = comm[p]
                     /\ sys[p].uid = UidOf[p]
           Kind(p) == pc[p] \in {"exec_uid", "lsm_comm", "lsm_uid"}
                        => sys[p].type = "Exec"
<1> SUFFICES ASSUME TypeOK, CallInProgress, [Next]_vars, NEW p \in Process,
                    pc'[p] \notin {"user", "dead"}
             PROVE  Own(p)' /\ Kind(p)'
  BY DEF CallInProgress
<1>. USE DEF userspace, dirVars, loaderVars, tasks, kernel, procVars
<1>1. ASSUME UNCHANGED <<pc[p], sys[p], comm[p]>> PROVE Own(p)' /\ Kind(p)'
  BY <1>1 DEF CallInProgress
<1>2. ASSUME HandleExec(p) PROVE Own(p)' /\ Kind(p)'
  BY <1>2, EnterState, PolicyAssumption DEF HandleExec, Enter, EventType
<1>3. ASSUME NEW path \in Path, HandleFileOpen(p, path) PROVE Own(p)' /\ Kind(p)'
  <2>1. sys'[p] \in Event /\ sys'[p].uid = UidOf[p] /\ sys'[p].binary = comm[p]
    BY <1>3, EnterState, PolicyAssumption DEF HandleFileOpen, EventType
  <2>2. comm' = comm /\ pc'[p] = "reserve"
    BY <1>3 DEF HandleFileOpen, Enter, Goto, TypeOK
  <2>. QED
    BY <2>1, <2>2
<1>4. ASSUME NEW port \in Port, HandleNetConnect(p, port) PROVE Own(p)' /\ Kind(p)'
  <2>1. sys'[p] \in Event /\ sys'[p].uid = UidOf[p] /\ sys'[p].binary = comm[p]
    BY <1>4, EnterState, PolicyAssumption DEF HandleNetConnect, EventType
  <2>2. comm' = comm /\ pc'[p] = "reserve"
    BY <1>4 DEF HandleNetConnect, Enter, Goto, TypeOK
  <2>. QED
    BY <2>1, <2>2
<1>5. CASE \/ HandleExecUid(p) \/ Submit(p) \/ ReserveFails(p) \/ SendSignal(p)
          \/ LsmComm(p) \/ LsmUid(p)
  <2>1. UNCHANGED <<sys, comm>> /\ Own(p)
    BY <1>5
    DEF CallInProgress, HandleExecUid, Submit, ReserveFails, SendSignal, LsmComm, LsmUid
  <2>2. Kind(p)'
    BY <1>5, <2>1
    DEF TypeOK, Goto, AfterTracepoint, CallInProgress, HandleExecUid, Submit,
        ReserveFails, SendSignal, LsmComm, LsmUid
  <2>. QED
    BY <2>1, <2>2
<1>6. ASSUME ReturnToUser(p) PROVE FALSE
  BY <1>6 DEF ReturnToUser, Goto, TypeOK
<1>7. ASSUME NEW q \in Process, ProcessStep(q), q # p
      PROVE  UNCHANGED <<pc[p], sys[p], comm[p]>>
  BY <1>7
  DEF ProcessStep, HandleExec, HandleExecUid, HandleFileOpen, HandleNetConnect, Enter,
      Goto, TypeOK, Submit, ReserveFails, SendSignal, LsmComm, LsmUid, ReturnToUser
<1>8. CASE UserStep \/ (\E d \in Dirs : EditRules(d)) \/ UNCHANGED vars
  BY <1>1, <1>8
  DEF UserStep, LoadStep, ClearKey, ClearDone, InsertKey, InsertFails, LoadDone,
      EndLoad, EnforcerInit, EnforcerInitFails, PublishEnforcer, CollectorFails,
      LoadEbpf, LoadEbpfFails, StartPipeline, Reload, ReloadEnforcer,
      ReloadWithoutEnforcer, Watch, HotReload, Collect, EditRules, vars
<1>. QED
  BY <1>1, <1>2, <1>3, <1>4, <1>5, <1>6, <1>7, <1>8 DEF Next, ProcessStep

\* The decision against a system call: it is marked, or its execve denied.
Decided(p) ==
  \/ should_block'[p] /\ ~should_block[p]
  \/ pc'[p] = "denied" /\ pc[p] # "denied"

Justified(p) ==
  Decided(p) /\ KernelExpressible(RulesInKernel) =>
    \E i \in FirstMatches(RulesInKernel, sys'[p]) : RulesInKernel[i].action = "Block"

\* A hit in the maps is a hit in the keys of the rules they come from.
LEMMA HitIsJustified ==
  ASSUME TypeOK, KeysComeFromRules, KernelExpressible(RulesInKernel),
         NEW ev \in Event,
         \/ ev.type = "Exec" /\ (ev.binary \in kmap.comms \/ ev.uid \in kmap.uids)
         \/ ev.type = "Network" /\ ev.port \in kmap.ports
  PROVE  \E i \in FirstMatches(RulesInKernel, ev) : RulesInKernel[i].action = "Block"
<1> DEFINE block_keys == compute_block_keys(RulesInKernel)
<1>1. RulesInKernel \in Seq(Rule)
  <2>1. RulesInKernel \in RuleLists \cup {<<>>}
    BY DEF TypeOK, RulesInKernel
  <2>2. \A rules \in RuleLists : rules \in Seq(Rule)
    BY EnforcementAssumption
  <2>3. <<>> \in Seq(Rule)
    OBVIOUS
  <2>. QED
    BY <2>1, <2>2, <2>3, Zenon
<1>2. kmap.comms \subseteq block_keys.comms /\ kmap.ports \subseteq block_keys.ports
        /\ kmap.uids \subseteq block_keys.uids
  BY DEF KeysComeFromRules, TypeOK
<1>3. KernelBlocks(block_keys, ev)
  BY <1>2 DEF KernelBlocks
<1>. QED
  BY <1>1, <1>3, KernelImpliesFirstMatchBlocks

LEMMA StepJustified ==
  TypeOK /\ CallInProgress /\ KeysComeFromRules /\ [Next]_vars =>
    \A p \in Process : Justified(p)
<1> DEFINE Blocks(ev) ==
      \E i \in FirstMatches(RulesInKernel, ev) : RulesInKernel[i].action = "Block"
<1> SUFFICES ASSUME TypeOK, CallInProgress, KeysComeFromRules, [Next]_vars,
                    NEW p \in Process, Decided(p), KernelExpressible(RulesInKernel)
             PROVE  Blocks(sys'[p])
  BY DEF Justified
<1>. USE DEF userspace, dirVars, loaderVars, tasks, kernel, procVars
<1>1. ASSUME UNCHANGED should_block, \/ pc'[p] # "denied"
                                    \/ pc'[p] = pc[p]
      PROVE  FALSE
  BY <1>1 DEF Decided
<1>2. ASSUME NEW q \in Process, HandleExec(q) PROVE Blocks(sys'[p])
  <2>1. q = p /\ comm[p] \in kmap.comms
    BY <1>2 DEF Decided, HandleExec, Enter, Goto, TypeOK
  <2>2. sys'[p] \in Event /\ sys'[p].type = "Exec" /\ sys'[p].binary = comm[p]
    BY <1>2, <2>1, EnterState, PolicyAssumption DEF HandleExec, EventType
  <2>. QED
    BY <2>1, <2>2, HitIsJustified
<1>3. ASSUME NEW q \in Process, HandleExecUid(q) \/ LsmComm(q) \/ LsmUid(q)
      PROVE  Blocks(sys'[p])
  <2>1. sys' = sys /\ pc[q] \in {"exec_uid", "lsm_comm", "lsm_uid"}
    BY <1>3 DEF HandleExecUid, LsmComm, LsmUid
  <2>2. q = p /\ (comm[p] \in kmap.comms \/ UidOf[p] \in kmap.uids)
    BY <1>3 DEF Decided, HandleExecUid, LsmComm, LsmUid, Goto, TypeOK
  <2>3. /\ sys'[p] \in Event /\ sys'[p].type = "Exec"
        /\ sys'[p].binary = comm[p] /\ sys'[p].uid = UidOf[p]
    BY <2>1, <2>2 DEF CallInProgress
  <2>. QED
    BY <2>2, <2>3, HitIsJustified
<1>4. ASSUME NEW q \in Process, NEW port \in Port, HandleNetConnect(q, port)
      PROVE  Blocks(sys'[p])
  <2>1. q = p /\ port \in kmap.ports
    BY <1>4 DEF Decided, HandleNetConnect, Enter, Goto, TypeOK
  <2>2. port # None
    BY PolicyAssumption
  <2>3. sys'[p] \in Event /\ sys'[p].type = "Network" /\ sys'[p].port = port
    BY <1>4, <2>1, <2>2, EnterState DEF HandleNetConnect, EventType
  <2>. QED
    BY <2>1, <2>3, HitIsJustified
<1>5. ASSUME NEW q \in Process, NEW path \in Path, HandleFileOpen(q, path)
      PROVE  FALSE
  BY <1>5 DEF Decided, HandleFileOpen, Enter, Goto, TypeOK
<1>6. ASSUME NEW q \in Process, ReturnToUser(q)
      PROVE  FALSE
  BY <1>6 DEF Decided, ReturnToUser, Goto, TypeOK
<1>7. ASSUME NEW q \in Process, Submit(q) \/ ReserveFails(q) \/ SendSignal(q)
      PROVE  FALSE
  BY <1>1, <1>7 DEF Submit, ReserveFails, SendSignal, AfterTracepoint, Goto, TypeOK
<1>8. CASE UserStep \/ (\E d \in Dirs : EditRules(d)) \/ UNCHANGED vars
  BY <1>8, <1>1
  DEF UserStep, LoadStep, ClearKey, ClearDone, InsertKey, InsertFails, LoadDone,
      EndLoad, EnforcerInit, EnforcerInitFails, PublishEnforcer, CollectorFails,
      LoadEbpf, LoadEbpfFails,
      StartPipeline, Reload, ReloadEnforcer, ReloadWithoutEnforcer, Watch, HotReload,
      Collect, EditRules, vars
<1>. QED
  BY <1>2, <1>3, <1>4, <1>5, <1>6, <1>7, <1>8 DEF Next, ProcessStep

(***************************************************************************)
(* The inductive invariant and the theorems.                               *)
(***************************************************************************)
IInv ==
  /\ TypeOK /\ Tasks
  /\ ReloadKeepsKernelInStep
  /\ KeysComeFromRules /\ SettledMapsAreComplete
  /\ KillsRecorded /\ CallInProgress

LEMMA InitIInv == Init => IInv
<1> SUFFICES ASSUME Init PROVE IInv
  OBVIOUS
<1>1. TypeOK /\ Tasks
  BY InitTypeOK, InitTasks
<1>2. ReloadKeepsKernelInStep
  BY DEF Init, ReloadKeepsKernelInStep
<1>3. kmap = compute_block_keys(<<>>) /\ lastLoaded = <<>> /\ ~Loading
  BY NoRulesNoKeys DEF Init, Idle, Loading
<1>4. RulesInKernel = <<>>
  BY <1>3 DEF RulesInKernel
<1>5. KeysComeFromRules
  BY <1>3, <1>4 DEF KeysComeFromRules
<1>6. SettledMapsAreComplete
  BY <1>3 DEF SettledMapsAreComplete
<1>7. KillsRecorded /\ CallInProgress
  BY DEF Init, KillsRecorded, CallInProgress
<1>. QED
  BY <1>1, <1>2, <1>5, <1>6, <1>7 DEF IInv

LEMMA StepIInv == IInv /\ [Next]_vars => IInv'
BY StepTypeOK, StepTasks, StepInStep, StepKeys, StepSettled, StepKills, StepCall
DEF IInv

LEMMA Invariant == Spec => []IInv
BY InitIInv, StepIInv, PTL DEF Spec

\* Once the pipeline has called load_rules, every later reload gives the kernel
\* the rules of the Fast Path.
THEOREM KernelInStep == Spec => []ReloadKeepsKernelInStep
BY Invariant, PTL DEF IInv

\* Through every partial clear and load, the maps hold keys of one list of
\* rules: the last one loaded, or the one being loaded.
THEOREM NoStrayKeys == Spec => []KeysComeFromRules
BY Invariant, PTL DEF IInv

\* When load_rules has ended no key is missing, up to the first full map.
THEOREM LoadsAreComplete == Spec => []SettledMapsAreComplete
BY Invariant, PTL DEF IInv

\* As long as the collector has not failed, a process with a pending SIGKILL has
\* its blocked event in the ring buffer or collected from it.
THEOREM KillsLeaveARecord == Spec => []KillsAreAudited
<1>1. IInv => KillsAreAudited
  BY DEF IInv, KillsRecorded, Recorded, KillsAreAudited
<1>. QED
  BY <1>1, Invariant, PTL

\* A tracepoint program marks a system call, and an LSM hook denies an execve, only
\* when the rules in the kernel block it, at whatever point of a reload its
\* lookups fall.
THEOREM BlockingJustified == Spec => BlockingIsJustified
<1>1. IInv /\ [Next]_vars =>
        [\A p \in Process :
           /\ \/ should_block'[p] /\ ~should_block[p]
              \/ pc'[p] = "denied" /\ pc[p] # "denied"
           /\ KernelExpressible(RulesInKernel)
           =>
             \E i \in FirstMatches(RulesInKernel, sys'[p]) :
               RulesInKernel[i].action = "Block"]_vars
  BY StepJustified DEF IInv, Justified, Decided
<1>. QED
  BY <1>1, Invariant, PTL DEF Spec, BlockingIsJustified

=============================================================================
