------------------------------- MODULE Policy -------------------------------
(***************************************************************************)
(* The rule language of VectorGuard and its two interpreters: the          *)
(* userspace Fast Path (fast_path/mod.rs, fast_path/rules.rs), which gives *)
(* a verdict to every event, and the key sets that enforcer.rs derives     *)
(* from the same rules for the kernel programs (vectorguard-ebpf).         *)
(*                                                                         *)
(* Strings are abstracted to what the code asks of them: whether a glob    *)
(* covers a process name, whether a path starts with a prefix, and which   *)
(* 16-byte comm key a pattern is turned into.                              *)
(***************************************************************************)
EXTENDS Naturals, Sequences, FiniteSets, SequencesExt

CONSTANTS
  Binary,   \* values of ProcessInfo.binary; for eBPF events, the task's comm
  Namespace, Label,  \* of pods; a label is a (key, value) pair
  Pattern,  \* entries of match_process, and of the scope's lists
  Covers,   \* Covers[p]: the names that glob::Pattern::new(p) matches
  CommKey,  \* CommKey[p]: the key comm_key(p) puts into BLOCKED_COMMS
  Uid, Port, Path,
  Prefix,   \* entries of match_path_prefix and match_exec_path
  Under,    \* Under[x]: the paths and binaries that start with x
  None      \* Option::None

ASSUME PolicyAssumption ==
  /\ Covers \in [Pattern -> SUBSET (Binary \cup Namespace)]
  /\ DOMAIN CommKey = Pattern
  /\ Under \in [Prefix -> SUBSET (Path \cup Binary)]
  /\ None \notin Uid /\ None \notin Port /\ None \notin Path
  /\ None \notin [namespace : Namespace, labels : SUBSET Label]

RuleAction == {"Block", "Alert", "Log", "Allow"}
Action     == {"Allowed", "Logged", "Blocked", "Killed", "Alerted"}
EventType  == {"Exec", "FileAccess", "Network", "Privilege", "Signal"}

Rule == [action            : RuleAction,
         match_process     : SUBSET Pattern,
         match_path_prefix : SUBSET Prefix,
         match_exec_path   : SUBSET Prefix,
         match_port        : SUBSET Port,
         match_uid         : Uid \cup {None}]

\* What a collector or adapter reports, before a verdict is given: only a
\* network event has a port and only a file event a path.
K8sMeta == [namespace : Namespace, labels : SUBSET Label]

Event ==
  {ev \in [type : EventType, binary : Binary, uid : Uid, port : Port \cup {None},
           path : Path \cup {None}, k8s : K8sMeta \cup {None}] :
     /\ ev.port # None <=> ev.type = "Network"
     /\ ev.path # None <=> ev.type = "FileAccess"}

(***************************************************************************)
(* The userspace interpreter.                                              *)
(***************************************************************************)
ToAction(a) ==
  [Block |-> "Blocked", Alert |-> "Alerted", Log |-> "Logged", Allow |-> "Allowed"][a]

\* Every configured condition must hold; a condition on a port, a path or an
\* executable path also fixes the type of event the rule can match.
Matches(rule, ev) ==
  /\ rule.match_process # {} =>
       \E p \in rule.match_process : ev.binary \in Covers[p]
  /\ rule.match_uid # None => ev.uid = rule.match_uid
  /\ rule.match_port # {} =>
       ev.type = "Network" /\ ev.port \in rule.match_port
  /\ rule.match_path_prefix # {} =>
       /\ ev.type = "FileAccess"
       /\ \E x \in rule.match_path_prefix : ev.path \in Under[x]
  /\ rule.match_exec_path # {} =>
       /\ ev.type = "Exec"
       /\ \E x \in rule.match_exec_path : ev.binary \in Under[x]

\* Slip: the last matching rule decides.
LastMatches(rules, ev) ==
  {i \in DOMAIN rules : /\ Matches(rules[i], ev)
                        /\ \A j \in DOMAIN rules : j > i => ~Matches(rules[j], ev)}

\* The index of the first rule that matches, as a set of at most one element.
FirstMatches(rules, ev) ==
  {i \in DOMAIN rules : /\ Matches(rules[i], ev)
                        /\ \A j \in 1..(i-1) : ~Matches(rules[j], ev)}

\* The verdict of a Fast Path configuration: rules, default_action, enabled.
\* A disabled Fast Path leaves the action it was given.
Evaluate(fp, ev, action) ==
  IF ~fp.enabled THEN action
  ELSE IF FirstMatches(fp.rules, ev) = {} THEN fp.default_action
  ELSE LET i == CHOOSE i \in FirstMatches(fp.rules, ev) : TRUE
       IN  ToAction(fp.rules[i].action)

(***************************************************************************)
(* The rules directory.  A file holds a sequence of rules, or is malformed *)
(* and skipped (None).  read_dir lists files in no particular order, so a  *)
(* directory can load as the concatenation of its files in any order.      *)
(***************************************************************************)
LoadDir(dir, builtin) ==
  LET parsed == {f \in DOMAIN dir : dir[f] # None}
      orders == {o \in [1..Cardinality(parsed) -> parsed] :
                   \A i, j \in DOMAIN o : i # j => o[i] # o[j]}
      loaded == {FlattenSeq([i \in DOMAIN o |-> dir[o[i]]]) : o \in orders}
  IN  {IF rs = <<>> THEN builtin ELSE rs : rs \in loaded}

(***************************************************************************)
(* The kernel's view: the conditions of block rules as independent keys.   *)
(***************************************************************************)
BlockRules(rules) == {rules[i] : i \in {j \in DOMAIN rules : rules[j].action = "Block"}}

\* Slip: match_uid is not carried over.
KeysWithoutUids(rules) ==
  [comms |-> {CommKey[p] : p \in UNION {r.match_process : r \in BlockRules(rules)}},
   ports |-> UNION {r.match_port : r \in BlockRules(rules)},
   uids  |-> {}]

compute_block_keys(rules) ==
  [comms |-> {CommKey[p] : p \in UNION {r.match_process : r \in BlockRules(rules)}},
   ports |-> UNION {r.match_port : r \in BlockRules(rules)},
   uids  |-> {r.match_uid : r \in BlockRules(rules)} \ {None}]

\* should_block of the execve and connect programs; openat never blocks.
KernelBlocks(keys, ev) ==
  \/ ev.type = "Exec" /\ (ev.binary \in keys.comms \/ ev.uid \in keys.uids)
  \/ ev.type = "Network" /\ ev.port \in keys.ports

(***************************************************************************)
(* The scope filter: a process pattern list to drop, one to keep, and the  *)
(* namespace and label filters that only events with pod metadata meet.    *)
(* Invalid patterns were dropped when the filter was built.                *)
(***************************************************************************)
CoveredBy(patterns, name) == \E p \in patterns : name \in Covers[p]

Allows(scope, ev) ==
  /\ ~CoveredBy(scope.exclude_processes, ev.binary)
  /\ scope.targets # {} => CoveredBy(scope.targets, ev.binary)
  /\ ev.k8s # None =>
       /\ scope.include_ns # {} => CoveredBy(scope.include_ns, ev.k8s.namespace)
       /\ ~CoveredBy(scope.exclude_ns, ev.k8s.namespace)
       /\ scope.label_selectors \subseteq ev.k8s.labels

(***************************************************************************)
(* Rule lists that the kernel keys can express: every block rule has a     *)
(* single condition, of a kind the kernel has a map for, written without   *)
(* wildcards; and no earlier rule of another action takes one of its       *)
(* events.                                                                 *)
(***************************************************************************)
SingleCondition(r) ==
  /\ r.match_path_prefix = {} /\ r.match_exec_path = {}
  /\ \/ /\ r.match_process # {} /\ r.match_port = {} /\ r.match_uid = None
        /\ \A p \in r.match_process : Covers[p] = {CommKey[p]}
     \/ r.match_process = {} /\ r.match_port # {} /\ r.match_uid = None
     \/ r.match_process = {} /\ r.match_port = {} /\ r.match_uid # None

KernelExpressible(rules) ==
  \A i \in DOMAIN rules : rules[i].action = "Block" =>
    /\ SingleCondition(rules[i])
    /\ \A j \in 1..(i-1), ev \in Event :
         Matches(rules[j], ev) /\ Matches(rules[i], ev) => rules[j].action = "Block"

=============================================================================
