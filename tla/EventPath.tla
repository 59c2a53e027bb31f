------------------------------ MODULE EventPath ------------------------------
(***************************************************************************)
(* One event's way through a running VectorGuard whose configuration does  *)
(* not change: a system call seen by the kernel programs, or a report of   *)
(* an adapter, is normalised (collector.rs), filtered (scope.rs), given a  *)
(* verdict (fast_path/mod.rs) and recorded (incident.rs).  The question is *)
(* how the kernel's decision, taken from BlockKeys, and the userspace      *)
(* verdict, taken from the rules, relate.                                  *)
(***************************************************************************)
EXTENDS Policy

CONSTANTS
  FastPaths,  \* configurations: [rules, default_action, enabled]
  Scopes,     \* configurations: the five lists of ScopeFilter
  Syscalls,   \* system calls that processes make
  Reports     \* events that adapters report

\* The programs trace three calls; path is the file that openat opens or that
\* execve executes.
Syscall ==
  {s \in [type : {"Exec", "FileAccess", "Network"}, comm : Binary, uid : Uid,
          port : Port \cup {None}, path : Path \cup {None}] :
     /\ s.port # None <=> s.type = "Network"
     /\ s.path = None <=> s.type = "Network"}

FastPath == [rules : Seq(Rule), default_action : {"Blocked", "Alerted", "Logged"},
             enabled : BOOLEAN]

Scope == [targets : SUBSET Pattern, exclude_processes : SUBSET Pattern,
          include_ns : SUBSET Pattern, exclude_ns : SUBSET Pattern,
          label_selectors : SUBSET Label]

ASSUME EventPathAssumption ==
  /\ \A f \in FastPaths : f.rules \in Seq(Rule)
  /\ FastPaths \subseteq [rules : {f.rules : f \in FastPaths},
                          default_action : {"Blocked", "Alerted", "Logged"},
                          enabled : BOOLEAN]
  /\ Scopes \subseteq Scope
  /\ Syscalls \subseteq Syscall /\ None \notin Syscalls
  /\ Reports \subseteq Event

VARIABLES
  fast_path, scope,  \* the loaded configuration
  keys,       \* the kernel block maps
  stage,      \* where the event in flight is
  call,       \* the system call, None for an adapter's report
  blocked,    \* RawEvent.blocked: the kernel programs' decision
  event,      \* the NormalizedEvent
  action      \* its action field

pathVars == <<fast_path, scope, keys, stage, call, blocked, event, action>>
config == <<fast_path, scope, keys>>

-----------------------------------------------------------------------------
PathInit ==
  /\ fast_path \in FastPaths
  /\ scope \in Scopes
  /\ keys = compute_block_keys(fast_path.rules)
  /\ stage = "idle" /\ call = None /\ blocked = FALSE
  /\ event = None /\ action = "Allowed"

\* The event as far as the kernel programs look at it.
Probe(s) == [type |-> s.type, binary |-> s.comm, uid |-> s.uid, port |-> s.port]

\* A tracepoint program looks the caller up and submits a raw event.
Trace(s) ==
  /\ stage = "idle"
  /\ stage' = "raw"
  /\ call' = s
  /\ blocked' = KernelBlocks(keys, Probe(s))
  /\ UNCHANGED <<config, event, action>>

\* parse_raw_event: binary is the caller's comm, and the file name of an
\* execve is read but goes no further.
Normalize ==
  /\ stage = "raw"
  /\ stage' = "normalized"
  /\ event' = [type |-> call.type, binary |-> call.comm, uid |-> call.uid,
               port |-> call.port, k8s |-> None,
               path |-> IF call.type = "FileAccess" THEN call.path ELSE None]
  /\ action' = IF blocked THEN "Blocked" ELSE "Allowed"
  /\ UNCHANGED <<config, call, blocked>>

\* An adapter's event has not been near the kernel programs.
Report(e) ==
  /\ stage = "idle"
  /\ stage' = "normalized"
  /\ event' = e /\ action' = "Allowed"
  /\ UNCHANGED <<config, call, blocked>>

Finish(next) ==
  /\ stage' = next
  /\ UNCHANGED config

\* Back to waiting: nothing of the event remains in the pipeline.
Forget ==
  /\ Finish("idle")
  /\ call' = None /\ blocked' = FALSE /\ event' = None /\ action' = "Allowed"

OutOfScope ==
  /\ stage = "normalized" /\ ~Allows(scope, event)
  /\ Forget

Judge ==
  /\ stage = "normalized" /\ Allows(scope, event)
  /\ action' = Evaluate(fast_path, event, action)
  /\ Finish("judged")
  /\ UNCHANGED <<call, blocked, event>>

Forward == stage = "judged" /\ Forget

PathNext ==
  \/ \E s \in Syscalls : Trace(s)
  \/ \E e \in Reports : Report(e)
  \/ Normalize \/ OutOfScope \/ Judge \/ Forward

PathSpec == PathInit /\ [][PathNext]_pathVars

-----------------------------------------------------------------------------
PathTypeOK ==
  /\ fast_path \in FastPaths /\ scope \in Scopes
  /\ keys = compute_block_keys(fast_path.rules)
  /\ stage \in {"idle", "raw", "normalized", "judged"}
  /\ call \in Syscalls \cup {None}
  /\ blocked \in BOOLEAN
  /\ event \in Event \cup {None}
  /\ action \in Action

(***************************************************************************)
(* What holds of rule lists that the kernel keys can express.              *)
(***************************************************************************)
Judged == stage = "judged" /\ fast_path.enabled

\* No process is blocked in the kernel for something the rules do not block:
\* every event the programs marked as blocked also gets the verdict Blocked.
KernelBlocksOnlyBlocked ==
  Judged /\ KernelExpressible(fast_path.rules) /\ blocked => action = "Blocked"

\* No execve that a rule blocks slips past the kernel programs.
KernelBlocksEveryBlockedExec ==
  Judged /\ KernelExpressible(fast_path.rules) /\ call # None /\ event.type = "Exec"
    /\ FirstMatches(fast_path.rules, event) # {} /\ action = "Blocked"
    => blocked

(***************************************************************************)
(* What the documentation says without that restriction.                   *)
(***************************************************************************)
\* README.md:307, "Conditions within a rule are combined with AND": the kernel
\* blocks no system call that no block rule matches.
ConditionsStayTogether ==
  stage = "normalized" /\ blocked =>
    \E i \in DOMAIN fast_path.rules :
      fast_path.rules[i].action = "Block" /\ Matches(fast_path.rules[i], event)

=============================================================================
