----------------------------- MODULE MCEventPath -----------------------------
(***************************************************************************)
(* A small universe for EventPath: two binaries, two users, two ports, a   *)
(* sensitive file and a shell, a literal pattern and a wildcard, and every *)
(* rule list of at most two rules out of eight.                            *)
(***************************************************************************)
EXTENDS EventPath

MCCovers == [p \in Pattern |->
  CASE p = "nginx" -> {"nginx"} [] p = "*sh" -> {"bash"} [] p = "kube-*" -> {"kube-system"}]
MCCommKey == [p \in Pattern |-> p]
MCUnder == [x \in Prefix |->
  CASE x = "/etc/shadow" -> {"/etc/shadow"} [] x = "/bin/" -> {"/bin/bash"}]

AnyEvent == [match_process |-> {}, match_path_prefix |-> {}, match_exec_path |-> {},
             match_port |-> {}, match_uid |-> None]
RuleOf(a, conditions) == conditions @@ [action |-> a] @@ AnyEvent

MCRules ==
  {RuleOf("Block", [match_process |-> {"nginx"}]),
   RuleOf("Block", [match_process |-> {"*sh"}]),
   RuleOf("Block", [match_uid |-> 0]),
   RuleOf("Block", [match_port |-> {4444}]),
   RuleOf("Block", [match_process |-> {"nginx"}, match_port |-> {80}]),
   RuleOf("Block", [match_path_prefix |-> {"/etc/shadow"}]),
   RuleOf("Alert", [match_exec_path |-> {"/bin/"}]),
   RuleOf("Allow", [match_process |-> {"nginx"}])}

MCFastPaths ==
  [rules : UNION {[1..n -> MCRules] : n \in 0..2},
   default_action : {"Logged", "Blocked"}, enabled : BOOLEAN]

Everything == [targets |-> {}, exclude_processes |-> {}, include_ns |-> {},
               exclude_ns |-> {}, label_selectors |-> {}]
MCScopes ==
  {Everything,
   [exclude_processes |-> {"*sh"}, exclude_ns |-> {"kube-*"}] @@ Everything}

MCSyscalls == Syscall
MCReports ==
  {[type |-> t, binary |-> b, uid |-> 1000, port |-> None, path |-> None, k8s |-> k] :
     t \in {"Exec", "Privilege"}, b \in Binary,
     k \in {None} \cup [namespace : Namespace, labels : {{}}]}

=============================================================================
