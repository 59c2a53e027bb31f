-------------------------------- MODULE MCTui --------------------------------
(***************************************************************************)
(* In each session something else goes on: events and incidents scroll by; *)
(* three processes name one another as parents; a configuration with or    *)
(* without an optional field is edited; proposals come and go.             *)
(***************************************************************************)
EXTENDS ProcessTree

MCPid == 1..3

Quiet == [events |-> {}, proposals |-> {}, fields |-> <<>>, bools |-> {}, present |-> {},
          ends |-> FALSE]

EventOf(p, parent, hit, action) == [pid |-> p, ppid |-> parent, hit |-> hit, action |-> action]

MCSessions ==
  {[Quiet EXCEPT !.events = {EventOf(1, 0, FALSE, "Logged"), EventOf(1, 0, TRUE, "Blocked"),
                             EventOf(1, 0, TRUE, "Alerted")},
                 !.ends = TRUE],
   [Quiet EXCEPT !.events = {e \in {EventOf(p, q, TRUE, "Allowed") : p \in MCPid, q \in 0..3} :
                               e.pid = 1 \/ e.ppid \notin {0, e.pid}}],
   [Quiet EXCEPT !.fields = <<"fast_path.enabled", "ai_advisor.model">>,
                 !.bools = {"fast_path.enabled"}, !.present = {"fast_path.enabled"}],
   [Quiet EXCEPT !.fields = <<"fast_path.enabled", "ai_advisor.model">>,
                 !.bools = {"fast_path.enabled"},
                 !.present = {"fast_path.enabled", "ai_advisor.model"}],
   [Quiet EXCEPT !.proposals = 1..3]}

=============================================================================
