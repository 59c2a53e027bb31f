----------------------------- MODULE VersionFeed -----------------------------
(***************************************************************************)
(* What hot reload promises the tasks of the daemon: the configuration is  *)
(* saved in numbered versions, some of them invalid; each task runs with a *)
(* valid one, may skip versions, and never goes back to an older one.      *)
(***************************************************************************)
EXTENDS Naturals

CONSTANT Task

VARIABLES
  newest,  \* the number of the last version saved
  valid,   \* the versions that parse
  held     \* held[t]: the version t runs with

feedVars == <<newest, valid, held>>

Init == newest = 0 /\ valid = {0} /\ held = [t \in Task |-> 0]

Save(ok) ==
  /\ newest' = newest + 1
  /\ valid' = IF ok THEN valid \cup {newest + 1} ELSE valid
  /\ UNCHANGED held

Take(t) ==
  /\ \E v \in valid : v >= held[t] /\ held' = [held EXCEPT ![t] = v]
  /\ UNCHANGED <<newest, valid>>

Next == (\E ok \in BOOLEAN : Save(ok)) \/ (\E t \in Task : Take(t))

Spec == Init /\ [][Next]_feedVars

=============================================================================
