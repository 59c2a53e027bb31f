----------------------------- MODULE MCSlowPath -----------------------------
(***************************************************************************)
(* Two daemons, two processes of one binary, two texts.                    *)
(***************************************************************************)
EXTENDS SlowPath, TLC

CONSTANT FirstPid

MCTimes == {0, 2}

\* Daemons, texts and dimensions are interchangeable.
MCSymmetry == Permutations(Node) \cup Permutations(Text) \cup Permutations(Dim)

\* The verdict has allowed the events of one process, which are escalated, and
\* not those of the other; time is about one process.
MCEvents ==
  {e \in Event : IF e.pid = FirstPid THEN e.action = "Allowed"
                 ELSE e.action = "Logged" /\ e.at = 0}

MCConfigs == {c \in SlowPathConfig : c.enabled \/ c.backend = "qdrant"}

=============================================================================
