---------------------------- MODULE MCEnforcement ----------------------------
(***************************************************************************)
(* Small universes for Enforcement.  Rules files hold block rules on two   *)
(* binaries, on root and on a port; a directory is one of a few contents   *)
(* of two files, one of them malformed in one and both gone in another.    *)
(***************************************************************************)
EXTENDS Enforcement

MCCovers == [p \in Pattern |-> {p}]
MCCommKey == [p \in Pattern |-> p]
MCUnder == [x \in Prefix |-> {}]

Block(conditions) ==
  conditions @@ [action |-> "Block", match_process |-> {}, match_path_prefix |-> {},
                 match_exec_path |-> {}, match_port |-> {}, match_uid |-> None]

BlockNginx == Block([match_process |-> {"nginx"}])
BlockBash  == Block([match_process |-> {"bash"}])
BlockRoot  == Block([match_uid |-> 0])
BlockPort  == Block([match_port |-> {4444}])

TwoFiles(a, b) == [f \in {"default.toml", "ai-approved.toml"} |->
                     IF f = "default.toml" THEN a ELSE b]

MCBuiltin == <<BlockPort>>
\* root and nginx; root and bash, so that a reload has a key to keep
MCDirs == {TwoFiles(<<BlockRoot>>, <<BlockNginx>>), TwoFiles(<<BlockRoot>>, <<BlockBash>>)}
\* malformed and missing files, two rules in a file
MCDirsFiles == MCDirs \cup {TwoFiles(None, <<BlockNginx, BlockBash>>), TwoFiles(None, None)}

MCFirstComm == [p \in Process |-> IF p = "p1" THEN "nginx" ELSE "bash"]
MCUidOf == [p \in Process |-> IF p = "p1" THEN 1000 ELSE 0]

=============================================================================
