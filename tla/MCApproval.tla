----------------------------- MODULE MCApproval -----------------------------
(***************************************************************************)
(* Approval for a few proposals, reviewed from the TUI and from the        *)
(* command line.  No symmetry: the run checks liveness, where symmetry     *)
(* reduction is not sound.                                                 *)
(***************************************************************************)
EXTENDS Approval

=============================================================================
