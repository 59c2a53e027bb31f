----------------------------- MODULE MCHotReload -----------------------------
(***************************************************************************)
(* HotReload with the rules directory of the start and one other.          *)
(***************************************************************************)
EXTENDS HotReload

MCDir == {"d1", "d2"}

=============================================================================
