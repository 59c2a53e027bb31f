----------------------------- MODULE MCAdapters -----------------------------
(***************************************************************************)
(* Three records, which are about a connection, which a line that is cut   *)
(* off can be taken for something else, or no event.                       *)
(***************************************************************************)
EXTENDS Adapters

MCCalls == {"connect", "noise"}

=============================================================================
