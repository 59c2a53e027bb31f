--------------------------- MODULE MCEventPipeline ---------------------------
(***************************************************************************)
(* EventPipeline with the two tasks that record incidents.                 *)
(***************************************************************************)
EXTENDS EventPipeline

MCRecorder == {"pipeline", "slow"}

=============================================================================
