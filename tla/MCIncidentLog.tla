---------------------------- MODULE MCIncidentLog ----------------------------
(***************************************************************************)
(* IncidentLog with the two recorders of the daemon: its pipeline and its  *)
(* slow path worker.                                                       *)
(***************************************************************************)
EXTENDS IncidentLog

MCRecorder == {"pipeline", "slow"}

=============================================================================
