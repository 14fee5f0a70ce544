--------------------------- MODULE MCEngineWorker ---------------------------
(***************************************************************************)
(* A small instance of EngineWorker for TLC; liveness is checked, hence no *)
(* symmetry.                                                               *)
(***************************************************************************)
EXTENDS EngineWorker
=============================================================================
