---------------------------- MODULE MCPoolManager ----------------------------
(***************************************************************************)
(* A small instance of PoolManager for TLC; liveness is checked, hence no  *)
(* symmetry.                                                               *)
(***************************************************************************)
EXTENDS PoolManager
=============================================================================
