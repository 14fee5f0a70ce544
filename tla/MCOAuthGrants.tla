---------------------------- MODULE MCOAuthGrants ----------------------------
(***************************************************************************)
(* Small instances of OAuthGrants for TLC.                                 *)
(***************************************************************************)
EXTENDS OAuthGrants, TLC

\* Requests, codes and clients are interchangeable.
Symmetry == Permutations(Requests) \cup Permutations(Codes) \cup Permutations(Clients)
=============================================================================
