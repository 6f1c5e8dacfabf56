---------------------------- MODULE MCTokenCache ----------------------------
(* An instance of TokenCache for TLC. *)
EXTENDS TokenCache

CONSTANTS g1, g2, g3
=============================================================================
