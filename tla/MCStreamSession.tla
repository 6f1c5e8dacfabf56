-------------------------- MODULE MCStreamSession --------------------------
(* Instances of StreamSession for TLC. *)
EXTENDS StreamSession

CONSTANTS p1, p2, c1, c2, s1
=============================================================================
