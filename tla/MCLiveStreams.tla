--------------------------- MODULE MCLiveStreams ---------------------------
(* An instance of LiveStreams for TLC. *)
EXTENDS LiveStreams

CONSTANTS p1, c1, s1
=============================================================================
