---------------------------- MODULE MCTunnelPool ----------------------------
(* Instances of TunnelPool for TLC. *)
EXTENDS TunnelPool

CONSTANTS d1, d2, k1
=============================================================================
