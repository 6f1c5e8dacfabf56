---------------------------- MODULE MCMockReload ----------------------------
(* An instance of MockReload for TLC. *)
EXTENDS MockReload
=============================================================================
