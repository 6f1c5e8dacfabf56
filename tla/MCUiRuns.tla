------------------------------ MODULE MCUiRuns ------------------------------
(* Instances of UiRuns for TLC.  Runs are numbered in the order they start, *)
(* so there is no symmetry to use.                                          *)
EXTENDS UiRuns

MCAll == {"workflow", "compare", "profile", "single"}
MCWorkflow == {"workflow"}
MCSingle == {"single"}
=============================================================================
