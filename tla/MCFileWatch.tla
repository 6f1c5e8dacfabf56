---------------------------- MODULE MCFileWatch -----------------------------
(* An instance of FileWatch for TLC. *)
EXTENDS FileWatch
=============================================================================
