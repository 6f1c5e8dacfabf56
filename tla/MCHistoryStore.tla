--------------------------- MODULE MCHistoryStore ---------------------------
(* An instance of HistoryStore for TLC. *)
EXTENDS HistoryStore, TLC

CONSTANTS p1, p2

(* The processes run the same program. *)
AnyProcess == Permutations(Procs)
=============================================================================
