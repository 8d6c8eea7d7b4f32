-------------------------- MODULE MCHistoryPaging ---------------------------
(* Small instances of HistoryPaging for TLC. *)
EXTENDS HistoryPaging, TLC

CONSTANTS w1, w2

ThreadSymmetry == Permutations({w1, w2})

=============================================================================
