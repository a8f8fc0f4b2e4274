----------------------------- MODULE MCBatchRead -----------------------------
(* The sub-requests of a $batch are interchangeable. *)
EXTENDS BatchRead, TLC

Symmetry == Permutations(Request)
=============================================================================
