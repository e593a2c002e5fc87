---------------------------- MODULE MCOperation ------------------------------
(* Operation for TLC: the futures are interchangeable. *)
EXTENDS Operation, TLC

Symmetry == Permutations(Futures)
=============================================================================
