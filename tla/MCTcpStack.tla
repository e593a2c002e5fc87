----------------------------- MODULE MCTcpStack ------------------------------
(* TcpStack for TLC: operations are interchangeable. *)
EXTENDS TcpStack, TLC

Symmetry == Permutations(Ops)
=============================================================================
