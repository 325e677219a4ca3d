-------------------------- MODULE MCOperatorBridge --------------------------
(* The operator bridge for TLC: the workers are interchangeable. *)
EXTENDS OperatorBridge, TLC

Symmetry == Permutations(Workers)
=============================================================================
