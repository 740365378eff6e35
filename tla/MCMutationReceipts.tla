-------------------------- MODULE MCMutationReceipts --------------------------
(* MutationReceipts for TLC: executions of one call are interchangeable.     *)
EXTENDS MutationReceipts, TLC

Symmetry == Permutations(Executions)
=============================================================================
