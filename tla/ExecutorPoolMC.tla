---------------------------- MODULE ExecutorPoolMC ----------------------------
(* Instances of ExecutorPool for TLC. *)
EXTENDS ExecutorPool, TLC

CONSTANTS c1, c2, c3

Symmetry == Permutations(Calls)
=============================================================================
