----------------------------- MODULE TargetGroupMC -----------------------------
(* Instances of TargetGroup for TLC. *)
EXTENDS TargetGroup, TLC

CONSTANTS a, b, c, d1, d2, i1

Symmetry == Permutations(Handlers)
=============================================================================
