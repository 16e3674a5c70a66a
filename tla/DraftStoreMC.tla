----------------------------- MODULE DraftStoreMC -----------------------------
(* An instance of DraftStore for TLC. *)
EXTENDS DraftStore, TLC

CONSTANTS d1, d2, d3, s1, s2, c1, c2
=============================================================================
