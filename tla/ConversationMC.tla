---------------------------- MODULE ConversationMC ----------------------------
(***************************************************************************)
(* Values of the constants of Conversation for its runs.                   *)
(***************************************************************************)
EXTENDS Conversation, TLC

CONSTANTS f1, f2, f3, g1, g2, d1, d2, browse, other

\* Utterances of a kind are interchangeable, and so are drafts.
Symmetry == Permutations(Finals) \cup Permutations(Guesses) \cup Permutations(Drafts)
=============================================================================
