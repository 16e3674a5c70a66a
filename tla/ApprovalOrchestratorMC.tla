------------------------ MODULE ApprovalOrchestratorMC ------------------------
(***************************************************************************)
(* Values of the constants of ApprovalOrchestrator for its runs.           *)
(***************************************************************************)
EXTENDS ApprovalOrchestrator, TLC

CONSTANTS r1, r2, h1, h2, voice, webhook, d1, d2,
          h3

\* r1 races two channels; r2 climbs the same chain one channel at a time.
ChainBoth == [r \in Requests |-> <<voice, webhook>>]
ChainOne == [r \in Requests |-> <<webhook>>]
RaceThenLadder == [r \in Requests |-> IF r = r1 THEN "parallel" ELSE "sequential"]
AllParallel == [r \in Requests |-> "parallel"]
AllQuorum == [r \in Requests |-> "quorum"]

\* h3 may answer, but lacks the role.
NotThird == [r \in Requests |-> Humans \ {h3}]
Anyone == [r \in Requests |-> Humans]
\* r1 needs both humans; r2's quorum is one normalizeQuorumConfig rejects.
BothMust == [r \in Requests |-> IF r = r1 THEN 2 ELSE 0]
RejectDefault == [r \in Requests |-> TRUE]
ToFirst == [r \in Requests |-> h1]

\* Drains are interchangeable, and so are the humans: Eligible treats them alike
\* and Fallback is not used when presence routes.
Symmetry == Permutations(Drains) \cup Permutations(Humans \ {h3})
=============================================================================
