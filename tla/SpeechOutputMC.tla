---------------------------- MODULE SpeechOutputMC ----------------------------
(* An instance of SpeechOutput for TLC. *)
EXTENDS SpeechOutput, TLC

CONSTANTS v1, v2, l1, l2

\* The second segment is urgent.
Urgent == [s \in 1 .. MaxSegments |-> IF s % 2 = 0 THEN 10 ELSE 5]
=============================================================================
