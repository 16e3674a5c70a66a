----------------------------- MODULE AsyncTurnMC -----------------------------
(***************************************************************************)
(* Values of the constants of AsyncTurn for its runs.                      *)
(***************************************************************************)
EXTENDS AsyncTurn

CONSTANTS r1, r2, c1, c2

\* A turn lives two ticks.  A latency bounds what the tools take, so the larger one
\* has the quick tools too; the smaller one makes the premise of the properties true.
MCLatencies ==
    [s \in Strategies |->
        CASE s = "inject_when_all"   -> {1, 3}
          [] s = "inject_when_ready" -> {1}
          [] s = "inject_on_timeout" -> {3}]
=============================================================================
