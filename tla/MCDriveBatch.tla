----------------------------- MODULE MCDriveBatch -----------------------------
(***************************************************************************)
(* Instances of the batch runner for TLC.                                  *)
(***************************************************************************)
EXTENDS DriveBatch

CONSTANTS w1, w2

\* The workers differ in nothing but their names; no symmetry is declared, because
\* the run checks liveness.
TwoWorkers == {w1, w2}

\* A kind without a row, and one for each way through the counters but two that
\* differ from planner_fail and from fault in the counter's name alone.
CountedKinds == {"unreadable", "planner_fail", "no_cycles", "fault"}

\* The kinds that differ in what the Simulator leaves behind for the next run.
RouteKinds == {"no_ego", "no_route", "ok"}

=============================================================================
