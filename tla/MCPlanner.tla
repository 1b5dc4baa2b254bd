------------------------------- MODULE MCPlanner -------------------------------
(***************************************************************************)
(* Instances of the planner for TLC.                                       *)
(***************************************************************************)
EXTENDS Planner

\* No candidate at all, and enough of them for a best one between two others.
NoneOrThree == {0, 3}

AllBackends == {"none", "ilqr", "osqp"}

=============================================================================
