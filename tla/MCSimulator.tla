------------------------------ MODULE MCSimulator ------------------------------
(***************************************************************************)
(* Instances of the simulator for TLC.                                     *)
(***************************************************************************)
EXTENDS Simulator

\* The agent that comes first is a cone, the next one counts.
TheFirst == {1}

HardestBrake == -2

=============================================================================
