------------------------------ MODULE MCResults ------------------------------
(***************************************************************************)
(* Instances of the campaign and the store for TLC.                        *)
(***************************************************************************)
EXTENDS Results

CONSTANTS r1, r2, s1, s2

\* Two runs, the first of which writes the features, as in run_all.sh.
TwoRuns == <<r1, r2>>

=============================================================================
