------------------------------- MODULE MCWorld -------------------------------
(***************************************************************************)
(* Instances of the world for TLC.                                         *)
(***************************************************************************)
EXTENDS World

CONSTANTS a1, a2, nobody

Farthest == 2

\* Every recording of NumSteps steps on a path of at most Farthest.
AllRecordings ==
  {g \in [Steps -> 0 .. Farthest \cup {Absent}] :
     \A t \in Steps : g[t] # Absent => /\ \E u \in 0 .. t : g[u] = 0
                                       /\ \A u \in 0 .. t : g[u] <= g[t]}

\* The time shifts of a sweep in both directions.
BothWays == {-1, 0, 1}

=============================================================================
