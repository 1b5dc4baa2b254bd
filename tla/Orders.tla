-------------------------------- MODULE Orders --------------------------------
(***************************************************************************)
(* Sorting, as the procedures of driveeval/mine use it: np.argsort with    *)
(* kind="stable", list.sort and sorted.                                    *)
(***************************************************************************)
EXTENDS Integers, Sequences, FiniteSets

\* The members of a finite set by a strict order of them, the first one first.
Arranged(S, Before(_, _)) ==
  LET placed == {<<Cardinality({y \in S : Before(y, x)}) + 1, x>> : x \in S}
  IN [n \in 1 .. Cardinality(S) |-> (CHOOSE p \in placed : p[1] = n)[2]]

\* The positions K of s by an order of what is there, those of equal rank as they stand.
StablePositions(s, K, Before(_, _)) ==
  Arranged(K, LAMBDA i, j : Before(s[i], s[j]) \/ (~Before(s[j], s[i]) /\ i < j))

\* What s has at the positions K, sorted stably.
StableSort(s, K, Before(_, _)) ==
  LET order == StablePositions(s, K, Before) IN [n \in DOMAIN order |-> s[order[n]]]

\* What s has at the positions K, as it stands.
Selected(s, K) == LET order == Arranged(K, <) IN [n \in DOMAIN order |-> s[order[n]]]

=============================================================================
