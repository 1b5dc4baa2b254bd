-------------------------------- MODULE MCGate --------------------------------
(* Four scenarios, two metrics of opposite direction, one without any.     *)
EXTENDS Gate

Row(c, p) == [collision |-> c, progress |-> p, ade |-> {0}]

MCColumns   == {"collision", "progress", "ade"}
MCDirection == [m \in {"collision", "progress"} |-> IF m = "progress" THEN 1 ELSE -1]
MCMetricLists == {<<"collision", "progress">>, <<"ade">>, <<"collision", "typo">>,
                  <<"progress", "progress">>}

\* One collision in four, progress everywhere.
Before == [s \in 1 .. 4 |-> Row(IF s = 1 THEN {1} ELSE {0}, {1})]

MCBaselines == {Before, [s \in 2 .. 5 |-> Row({0}, IF s = 5 THEN {} ELSE {1})]}

\* Any collisions and some progress on the four scenarios, one unknown; a run that covers
\* less, one that covers other scenarios and one without rows.
MCCandidates ==
  {[s \in 1 .. 4 |-> Row(c[s], p[s])] :
     c \in [1 .. 4 -> {{0}, {1}}],
     p \in {<<{0}, {0}, {0}, {0}>>, <<{2}, {2}, {2}, {1}>>, <<{0}, {2}, {}, {1}>>}}
  \cup {[s \in 1 .. 2 |-> Row({1}, {0})], [s \in 6 .. 7 |-> Row({0}, {1})], <<>>}

Scope(name, ids) == [name |-> name, ids |-> ids]

\* No job; a class of three scenarios with one too thin and an empty one; two of one name;
\* an unknown job.
MCJobs ==
  {[known |-> TRUE, scopes |-> <<>>],
   [known |-> TRUE, scopes |-> <<Scope("left", 2 .. 4), Scope("rare", {1}), Scope("empty", {7})>>],
   [known |-> TRUE, scopes |-> <<Scope("left", 2 .. 4), Scope("left", {1})>>],
   [known |-> FALSE, scopes |-> <<>>]}

\* The defaults, and each of them changed.
MCSettings == {Defaults, [Defaults EXCEPT !.correction = "none"],
               [Defaults EXCEPT !.min_effect = 60], [Defaults EXCEPT !.no_fail = TRUE],
               [Defaults EXCEPT !.no_write = TRUE]}
=============================================================================
