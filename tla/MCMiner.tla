------------------------------- MODULE MCMiner -------------------------------
(* Four discovery and six confirmation scenarios.                          *)
EXTENDS Miner

MCSplit == [s \in 1 .. 10 |-> IF s <= 4 THEN "discovery" ELSE "confirmation"]

\* Few whole numbers with a NULL, a category that follows them, and an excluded column.
Counts == [columns |-> <<"id", "oncoming", "maneuver">>, numeric |-> {"id", "oncoming"},
           split   |-> MCSplit,
           cells   |-> [id       |-> [s \in 1 .. 10 |-> {100 * s}],
                        oncoming |-> <<{0}, {100}, {200}, {}, {0}, {100}, {200}, {200}, {}, {0}>>,
                        maneuver |-> <<{"left"}, {"left"}, {"right"}, {"right"}, {"left"},
                                       {"left"}, {"left"}, {"right"}, {"right"}, {"right"}>>]]

\* Many numbers, cut at quantiles.
Speeds == [columns |-> <<"speed", "gap">>, numeric |-> {"speed", "gap"},
           split   |-> MCSplit,
           cells   |-> [speed |-> <<{0}, {250}, {610}, {930}, {100}, {250}, {700}, {900}, {5}, {}>>,
                        gap   |-> <<{300}, {300}, {100}, {100}, {300}, {100}, {100}, {300}, {100}, {100}>>]]

\* A table with a split that is neither, one of one split, and one no predicate comes from.
Odd == {[Speeds EXCEPT !.split = [MCSplit EXCEPT ![1] = "test"]],
        [Speeds EXCEPT !.split = [s \in 1 .. 10 |-> "discovery"]],
        [Counts EXCEPT !.columns = <<"id">>]}

MCFeatures == {Counts, Speeds} \cup Odd

Bit(b) == IF b THEN {1} ELSE {0}

\* Failures on three patterns of the discovery split and any of the confirmation split; a
\* run that misses scenarios, one with NULL outcomes, one that is not binary, one of others.
MCMetrics ==
  LET outcome(d, c) == [s \in 1 .. 10 |-> Bit(s \in d \cup c)]
      usual == {outcome(d, c) : d \in {{3}, {1, 2}}, c \in SUBSET (5 .. 10)}
  IN usual \cup {[s \in 2 .. 9 |-> Bit(s \in {3, 7, 8})],
                 [s \in 1 .. 10 |-> IF s \in {1, 5} THEN {} ELSE Bit(s \in {3, 7, 8})],
                 [s \in 1 .. 10 |-> {s}],
                 [s \in 11 .. 12 |-> {1}]}
=============================================================================
