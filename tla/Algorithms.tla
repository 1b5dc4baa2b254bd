------------------------------ MODULE Algorithms ------------------------------
(***************************************************************************)
(* Calls of the procedures that Stats, Discretize and Queries translate: a *)
(* state is one call with its arguments, a step returns the answer, and    *)
(* the properties compare the answer with what the procedure promises.     *)
(***************************************************************************)
EXTENDS Stats, Discretize, Queries

CONSTANTS
  PValues,        (* Families of p-values.                                 *)
  Clusterings,    (* Cluster ids of the rows, in row order.                *)
  Bags,           (* Bootstrap replicates.                                 *)
  NumericColumns, (* Columns of numbers and NULLs.                         *)
  AgentRows,      (* Tables of flags of log-replay and reactive runs.      *)
  ManeuverRows,   (* Tables of results with the maneuver of the scenario.  *)
  Means,          (* Means of the configurations.                          *)
  ComfortRows,    (* Tables of comfort channels and flags.                 *)
  LatencyRows,    (* Tables of cycle times with hardware labels.           *)
  Assigned,       (* The split of every scenario id.                       *)
  Stored,         (* Features tables.                                      *)
  Incoming        (* Scenario ids of features files, in file order.        *)

ASSUME AlgorithmsAssumption ==
  /\ \A p \in PValues : p \in Seq(0 .. Unit)
  /\ \A ids \in Clusterings : ids \in Seq(Int)
  /\ \A bag \in Bags : IsFiniteSet(DOMAIN bag) /\ \A v \in DOMAIN bag : v \in Int /\ bag[v] \in Nat
  /\ \A column \in NumericColumns :
       /\ column \in Seq(SUBSET Int)
       /\ \A i \in DOMAIN column : \A x, y \in column[i] : x = y
  /\ \A means \in Means :
       /\ IsFiniteSet(DOMAIN means)
       /\ \A c \in DOMAIN means : \A m \in SafetyMetrics : means[c][m] \subseteq Int
  /\ \A rows \in AgentRows :
       /\ IsFiniteSet(rows)
       /\ \A row \in rows : /\ {"scenario", "mode", "asked", "status", "v"} \subseteq DOMAIN row
                            /\ row.mode \in Modes /\ row.v \in {{}, {0}, {1}}
  /\ \A rows \in ComfortRows : IsFiniteSet(rows)
  /\ \A rows \in ManeuverRows :
       /\ IsFiniteSet(rows)
       /\ \A row \in rows : /\ \A x, y \in row.features : x = y
                            /\ \A cell \in row.features : "(null)" \notin cell
  /\ \A rows \in LatencyRows :
       IsFiniteSet(rows) /\ \A row \in rows : row.n_cycles \in Nat /\ row.plan_us_mean \in Nat

VARIABLES call, answer
callVars == <<call, answer>>

Called(f, arg) == [f |-> f, arg |-> arg, returned |-> FALSE]

\* As many clusters as there are, drawn with replacement.
Draws(ids) == LET names == 1 .. Cardinality({ids[i] : i \in DOMAIN ids}) IN [names -> names]

CallInit ==
  /\ answer = <<>>
  /\ \/ \E p \in PValues : call = Called("benjamini_hochberg", p)
     \/ \E ids \in Clusterings : \E draw \in Draws(ids) :
          call = Called("resample_rows", [ids |-> ids, draw |-> draw])
     \/ \E bag \in Bags : call = Called("bootstrap", bag)
     \/ \E column \in NumericColumns : call = Called("candidate_predicates", column)
     \/ \E rows \in AgentRows : call = Called("log_replay_vs_reactive", rows)
     \/ \E rows \in ManeuverRows : call = Called("per_maneuver_failure_rates", rows)
     \/ \E means \in Means : call = Called("metric_disagreement", means)
     \/ \E rows \in ComfortRows : call = Called("comfort_violation_breakdown", rows)
     \/ \E rows \in LatencyRows : call = Called("latency_aggregates", rows)
     \/ \E stored \in Stored, ids \in Incoming :
          call = Called("load_features_csv", [stored |-> stored, ids |-> ids])

Return(f, result) ==
  /\ call.f = f /\ ~call.returned
  /\ answer' = <<result>>
  /\ call' = [call EXCEPT !.returned = TRUE]

BenjaminiHochberg ==
  Return("benjamini_hochberg", [reject |-> Reject(call.arg, Alpha), q |-> QValues(call.arg, Unit)])

Resample == Return("resample_rows", ResampleRows(ClusterLayout(call.arg.ids), call.arg.draw))

Bootstrap ==
  Return("bootstrap", [ci |-> PercentileCI(call.arg, Alpha, Unit), p |-> TwoSidedP(call.arg)])

CandidatePredicates ==
  Return("candidate_predicates", ColumnPredicates("column", TRUE, call.arg))

CompareAgentModes ==
  Return("log_replay_vs_reactive", LogReplayVsReactive(call.arg, Alpha, Unit))

RatesPerManeuver == Return("per_maneuver_failure_rates", PerManeuver(call.arg))

RankConfigurations == Return("metric_disagreement", MetricDisagreement(call.arg))

BreakDownComfort == Return("comfort_violation_breakdown", ComfortBreakdown(call.arg))

AggregateLatency == Return("latency_aggregates", LatencyAggregates(call.arg))

LoadTheFeatures ==
  Return("load_features_csv", LoadFeatures(Assigned, call.arg.stored, call.arg.ids))

CallNext ==
  \/ BenjaminiHochberg
  \/ Resample
  \/ Bootstrap
  \/ CandidatePredicates
  \/ CompareAgentModes
  \/ RatesPerManeuver
  \/ RankConfigurations
  \/ BreakDownComfort
  \/ AggregateLatency
  \/ LoadTheFeatures

CallSpec == CallInit /\ [][CallNext]_callVars

-----------------------------------------------------------------------------
Answered(f) == call.f = f /\ call.returned

\* benjamini_hochberg rejects the largest family it may: the union of all the sets whose
\* every p-value is at most alpha times the size of the set over the number of
\* hypotheses.  A q-value clears alpha exactly for the rejected ones, the q-values order
\* the hypotheses as the p-values do, and equal p-values get equal q-values.
StepUpIsLargest ==
  Answered("benjamini_hochberg") =>
    LET p      == call.arg
        reject == answer[1].reject
        q      == answer[1].q
        meets(R) == \A i \in R : p[i] * Len(p) <= Cardinality(R) * Alpha
    IN /\ reject = UNION {R \in SUBSET DOMAIN p : meets(R)}
       /\ \A i \in DOMAIN p : Clears(q[i], Alpha) <=> i \in reject
       /\ \A i, j \in DOMAIN p : p[i] <= p[j] => q[i].num * q[j].den <= q[j].num * q[i].den

\* A cluster bootstrap draws clusters, never rows: the rows of a resample are those of
\* the drawn clusters, all of them, one cluster after the other, a cluster drawn twice
\* twice.
RowsComeInClusters ==
  Answered("resample_rows") =>
    LET ids     == call.arg.ids
        draw    == call.arg.draw
        names   == Arranged({ids[i] : i \in DOMAIN ids}, <)
        rows(d) == {i \in DOMAIN ids : ids[i] = names[draw[d]]}
        size    == [d \in DOMAIN draw |-> Cardinality(rows(d))]
        before(d) == Total([e \in 1 .. d - 1 |-> size[e]])
    IN /\ Len(answer[1]) = Total(size)
       /\ \A d \in DOMAIN draw : {answer[1][before(d) + k] : k \in 1 .. size[d]} = rows(d)

\* The interval and the p-value come from the same replicates and must not contradict
\* each other: an interval that excludes 0 has a p-value of at most alpha, one that
\* contains 0 has more, both but for the replicates between which the percentile lies.
IntervalAndPAgree ==
  Answered("bootstrap") /\ Replicates(call.arg) > 0 =>
    LET n     == Replicates(call.arg)
        below == (Alpha * (n - 1)) \div (2 * Unit)
        above == IF (Alpha * (n - 1)) % (2 * Unit) = 0 THEN below ELSE below + 1
        p     == answer[1].p
    IN IF ExcludesZero(answer[1].ci) THEN p = 1 \/ p <= 2 * above
                                     ELSE p = n \/ p >= 2 * (below + 1)

\* Every predicate made from a numeric column tells two of its rows apart, no predicate
\* is made twice, and the two sides of a threshold share out the known rows: NULL is on
\* neither side.
PredicatesCutTheColumn ==
  Answered("candidate_predicates") =>
    LET column == call.arg
        made   == answer[1]
        rows(p) == {i \in DOMAIN column : Holds(p, column[i])}
        other(p) == [p EXCEPT !.op = IF @ = ">=" THEN "<" ELSE ">="]
    IN /\ \A n \in DOMAIN made : rows(made[n]) # {} /\ rows(made[n]) # DOMAIN column
       /\ \A n, m \in DOMAIN made : made[n] = made[m] => n = m
       /\ \A n \in DOMAIN made : made[n].op \in {">=", "<"} =>
            /\ rows(made[n]) \cap rows(other(made[n])) = {}
            /\ rows(made[n]) \cup rows(other(made[n])) = NonNull(column)

\* log_replay_vs_reactive is "paired over scenario_id": what is said does not change when
\* the rows of the scenarios measured in one mode only, failed rows and unmeasured ones
\* are taken away, whatever they hold, and exchanging the modes of all rows exchanges
\* "understates" and "overstates".  Neither is said against the observed difference.
PairingIsHonest ==
  Answered("log_replay_vs_reactive") =>
    LET rows     == call.arg
        counts(row) == row.asked /\ row.status = "ok" /\ row.v # {}
        in(mode) == {row.scenario : row \in {row \in rows : counts(row) /\ row.mode = mode}}
        both     == in("log_replay") \cap in("reactive")
        paired   == {row \in rows : counts(row) /\ row.scenario \in both}
        other(mode) == IF mode = "reactive" THEN "log_replay" ELSE "reactive"
        exchanged == {[row EXCEPT !.mode = other(@)] : row \in rows}
        failures(mode) == Cardinality({row.scenario : row \in {row \in paired : row.mode = mode /\ row.v = {1}}})
        opposite == [h \in {"understates", "overstates", "null result", "not computed"} |->
                       CASE h = "understates" -> "overstates"
                         [] h = "overstates" -> "understates"
                         [] OTHER -> h]
        said     == Headline(answer[1])
    IN /\ LogReplayVsReactive(paired, Alpha, Unit) = answer[1]
       /\ answer[1] # <<>> => answer[1][1].n_paired = Cardinality(both)
       /\ Headline(LogReplayVsReactive(exchanged, Alpha, Unit)) = opposite[said]
       /\ said = "understates" => failures("reactive") > failures("log_replay")

\* "Log-replay understates the at-fault collision rate by [ratio]. The interval excludes
\* 1.0": the interval of the ratio that is printed there exists and lies above 1.0.
StatedIntervalExcludesOne ==
  Answered("log_replay_vs_reactive") =>
    (Headline(answer[1]) = "understates" => ExcludesZero(answer[1][1].ratio))

\* What is unknown is a group of its own: scenarios without a maneuver are "(null)" and in
\* no other bucket, the buckets share out the scenarios, and latencies are given only
\* when all the rows carry one label or all carry none.
UnlabelledIsApart ==
  /\ Answered("per_maneuver_failure_rates") =>
       LET measured == {row \in call.arg : row.features # {} /\ row.target # {}}
           unknown  == {row \in measured : row.features = {{}}}
           buckets  == answer[1]
           n(b)     == IF b \in DOMAIN buckets THEN buckets[b].n ELSE 0
       IN /\ n("(null)") = Cardinality(unknown)
          /\ MapThenSumSet(n, DOMAIN buckets) = Cardinality(measured)
          /\ MapThenSumSet(LAMBDA b : buckets[b].k, DOMAIN buckets)
               = Cardinality({row \in measured : row.target = {1}})
  /\ Answered("latency_aggregates") =>
       LET timed == {row \in call.arg : row.status = "ok" /\ row.n_cycles > 0}
       IN \/ answer[1] = <<>> /\ (timed = {} \/ \E x, y \in timed : x.hardware # y.hardware)
          \/ /\ answer[1] # <<>>
             /\ \A row \in timed : row.hardware = answer[1][1].hardware
             /\ answer[1][1].n_scenarios = Cardinality(timed)
             /\ \E x, y \in timed :
                  /\ x.plan_us_mean * answer[1][1].n_cycles <= answer[1][1].total_us
                  /\ answer[1][1].total_us <= y.plan_us_mean * answer[1][1].n_cycles

\* The safety rank of metric_disagreement respects every metric: a configuration that is
\* nowhere worse than another ranks no lower, and one that is also somewhere better
\* ranks higher.  Not having been measured is the worst there is.
DominanceIsRanked ==
  Answered("metric_disagreement") /\ answer[1] # <<>> =>
    LET means == call.arg
        rank  == answer[1][1].safety_rank
        worse(c, d, m) == means[d][m] # {} /\ (means[c][m] = {} \/ The(means[c][m]) > The(means[d][m]))
    IN \A c, d \in DOMAIN means :
         (\A m \in SafetyMetrics : ~worse(c, d, m)) =>
           /\ rank[c] <= rank[d]
           /\ (\E m \in SafetyMetrics : worse(d, c, m)) => rank[c] < rank[d]

\* "If those two disagree, thresholds_agree is False": when every channel was measured, the
\* thresholds agree exactly if they flag the very scenarios the evaluator flagged, so that
\* equal counts of different scenarios do not pass for agreement.
ComfortCheckIsSound ==
  Answered("comfort_violation_breakdown") /\ answer[1] # <<>> =>
    LET ok == {row \in call.arg : row.status = "ok"}
        exceeds(row) == \E c \in Channels : row.exceeds[c] = {TRUE}
        known == \A row \in ok, c \in Channels : row.exceeds[c] # {}
        table == answer[1][1].table
    IN /\ known => (answer[1][1].thresholds_agree
                      <=> \A row \in ok : exceeds(row) <=> row.comfort_violation = {1})
       /\ known /\ table["any_channel"] # table["comfort_violation_flag"]
            => ~answer[1][1].thresholds_agree

\* The split is a function of the scenario id.  A features file that is loaded leaves its
\* scenarios on the half their id gives and every other row as it was; a stored split
\* that disagrees is never loaded over, so that verify_splits goes on finding it.
SplitIsReproducible ==
  Answered("load_features_csv") =>
    LET stored  == call.arg.stored
        ids     == call.arg.ids
        incoming == {ids[i] : i \in DOMAIN ids}
        wrong(table) == {s \in DOMAIN table : table[s] # Assigned[s]}
    IN answer[1] # <<>> =>
         LET table == answer[1][1] IN
         /\ DOMAIN table = DOMAIN stored \cup incoming
         /\ wrong(table) = wrong(stored)
         /\ VerifySplits(Assigned, table) = <<>> <=> VerifySplits(Assigned, stored) = <<>>
         /\ \A s \in DOMAIN stored : table[s] = stored[s]

=============================================================================
