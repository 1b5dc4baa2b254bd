------------------------------- MODULE Queries -------------------------------
(***************************************************************************)
(* The questions driveeval/db/queries.py asks of the results store, and    *)
(* what db/load.py does about the discovery and confirmation split.        *)
(*                                                                         *)
(* A table is a set of rows.  A cell that may be NULL is {} or {value}.    *)
(***************************************************************************)
EXTENDS Stats

-----------------------------------------------------------------------------
(* (a) Log-replay against reactive agents.  A row of the join of metrics   *)
(* and runs has its agent mode and, with the asked configuration, dataset  *)
(* and planner, asked = TRUE.                                              *)

Modes == {"log_replay", "reactive"}

\* The CTE rows of PAIRED_AGENT_MODE_SQL.
Measured(rows) == {row \in rows : row.asked /\ row.status = "ok" /\ row.v # {}}

\* Mutant of PairedAgentModes: a scenario measured in one mode only counts as without
\* failure in the other.
PairedWithDefault(rows) ==
  LET of(s, mode) == {The(row.v) : row \in {row \in Measured(rows) : row.scenario = s /\ row.mode = mode}}
  IN [s \in {row.scenario : row \in Measured(rows)} |->
        [mode \in Modes |-> Max(of(s, mode) \cup {0})]]

\* PAIRED_AGENT_MODE_SQL: the scenarios measured in both modes, n_modes = 2.  Of several
\* runs of one mode the largest value is taken.
PairedAgentModes(rows) ==
  LET of(s, mode) == {The(row.v) : row \in {row \in Measured(rows) : row.scenario = s /\ row.mode = mode}}
  IN [s \in {s \in {row.scenario : row \in Measured(rows)} : \A mode \in Modes : of(s, mode) # {}} |->
        [mode \in Modes |-> Max(of(s, mode))]]

Sum(pairs, S, mode, draw) == MapThenSumSet(LAMBDA d : pairs[draw[d]][mode], S)

\* The replicates of the mean difference, as sums: one draw of scenarios for both modes.
DeltaBag(pairs) ==
  LET S     == DOMAIN pairs
      delta(draw) == Sum(pairs, S, "reactive", draw) - Sum(pairs, S, "log_replay", draw)
      deltas == {<<draw, delta(draw)>> : draw \in [S -> S]}
  IN [v \in {x[2] : x \in deltas} |-> Cardinality({x \in deltas : x[2] = v})]

\* The replicates of the difference of the logarithms of the means, of which only the sign
\* is kept.  _log_mean of a mean of 0 is NaN, and such a replicate is dropped.
LogRatioBag(pairs) ==
  LET S     == DOMAIN pairs
      sign(draw) == LET re == Sum(pairs, S, "reactive", draw)
                        lr == Sum(pairs, S, "log_replay", draw)
                    IN IF re > lr THEN 1 ELSE IF re < lr THEN -1 ELSE 0
      finite == {draw \in [S -> S] : \A mode \in Modes : Sum(pairs, S, mode, draw) > 0}
  IN [v \in {-1, 0, 1} |-> Cardinality({draw \in finite : sign(draw) = v})]

\* paired_cluster_bootstrap: no interval from a single scenario.
PairedCI(pairs, bag, alpha, one) ==
  IF Cardinality(DOMAIN pairs) < MinClusters THEN NoInterval ELSE PercentileCI(bag, alpha, one)

\* log_replay_vs_reactive: <<>> for "no scenario ran under both agent modes".  ratio is the
\* interval of the ratio with its bounds as signs: lo > 0 is a lower bound above 1.0.
LogReplayVsReactive(rows, alpha, one) ==
  LET pairs == PairedAgentModes(rows) IN
  IF DOMAIN pairs = {} THEN <<>>
  ELSE <<[n_paired |-> Cardinality(DOMAIN pairs),
          delta    |-> PairedCI(pairs, DeltaBag(pairs), alpha, one),
          ratio    |-> PairedCI(pairs, LogRatioBag(pairs), alpha, one)]>>

\* What scripts/analyze.py writes under finding (a) of the at-fault collisions.
Headline(comparison) ==
  IF comparison = <<>> THEN "not computed"
  ELSE LET delta == comparison[1].delta IN
       IF delta.finite /\ delta.lo > 0 THEN "understates"
       ELSE IF delta.finite /\ delta.hi < 0 THEN "overstates" ELSE "null result"

-----------------------------------------------------------------------------
(* Failure rates per maneuver.  A row has the target of one run and        *)
(* joined = {maneuver cell}, or {} for a scenario without features.        *)

\* Mutant of Bucket: what could not be classified goes straight.
BucketStraight(maneuver) == IF maneuver = {} THEN "straight" ELSE The(maneuver)

\* COALESCE(f.ego_maneuver, '(null)')
Bucket(maneuver) == IF maneuver = {} THEN "(null)" ELSE The(maneuver)

\* PER_MANEUVER_SQL up to the closed-form interval: the buckets with n and k.
PerManeuver(rows) ==
  LET joined == {row \in rows : row.features # {} /\ row.target # {}}
      of(b)  == {row \in joined : Bucket(The(row.features)) = b}
  IN [b \in {Bucket(The(row.features)) : row \in joined} |->
        [n |-> Cardinality(of(b)), k |-> Cardinality({row \in of(b) : row.target = {1}})]]

-----------------------------------------------------------------------------
(* (b) The metrics disagree.  means[config][metric] is the AVG over the ok *)
(* rows of a configuration, NULL when no row has the metric.               *)

SafetyMetrics == {"at_fault_rate", "dav_rate", "ttc_frac", "comfort_rate"}

\* Mutant of Precedes: NULL sorts first.
PrecedesNullFirst(x, y) == (x = {} /\ y # {}) \/ (x # {} /\ y # {} /\ The(x) < The(y))

\* ORDER BY ... ASC; DuckDB sorts NULL last.
Precedes(x, y) == (x # {} /\ y = {}) \/ (x # {} /\ y # {} /\ The(x) < The(y))

\* RANK(): one more than those strictly before; equal ones share a rank.
Rank(means, metric, config) ==
  1 + Cardinality({c \in DOMAIN means : Precedes(means[c][metric], means[config][metric])})

\* safety_rank_mean, four times.
SafetyScore(means, config) ==
  Rank(means, "at_fault_rate", config) + Rank(means, "dav_rate", config)
    + Rank(means, "ttc_frac", config) + Rank(means, "comfort_rate", config)

\* DISAGREEMENT_SQL and metric_disagreement: <<>> below two configurations.  A winner is a
\* first row after sorting, and equal ranks leave open which.
MetricDisagreement(means) ==
  LET safety == [c \in DOMAIN means |->
                   1 + Cardinality({d \in DOMAIN means : SafetyScore(means, d) < SafetyScore(means, c)})]
      ade    == [c \in DOMAIN means |-> Rank(means, "mean_ade", c)]
      first(rank) == {c \in DOMAIN means : \A d \in DOMAIN means : rank[c] <= rank[d]}
  IN IF Cardinality(DOMAIN means) < 2 THEN <<>>
     ELSE <<[ade_rank |-> ade, safety_rank |-> safety,
             ade_winner |-> first(ade), safety_winner |-> first(safety)]>>

-----------------------------------------------------------------------------
(* Comfort channels.  A row has a cell for each channel: {TRUE} when it    *)
(* exceeds its threshold, {} when it is NULL.                              *)

Channels == {"max_abs_a_lon", "max_abs_a_lat", "max_abs_jerk", "max_abs_yaw_rate"}

\* The OR of SQL: true if one is, else NULL if one is.
AnyChannel(row) ==
  IF \E c \in Channels : row.exceeds[c] = {TRUE} THEN {TRUE}
  ELSE IF \E c \in Channels : row.exceeds[c] = {} THEN {} ELSE {FALSE}

\* COALESCE(comfort_violation, 0) = 1
Flagged(row) == row.comfort_violation = {1}

Ok(rows) == {row \in rows : row.status = "ok"}

\* Mutant of ComfortConsistency: one direction is not looked at.
ComfortUnexplainedOnly(rows) ==
  [n_scenarios                 |-> Cardinality(Ok(rows)),
   n_violations                |-> Cardinality({row \in Ok(rows) : Flagged(row)}),
   n_violation_unexplained     |-> Cardinality({row \in Ok(rows) : Flagged(row) /\ AnyChannel(row) = {FALSE}}),
   n_flagged_without_violation |-> 0]

\* COMFORT_CONSISTENCY_SQL.  NOT of NULL is NULL, which counts on neither side.
ComfortConsistency(rows) ==
  [n_scenarios                 |-> Cardinality(Ok(rows)),
   n_violations                |-> Cardinality({row \in Ok(rows) : Flagged(row)}),
   n_violation_unexplained     |-> Cardinality({row \in Ok(rows) : Flagged(row) /\ AnyChannel(row) = {FALSE}}),
   n_flagged_without_violation |-> Cardinality({row \in Ok(rows) : ~Flagged(row) /\ AnyChannel(row) = {TRUE}})]

\* COMFORT_SQL: how many rows each channel, any of them and the flag count.
ComfortTable(rows) ==
  [line \in Channels \cup {"any_channel", "comfort_violation_flag"} |->
     Cardinality({row \in Ok(rows) :
       CASE line \in Channels                 -> row.exceeds[line] = {TRUE}
         [] line = "any_channel"              -> AnyChannel(row) = {TRUE}
         [] line = "comfort_violation_flag"   -> Flagged(row)})]

\* comfort_violation_breakdown with thresholds_agree: <<>> without an ok row.
ComfortBreakdown(rows) ==
  LET c == ComfortConsistency(rows) IN
  IF c.n_scenarios = 0 THEN <<>>
  ELSE <<[table  |-> ComfortTable(rows),
          counts |-> c,
          thresholds_agree |-> c.n_violation_unexplained = 0 /\ c.n_flagged_without_violation = 0]>>

-----------------------------------------------------------------------------
(* Latency.  A row has the hardware cell of its run.                       *)

Timed(rows) == {row \in rows : row.status = "ok" /\ row.n_cycles > 0}

\* GROUP BY r.hardware: NULL is a group of its own.
HardwareGroups(rows) == {row.hardware : row \in Timed(rows)}

\* latency_aggregates: <<>> unless there is exactly one group.  The mean is left as
\* cycles and their total time.
LatencyAggregates(rows) ==
  IF Cardinality(HardwareGroups(rows)) # 1 THEN <<>>
  ELSE <<[hardware    |-> The(HardwareGroups(rows)),
          n_scenarios |-> Cardinality({row \in Timed(rows) : row.hardware \in HardwareGroups(rows)}),
          n_cycles    |-> MapThenSumSet(LAMBDA row : row.n_cycles, Timed(rows)),
          total_us    |-> MapThenSumSet(LAMBDA row : row.plan_us_mean * row.n_cycles, Timed(rows)),
          max_us      |-> Max({row.plan_us_max : row \in Timed(rows)})]>>

-----------------------------------------------------------------------------
(* The split.  assigned[s] is the half blake2b(scenario_id) puts s into,   *)
(* stored is the features table, from scenarios to the split they carry.   *)

\* The stored scenarios among ids whose split is not the assigned one.
Misassigned(assigned, stored, ids) == {s \in DOMAIN stored \cap ids : stored[s] # assigned[s]}

\* Mutant of LoadFeatures: a split that disagrees is repaired on the way.
LoadFeaturesRepair(assigned, stored, ids) ==
  IF \E i, j \in DOMAIN ids : i # j /\ ids[i] = ids[j] THEN <<>>
  ELSE <<[s \in DOMAIN stored \cup {ids[i] : i \in DOMAIN ids} |->
            IF s \in {ids[i] : i \in DOMAIN ids} THEN assigned[s] ELSE stored[s]]>>

\* load_features_csv of a file with these scenario ids: the table afterwards, <<>> if it is
\* refused, for a scenario named twice or a stored split that disagrees.
LoadFeatures(assigned, stored, ids) ==
  LET incoming == {ids[i] : i \in DOMAIN ids} IN
  IF \/ \E i, j \in DOMAIN ids : i # j /\ ids[i] = ids[j]
     \/ Misassigned(assigned, stored, incoming) # {}
    THEN <<>>
    ELSE <<[s \in DOMAIN stored \cup incoming |-> IF s \in incoming THEN assigned[s] ELSE stored[s]]>>

\* verify_splits: how many were checked, <<>> if one does not match.
VerifySplits(assigned, stored) ==
  IF Misassigned(assigned, stored, DOMAIN stored) # {} THEN <<>> ELSE <<Cardinality(DOMAIN stored)>>

=============================================================================
