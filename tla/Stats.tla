-------------------------------- MODULE Stats --------------------------------
(***************************************************************************)
(* The statistics of driveeval/mine/stats.py, on integers.  A probability  *)
(* is counted in units, of which Unit make 1, a mean is left as its sum,   *)
(* and what needs a quotient is compared by multiplying out.               *)
(***************************************************************************)
EXTENDS Orders, FiniteSetsExt

CONSTANTS
  Unit,    (* How many units a probability of 1 is.                        *)
  Alpha    (* The level alpha, in units.                                   *)

ASSUME LevelAssumption == Unit \in Nat \ {0} /\ Alpha \in 1 .. Unit - 1

\* What is in a cell of a table that is not NULL: a cell is {} or {value}.
The(cell) == CHOOSE v \in cell : TRUE

-----------------------------------------------------------------------------
(* Cluster resampling.                                                     *)

\* _cluster_layout: the rows sorted by cluster, stably, and for each cluster how many
\* they are and how many come before.  Clusters are coded 1, 2, ... in sorted order.
ClusterLayout(ids) ==
  LET rows   == DOMAIN ids
      names  == Arranged({ids[i] : i \in rows}, <)
      counts == [c \in DOMAIN names |-> Cardinality({i \in rows : ids[i] = names[c]})]
  IN [order  |-> StablePositions(ids, rows, <),
      counts |-> counts,
      starts |-> [c \in DOMAIN names |-> Cardinality({i \in rows : ids[i] < names[c]})]]

\* The sum of a vector.
Total(f) == MapThenSumSet(LAMBDA i : f[i], DOMAIN f)

\* Mutant of ResampleRows: the offset of the drawn cluster is left out.
ResampleRowsUnshifted(layout, draw) ==
  LET sizes   == [d \in DOMAIN draw |-> layout.counts[draw[d]]]
      before(d) == Total([e \in 1 .. d - 1 |-> sizes[e]])
      holder(n) == CHOOSE d \in DOMAIN draw : before(d) < n /\ n <= before(d) + sizes[d]
  IN [n \in 1 .. Total(sizes) |-> layout.order[n - before(holder(n)) + layout.starts[1]]]

\* _resample_rows: the rows of the drawn clusters, by arithmetic on the layout.  The
\* row at position n of the result is in the drawn cluster that holds position n.
ResampleRows(layout, draw) ==
  LET sizes   == [d \in DOMAIN draw |-> layout.counts[draw[d]]]
      before(d) == Total([e \in 1 .. d - 1 |-> sizes[e]])
      holder(n) == CHOOSE d \in DOMAIN draw : before(d) < n /\ n <= before(d) + sizes[d]
  IN [n \in 1 .. Total(sizes) |->
        LET d == holder(n) IN layout.order[n - before(d) + layout.starts[draw[d]]]]

-----------------------------------------------------------------------------
(* Percentile intervals and p-values of a bootstrap.  The replicates are a *)
(* bag: a function from a value to how many replicates have it.            *)

NoInterval == [finite |-> FALSE, lo |-> 0, hi |-> 0]

Replicates(bag) == Total(bag)

AtMost(bag, v) == MapThenSumSet(LAMBDA u : bag[u], {u \in DOMAIN bag : u <= v})

\* The replicate at a position 0, 1, ... of the sorted replicates.
Sorted(bag, pos) ==
  CHOOSE v \in DOMAIN bag : bag[v] > 0 /\ AtMost(bag, v) > pos /\ AtMost(bag, v) - bag[v] <= pos

\* np.percentile of num / den, interpolated linearly; the result is den times it.
Percentile(bag, num, den) ==
  LET at   == num * (Replicates(bag) - 1)
      low  == at \div den
      part == at % den
  IN Sorted(bag, low) * (den - part)
       + (IF part = 0 THEN 0 ELSE Sorted(bag, low + 1) * part)

\* _percentile_ci, with the level alpha / one; the bounds are 2 * one times theirs.
\* Undefined replicates are dropped before; without any there is no interval.
PercentileCI(bag, alpha, one) ==
  IF Replicates(bag) = 0 THEN NoInterval
  ELSE [finite |-> TRUE,
        lo     |-> Percentile(bag, alpha, 2 * one),
        hi     |-> Percentile(bag, 2 * one - alpha, 2 * one)]

\* Mutant of TwoSidedP: the replicates at zero count for neither side.
TwoSidedPStrict(bag) ==
  LET n     == Replicates(bag)
      below == AtMost(bag, -1)
      above == n - AtMost(bag, 0)
      twice == 2 * (IF below < above THEN below ELSE above)
  IN IF twice = 0 THEN 1 ELSE IF twice > n THEN n ELSE twice

\* Mutant of TwoSidedP: only the replicates on the lower side are counted.
TwoSidedPBelow(bag) ==
  LET n     == Replicates(bag)
      twice == 2 * AtMost(bag, 0)
  IN IF twice = 0 THEN 1 ELSE IF twice > n THEN n ELSE twice

\* bootstrap_two_sided_p, as a number of replicates: never below one replicate and
\* never above all of them.
TwoSidedP(bag) ==
  LET n     == Replicates(bag)
      below == AtMost(bag, 0)
      above == n - AtMost(bag, -1)
      twice == 2 * (IF below < above THEN below ELSE above)
  IN IF twice = 0 THEN 1 ELSE IF twice > n THEN n ELSE twice

\* Of the vectors of as many draws with replacement of the values d as there are of them,
\* how many have the sum s - 1 - bound, for s = 1 .. 2 * bound + 1: draw by draw.
DrawCounts(d, bound) ==
  LET width == 2 * bound + 1
      last  == Cardinality(DOMAIN d)
      at(counts, s) == IF s \in 1 .. width THEN counts[s] ELSE 0
      drawn[k \in 0 .. last] ==
        IF k = 0 THEN [s \in 1 .. width |-> IF s = bound + 1 THEN 1 ELSE 0]
        ELSE LET before == drawn[k - 1]
                 counts == [s \in 1 .. width |-> Total([i \in DOMAIN d |-> at(before, s - d[i])])]
             IN SubSeq(counts, 1, width)
  IN drawn[last]

\* The replicates of cluster_bootstrap and paired_cluster_bootstrap for the sum of the
\* values d, each row its own cluster, which n_boot random draws sample.
ReplicateBag(d, bound) ==
  LET counts == DrawCounts(d, bound)
  IN [v \in {v \in -bound .. bound : counts[v + bound + 1] > 0} |-> counts[v + bound + 1]]

\* MIN_CLUSTERS: with one cluster every replicate is the same.
MinClusters == 2

\* paired_cluster_bootstrap of candidate minus baseline and bootstrap_two_sided_p: the
\* gate gives both the same seed, so both see the same replicates.  The least p is one
\* draw of all, not 1 / n_boot: another value only for a single cluster.
PairedBootstrap(d, alpha, one, bound) ==
  LET bag == ReplicateBag(d, bound) IN
  [ci |-> IF Cardinality(DOMAIN d) < MinClusters THEN NoInterval ELSE PercentileCI(bag, alpha, one),
   p  |-> TwoSidedP(bag)]

\* excludes_zero, excludes_one (of a bound scaled so that 1.0 is one).
ExcludesZero(ci) == ci.finite /\ (ci.lo > 0 \/ ci.hi < 0)

-----------------------------------------------------------------------------
(* Rate ratios.                                                            *)

\* The method rate_ratio_ci takes under "auto".
RatioMethod(k1, n1, k0, n0) ==
  CASE n1 = 0 \/ n0 = 0 -> "undefined_empty_group"
    [] n1 > 0 /\ n0 > 0 /\ k1 = 0 /\ k0 = 0 -> "undefined_both_zero"
    [] n1 > 0 /\ n0 > 0 /\ k1 + k0 > 0 /\ (k1 = 0 \/ k0 = 0) -> "delta_log_haldane"
    [] OTHER -> "bootstrap"

\* Whether the interval can lie above 1.0.  An undefined one is [0, inf]; the corrected
\* one lies around (k1 + 1/2) / (n1 + 1) over (k0 + 1/2) / (n0 + 1); a replicate is above
\* 1.0 when the subgroup fails more often in a resample than the rest, which it can unless
\* all of the rest fail in every one.
MayLieAboveOne(k1, n1, k0, n0) ==
  CASE RatioMethod(k1, n1, k0, n0) = "delta_log_haldane" ->
         (2 * k1 + 1) * (n0 + 1) > (2 * k0 + 1) * (n1 + 1)
    [] RatioMethod(k1, n1, k0, n0) = "bootstrap" -> k0 < n0
    [] OTHER -> FALSE

-----------------------------------------------------------------------------
(* Multiple comparisons.                                                   *)

\* The rank of the hypothesis i when p is sorted stably, and the sorted p-values.
RankOf(p, i) == Cardinality({j \in DOMAIN p : p[j] < p[i] \/ (p[j] = p[i] /\ j <= i)})
SortedP(p)   == [r \in DOMAIN p |-> p[CHOOSE i \in DOMAIN p : RankOf(p, i) = r]]

\* Mutant of Reject: only the ranks that meet the threshold themselves.
RejectOwnRank(p, alpha) ==
  LET s     == SortedP(p)
      below == {r \in DOMAIN s : s[r] * Len(p) <= r * alpha}
  IN {i \in DOMAIN p : RankOf(p, i) \in below}

\* The rejections of benjamini_hochberg: every rank up to the largest one that meets its
\* own threshold.
Reject(p, alpha) ==
  LET s     == SortedP(p)
      below == {r \in DOMAIN s : s[r] * Len(p) <= r * alpha}
  IN {i \in DOMAIN p : \E r \in below : RankOf(p, i) <= r}

\* Its q-values: the least m / j * p_(j) over the ranks j from its own on, at most 1.  A
\* q-value is the fraction num / den, in units of one.
QValues(p, one) ==
  LET s == SortedP(p) IN
  [i \in DOMAIN p |->
     LET tail == RankOf(p, i) .. Len(p)
         r    == CHOOSE r \in tail : \A t \in tail : s[r] * t <= s[t] * r
     IN IF Len(p) * s[r] > one * r THEN [num |-> one, den |-> 1]
                                   ELSE [num |-> Len(p) * s[r], den |-> r]]

Clears(q, alpha)         == q.num <= alpha * q.den
ClearsStrictly(q, alpha) == q.num < alpha * q.den

-----------------------------------------------------------------------------
(* Fisher's exact test.                                                    *)

\* Binomial coefficients, by Pascal's rule.
Binomial[n \in Nat] ==
  [k \in Nat |-> IF k = 0 THEN 1
                 ELSE IF k > n THEN 0
                 ELSE Binomial[n - 1][k - 1] + Binomial[n - 1][k]]

\* fisher_exact_p: the probability that n1 draws out of all hold k1 failures or more, as
\* <<numerator, denominator>>.
FisherP(k1, n1, k0, n0) ==
  LET n    == n1 + n0
      k    == k1 + k0
      last == IF n1 < k THEN n1 ELSE k
      ways == [x \in k1 .. last |-> Binomial[k][x] * Binomial[n - k][n1 - x]]
  IN IF n1 = 0 \/ n0 = 0 THEN <<1, 1>>
     ELSE <<MapThenSumSet(LAMBDA x : ways[x], k1 .. last), Binomial[n][n1]>>

=============================================================================
