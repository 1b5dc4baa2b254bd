-------------------------------- MODULE Miner --------------------------------
(***************************************************************************)
(* The failure miner: mine() and write_results of                          *)
(* driveeval/mine/subgroups.py for one target, as scripts/mine.py and      *)
(* scripts/analyze.py call them.  Rules are searched for on the discovery  *)
(* split and judged on the confirmation split; what is reported goes into  *)
(* two tables of the results database, one statement after the other, and  *)
(* the script may be killed between any two of them and run again.         *)
(*                                                                         *)
(* A rule is the set of the positions of its predicates in the vocabulary, *)
(* a mask is the set of the rows a rule covers.                            *)
(***************************************************************************)
EXTENDS Scripts, Stats, Discretize, SequencesExt

CONSTANTS
  Features,           (* Feature tables.                                   *)
  Metrics,            (* Outcomes of one run, for some of the scenarios.   *)
  Excluded,           (* Columns no predicate may use.                     *)
  BeamWidths,         (* beam_width, as called.                            *)
  Qualities,          (* quality, as called.                               *)
  MaxDepth,
  MinCoverage,
  Threshold,          (* redundancy_threshold, in percent.                 *)
  MaxPruneCandidates,
  MaxClasses,
  TopK

ASSUME MinerAssumption ==
  /\ {MaxDepth, MinCoverage} \subseteq Nat \ {0}
  /\ {MaxPruneCandidates, MaxClasses, TopK} \subseteq Nat
  /\ Threshold \in 1 .. 100
  /\ BeamWidths \subseteq Nat
  \* A table has finitely many rows, and in a row at most one value for a column.
  /\ \A f \in Features :
       /\ IsFiniteSet(DOMAIN f.split)
       /\ f.columns \in Seq(DOMAIN f.cells)
       /\ \A c \in DOMAIN f.cells, s \in DOMAIN f.split : \A v, w \in f.cells[c][s] : v = w

VARIABLES
  predicates,  \* The vocabulary.
  candidates,  \* The registered rules with their discovery masks, in order.
  level,       \* The candidates of the last depth.
  depth,       \* That depth.
  rows,        \* The tested rules.
  kept,        \* What the pruning left of them.
  result,      \* The classes: all of them by failure mass, and the stored ones.
  said,        \* What the script tells its reader.
  jobs, classes  \* mining_jobs and failure_classes.

search == <<predicates, candidates, level, depth>>
judged == <<rows, kept, result>>
tables == <<jobs, classes>>
mineVars   == <<script, args, exec, pc, search, judged, said, todo, tables>>

-----------------------------------------------------------------------------
(* The joined table.                                                       *)

Split(s)  == args.features.split[s]
Joined    == DOMAIN args.features.split \cap DOMAIN args.metrics
\* The rows that stay: a scenario whose outcome is NULL leaves the denominator.
Rows      == {s \in Joined : args.metrics[s] # {}}
Discovery    == {s \in Rows : Split(s) = "discovery"}
Confirmation == {s \in Rows : Split(s) = "confirmation"}
Failing   == {s \in Rows : args.metrics[s] = {1}}
N(mask)   == Cardinality(mask)
K(mask)   == Cardinality(mask \cap Failing)

Refused ==
  \/ Joined = {}
  \/ \E s \in Rows : ~(args.metrics[s] \subseteq {0, 1})
  \/ Rows # Discovery \cup Confirmation
  \/ Discovery = {} \/ Confirmation = {}

\* The vocabulary, from the rows it may see.
Vocabulary(rowset) ==
  LET all     == args.features.columns
      columns == Selected(all, {i \in DOMAIN all : all[i] \notin Excluded})
      seen(c) == [s \in rowset |-> args.features.cells[c][s]]
  IN FlattenSeq([i \in DOMAIN columns |->
       ColumnPredicates(columns[i], columns[i] \in args.features.numeric, seen(columns[i]))])

\* predicate_masks: the rows a predicate covers.
Covered(predicate, rowset) ==
  {s \in rowset : Holds(predicate, args.features.cells[predicate.column][s])}

\* Rule.evaluate.
Mask(rule, rowset) == {s \in rowset : \A j \in rule : s \in Covered(predicates[j], rowset)}

-----------------------------------------------------------------------------
(* Scores are fractions num / den with a positive den.                     *)

WRAcc(mask, all) == [num |-> K(mask) * N(all) - N(mask) * K(all), den |-> N(all) * N(all)]

\* The lift over the complement, or nothing where it is not a number.
Lift(mask, all) ==
  LET rest == all \ mask IN
  IF K(rest) = 0 THEN {} ELSE {[num |-> K(mask) * N(rest), den |-> N(mask) * K(rest)]}

Unbounded == 1000000

\* lift_quality: without a failure in the complement, far above every ratio.
LiftQuality(mask, all) ==
  IF mask = all THEN [num |-> 0, den |-> 1]
  ELSE IF K(all \ mask) = 0 THEN [num |-> Unbounded * N(mask) + K(mask), den |-> N(mask)]
  ELSE CHOOSE lift \in Lift(mask, all) : TRUE

Quality(mask, all) == IF args.quality = "wracc" THEN WRAcc(mask, all) ELSE LiftQuality(mask, all)

Above(a, b) == a.num * b.den > b.num * a.den
\* _nan_low: what is not a number comes last.
LiftAbove(a, b) ==
  \/ a # {} /\ b = {}
  \/ \E x \in a, y \in b : Above(x, y)

AtMostFirst(s, n) == SubSeq(s, 1, IF n < Len(s) THEN n ELSE Len(s))

-----------------------------------------------------------------------------
\* scripts/analyze.py leaves out a target that has one value only.
TwoOutcomes(metrics) == Cardinality(UNION {metrics[s] : s \in DOMAIN metrics}) >= 2

MineInit ==
  /\ script \in {"mine", "analyze"}
  /\ args \in [features : Features, metrics : Metrics, beam : BeamWidths, quality : Qualities]
  /\ script = "analyze" => TwoOutcomes(args.metrics)
  /\ exec = 1 /\ pc = "validate" /\ said = "" /\ todo = <<>>
  /\ predicates = <<>> /\ candidates = <<>> /\ level = <<>> /\ depth = 0
  /\ rows = <<>> /\ kept = <<>> /\ result = [all |-> <<>>, stored |-> <<>>]
  /\ jobs = {} /\ classes = {}

\* A ValueError ends scripts/mine.py; scripts/analyze.py writes it down and goes on.
Stop(reason) == pc' = "failed" /\ said' = reason

Refuse ==
  /\ pc = "validate" /\ Refused
  /\ Stop("refused")
  /\ UNCHANGED <<script, args, exec, search, judged, todo, tables>>

\* Mutant of Register: equal counts are taken for equal coverage.
RegisterByCounts(known, rule, mask) ==
  IF N(mask) < MinCoverage \/ \E c \in DOMAIN known : /\ N(known[c].mask) = N(mask)
                                                      /\ K(known[c].mask) = K(mask) THEN known
  ELSE Append(known, [rule |-> rule, mask |-> mask, quality |-> Quality(mask, Discovery)])

\* register: a rule below the floor, or with the coverage of an earlier one, is dropped.
Register(known, rule, mask) ==
  IF N(mask) < MinCoverage \/ \E c \in DOMAIN known : known[c].mask = mask THEN known
  ELSE Append(known, [rule |-> rule, mask |-> mask, quality |-> Quality(mask, Discovery)])

\* The parents, each extended by each predicate of the vocabulary that it does not have yet,
\* registered in this order.
Extended(known, vocabulary, parents) ==
  LET size == Len(vocabulary)
      parent(n) == parents[((n - 1) \div size) + 1]
      added(n)  == ((n - 1) % size) + 1
      after[n \in 0 .. Len(parents) * size] ==
        IF n = 0 THEN known
        ELSE LET before == after[n - 1] IN
             IF added(n) \in parent(n).rule THEN before
             ELSE Register(before, parent(n).rule \cup {added(n)},
                           parent(n).mask \cap Covered(vocabulary[added(n)], Discovery))
  IN after[Len(parents) * size]

NoRule == [rule |-> {}, mask |-> Discovery]

\* The vocabulary from the discovery split only, and the rules of one predicate.
Vocabulate ==
  /\ pc = "validate" /\ ~Refused
  /\ predicates' = Vocabulary(Discovery)
  /\ IF predicates' = <<>>
       THEN Stop("no predicates") /\ UNCHANGED <<candidates, level, depth>>
       ELSE /\ candidates' = Extended(<<>>, predicates', <<NoRule>>)
            /\ level' = candidates' /\ depth' = 1
            /\ pc' = "search" /\ UNCHANGED said
  /\ UNCHANGED <<script, args, exec, judged, todo, tables>>

\* One more depth: the best of the last one, extended.
Deepen ==
  /\ pc = "search" /\ depth < MaxDepth /\ level # <<>>
  /\ LET better(a, b) == Above(a.quality, b.quality)
         beam == AtMostFirst(StableSort(level, DOMAIN level, better), args.beam)
     IN candidates' = Extended(candidates, predicates, beam)
  /\ level' = SubSeq(candidates', Len(candidates) + 1, Len(candidates'))
  /\ depth' = depth + 1
  /\ UNCHANGED <<script, args, exec, pc, predicates, judged, said, todo, tables>>

\* Fisher's test of a confirmation mask against the rest.
PValue(mask) ==
  LET rest  == Confirmation \ mask
      exact == FisherP(K(mask), N(mask), K(rest), N(rest))
  IN exact[1] * (Unit \div exact[2])

\* Every candidate that covers something of the confirmation split is tested there.
Confirm ==
  /\ pc = "search" /\ (depth = MaxDepth \/ level = <<>>)
  /\ LET tested == Selected(candidates, {c \in DOMAIN candidates :
                                           Mask(candidates[c].rule, Confirmation) # {}})
         row(c) == LET mask == Mask(c.rule, Confirmation) IN
                   [rule |-> c.rule, mask |-> mask, p |-> PValue(mask), q |-> [num |-> Unit, den |-> 1],
                    wracc |-> WRAcc(mask, Confirmation), lift |-> Lift(mask, Confirmation)]
     IN rows' = [i \in DOMAIN tested |-> row(tested[i])]
  /\ IF rows' = <<>> THEN Stop("nothing tested") ELSE pc' = "correct" /\ UNCHANGED said
  /\ UNCHANGED <<script, args, exec, search, kept, result, todo, tables>>

\* The correction is over all of them.
Correct ==
  /\ pc = "correct"
  /\ LET q == QValues([i \in DOMAIN rows |-> rows[i].p], Unit)
     IN rows' = [i \in DOMAIN rows |-> [rows[i] EXCEPT !.q = q[i]]]
  /\ pc' = "prune"
  /\ UNCHANGED <<script, args, exec, search, kept, result, said, todo, tables>>

-----------------------------------------------------------------------------
(* Pruning.                                                                *)

\* Mutant of NearDuplicate: the overlap has to cover the lower-ranked rule only.
NearDuplicateOneSided(a, b) == 100 * N(a.mask \cap b.mask) >= Threshold * N(b.mask)

\* The overlap covers so much of both.
NearDuplicate(a, b) ==
  /\ 100 * N(a.mask \cap b.mask) >= Threshold * N(a.mask)
  /\ 100 * N(a.mask \cap b.mask) >= Threshold * N(b.mask)

\* By WRAcc, then by lift, then the shorter rule first.
RanksAbove(a, b) ==
  \/ Above(a.wracc, b.wracc)
  \/ ~Above(b.wracc, a.wracc) /\ LiftAbove(a.lift, b.lift)
  \/ ~Above(b.wracc, a.wracc) /\ ~LiftAbove(b.lift, a.lift)
     /\ Cardinality(a.rule) < Cardinality(b.rule)

Reportable == StableSort(rows, {i \in DOMAIN rows : N(rows[i].mask) >= MinCoverage}, RanksAbove)

\* From the best rule on, each one that is no near-duplicate of one kept before it.
Representatives(pool) ==
  LET after[n \in 0 .. Len(pool)] ==
        IF n = 0 THEN <<>>
        ELSE LET before == after[n - 1] IN
             IF \E i \in DOMAIN before : NearDuplicate(before[i], pool[n]) THEN before
             ELSE Append(before, pool[n])
  IN after[Len(pool)]

Prune ==
  /\ pc = "prune"
  /\ kept' = Representatives(AtMostFirst(Reportable, MaxPruneCandidates))
  /\ pc' = "describe"
  /\ UNCHANGED <<script, args, exec, search, rows, result, said, todo, tables>>

-----------------------------------------------------------------------------
(* The classes.                                                            *)

\* The first of them in WRAcc order, and of the others those that clear the correction.
Final ==
  Selected(kept, {i \in DOMAIN kept : i <= MaxClasses \/ ClearsStrictly(kept[i].q, Alpha)})

\* Mutant of MaySignify: the raw p-value.
MaySignifyRaw(r) ==
  LET rest == Confirmation \ r.mask IN
  r.p < Alpha /\ MayLieAboveOne(K(r.mask), N(r.mask), K(rest), N(rest))

\* A class is significant when its q-value is below alpha and its lift interval, one that
\* the resampling may give, lies above 1.0.
MaySignify(r) ==
  LET rest == Confirmation \ r.mask IN
  ClearsStrictly(r.q, Alpha) /\ MayLieAboveOne(K(r.mask), N(r.mask), K(rest), N(rest))

ByMass(cs) ==
  StableSort(cs, DOMAIN cs, LAMBDA a, b :
    \/ K(a.mask) > K(b.mask)
    \/ K(a.mask) = K(b.mask) /\ LiftAbove(a.lift, b.lift)
    \/ K(a.mask) = K(b.mask) /\ ~LiftAbove(b.lift, a.lift)
       /\ Cardinality(a.rule) < Cardinality(b.rule))

Describe ==
  /\ pc = "describe"
  /\ \E significant \in SUBSET {i \in DOMAIN Final : MaySignify(Final[i])} :
       LET class(i) == [rule |-> Final[i].rule, mask |-> Final[i].mask, lift |-> Final[i].lift,
                        significant |-> i \in significant]
           all      == ByMass([i \in DOMAIN Final |-> class(i)])
       IN result' = [all |-> all, stored |-> AtMostFirst(all, TopK)]
  /\ pc' = IF script = "mine" THEN "tell" ELSE "write"
  /\ UNCHANGED <<script, args, exec, search, rows, kept, said, todo, tables>>

Significant(cs) == {i \in DOMAIN cs : cs[i].significant}

\* What the report says: scripts/mine.py counts among all the classes, scripts/analyze.py
\* among the ones it stored.
Tell ==
  /\ pc = "tell"
  /\ said' = IF Significant(IF script = "mine" THEN result.all ELSE result.stored) = {}
             THEN "none survives" ELSE "some survive"
  /\ pc' = IF script = "mine" THEN "write" ELSE "done"
  /\ UNCHANGED <<script, args, exec, search, judged, todo, tables>>

-----------------------------------------------------------------------------
(* write_results, one statement at a time.                                 *)

\* scripts/mine.py takes a fresh id, scripts/analyze.py the one of the target.
JobId == IF script = "mine" THEN exec ELSE 0

\* Mutant of DeleteClasses: only the job row is replaced.
DeleteNoClasses ==
  /\ pc = "write"
  /\ pc' = "delete_job"
  /\ UNCHANGED <<script, args, exec, search, judged, said, todo, tables>>

DeleteClasses ==
  /\ pc = "write"
  /\ classes' = {c \in classes : c.id # JobId}
  /\ pc' = "delete_job"
  /\ UNCHANGED <<script, args, exec, search, judged, said, todo, jobs>>

DeleteJob ==
  /\ pc = "delete_job"
  /\ jobs' = {j \in jobs : j.id # JobId}
  /\ pc' = "insert_job"
  /\ UNCHANGED <<script, args, exec, search, judged, said, todo, classes>>

InsertJob ==
  /\ pc = "insert_job"
  /\ jobs' = jobs \cup {[id |-> JobId, exec |-> exec, tested |-> Len(rows)]}
  /\ todo' = result.stored
  /\ pc' = "insert_classes"
  /\ UNCHANGED <<script, args, exec, search, judged, said, classes>>

InsertClass ==
  /\ pc = "insert_classes" /\ todo # <<>>
  /\ LET rank == Len(result.stored) - Len(todo) + 1 IN
     classes' = classes \cup {[id |-> JobId, exec |-> exec, rank |-> rank,
                               significant |-> Head(todo).significant]}
  /\ todo' = Tail(todo)
  /\ UNCHANGED <<script, args, exec, pc, search, judged, said, jobs>>

Inserted ==
  /\ pc = "insert_classes" /\ todo = <<>>
  /\ pc' = IF script = "mine" THEN "done" ELSE "tell"
  /\ UNCHANGED <<script, args, exec, search, judged, said, todo, tables>>

\* The script ends or is killed, between any two statements, and is started again.
MineRestart ==
  /\ StartedAgain("validate") /\ said' = ""
  /\ predicates' = <<>> /\ candidates' = <<>> /\ level' = <<>> /\ depth' = 0
  /\ rows' = <<>> /\ kept' = <<>> /\ result' = [all |-> <<>>, stored |-> <<>>]
  /\ UNCHANGED tables

MineNext ==
  \/ Refuse \/ Vocabulate \/ Deepen \/ Confirm \/ Correct \/ Prune \/ Describe \/ Tell
  \/ DeleteClasses \/ DeleteJob \/ InsertJob \/ InsertClass \/ Inserted
  \/ MineRestart

MineSpec == MineInit /\ [][MineNext]_mineVars

-----------------------------------------------------------------------------
Rules == UNION {kSubset(n, DOMAIN predicates) : n \in 1 .. MaxDepth}

\* Dropping a rule that covers the same scenarios as an earlier one, and with it all its
\* extensions, loses no hypothesis: with a beam that never cuts, the candidates cover
\* exactly the sets that some conjunction of up to MaxDepth predicates covers and that
\* clear the floor, each once.
SearchLosesNoHypothesis ==
  pc = "prune" /\ args.beam >= Len(candidates) =>
    /\ {candidates[c].mask : c \in DOMAIN candidates}
         = {mask \in {Mask(rule, Discovery) : rule \in Rules} : N(mask) >= MinCoverage}
    /\ \A c, d \in DOMAIN candidates : candidates[c].mask = candidates[d].mask => c = d

\* A rule the pruning drops is represented: a kept rule that ranks no lower covers so
\* much of it, and it of that rule, that the two are one finding.  A narrower class inside
\* a wider one is not dropped.  No two kept rules are such duplicates.
EveryDropIsRepresented ==
  pc = "describe" =>
    LET shared(a, b) == 100 * N(a.mask \cap b.mask)
        same(a, b)   == shared(a, b) >= Threshold * N(a.mask) /\ shared(a, b) >= Threshold * N(b.mask)
        pool         == AtMostFirst(Reportable, MaxPruneCandidates)
        isKept(r)    == \E i \in DOMAIN kept : kept[i] = r
    IN /\ \A n \in DOMAIN pool :
            isKept(pool[n]) \/ \E i \in DOMAIN kept : same(kept[i], pool[n])
                                                   /\ ~RanksAbove(pool[n], kept[i])
       /\ \A i, j \in DOMAIN kept : same(kept[i], kept[j]) => i = j

\* What is called significant is rejected by the step-up procedure over the whole family
\* of tested rules, and no rule that was kept and clears it is lost to the cap on the
\* number of classes.
SurvivorsAreTheFamilys ==
  pc \in {"tell", "write"} =>
    LET rejected == Reject([i \in DOMAIN rows |-> rows[i].p], Alpha)
        all      == result.all
    IN /\ \A n \in Significant(all) : \E i \in rejected : rows[i].rule = all[n].rule
       /\ \A i \in DOMAIN kept : ClearsStrictly(kept[i].q, Alpha) =>
            \E n \in DOMAIN all : all[n].rule = kept[i].rule

\* Whoever reads the database at any time, after any kill, finds for every class the job
\* it belongs to, with the number of tests it was corrected for: of the same execution,
\* and no other job of that id.
ClassesHaveTheirJob ==
  /\ \A c \in classes : \E j \in jobs : j.id = c.id /\ j.exec = c.exec
  /\ \A j, k \in jobs : j.id = k.id => j = k

=============================================================================
