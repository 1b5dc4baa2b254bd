--------------------------------- MODULE Gate ---------------------------------
(***************************************************************************)
(* The regression gate: driveeval/mine/gate.py as scripts/gate.py and      *)
(* scripts/analyze.py call it.  Two runs are compared on the scenarios     *)
(* both have, overall and within the scenarios of mined failure classes,   *)
(* one cell per scope and metric; the cells of a gate are written to       *)
(* gate_results one statement after the other, and the script may be       *)
(* killed between any two and run again.                                   *)
(*                                                                         *)
(* A run is a function from scenarios to rows, a row one from metrics to   *)
(* cells: {} is NULL, {v} is v.                                            *)
(***************************************************************************)
EXTENDS Scripts, Stats, SequencesExt

CONSTANTS
  Baselines, Candidates,  (* Runs.                                         *)
  Columns,        (* The columns of the metrics table.                     *)
  Direction,      (* METRIC_DIRECTION: 1 where larger is better, else -1.  *)
  MetricLists,    (* The metrics of a call.                                *)
  Jobs,           (* What a mining job's rules cover: a sequence of scopes. *)
  Settings,       (* Of correction, "bh" or "none", min_effect in          *)
                  (* hundredths, no_fail and no_write.                     *)
  Bound           (* No replicate of a sum of differences is further from 0. *)

ASSUME GateAssumption ==
  /\ DOMAIN Direction \subseteq Columns /\ \A m \in DOMAIN Direction : Direction[m] \in {-1, 1}
  /\ Bound \in Nat
  /\ \A run \in Baselines \cup Candidates :
       IsFiniteSet(DOMAIN run) /\ \A s \in DOMAIN run, m \in Columns : run[s][m] \subseteq Int
  /\ \A metrics \in MetricLists : metrics \in Seq(ToSet(metrics)) /\ metrics # <<>>
  /\ \A job \in Jobs : job.scopes \in Seq(ToSet(job.scopes))

MinPairedForAVerdict == 3

VARIABLES
  cells,      \* The cells of the result.
  exit,       \* How scripts/gate.py ended: {} or the set of its exit status.
  gate_results

gateVars == <<script, args, exec, pc, cells, todo, exit, gate_results>>

-----------------------------------------------------------------------------
(* Scopes and cells.                                                       *)

Paired(base, cand) == DOMAIN base \cap DOMAIN cand

\* Every scenario, and the ones each mined rule covers in both splits.
Scopes == <<[name |-> "overall", ids |-> Paired(args.base, args.cand)]>> \o args.job.scopes

\* _paired_values: the scenarios left when what is NULL in either run is dropped.
PairedValues(base, cand, metric, ids) ==
  {s \in ids \cap Paired(base, cand) : base[s][metric] # {} /\ cand[s][metric] # {}}

ThinCell(scope, metric, n) ==
  [scope |-> scope, metric |-> metric, n |-> n, delta |-> 0, ci |-> NoInterval, p |-> {},
   verdict |-> "inconclusive"]

\* Mutant of Cell: a cell too thin to judge counts as a test that found nothing.
CellAlwaysTested(base, cand, scope, metric) ==
  LET ids  == PairedValues(base, cand, metric, scope.ids)
      n    == Cardinality(ids)
      d    == [s \in ids |-> The(cand[s][metric]) - The(base[s][metric])]
      boot == PairedBootstrap(d, Alpha, Unit, Bound)
  IN IF n < MinPairedForAVerdict
       THEN [ThinCell(scope.name, metric, n) EXCEPT !.p = {Unit}]
     ELSE [scope |-> scope.name, metric |-> metric, n |-> n, delta |-> Total(d),
           ci |-> boot.ci, p |-> {boot.p * (Unit \div Cardinality([ids -> ids]))},
           verdict |-> "inconclusive"]

\* One (scope, metric): the difference candidate minus baseline, its interval and its
\* p-value, from the same resamples, of which there are as many as ways to draw.
Cell(base, cand, scope, metric) ==
  LET ids  == PairedValues(base, cand, metric, scope.ids)
      n    == Cardinality(ids)
      d    == [s \in ids |-> The(cand[s][metric]) - The(base[s][metric])]
      boot == PairedBootstrap(d, Alpha, Unit, Bound)
  IN IF n < MinPairedForAVerdict THEN ThinCell(scope.name, metric, n)
     ELSE [scope |-> scope.name, metric |-> metric, n |-> n, delta |-> Total(d),
           ci |-> boot.ci, p |-> {boot.p * (Unit \div Cardinality([ids -> ids]))},
           verdict |-> "inconclusive"]

\* The cells, scope by scope and metric by metric (SubSeq, so that TLC evaluates each once).
CellsOf(base, cand, scopes, metrics) ==
  LET size == Len(scopes) * Len(metrics)
  IN SubSeq([n \in 1 .. size |->
               Cell(base, cand, scopes[((n - 1) \div Len(metrics)) + 1],
                                metrics[((n - 1) % Len(metrics)) + 1])], 1, size)

\* Mutant of Worse: less is always better.
WorseWhenMore(c) == c.delta > 0

Worse(c) == IF Direction[c.metric] > 0 THEN c.delta < 0 ELSE c.delta > 0

\* _decide, in the order of its guards.
Verdict(c, q) ==
  CASE ~ExcludesZero(c.ci) -> "inconclusive"
    [] ExcludesZero(c.ci) /\ args.settings.correction = "bh" /\ ~Clears(q, Alpha) -> "inconclusive"
    [] ExcludesZero(c.ci) /\ (args.settings.correction = "bh" => Clears(q, Alpha)) ->
         LET size == IF c.delta < 0 THEN -c.delta ELSE c.delta IN
         IF 100 * size < args.settings.min_effect * c.n THEN "inconclusive"
         ELSE IF Worse(c) THEN "regression" ELSE "improvement"

\* The correction over the family of the cells that were tested, in their order, and the
\* verdicts.
Decided(cs) ==
  LET family   == {n \in DOMAIN cs : cs[n].p # {}}
      order    == Arranged(family, <)
      q        == QValues([k \in DOMAIN order |-> The(cs[order[k]].p)], Unit)
      place(n) == CHOOSE k \in DOMAIN order : order[k] = n
  IN [n \in DOMAIN cs |->
        IF n \in family THEN [cs[n] EXCEPT !.verdict = Verdict(cs[n], q[place(n)])] ELSE cs[n]]

-----------------------------------------------------------------------------
Asked == {args.metrics[i] : i \in DOMAIN args.metrics}

MetricTwice == Cardinality(Asked) < Len(args.metrics)

\* What scripts/analyze.py leaves to the defaults.
Defaults == [correction |-> "bh", min_effect |-> 0, no_fail |-> FALSE, no_write |-> FALSE]

GateInit ==
  /\ script \in {"gate", "analyze"}
  /\ args \in [base : Baselines, cand : Candidates, metrics : MetricLists, job : Jobs,
               settings : Settings]
  /\ script = "analyze" => args.settings = Defaults /\ args.job.known
                           /\ Asked \subseteq DOMAIN Direction /\ ~MetricTwice
  /\ exec = 1 /\ pc = "start" /\ cells = <<>> /\ todo = <<>> /\ exit = {}
  /\ gate_results = {}

\* A comparison that cannot be made: scripts/gate.py ends with the status, and
\* scripts/analyze.py, which catches everything, goes on without the gate.
End(status) ==
  /\ pc' = "done"
  /\ exit' = IF script = "gate" THEN {status} ELSE {}
  /\ UNCHANGED <<script, args, exec, cells, todo, gate_results>>

\* A mining job was named and has no classes.
NoClasses == pc = "start" /\ ~args.job.known /\ End(2)

\* The database refuses a query for a column it does not have, with an error that is no
\* ValueError.
UnknownColumn == pc = "start" /\ args.job.known /\ ~(Asked \subseteq Columns) /\ End(1)

Comparable ==
  /\ args.job.known /\ Asked \subseteq Columns
  /\ DOMAIN args.base # {} /\ DOMAIN args.cand # {}
  /\ Asked \subseteq DOMAIN Direction
  /\ Paired(args.base, args.cand) # {}
  /\ \A i, j \in DOMAIN Scopes : Scopes[i].name = Scopes[j].name => i = j

\* A run without rows, a metric without a direction, no scenario in both, two scopes of one
\* name: ValueError.
NotComparable ==
  /\ pc = "start" /\ args.job.known /\ Asked \subseteq Columns /\ ~Comparable
  /\ End(2)

Compare ==
  /\ pc = "start" /\ Comparable
  /\ cells' = CellsOf(args.base, args.cand, Scopes, args.metrics)
  /\ pc' = "decide"
  /\ UNCHANGED <<script, args, exec, todo, exit, gate_results>>

Decide ==
  /\ pc = "decide"
  /\ cells' = Decided(cells)
  /\ pc' = IF args.settings.no_write THEN "insert" ELSE "delete"
  /\ UNCHANGED <<script, args, exec, todo, exit, gate_results>>

-----------------------------------------------------------------------------
(* write_results, and the exit status.                                     *)

\* scripts/gate.py takes a fresh id, scripts/analyze.py the one of the candidate run.
GateId == IF script = "gate" THEN exec ELSE 0

\* Mutant of Delete: only the rows over all scenarios are replaced.
DeleteOverall ==
  /\ pc = "delete"
  /\ gate_results' = {r \in gate_results : r.id # GateId \/ r.scope # "overall"}
  /\ todo' = cells /\ pc' = "insert"
  /\ UNCHANGED <<script, args, exec, cells, exit>>

Delete ==
  /\ pc = "delete"
  /\ gate_results' = {r \in gate_results : r.id # GateId}
  /\ todo' = cells /\ pc' = "insert"
  /\ UNCHANGED <<script, args, exec, cells, exit>>

\* The primary key of gate_results.
KeyTaken(c) == \E r \in gate_results : r.id = GateId /\ r.scope = c.scope /\ r.metric = c.metric

\* A metric was asked for twice: the database refuses its second row, and nothing catches that.
InsertRefused == pc = "insert" /\ todo # <<>> /\ KeyTaken(Head(todo)) /\ End(1)

Insert ==
  /\ pc = "insert" /\ todo # <<>> /\ ~KeyTaken(Head(todo))
  /\ LET c == Head(todo) IN
     gate_results' = gate_results \cup {[id |-> GateId, exec |-> exec, scope |-> c.scope,
                                         metric |-> c.metric, verdict |-> c.verdict]}
  /\ todo' = Tail(todo)
  /\ UNCHANGED <<script, args, exec, pc, cells, exit>>

\* Mutant of Passed: only the cells over all scenarios count.
PassedOverall == \A i \in DOMAIN cells : cells[i].scope = "overall" => cells[i].verdict # "regression"

Passed == \A i \in DOMAIN cells : cells[i].verdict # "regression"

Finish ==
  /\ pc = "insert" /\ todo = <<>>
  /\ End(IF Passed \/ args.settings.no_fail THEN 0 ELSE 1)

\* The script ended or is killed, between any two statements, and is started again.
GateRestart ==
  /\ StartedAgain("start")
  /\ cells' = <<>> /\ exit' = {}
  /\ UNCHANGED gate_results

GateNext ==
  \/ NoClasses \/ UnknownColumn \/ NotComparable \/ Compare \/ Decide
  \/ Delete \/ Insert \/ InsertRefused \/ Finish \/ GateRestart

GateSpec == GateInit /\ [][GateNext]_gateVars

-----------------------------------------------------------------------------
Judged == pc \in {"delete", "insert"}

ScopeOf(c) == CHOOSE s \in {Scopes[i] : i \in DOMAIN Scopes} : s.name = c.scope

\* A cell in which no scenario got worse is never a regression, and one in which none got
\* better is never an improvement, whatever the resampling and the correction do; so a
\* run compared with itself passes.
VerdictHasAWitness ==
  Judged => \A i \in DOMAIN cells :
    LET c == cells[i]
        gain(s) == Direction[c.metric] * (The(args.cand[s][c.metric]) - The(args.base[s][c.metric]))
        ids == PairedValues(args.base, args.cand, c.metric, ScopeOf(c).ids)
    IN /\ c.verdict = "regression"  => \E s \in ids : gain(s) < 0
       /\ c.verdict = "improvement" => \E s \in ids : gain(s) > 0

\* Exchanging the two runs exchanges regressions and improvements, cell by cell, and
\* leaves the inconclusive ones and the ties: neither the interval nor the p-value nor the
\* correction favours a side.  A tie is a sum of differences of exactly 0: should its interval
\* leave 0 out, which skewed differences can bring about at a level near 1, then it is an
\* improvement both ways, because _decide asks only whether the candidate is worse.
VerdictsMirror ==
  pc = "delete" =>
    LET mirrored == Decided(CellsOf(args.cand, args.base, Scopes, args.metrics))
        mirror(v) == CASE v = "regression"  -> "improvement"
                       [] v = "improvement" -> "regression"
                       [] OTHER             -> v
    IN \A i \in DOMAIN cells :
         mirrored[i].verdict = IF cells[i].delta = 0 THEN cells[i].verdict
                                                     ELSE mirror(cells[i].verdict)

\* A scope too thin to judge costs the others nothing: without the scopes that have no
\* three paired values for any metric the verdicts of the others are the same.
ThinScopesWeakenNoOne ==
  pc = "delete" =>
    LET enough(s) == \E m \in Asked : Cardinality(PairedValues(args.base, args.cand, m, s.ids)) >= MinPairedForAVerdict
        kept      == {k \in DOMAIN Scopes : enough(Scopes[k])}
        without   == Decided(CellsOf(args.base, args.cand, Selected(Scopes, kept), args.metrics))
    IN \A i \in DOMAIN cells, j \in DOMAIN without :
         cells[i].scope = without[j].scope /\ cells[i].metric = without[j].metric
           => cells[i].verdict = without[j].verdict

\* Whoever reads gate_results at any time, after any kill, finds under one gate the cells
\* of one execution: never the rows of an earlier gate of the same id among them.
StoredCellsAreOfOneGate ==
  \A r, s \in gate_results : r.id = s.id => r.exec = s.exec

\* What the rows stored under the id of a gate say of the status it exits with.
RecordSays(status) ==
  LET mine == {r \in gate_results : r.id = GateId}
      regressed == \E r \in mine : r.verdict = "regression"
  IN \/ /\ status = 0 /\ mine # {} /\ \A i \in DOMAIN cells : KeyTaken(cells[i])
        /\ regressed => args.settings.no_fail
     \/ status = 1 /\ (regressed \/ (mine = {} /\ ~(Asked \subseteq Columns)) \/ MetricTwice)
     \/ status = 2 /\ mine = {}

\* The exit status and the record agree: a gate that fails has stored its regression, one
\* that passes has all its cells stored and none of them a regression (or was told not to
\* fail), and one that could not compare has stored nothing.  Without any of that status 1
\* is left by the errors nothing catches: an unknown column, a metric asked for twice.
StatusIsOnRecord == ~args.settings.no_write => \A status \in exit : RecordSays(status)

=============================================================================
