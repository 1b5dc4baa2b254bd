-------------------------------- MODULE Store --------------------------------
(***************************************************************************)
(* The results store: scripts/analyze.py loading a results directory into  *)
(* the database through db/load.py.  Every statement commits on its own,   *)
(* so each load is two steps, the DELETE of what the file replaces and the *)
(* INSERT of what it holds, and analyze.py can die between them.           *)
(*                                                                         *)
(* A file that is not closed ends where the writer's last block did.  The  *)
(* reader rejects it when the header is missing, and may or may not take   *)
(* the rest, depending on whether the last line is whole.                  *)
(***************************************************************************)
EXTENDS ResultFiles

VARIABLES
  apc,         (* Where analyze.py is.                                     *)
  pending,     (* The runs whose metrics files it still has to load.       *)
  staged,      (* The rows of the file being loaded (_stage).              *)
  dbRuns,      (* The table runs: records of a run and its execution.      *)
  dbMetrics,   (* The table metrics: a run, a scenario and the execution   *)
               (* whose row it is.                                         *)
  dbFeatures   (* The table features: a scenario and an execution.         *)

analyze == <<apc, pending, staged>>
db == <<dbRuns, dbMetrics, dbFeatures>>

StoreInit ==
  /\ apc = "off"
  /\ pending = {}
  /\ staged = {}
  /\ dbRuns = {}
  /\ dbMetrics = {}
  /\ dbFeatures = {}

MetricsRowsOf(r) == {[run |-> r, scenario |-> s, exec |-> metrics[r].exec] : s \in metrics[r].rows}
FeaturesRows == {[scenario |-> s, exec |-> features.exec] : s \in features.rows}

\* Staging the file f may fail, and must when there is no header yet.
MayReject(f) == ~f.closed
MayAccept(f) == f.head

\* analyze.py starts; --reload removes the database first.  Without a runs.csv there
\* is nothing to analyse.
OpenStore ==
  /\ apc = "off"
  /\ \E reload \in BOOLEAN :
       IF reload THEN dbRuns' = {} /\ dbMetrics' = {} /\ dbFeatures' = {}
                 ELSE UNCHANGED db
  /\ apc' = IF runsCsv = <<>> THEN "off" ELSE "runs"
  /\ UNCHANGED <<pending, staged>>

\* The rows of runs.csv; two of them for one run are of different executions.
RunRows == {runsCsv[n] : n \in DOMAIN runsCsv}

\* load_runs_csv up to the DELETE.
DeleteRuns ==
  /\ apc = "runs"
  /\ staged' = RunRows
  /\ dbRuns' = {d \in dbRuns : \A s \in RunRows : s.run # d.run}
  /\ apc' = "runsInsert"
  /\ UNCHANGED <<pending, dbMetrics, dbFeatures>>

RunTwice == \E a, b \in staged : a # b /\ a.run = b.run

\* The INSERT of load_runs_csv.  Two rows of one run violate the primary key: no row
\* is inserted and the exception ends analyze.py, the DELETE having been committed.
InsertRuns ==
  /\ apc = "runsInsert"
  /\ IF RunTwice
       THEN apc' = "off" /\ UNCHANGED dbRuns
       ELSE apc' = "features" /\ dbRuns' = dbRuns \cup staged
  /\ staged' = {}
  /\ UNCHANGED <<pending, dbMetrics, dbFeatures>>

\* The metrics files that are there when the loader comes to list them.
MetricsFiles == {r \in Runs : Exists(metrics[r])}

\* They are loaded in the order of their names.
InOrder(r, q) == \E m, n \in DOMAIN RunOrder : m <= n /\ RunOrder[m] = r /\ RunOrder[n] = q
Upcoming(r)   == r \in pending /\ \A q \in pending : InOrder(r, q)

\* load_features_csv up to the DELETE, if there is such a file and it can be staged.
DeleteFeatures ==
  /\ apc = "features"
  /\ Exists(features) /\ MayAccept(features)
  /\ staged' = FeaturesRows
  /\ dbFeatures' = {d \in dbFeatures : d.scenario \notin features.rows}
  /\ apc' = "featuresInsert"
  /\ UNCHANGED <<pending, dbRuns, dbMetrics>>

SkipFeatures ==
  /\ apc = "features"
  /\ Exists(features) => MayReject(features)
  /\ apc' = "metrics"
  /\ pending' = MetricsFiles
  /\ UNCHANGED <<staged, db>>

InsertFeatures ==
  /\ apc = "featuresInsert"
  /\ dbFeatures' = dbFeatures \cup staged
  /\ staged' = {}
  /\ apc' = "metrics"
  /\ pending' = MetricsFiles
  /\ UNCHANGED <<dbRuns, dbMetrics>>

\* Mutants of DeleteMetrics: rows are replaced one by one, as those of features are;
\* a file whose run has no row in runs is left out, as the warning might suggest.
DeleteMetricsByRow ==
  /\ apc = "metrics"
  /\ \E r \in Runs :
       /\ Upcoming(r) /\ MayAccept(metrics[r])
       /\ staged' = MetricsRowsOf(r)
       /\ dbMetrics' = {d \in dbMetrics : ~(d.run = r /\ d.scenario \in metrics[r].rows)}
  /\ apc' = "metricsInsert"
  /\ UNCHANGED <<pending, dbRuns, dbFeatures>>

DeleteMetricsOfKnownRuns ==
  /\ apc = "metrics"
  /\ \E r \in Runs :
       /\ Upcoming(r) /\ MayAccept(metrics[r])
       /\ staged' = IF \E d \in dbRuns : d.run = r THEN MetricsRowsOf(r) ELSE {}
       /\ dbMetrics' = {d \in dbMetrics : \A s \in staged' : s.run # d.run}
  /\ apc' = "metricsInsert"
  /\ UNCHANGED <<pending, dbRuns, dbFeatures>>

\* load_metrics_csv up to the DELETE, of the next file: it replaces all the rows of
\* the runs it has rows of.  A run without a row in runs is only warned about.
DeleteMetrics ==
  /\ apc = "metrics"
  /\ \E r \in Runs :
       /\ Upcoming(r) /\ MayAccept(metrics[r])
       /\ staged' = MetricsRowsOf(r)
       /\ dbMetrics' = {d \in dbMetrics : \A s \in staged' : s.run # d.run}
  /\ apc' = "metricsInsert"
  /\ UNCHANGED <<pending, dbRuns, dbFeatures>>

\* "skipped": the exception of one file is reported and the next one is loaded.
SkipMetrics ==
  /\ apc = "metrics"
  /\ \E r \in Runs :
       /\ Upcoming(r) /\ MayReject(metrics[r])
       /\ pending' = pending \ {r}
  /\ UNCHANGED <<apc, staged, db>>

InsertMetrics ==
  /\ apc = "metricsInsert"
  /\ dbMetrics' = dbMetrics \cup staged
  /\ staged' = {}
  /\ \E r \in Runs : Upcoming(r) /\ pending' = pending \ {r}
  /\ apc' = "metrics"
  /\ UNCHANGED <<dbRuns, dbFeatures>>

\* Everything is loaded; the findings are computed from the tables.
Loaded ==
  /\ apc = "metrics" /\ pending = {}
  /\ apc' = "report"
  /\ UNCHANGED <<pending, staged, db>>

\* The report is written and the process ends.
Report ==
  /\ apc = "report"
  /\ apc' = "off"
  /\ UNCHANGED <<pending, staged, db>>

\* analyze.py is killed: what was committed stays, the temporary table goes.
KillAnalyze ==
  /\ apc # "off"
  /\ apc' = "off"
  /\ pending' = {}
  /\ staged' = {}
  /\ UNCHANGED db

\* What analyze.py does once it was started.
AnalyzeStep ==
  \/ DeleteRuns
  \/ InsertRuns
  \/ DeleteFeatures
  \/ SkipFeatures
  \/ InsertFeatures
  \/ DeleteMetrics
  \/ SkipMetrics
  \/ InsertMetrics
  \/ Loaded
  \/ Report

StoreNext == OpenStore \/ AnalyzeStep \/ KillAnalyze

=============================================================================
