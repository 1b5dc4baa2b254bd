---------------------------- MODULE ResultsProofs ----------------------------
(***************************************************************************)
(* What holds of the campaign and the results store for any number of      *)
(* runs, scenarios, invocations, kills and analyses: a row of runs.csv     *)
(* vouches for its file, the database holds one execution of a run, and an *)
(* analysis of files at rest leaves the tables agreeing with them; FORCE   *)
(* ends what kills and skips have left.                                    *)
(***************************************************************************)
EXTENDS Results, TLAPS

-----------------------------------------------------------------------------
(***************************************************************************)
(* One execution of a run in the database.                                 *)
(***************************************************************************)

\* What is staged for the table metrics is of one execution for each run, and the table
\* has no row of those runs when it is inserted.
StagedReplaces ==
  apc = "metricsInsert" =>
    \A s \in staged : /\ \A t \in staged : s.run = t.run => s.exec = t.exec
                      /\ \A d \in dbMetrics : s.run # d.run

OneInv == OneExecutionPerRun /\ StagedReplaces

\* It holds at the start, of empty tables.
LEMMA OneInvInit == Init => OneInv
  BY DEF Init, StoreInit, OneInv, OneExecutionPerRun, StagedReplaces

\* DeleteMetrics removes what InsertMetrics would mix; the files may change between the
\* two, what was staged does not.
LEMMA OneInvNext == OneInv /\ [Next]_vars => OneInv'
<1> SUFFICES ASSUME OneInv, [Next]_vars PROVE OneInv'
  OBVIOUS
<1> USE DEF OneInv, OneExecutionPerRun, StagedReplaces, db, analyze
<1>1. CASE Campaigning(CampaignNext)
  BY <1>1 DEF Campaigning
<1>2. CASE Analyzing(StoreNext)
  <2>1. CASE OpenStore
    BY <2>1 DEF OpenStore
  <2>2. CASE DeleteRuns
    BY <2>2 DEF DeleteRuns
  <2>3. CASE InsertRuns
    BY <2>3 DEF InsertRuns
  <2>4. CASE DeleteFeatures
    BY <2>4 DEF DeleteFeatures
  <2>5. CASE SkipFeatures
    BY <2>5 DEF SkipFeatures
  <2>6. CASE InsertFeatures
    BY <2>6 DEF InsertFeatures
  <2>7. CASE DeleteMetrics
    <3>1. PICK r \in Runs : /\ staged' = MetricsRowsOf(r)
                            /\ dbMetrics' = {d \in dbMetrics : \A s \in staged' : s.run # d.run}
      BY <2>7 DEF DeleteMetrics
    <3>2. \A s, t \in staged' : s.exec = t.exec
      BY <3>1 DEF MetricsRowsOf
    <3>3. QED
      BY <3>1, <3>2
  <2>8. CASE SkipMetrics
    BY <2>8 DEF SkipMetrics
  <2>9. CASE InsertMetrics
    <3>1. dbMetrics' = dbMetrics \cup staged /\ apc = "metricsInsert" /\ apc' = "metrics"
      BY <2>9 DEF InsertMetrics
    <3>2. QED
      BY <3>1
  <2>10. CASE Loaded
    BY <2>10 DEF Loaded
  <2>11. CASE Report
    BY <2>11 DEF Report
  <2>12. CASE KillAnalyze
    BY <2>12 DEF KillAnalyze
  <2>13. QED
    BY <1>2, <2>1, <2>2, <2>3, <2>4, <2>5, <2>6, <2>7, <2>8, <2>9, <2>10, <2>11, <2>12
       DEF Analyzing, StoreNext, AnalyzeStep
<1>3. CASE UNCHANGED vars
  BY <1>3 DEF vars
<1>4. QED
  BY <1>1, <1>2, <1>3 DEF Next

\* However the campaign, its kills and the analyses interleave, the rows the database
\* holds of a run are of one execution of it.
THEOREM StoreHoldsOneExecution == Spec => []OneExecutionPerRun
<1>1. OneInv => OneExecutionPerRun
  BY DEF OneInv
<1>2. QED
  BY <1>1, OneInvInit, OneInvNext, PTL DEF Spec

-----------------------------------------------------------------------------
(***************************************************************************)
(* Files at rest are mirrored.                                             *)
(***************************************************************************)

\* The order of the files' names is total, so one file at most is the next.
LEMMA UpcomingUnique ==
  ASSUME NEW r \in Runs, NEW q \in Runs, Upcoming(r), Upcoming(q)
  PROVE  r = q
<1>1. InOrder(r, q) /\ InOrder(q, r)
  BY DEF Upcoming
<1>2. PICK m, n \in DOMAIN RunOrder : m <= n /\ RunOrder[m] = r /\ RunOrder[n] = q
  BY <1>1 DEF InOrder
<1>3. PICK i, j \in DOMAIN RunOrder : i <= j /\ RunOrder[i] = q /\ RunOrder[j] = r
  BY <1>1 DEF InOrder
<1>4. i = n /\ j = m
  BY <1>2, <1>3, RunsAssumption
<1>5. m \in Nat /\ n \in Nat
  BY RunsAssumption
<1>6. m = n
  BY <1>2, <1>3, <1>4, <1>5
<1>7. QED
  BY <1>2, <1>6

\* What an analysis has done for files that rest, at each of its steps.
RunsLoaded ==
  /\ apc = "runsInsert" => staged = RunRows
  /\ apc \in {"features", "featuresInsert", "metrics", "metricsInsert", "report"}
       => RunRows \subseteq dbRuns
FeaturesLoaded ==
  /\ apc = "featuresInsert" => staged = FeaturesRows
  /\ apc \in {"metrics", "metricsInsert", "report"} /\ features.closed
       => FeaturesRows \subseteq dbFeatures

Mirrored(r) == {d \in dbMetrics : d.run = r} = MetricsRowsOf(r)

MetricsLoaded ==
  /\ apc \in {"metrics", "metricsInsert", "report"} =>
       \A r \in Runs : Complete(metrics[r]) /\ r \notin pending => Mirrored(r)
  /\ apc = "metricsInsert" =>
       \A r \in Runs : Upcoming(r) =>
         /\ staged = MetricsRowsOf(r)
         /\ metrics[r].rows # {} => \A d \in dbMetrics : d.run # r
  /\ apc = "report" => pending = {}

SettledInv ==
  /\ quiet \in BOOLEAN
  /\ quiet => RunsLoaded /\ FeaturesLoaded /\ MetricsLoaded

\* Before an analysis has staged anything there is nothing to keep.
LEMMA NothingLoaded ==
  ASSUME apc \in {"off", "runs"}
  PROVE  RunsLoaded /\ FeaturesLoaded /\ MetricsLoaded
  BY DEF RunsLoaded, FeaturesLoaded, MetricsLoaded

\* At the start analyze.py is off.
LEMMA SettledInvInit == Init => SettledInv
  BY NothingLoaded DEF Init, StoreInit, SettledInv

\* A step of the campaign that leaves the files alone leaves all of it alone.
LEMMA LoadedUnchanged ==
  ASSUME RunsLoaded, FeaturesLoaded, MetricsLoaded, UNCHANGED <<files, analyze, db>>
  PROVE  RunsLoaded' /\ FeaturesLoaded' /\ MetricsLoaded'
<1> USE DEF files, analyze, db
<1>1. RunsLoaded'
  BY DEF RunsLoaded, RunRows
<1>2. FeaturesLoaded'
  BY DEF FeaturesLoaded, FeaturesRows
<1>3. MetricsLoaded'
  BY DEF MetricsLoaded, Mirrored, MetricsRowsOf, Complete, Upcoming, InOrder
<1>4. QED
  BY <1>1, <1>2, <1>3

\* load_runs_csv.
LEMMA RunsStep ==
  ASSUME RunsLoaded, AnalyzeStep, UNCHANGED files
  PROVE  RunsLoaded'
<1> USE DEF RunsLoaded, RunRows, files, db
<1>1. CASE DeleteRuns
  BY <1>1 DEF DeleteRuns
<1>2. CASE InsertRuns
  BY <1>2 DEF InsertRuns
<1>3. CASE DeleteFeatures
  BY <1>3 DEF DeleteFeatures
<1>4. CASE SkipFeatures
  BY <1>4 DEF SkipFeatures
<1>5. CASE InsertFeatures
  BY <1>5 DEF InsertFeatures
<1>6. CASE DeleteMetrics
  BY <1>6 DEF DeleteMetrics
<1>7. CASE SkipMetrics
  BY <1>7 DEF SkipMetrics
<1>8. CASE InsertMetrics
  BY <1>8 DEF InsertMetrics
<1>9. CASE Loaded
  BY <1>9 DEF Loaded
<1>10. CASE Report
  BY <1>10 DEF Report
<1>11. QED
  BY <1>1, <1>2, <1>3, <1>4, <1>5, <1>6, <1>7, <1>8, <1>9, <1>10 DEF AnalyzeStep

\* load_features_csv: a closed features file is never the one that is skipped.
LEMMA FeaturesStep ==
  ASSUME FeaturesLoaded, AnalyzeStep, UNCHANGED files
  PROVE  FeaturesLoaded'
<1> USE DEF FeaturesLoaded, FeaturesRows, files, db
<1>1. CASE DeleteRuns
  BY <1>1 DEF DeleteRuns
<1>2. CASE InsertRuns
  BY <1>2 DEF InsertRuns
<1>3. CASE DeleteFeatures
  BY <1>3 DEF DeleteFeatures
<1>4. CASE SkipFeatures
  BY <1>4 DEF SkipFeatures, Exists, NoFile, MayReject
<1>5. CASE InsertFeatures
  BY <1>5 DEF InsertFeatures
<1>6. CASE DeleteMetrics
  BY <1>6 DEF DeleteMetrics
<1>7. CASE SkipMetrics
  BY <1>7 DEF SkipMetrics
<1>8. CASE InsertMetrics
  BY <1>8 DEF InsertMetrics
<1>9. CASE Loaded
  BY <1>9 DEF Loaded
<1>10. CASE Report
  BY <1>10 DEF Report
<1>11. QED
  BY <1>1, <1>2, <1>3, <1>4, <1>5, <1>6, <1>7, <1>8, <1>9, <1>10 DEF AnalyzeStep

\* load_metrics_csv, of every file: what a finished file replaces is all that the table
\* had of its run, and the other runs' rows stay.
LEMMA MetricsStep ==
  ASSUME MetricsLoaded, AnalyzeStep, UNCHANGED files
  PROVE  MetricsLoaded'
<1> USE DEF MetricsLoaded, files, db
<1>1. CASE DeleteRuns
  BY <1>1 DEF DeleteRuns
<1>2. CASE InsertRuns
  BY <1>2 DEF InsertRuns
<1>3. CASE DeleteFeatures
  BY <1>3 DEF DeleteFeatures
<1>4. ASSUME apc' = "metrics", pending' = MetricsFiles PROVE MetricsLoaded'
  <2>1. \A r \in Runs : Complete(metrics[r]) => Exists(metrics[r])
    BY DEF Complete, Exists, NoFile
  <2>2. \A r \in Runs : Complete(metrics'[r]) => r \in pending'
    BY <1>4, <2>1 DEF MetricsFiles, Complete
  <2>3. QED
    BY <1>4, <2>2
<1>5. CASE SkipFeatures
  BY <1>4, <1>5 DEF SkipFeatures
<1>6. CASE InsertFeatures
  BY <1>4, <1>6 DEF InsertFeatures
<1>7. CASE DeleteMetrics
  <2>1. PICK r \in Runs :
          /\ Upcoming(r)
          /\ staged' = MetricsRowsOf(r)
          /\ dbMetrics' = {d \in dbMetrics : \A s \in staged' : s.run # d.run}
    BY <1>7 DEF DeleteMetrics
  <2>2. apc = "metrics" /\ apc' = "metricsInsert" /\ UNCHANGED pending
    BY <1>7 DEF DeleteMetrics
  <2>3. \A s \in staged' : s.run = r
    BY <2>1 DEF MetricsRowsOf
  <2>4. metrics[r].rows # {} => \A d \in dbMetrics' : d.run # r
    <3>1. metrics[r].rows # {} => staged' # {}
      BY <2>1 DEF MetricsRowsOf
    <3>2. QED
      BY <2>1, <2>3, <3>1
  <2>5. \A q \in Runs : q # r => {d \in dbMetrics' : d.run = q} = {d \in dbMetrics : d.run = q}
    BY <2>1, <2>3
  <2>6. r \in pending
    BY <2>1 DEF Upcoming
  <2>7. ASSUME NEW q \in Runs, Complete(metrics'[q]), q \notin pending' PROVE Mirrored(q)'
    <3>1. q # r /\ Mirrored(q)
      BY <2>2, <2>6, <2>7 DEF Complete
    <3>2. QED
      BY <2>5, <3>1 DEF Mirrored, MetricsRowsOf
  <2>8. ASSUME NEW q \in Runs, Upcoming(q)'
        PROVE  /\ staged' = MetricsRowsOf(q)'
               /\ metrics'[q].rows # {} => \A d \in dbMetrics' : d.run # q
    <3>1. Upcoming(q)
      BY <2>2, <2>8 DEF Upcoming, InOrder
    <3>2. q = r
      BY <2>1, <3>1, UpcomingUnique
    <3>3. QED
      BY <2>1, <2>4, <3>2 DEF MetricsRowsOf
  <2>9. QED
    BY <2>2, <2>7, <2>8
<1>8. CASE SkipMetrics
  <2>1. PICK r \in Runs : MayReject(metrics[r]) /\ pending' = pending \ {r}
    BY <1>8 DEF SkipMetrics
  <2>2. apc = "metrics" /\ UNCHANGED <<apc, dbMetrics>>
    BY <1>8 DEF SkipMetrics
  <2>3. ASSUME NEW q \in Runs, Complete(metrics'[q]), q \notin pending' PROVE Mirrored(q)'
    <3>1. q # r /\ q \notin pending
      BY <2>1, <2>3 DEF MayReject, Complete
    <3>2. Mirrored(q)
      BY <2>2, <2>3, <3>1 DEF Complete
    <3>3. QED
      BY <2>2, <3>2 DEF Mirrored, MetricsRowsOf
  <2>4. QED
    BY <2>2, <2>3
<1>9. CASE InsertMetrics
  <2>1. PICK r \in Runs : Upcoming(r) /\ pending' = pending \ {r}
    BY <1>9 DEF InsertMetrics
  <2>2. apc = "metricsInsert" /\ apc' = "metrics" /\ dbMetrics' = dbMetrics \cup staged
    BY <1>9 DEF InsertMetrics
  <2>3. staged = MetricsRowsOf(r) /\ (metrics[r].rows # {} => \A d \in dbMetrics : d.run # r)
    BY <2>1, <2>2
  <2>4. \A s \in staged : s.run = r
    BY <2>3 DEF MetricsRowsOf
  <2>5. ASSUME NEW q \in Runs, Complete(metrics'[q]), q \notin pending' PROVE Mirrored(q)'
    <3>1. CASE q = r
      <4>1. metrics[r].rows # {}
        BY <2>5, <3>1, ScenariosAssumption DEF Complete
      <4>2. {d \in dbMetrics' : d.run = r} = staged
        BY <2>2, <2>3, <2>4, <4>1
      <4>3. QED
        BY <2>3, <3>1, <4>2 DEF Mirrored, MetricsRowsOf
    <3>2. CASE q # r
      <4>1. Mirrored(q)
        BY <2>1, <2>2, <2>5, <3>2 DEF Complete
      <4>2. {d \in dbMetrics' : d.run = q} = {d \in dbMetrics : d.run = q}
        BY <2>2, <2>4, <3>2
      <4>3. QED
        BY <4>1, <4>2 DEF Mirrored, MetricsRowsOf
    <3>3. QED
      BY <3>1, <3>2
  <2>6. QED
    BY <2>2, <2>5
<1>10. CASE Loaded
  BY <1>10 DEF Loaded, Mirrored, MetricsRowsOf, Complete
<1>11. CASE Report
  BY <1>11 DEF Report
<1>12. QED
  BY <1>1, <1>2, <1>3, <1>5, <1>6, <1>7, <1>8, <1>9, <1>10, <1>11 DEF AnalyzeStep

\* quiet turns true only where an analysis starts, and every step of the campaign that
\* changes a file turns it false.
LEMMA SettledInvNext == SettledInv /\ [Next]_vars => SettledInv'
<1> SUFFICES ASSUME SettledInv, [Next]_vars PROVE SettledInv'
  OBVIOUS
<1>1. CASE Campaigning(CampaignNext)
  <2>1. quiet' \in BOOLEAN
    BY <1>1 DEF Campaigning
  <2>2. CASE quiet'
    <3>1. quiet /\ UNCHANGED <<files, analyze, db>>
      BY <1>1, <2>2 DEF Campaigning
    <3>2. RunsLoaded /\ FeaturesLoaded /\ MetricsLoaded
      BY <3>1 DEF SettledInv
    <3>3. QED
      BY <2>1, <3>1, <3>2, LoadedUnchanged DEF SettledInv
  <2>3. QED
    BY <2>1, <2>2 DEF SettledInv
<1>2. CASE Analyzing(StoreNext)
  <2>1. quiet' \in BOOLEAN /\ UNCHANGED files
    BY <1>2 DEF Analyzing
  <2>2. CASE OpenStore
    <3>1. apc' \in {"off", "runs"}
      BY <2>2 DEF OpenStore
    <3>2. RunsLoaded' /\ FeaturesLoaded' /\ MetricsLoaded'
      BY <3>1 DEF RunsLoaded, FeaturesLoaded, MetricsLoaded
    <3>3. QED
      BY <2>1, <3>2 DEF SettledInv
  <2>3. CASE AnalyzeStep
    <3>1. apc # "off"
      BY <2>3 DEF AnalyzeStep, DeleteRuns, InsertRuns, DeleteFeatures, SkipFeatures,
         InsertFeatures, DeleteMetrics, SkipMetrics, InsertMetrics, Loaded, Report
    <3>2. CASE quiet'
      <4>1. RunsLoaded /\ FeaturesLoaded /\ MetricsLoaded
        BY <1>2, <3>1, <3>2 DEF Analyzing, SettledInv
      <4>2. QED
        BY <2>1, <2>3, <4>1, RunsStep, FeaturesStep, MetricsStep DEF SettledInv
    <3>3. QED
      BY <2>1, <3>2 DEF SettledInv
  <2>4. CASE KillAnalyze
    <3>1. apc' = "off"
      BY <2>4 DEF KillAnalyze
    <3>2. RunsLoaded' /\ FeaturesLoaded' /\ MetricsLoaded'
      BY <3>1 DEF RunsLoaded, FeaturesLoaded, MetricsLoaded
    <3>3. QED
      BY <2>1, <3>2 DEF SettledInv
  <2>5. QED
    BY <1>2, <2>2, <2>3, <2>4 DEF Analyzing, StoreNext
<1>3. CASE UNCHANGED vars
  <2>1. UNCHANGED <<files, analyze, db>> /\ UNCHANGED quiet
    BY <1>3 DEF vars
  <2>2. QED
    BY <2>1, LoadedUnchanged DEF SettledInv
<1>4. QED
  BY <1>1, <1>2, <1>3 DEF Next

\* Whatever crashes, half-written files and killed analyses came before, one analysis of
\* files at rest leaves the database with exactly the rows of each finished file.
THEOREM StoreMirrorsSettledFiles == Spec => []SettledStoreMirrorsFiles
<1>1. SettledInv => SettledStoreMirrorsFiles
  BY DEF SettledInv, SettledStoreMirrorsFiles, RunsLoaded, FeaturesLoaded, MetricsLoaded,
     Mirrored
<1>2. QED
  BY <1>1, SettledInvInit, SettledInvNext, PTL DEF Spec

-----------------------------------------------------------------------------
(***************************************************************************)
(* The rows of runs.csv.                                                   *)
(***************************************************************************)

Rows == [run : Runs, exec : Nat]
MetricsFile == [exec : Nat, head : BOOLEAN, rows : SUBSET Scenarios, closed : BOOLEAN]

\* The values the campaign's variables take.
CampaignTyped ==
  /\ invocation \in Nat
  /\ todo \in Nat \ {0}
  /\ stage \in {"off", "next", "running", "closed", "complete"}
  /\ metrics \in [Runs -> MetricsFile]
  /\ runsCsv \in Seq(Rows)

\* No file and no row is of an execution that has not begun, and of the execution that
\* is under way the row is not there before its run was passed.
ExecutionsBegun ==
  /\ \A r \in Runs : metrics[r].exec <= invocation
  /\ \A n \in DOMAIN runsCsv : runsCsv[n].exec <= invocation
  /\ stage \in {"next", "running", "closed"} =>
       \A m \in DOMAIN RunOrder : m >= todo =>
         \A n \in DOMAIN runsCsv : ~(runsCsv[n].run = RunOrder[m] /\ runsCsv[n].exec = invocation)

\* The batch that runs has its own file open, and closes it complete.
CurrentFileIsOwn ==
  /\ stage \in {"running", "closed"} =>
       todo <= Len(RunOrder) /\ metrics[Current].exec = invocation
  /\ stage = "closed" => Complete(metrics[Current])

ProvenanceInv == CampaignTyped /\ ExecutionsBegun /\ CurrentFileIsOwn /\ ProvenanceHolds

\* Positions in the order of the runs are the numbers up to its length.
LEMMA OrderDomain ==
  /\ DOMAIN RunOrder = 1 .. Len(RunOrder) /\ Len(RunOrder) \in Nat
  /\ \A m \in DOMAIN RunOrder : RunOrder[m] \in Runs
  BY RunsAssumption DEF Runs

\* The bookkeeping of the campaign holds at the start, with no file and no row.
LEMMA ProvenanceInvInit == Init => ProvenanceInv
<1> SUFFICES ASSUME Init PROVE ProvenanceInv
  OBVIOUS
<1> USE DEF Init, CampaignInit, FilesInit
<1>1. CampaignTyped
  BY DEF CampaignTyped, MetricsFile, NoFile
<1>2. ExecutionsBegun
  BY DEF ExecutionsBegun, NoFile
<1>3. CurrentFileIsOwn /\ ProvenanceHolds
  BY DEF CurrentFileIsOwn, ProvenanceHolds
<1>4. QED
  BY <1>1, <1>2, <1>3 DEF ProvenanceInv

\* The steps of the campaign.  A file that a new execution opens is later than every
\* row of its run; one that is written to keeps its execution, which has no row yet; the
\* row is appended when the file of its execution is complete.
LEMMA CampaignStepKeeps ==
  ASSUME ProvenanceInv, CampaignNext
  PROVE  ProvenanceInv'
<1> USE DEF ProvenanceInv, CampaignTyped, ExecutionsBegun, CurrentFileIsOwn, ProvenanceHolds, Current
<1>4. \A n \in DOMAIN runsCsv : runsCsv[n].run \in Runs /\ runsCsv[n].exec \in Nat
  <2>1. \A n \in DOMAIN runsCsv : runsCsv[n] \in Rows
    OBVIOUS
  <2>2. QED
    BY <2>1 DEF Rows
<1>1. CASE Invoke
  <2>1. UNCHANGED <<metrics, runsCsv>> /\ invocation' = invocation + 1 /\ todo' = 1 /\ stage' = "next"
    BY <1>1 DEF Invoke, files
  <2>2. \A n \in DOMAIN runsCsv : runsCsv[n].exec \in Nat /\ runsCsv[n].exec < invocation'
    BY <1>4, <2>1
  <2>3. \A r \in Runs : metrics[r].exec \in Nat
    BY DEF MetricsFile
  <2>4. CampaignTyped' /\ CurrentFileIsOwn' /\ ProvenanceHolds'
    BY <2>1
  <2>5. ExecutionsBegun'
    BY <2>1, <2>2, <2>3
  <2>6. QED
    BY <2>4, <2>5
<1>2. CASE SkipPresent
  BY <1>2 DEF SkipPresent, files
<1>3. ASSUME stage = "next", todo <= Len(RunOrder)
      PROVE  /\ todo \in DOMAIN RunOrder /\ Current \in Runs
             /\ \A n \in DOMAIN runsCsv : runsCsv[n].run = Current => runsCsv[n].exec # invocation
  <2>1. todo \in DOMAIN RunOrder /\ Current \in Runs /\ todo >= todo
    BY <1>3, OrderDomain
  <2>2. QED
    BY <1>3, <2>1
<1>5. CASE Launch
  <2>1. /\ stage = "next" /\ stage' = "running" /\ todo <= Len(RunOrder)
        /\ metrics' = [metrics EXCEPT ![Current] = Opened]
        /\ UNCHANGED <<runsCsv, todo, invocation>>
    BY <1>5 DEF Launch
  <2>2. todo \in DOMAIN RunOrder /\ Current \in Runs
    BY <1>3, <2>1
  <2>3. Opened \in MetricsFile /\ Opened.exec = invocation
    BY DEF Opened, MetricsFile
  <2>4. CampaignTyped' /\ metrics'[Current] = Opened
    BY <2>1, <2>2, <2>3
  <2>5. \A r \in Runs : r # Current => metrics'[r] = metrics[r]
    BY <2>1
  <2>6. ExecutionsBegun' /\ CurrentFileIsOwn'
    BY <2>1, <2>2, <2>3, <2>4, <2>5
  <2>7. ASSUME NEW n \in DOMAIN runsCsv'
        PROVE  /\ metrics'[runsCsv'[n].run].exec >= runsCsv'[n].exec
               /\ metrics'[runsCsv'[n].run].exec = runsCsv'[n].exec
                    => Complete(metrics'[runsCsv'[n].run])
    <3>1. CASE runsCsv[n].run = Current
      BY <1>3, <1>4, <2>1, <2>3, <2>4, <3>1
    <3>2. CASE runsCsv[n].run # Current
      BY <1>4, <2>1, <2>5, <3>2
    <3>3. QED
      BY <3>1, <3>2
  <2>8. QED
    BY <2>4, <2>6, <2>7 DEF Complete
<1>6. CASE FailToStart
  BY <1>6 DEF FailToStart, Complete
<1>7. CASE Flush
  <2>1. stage = "running" /\ UNCHANGED <<runsCsv, stage, todo, invocation>>
    BY <1>7 DEF Flush, script
  <2>2. todo \in DOMAIN RunOrder /\ Current \in Runs
    BY <2>1, OrderDomain
  <2>3. CASE UNCHANGED metrics
    BY <2>1, <2>3 DEF Complete
  <2>4. CASE \E group \in SUBSET (Scenarios \ metrics[Current].rows) :
               metrics' = [metrics EXCEPT ![Current] = Written(@, group)]
    <3>1. PICK group \in SUBSET (Scenarios \ metrics[Current].rows) :
            metrics' = [metrics EXCEPT ![Current] = Written(metrics[Current], group)]
      BY <2>4
    <3>2. Written(metrics[Current], group) \in MetricsFile
          /\ Written(metrics[Current], group).exec = metrics[Current].exec
      BY <2>2, <3>1 DEF Written, MetricsFile
    <3>3. metrics' \in [Runs -> MetricsFile] /\ \A r \in Runs : metrics'[r].exec = metrics[r].exec
      BY <2>2, <3>1, <3>2
    <3>4. \A r \in Runs : r # Current => metrics'[r] = metrics[r]
      BY <3>1
    <3>5. CampaignTyped' /\ ExecutionsBegun' /\ CurrentFileIsOwn'
      BY <2>1, <2>2, <3>3
    <3>6. ProvenanceHolds'
      BY <1>4, <2>1, <2>2, <3>3, <3>4 DEF Complete
    <3>7. QED
      BY <3>5, <3>6
  <2>5. QED
    BY <1>7, <2>3, <2>4 DEF Flush
<1>8. CASE CloseFiles
  <2>1. /\ stage = "running" /\ stage' = "closed" /\ UNCHANGED <<runsCsv, todo, invocation>>
        /\ metrics' = [metrics EXCEPT ![Current] = Closed(metrics[Current], Scenarios)]
    BY <1>8 DEF CloseFiles
  <2>2. todo \in DOMAIN RunOrder /\ Current \in Runs
    BY <2>1, OrderDomain
  <2>3. /\ Closed(metrics[Current], Scenarios) \in MetricsFile
        /\ Closed(metrics[Current], Scenarios).exec = metrics[Current].exec
        /\ Complete(Closed(metrics[Current], Scenarios))
    BY <2>2 DEF Closed, MetricsFile, Complete
  <2>4. /\ metrics' \in [Runs -> MetricsFile]
        /\ \A r \in Runs : metrics'[r].exec = metrics[r].exec
        /\ metrics'[Current] = Closed(metrics[Current], Scenarios)
    BY <2>1, <2>2, <2>3
  <2>5. \A r \in Runs : r # Current => metrics'[r] = metrics[r]
    BY <2>1
  <2>6. CampaignTyped' /\ ExecutionsBegun' /\ CurrentFileIsOwn'
    BY <2>1, <2>2, <2>3, <2>4 DEF Complete
  <2>7. ProvenanceHolds'
    BY <1>4, <2>1, <2>3, <2>4, <2>5 DEF Complete
  <2>8. QED
    BY <2>6, <2>7
<1>9. CASE Record
  <2>1. /\ stage = "closed" /\ stage' = "next" /\ todo' = todo + 1
        /\ UNCHANGED <<metrics, invocation>>
        /\ runsCsv' = runsCsv \/ runsCsv' = WithRow
    BY <1>9 DEF Record
  <2>2. todo \in DOMAIN RunOrder /\ Current \in Runs
    BY <2>1, OrderDomain
  <2>3. CASE runsCsv' = runsCsv
    BY <2>1, <2>2, <2>3 DEF Complete
  <2>4. CASE runsCsv' = WithRow
    <3> DEFINE row == [run |-> Current, exec |-> invocation]
    <3>1. row \in Rows /\ row.run = Current /\ row.exec = invocation
      BY <2>2 DEF Rows
    <3>2. runsCsv' = Append(runsCsv, row)
      BY <2>4 DEF WithRow
    <3> HIDE DEF row
    <3>3. runsCsv' \in Seq(Rows)
      BY <3>1, <3>2
    <3>4. ASSUME NEW n \in DOMAIN runsCsv'
          PROVE  (n \in DOMAIN runsCsv /\ runsCsv'[n] = runsCsv[n]) \/ runsCsv'[n] = row
      BY <3>1, <3>2
    <3>5. \A m \in DOMAIN RunOrder : m >= todo' => m >= todo /\ RunOrder[m] # Current
      BY <2>1, <2>2, RunsAssumption
    <3>6. CampaignTyped' /\ CurrentFileIsOwn'
      BY <2>1, <3>3
    <3>7. ExecutionsBegun'
      BY <2>1, <3>1, <3>4, <3>5
    <3>8. ProvenanceHolds'
      BY <2>1, <2>2, <3>1, <3>4
    <3>9. QED
      BY <3>6, <3>7, <3>8
  <2>5. QED
    BY <2>1, <2>3, <2>4
<1>10. CASE Finish
  BY <1>10 DEF Finish, files
<1>11. CASE KillCampaign
  BY <1>11 DEF KillCampaign, files
<1>12. QED
  BY <1>1, <1>2, <1>5, <1>6, <1>7, <1>8, <1>9, <1>10, <1>11 DEF CampaignNext, ScriptStep

\* analyze.py reads the files and writes none of them.
LEMMA ProvenanceInvNext == ProvenanceInv /\ [Next]_vars => ProvenanceInv'
<1> SUFFICES ASSUME ProvenanceInv, [Next]_vars PROVE ProvenanceInv'
  OBVIOUS
<1>1. CASE Campaigning(CampaignNext)
  BY <1>1, CampaignStepKeeps DEF Campaigning
<1>2. CASE UNCHANGED <<files, script>>
  BY <1>2 DEF files, script, ProvenanceInv, CampaignTyped, ExecutionsBegun, CurrentFileIsOwn,
     ProvenanceHolds, Current, Complete
<1>3. QED
  BY <1>1, <1>2 DEF Next, Analyzing, vars

\* For any number of runs, of invocations, forced or not, and of kills: a row of runs.csv
\* is of a finished execution of its run, and a file of that execution is complete.
THEOREM RunsCsvVouches == Spec => []ProvenanceHolds
<1>1. ProvenanceInv => ProvenanceHolds
  BY DEF ProvenanceInv
<1>2. QED
  BY <1>1, ProvenanceInvInit, ProvenanceInvNext, PTL DEF Spec

-----------------------------------------------------------------------------
(***************************************************************************)
(* What FORCE leaves.                                                      *)
(***************************************************************************)

\* A forced campaign has written the files of the runs it has passed.
Rewritten(r) == Complete(metrics[r]) /\ metrics[r].exec = invocation

ForcedInv ==
  force /\ stage \in {"next", "running", "closed", "complete"} =>
    /\ \A m \in DOMAIN RunOrder : m < todo => Rewritten(RunOrder[m])
    /\ stage = "complete" => todo > Len(RunOrder)

\* No campaign has begun.
LEMMA ForcedInvInit == Init => ForcedInv
  BY DEF Init, CampaignInit, ForcedInv

\* A step that writes no other file than that of the run it is at leaves the runs passed
\* as they are: no run comes twice in the order.
LEMMA PassedUnchanged ==
  ASSUME ForcedInv, ProvenanceInv, stage \in {"next", "running", "closed"}, todo \in DOMAIN RunOrder,
         UNCHANGED <<invocation, force>>,
         \A r \in Runs : r # Current => metrics'[r] = metrics[r]
  PROVE  force' => \A m \in DOMAIN RunOrder : m < todo => Rewritten(RunOrder[m])'
<1> SUFFICES ASSUME force', NEW m \in DOMAIN RunOrder, m < todo
             PROVE  Rewritten(RunOrder[m])'
  OBVIOUS
<1>1. Rewritten(RunOrder[m])
  BY DEF ForcedInv
<1>2. RunOrder[m] \in Runs /\ m # todo
  BY OrderDomain
<1>3. RunOrder[m] # Current
  BY <1>2, RunsAssumption DEF Current
<1>4. metrics'[RunOrder[m]] = metrics[RunOrder[m]]
  BY <1>2, <1>3
<1> QED
  BY <1>1, <1>4 DEF Rewritten, Complete

\* The steps of the campaign: with FORCE a run is passed only by its row, and what is
\* recorded is a complete file of this invocation.
LEMMA CampaignStepForced ==
  ASSUME ForcedInv, ProvenanceInv, CampaignNext
  PROVE  ForcedInv'
<1>1. CASE Invoke
  <2>1. todo' = 1 /\ stage' = "next"
    BY <1>1 DEF Invoke
  <2>2. \A m \in DOMAIN RunOrder : ~(m < 1)
    BY OrderDomain
  <2> QED
    BY <2>1, <2>2 DEF ForcedInv
<1>2. CASE SkipPresent
  BY <1>2 DEF SkipPresent, ForcedInv
<1>3. CASE Launch
  <2>1. /\ stage = "next" /\ stage' = "running" /\ todo <= Len(RunOrder)
        /\ metrics' = [metrics EXCEPT ![Current] = Opened]
        /\ UNCHANGED <<todo, invocation, force>>
    BY <1>3 DEF Launch
  <2>2. todo \in DOMAIN RunOrder
    BY <2>1, OrderDomain DEF ProvenanceInv, CampaignTyped
  <2>3. \A r \in Runs : r # Current => metrics'[r] = metrics[r]
    BY <2>1 DEF ProvenanceInv, CampaignTyped
  <2> QED
    BY <2>1, <2>2, <2>3, PassedUnchanged DEF ForcedInv
<1>4. CASE FailToStart
  BY <1>4 DEF FailToStart, ForcedInv
<1>5. CASE Flush
  <2>1. stage = "running" /\ UNCHANGED <<stage, todo, invocation, force>>
    BY <1>5 DEF Flush, script
  <2>2. todo \in DOMAIN RunOrder
    BY <2>1, OrderDomain DEF ProvenanceInv, CampaignTyped, CurrentFileIsOwn
  <2>3. \A r \in Runs : r # Current => metrics'[r] = metrics[r]
    BY <1>5 DEF Flush, ProvenanceInv, CampaignTyped
  <2> QED
    BY <2>1, <2>2, <2>3, PassedUnchanged DEF ForcedInv
<1>6. CASE CloseFiles
  <2>1. /\ stage = "running" /\ stage' = "closed"
        /\ metrics' = [metrics EXCEPT ![Current] = Closed(metrics[Current], Scenarios)]
        /\ UNCHANGED <<todo, invocation, force>>
    BY <1>6 DEF CloseFiles
  <2>2. todo \in DOMAIN RunOrder
    BY <2>1, OrderDomain DEF ProvenanceInv, CampaignTyped, CurrentFileIsOwn
  <2>3. \A r \in Runs : r # Current => metrics'[r] = metrics[r]
    BY <2>1 DEF ProvenanceInv, CampaignTyped
  <2> QED
    BY <2>1, <2>2, <2>3, PassedUnchanged DEF ForcedInv
<1>7. CASE Record
  <2>1. /\ stage = "closed" /\ stage' = "next" /\ todo' = todo + 1
        /\ UNCHANGED <<metrics, invocation, force>>
    BY <1>7 DEF Record
  <2>2. Rewritten(RunOrder[todo])
    BY <2>1 DEF ProvenanceInv, CurrentFileIsOwn, Rewritten, Current
  <2>3. ASSUME force', NEW m \in DOMAIN RunOrder, m < todo'
        PROVE  Rewritten(RunOrder[m])'
    <3>1. m < todo \/ m = todo
      BY <2>1, <2>3, OrderDomain DEF ProvenanceInv, CampaignTyped
    <3>2. Rewritten(RunOrder[m])
      BY <2>1, <2>2, <2>3, <3>1 DEF ForcedInv
    <3> QED
      BY <2>1, <3>2 DEF Rewritten, Complete
  <2> QED
    BY <2>1, <2>3 DEF ForcedInv
<1>8. CASE Finish
  BY <1>8 DEF Finish, files, ForcedInv, Rewritten, Complete
<1>9. CASE KillCampaign
  BY <1>9 DEF KillCampaign, ForcedInv
<1> QED
  BY <1>1, <1>2, <1>3, <1>4, <1>5, <1>6, <1>7, <1>8, <1>9 DEF CampaignNext, ScriptStep

\* analyze.py does not touch what it says.
LEMMA ForcedInvNext == ForcedInv /\ ProvenanceInv /\ [Next]_vars => ForcedInv'
<1> SUFFICES ASSUME ForcedInv, ProvenanceInv, [Next]_vars PROVE ForcedInv'
  OBVIOUS
<1>1. CASE Campaigning(CampaignNext)
  BY <1>1, CampaignStepForced DEF Campaigning
<1>2. CASE UNCHANGED <<files, script>>
  BY <1>2 DEF files, script, ForcedInv, Rewritten, Complete
<1> QED
  BY <1>1, <1>2 DEF Next, Analyzing, vars

\* Whatever kills, skips and analyses came before, a forced campaign that completes has
\* written every metrics file, and a report on files at rest is of nothing else.
THEOREM ForcedCampaignReported == Spec => []ForcedCampaignIsReported
<1>1. ForcedInv /\ ProvenanceInv /\ SettledStoreMirrorsFiles => ForcedCampaignIsReported
  <2> SUFFICES ASSUME ForcedInv, ProvenanceInv, SettledStoreMirrorsFiles, stage = "complete", force, NEW r \in Runs
               PROVE  /\ Complete(metrics[r]) /\ metrics[r].exec = invocation
                      /\ apc = "report" /\ quiet =>
                           {d \in dbMetrics : d.run = r}
                             = {[run |-> r, scenario |-> s, exec |-> invocation] : s \in Scenarios}
    BY DEF ForcedCampaignIsReported
  <2>1. PICK m \in DOMAIN RunOrder : r = RunOrder[m]
    BY DEF Runs
  <2>2. m < todo
    BY OrderDomain DEF ForcedInv, ProvenanceInv, CampaignTyped
  <2>3. Rewritten(r)
    BY <2>1, <2>2 DEF ForcedInv
  <2>4. apc = "report" /\ quiet => {d \in dbMetrics : d.run = r} = MetricsRowsOf(r)
    BY <2>3 DEF SettledStoreMirrorsFiles, Rewritten
  <2> QED
    BY <2>3, <2>4 DEF Rewritten, MetricsRowsOf, Complete
<1> QED
  BY <1>1, ForcedInvInit, ForcedInvNext, ProvenanceInvInit, ProvenanceInvNext,
     StoreMirrorsSettledFiles, PTL DEF Spec

=============================================================================
