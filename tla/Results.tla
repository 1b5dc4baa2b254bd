------------------------------- MODULE Results -------------------------------
(***************************************************************************)
(* The campaign and the results store together: analyze.py may be started  *)
(* at any time, also while run_all.sh is under way ("inspecting a campaign *)
(* that is still in flight"), and each may be killed and started again.    *)
(***************************************************************************)
EXTENDS Campaign, Store

VARIABLE quiet   (* Observer: the files have not changed since analyze.py  *)
                 (* was started.                                           *)

vars == <<files, script, analyze, db, quiet>>

Init == CampaignInit /\ StoreInit /\ quiet = TRUE

Campaigning(step) ==
  /\ step
  /\ quiet' = (quiet /\ files' = files)
  /\ UNCHANGED <<analyze, db>>

Analyzing(step) ==
  /\ step
  /\ quiet' = (quiet \/ apc = "off")
  /\ UNCHANGED <<files, script>>

Next == Campaigning(CampaignNext) \/ Analyzing(StoreNext)

Spec == Init /\ [][Next]_vars

-----------------------------------------------------------------------------
(***************************************************************************)
(* Properties.                                                             *)
(***************************************************************************)

\* A row of runs.csv vouches for what its own execution wrote: as long as the metrics
\* file is of that execution it is complete, and otherwise a later execution wrote
\* it, whatever was killed, forced or skipped in between.
ProvenanceHolds ==
  \A n \in DOMAIN runsCsv :
    LET f == metrics[runsCsv[n].run] IN
    /\ f.exec >= runsCsv[n].exec
    /\ f.exec = runsCsv[n].exec => Complete(f)

\* A run's rows in the database never come from two executions of it, even when its
\* file is loaded half-written, rewritten and loaded again, with crashes between.
OneExecutionPerRun ==
  \A d, e \in dbMetrics : d.run = e.run => d.exec = e.exec

\* load.py: "a half-finished batch can be re-loaded without accumulating a second
\* copy".  Once the files rest, one analysis makes the database agree with them: for
\* each finished metrics file exactly its rows, whatever a crash had left behind.
SettledStoreMirrorsFiles ==
  apc = "report" /\ quiet =>
    /\ \A r \in Runs : Complete(metrics[r]) => {d \in dbMetrics : d.run = r} = MetricsRowsOf(r)
    /\ RunRows \subseteq dbRuns
    /\ features.closed => FeaturesRows \subseteq dbFeatures

\* FORCE is the way out of what kills and skips have left: a forced campaign that completes
\* has written every metrics file itself and to its end, and an analysis that then gets to
\* its report has exactly those rows, none of an earlier execution, loaded whole or in part.
ForcedCampaignIsReported ==
  stage = "complete" /\ force =>
    /\ \A r \in Runs : Complete(metrics[r]) /\ metrics[r].exec = invocation
    /\ apc = "report" /\ quiet =>
         \A r \in Runs : {d \in dbMetrics : d.run = r}
                        = {[run |-> r, scenario |-> s, exec |-> invocation] : s \in Scenarios}

\* "Produce every measurement the report needs", "all runs complete": the files of a
\* completed campaign are finished.
AllRunsComplete ==
  stage = "complete" => \A r \in Runs : Complete(metrics[r])

=============================================================================
