------------------------------- MODULE Campaign -------------------------------
(***************************************************************************)
(* The measurement campaign (scripts/run_all.sh): one execution of         *)
(* drive_batch after the other, each skipped when its metrics file is      *)
(* already there, unless FORCE is set.  The script stops at the first      *)
(* failure (set -e, pipefail) and may be invoked again.  An execution of   *)
(* drive_batch is what RunLedger promises of it, which DriveBatch is shown *)
(* to keep: rows reach the file group by group, the file is closed         *)
(* complete, and only then is the run recorded.                            *)
(***************************************************************************)
EXTENDS ResultFiles

CONSTANT WithFeatures   (* The runs that are given --features.             *)
ASSUME FeatureRunsAssumption == WithFeatures \subseteq Runs /\ Cardinality(WithFeatures) <= 1

VARIABLES
  stage,       (* Where the script is.                                     *)
  todo,        (* The position in RunOrder of the run it is at.            *)
  force,       (* FORCE is set in this invocation.                         *)
  invocation   (* How many times the script was invoked.                   *)

script == <<stage, todo, force, invocation>>

CampaignInit ==
  /\ FilesInit
  /\ stage = "off"
  /\ todo = 1
  /\ force = FALSE
  /\ invocation = 0

Current == RunOrder[todo]

\* Somebody runs the script, for the first time or again.
Invoke ==
  /\ stage \in {"off", "complete"}
  /\ invocation < MaxInvocations
  /\ invocation' = invocation + 1
  /\ force' \in BOOLEAN
  /\ stage' = "next"
  /\ todo' = 1
  /\ UNCHANGED files

\* Mutant of SkipPresent: FORCE is not looked at.
SkipForced ==
  /\ stage = "next" /\ todo <= Len(RunOrder)
  /\ Exists(metrics[Current])
  /\ todo' = todo + 1
  /\ UNCHANGED <<files, stage, force, invocation>>

\* "already present, skipping": a metrics file is taken for a finished run.
SkipPresent ==
  /\ stage = "next" /\ todo <= Len(RunOrder)
  /\ Exists(metrics[Current]) /\ ~force
  /\ todo' = todo + 1
  /\ UNCHANGED <<files, stage, force, invocation>>

Opened == [exec |-> invocation, head |-> FALSE, rows |-> {}, closed |-> FALSE]

\* What fopen(features, "w") leaves: the file emptied, or left alone when it cannot
\* be opened, of which the code takes no notice.
FeaturesOpened == IF Current \in WithFeatures THEN {features, Opened} ELSE {features}

\* drive_batch starts and opens its files for writing: what they held is gone.
Launch ==
  /\ stage = "next" /\ todo <= Len(RunOrder)
  /\ ~Exists(metrics[Current]) \/ force
  /\ metrics' = [metrics EXCEPT ![Current] = Opened]
  /\ features' \in FeaturesOpened
  /\ stage' = "running"
  /\ UNCHANGED <<runsCsv, todo, force, invocation>>

\* drive_batch ends with an error: no scenario in the shards, or a metrics file that
\* cannot be opened, which is looked at after the features file has been emptied.
\* The script ends with it.
FailToStart ==
  /\ stage = "next" /\ todo <= Len(RunOrder)
  /\ ~Exists(metrics[Current]) \/ force
  /\ features' \in FeaturesOpened
  /\ stage' = "off"
  /\ UNCHANGED <<metrics, runsCsv, todo, force, invocation>>

\* This execution has the features file open.
WritesFeatures == Current \in WithFeatures /\ features.exec = invocation

\* A group of rows leaves the C library's buffer, after the header.
Written(f, group) == [f EXCEPT !.head = TRUE, !.rows = @ \cup group]

\* The workers' groups of metrics rows and of features rows, each reaching its file
\* when the library writes it.
Flush ==
  /\ stage = "running"
  /\ \/ /\ \E group \in SUBSET (Scenarios \ metrics[Current].rows) :
             metrics' = [metrics EXCEPT ![Current] = Written(@, group)]
        /\ UNCHANGED features
     \/ /\ WritesFeatures
        /\ \E group \in SUBSET (Routed \ features.rows) :
             features' = Written(features, group)
        /\ UNCHANGED metrics
  /\ UNCHANGED <<runsCsv, script>>

Closed(f, rows) == [f EXCEPT !.head = TRUE, !.rows = rows, !.closed = TRUE]

\* The workers are joined and the files closed: the last rows are on the disk.
CloseFiles ==
  /\ stage = "running"
  /\ metrics' = [metrics EXCEPT ![Current] = Closed(@, Scenarios)]
  /\ features' = IF WritesFeatures THEN Closed(features, Routed) ELSE features
  /\ stage' = "closed"
  /\ UNCHANGED <<runsCsv, todo, force, invocation>>

WithRow == Append(runsCsv, [run |-> Current, exec |-> invocation])

\* Mutant of Record: the row is written while the workers run.
RecordEarly ==
  /\ stage \in {"running", "closed"}
  /\ runsCsv' = WithRow
  /\ stage' = "next"
  /\ todo' = todo + 1
  /\ UNCHANGED <<metrics, features, force, invocation>>

\* The run's row in runs.csv; left out without a word when the file cannot be
\* opened.  drive_batch exits with 0 and the script goes on.
Record ==
  /\ stage = "closed"
  /\ runsCsv' \in {runsCsv, WithRow}
  /\ stage' = "next"
  /\ todo' = todo + 1
  /\ UNCHANGED <<metrics, features, force, invocation>>

\* "all runs complete"
Finish ==
  /\ stage = "next" /\ todo > Len(RunOrder)
  /\ stage' = "complete"
  /\ UNCHANGED <<files, todo, force, invocation>>

\* The script and the batch under it are killed: what is on the disk stays there.
KillCampaign ==
  /\ stage \in {"next", "running", "closed"}
  /\ stage' = "off"
  /\ UNCHANGED <<files, todo, force, invocation>>

\* What the script and the batch under it do once they were started.
ScriptStep ==
  \/ SkipPresent
  \/ Launch
  \/ CloseFiles
  \/ Record
  \/ Finish

CampaignNext == Invoke \/ ScriptStep \/ Flush \/ FailToStart \/ KillCampaign

=============================================================================
