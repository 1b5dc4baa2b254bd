----------------------------- MODULE ResultFiles -----------------------------
(***************************************************************************)
(* The results directory that scripts/run_all.sh fills, by running         *)
(* drive_batch, and scripts/analyze.py reads: metrics_<run>.csv for each   *)
(* run, features_<dataset>.csv, and runs.csv.  A row is a scenario, marked *)
(* with the execution of drive_batch that wrote it.                        *)
(***************************************************************************)
EXTENDS Naturals, Sequences, FiniteSets

CONSTANTS
  RunOrder,        (* The run ids, in the order of run_all.sh, which is    *)
                   (* also the order analyze.py sorts their files in.      *)
  Scenarios,       (* The scenarios of the shards, all of them readable.   *)
  Routed,          (* Those that have a route, and so a features row.      *)
  MaxInvocations   (* Bound: how often run_all.sh is invoked.              *)

Runs == {RunOrder[n] : n \in DOMAIN RunOrder}

ASSUME RunsAssumption ==
  /\ RunOrder \in Seq(Runs)
  /\ RunOrder # <<>>
  /\ \A m, n \in DOMAIN RunOrder : RunOrder[m] = RunOrder[n] => m = n
ASSUME ScenariosAssumption == Scenarios # {} /\ Routed \subseteq Scenarios
ASSUME InvocationsAssumption == MaxInvocations \in Nat

VARIABLES
  metrics,     (* The metrics file of each run.                            *)
  features,    (* The features file.                                       *)
  runsCsv      (* The rows of runs.csv, in the order they were appended.   *)

files == <<metrics, features, runsCsv>>

\* A file as it is on the disk: the execution that opened it, whether its header
\* has left the writer's buffer, its rows, and whether the writer closed it.
NoFile    == [exec |-> 0, head |-> FALSE, rows |-> {}, closed |-> FALSE]
Exists(f) == f # NoFile

FilesInit ==
  /\ metrics = [r \in Runs |-> NoFile]
  /\ features = NoFile
  /\ runsCsv = <<>>

\* A file that its writer finished.
Complete(f) == f.closed /\ f.rows = Scenarios

=============================================================================
