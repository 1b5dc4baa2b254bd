------------------------------- MODULE RawFiles -------------------------------
(***************************************************************************)
(* The raw directory that scripts/fetch_av2.py fills and                   *)
(* scripts/convert_av2.py reads: a directory for each scenario, with a map *)
(* and a parquet file.  Scenarios are numbered in the order of their ids,  *)
(* which is the order of the listing and of the converter.                 *)
(***************************************************************************)
EXTENDS Naturals, Sequences, FiniteSets

CONSTANTS
  NumScenarios,
  Limits,         (* Bound: the values of --limit, that of no limit among  *)
                  (* them, with which either program is invoked.           *)
  Earlier         (* What earlier attempts have left of each file.         *)

Scenarios == 1 .. NumScenarios

\* The files of a scenario, in the order they are listed and downloaded.
Files == <<"map", "parquet">>

\* Under the final name of a file there is nothing, something of another length than
\* listed, or the whole.
Content == {"none", "short", "whole"}

ASSUME NumScenariosAssumption == NumScenarios \in Nat \ {0}
ASSUME LimitsAssumption == Limits \subseteq 0 .. NumScenarios /\ NumScenarios \in Limits

ASSUME EarlierAssumption == Earlier \in [Scenarios -> [DOMAIN Files -> Content]]

VARIABLES
  dirs,   (* The scenarios that have a directory.                          *)
  raw     (* What is there under the final name of each file.              *)

rawFiles == <<dirs, raw>>

RawInit ==
  /\ dirs = {s \in Scenarios : \E n \in DOMAIN Files : Earlier[s][n] # "none"}
  /\ raw = Earlier

\* scenario_complete(): every file is there at its listed length.
ScenarioComplete(s) == \A n \in DOMAIN Files : raw[s][n] = "whole"

=============================================================================
