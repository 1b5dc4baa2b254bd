------------------------------- MODULE RunLedger -------------------------------
(***************************************************************************)
(* What a batch run promises to whoever reads its output: the rows of one  *)
(* run, appended group by group, each scenario at most once, and a         *)
(* provenance row only over a complete file.  No threads, no buffers.      *)
(***************************************************************************)
EXTENDS Naturals

CONSTANT Scenarios

VARIABLES
  readable,   (* The scenarios that can be replayed; never changes.       *)
  rows,       (* The number of rows each scenario has.                    *)
  vouched,    (* runs.csv has the row of this run.                        *)
  open        (* More rows may be appended.                               *)

ledger == <<readable, rows, vouched, open>>

LedgerInit ==
  /\ readable \in SUBSET Scenarios
  /\ rows = [i \in Scenarios |-> 0]
  /\ vouched = FALSE
  /\ open = TRUE

\* A group of readable scenarios that have no row gets one each.
AppendRows(S) ==
  /\ open
  /\ \A i \in S : i \in readable /\ rows[i] = 0
  /\ rows' = [i \in Scenarios |-> IF i \in S THEN 1 ELSE rows[i]]
  /\ UNCHANGED <<readable, vouched, open>>

\* The file is complete and is closed.
CloseFile ==
  /\ open
  /\ \A i \in readable : rows[i] = 1
  /\ open' = FALSE
  /\ UNCHANGED <<readable, rows, vouched>>

\* Only a run whose file is closed, and whose rows are all there, is vouched for.
Vouch ==
  /\ ~open
  /\ \A i \in readable : rows[i] = 1
  /\ vouched' = TRUE
  /\ UNCHANGED <<readable, rows, open>>

\* The run is cut off before it closed its file: rows may be lost, none appears.
CutOff(S) ==
  /\ open
  /\ open' = FALSE
  /\ rows' = [i \in Scenarios |-> IF i \in S THEN 0 ELSE rows[i]]
  /\ UNCHANGED <<readable, vouched>>

LedgerNext ==
  \/ \E S \in SUBSET Scenarios : AppendRows(S) \/ CutOff(S)
  \/ CloseFile
  \/ Vouch

LedgerSpec == LedgerInit /\ [][LedgerNext]_ledger

=============================================================================
