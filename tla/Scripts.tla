-------------------------------- MODULE Scripts --------------------------------
(***************************************************************************)
(* A script of the analysis as a process: scripts/mine.py, scripts/gate.py *)
(* and scripts/analyze.py, which calls what the other two call.  It works  *)
(* for a while, writes its tables one statement after the other, each of   *)
(* them committed, and may be killed between any two and be run again.     *)
(***************************************************************************)
EXTENDS Naturals, Sequences

CONSTANT MaxExecutions  (* How often the script is started: a bound.       *)

ASSUME ScriptsAssumption == MaxExecutions \in Nat \ {0}

VARIABLES
  script,     \* Which script it is.
  args,       \* What it is called with.
  exec,       \* Executions started.
  pc,         \* Where this execution is.
  todo        \* The rows still to be inserted.

\* The script ended or is killed, between any two statements, and is started again.
StartedAgain(at) ==
  /\ exec < MaxExecutions
  /\ exec' = exec + 1 /\ pc' = at /\ todo' = <<>>
  /\ UNCHANGED <<script, args>>

=============================================================================
