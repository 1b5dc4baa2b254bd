------------------------------ MODULE PlanAnswer ------------------------------
(***************************************************************************)
(* What Planner::plan promises to its caller, the simulator's loop: every  *)
(* call is answered before the next one, an answer is usable exactly when  *)
(* the configuration lets the lattice produce candidates, and it says      *)
(* whether any of them was feasible.                                       *)
(***************************************************************************)
CONSTANT NoAnswer

VARIABLES
  sampling,   (* The lattice produces candidates; fixed by configuration. *)
  answer      (* The answer of the last call, NoAnswer while one runs.    *)

Answers == [ok : BOOLEAN, feasible : BOOLEAN]

\* An answer without candidates is a failure; one with a feasible candidate is not.
Promised(p) == p.ok = sampling /\ (p.feasible => p.ok)

AnswerInit == sampling \in BOOLEAN /\ answer = NoAnswer

Reply == \E p \in Answers : answer = NoAnswer /\ Promised(p) /\ answer' = p /\ UNCHANGED sampling

Ask == answer # NoAnswer /\ answer' = NoAnswer /\ UNCHANGED sampling

AnswerSpec == AnswerInit /\ [][Reply \/ Ask]_<<sampling, answer>>

=============================================================================
