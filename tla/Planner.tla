-------------------------------- MODULE Planner --------------------------------
(***************************************************************************)
(* One planner of a batch worker (plan/planner.cpp) through its calls:     *)
(* prediction of the agents around the ego into a workspace of fixed size  *)
(* (predict/prediction.cpp), the loop that scores the lattice's candidates *)
(* (plan/lattice.cpp, plan/cost.cpp), the choice, and the refinement of    *)
(* the chosen one by iLQR or OSQP with the test that accepts it.           *)
(*                                                                         *)
(* A trajectory is what the choice depends on: the predicted agents whose  *)
(* boxes it overlaps, the first sample at which it does, its cost.  Where  *)
(* it goes is geometry; any combination is possible.  The broad phases of  *)
(* evaluateCandidate (bounds, discs) only skip pairs that do not overlap,  *)
(* and its 256 slots are more than the workspace ever holds (192).         *)
(***************************************************************************)
EXTENDS Integers, Sequences, FiniteSets

CONSTANTS
  NumAgents,        (* world.numAgents(), the ego's entry left out.        *)
  MaxAgents,        (* max_agents: the size of the prediction workspace.   *)
  CandidateCounts,  (* How many candidates a configuration may ask for.    *)
  Horizon,          (* horizonSteps(): the samples are 0 .. Horizon.       *)
  MaxCost,          (* Bound: totals and objectives are in 0 .. MaxCost.   *)
  Backends,         (* The refinement backends a configuration may name.   *)
  NoAnswer          (* No call has been answered yet.                      *)

Agents == 1 .. NumAgents          \* In the order of their index in the world.
Never  == Horizon + 1             \* pts.size(): no sample of the trajectory.
Infinite == MaxCost + 1           \* numeric_limits<Scalar>::max()

ASSUME SizesAssumption ==
  /\ NumAgents \in Nat
  /\ MaxAgents \in Nat
  /\ CandidateCounts \subseteq Nat
  /\ Horizon \in Nat \ {0}
  /\ MaxCost \in Nat
ASSUME BackendsAssumption == Backends \subseteq {"none", "ilqr", "osqp"}
ASSUME NoAnswerAssumption == NoAnswer \notin [ok : BOOLEAN, feasible : BOOLEAN]

VARIABLES
  backend,     (* cfg_.backend; never changes.                             *)
  osqpReady,   (* OSQP is built in and its setup succeeds; never changes.  *)
  sampled,     (* The candidates the lattice produces; never changes.      *)
  pc,          (* What plan() does: predict, score, choose, refine, or it  *)
               (* has returned: done.                                      *)
  near,        (* The agents that are there, not suppressed, and within    *)
               (* prediction_radius of the ego.                            *)
  next,        (* The next agent of fill().                                *)
  preds,       (* The agents predicted.                                    *)
  overflowed,  (* fill() ran out of workspace.                             *)
  costs,       (* The results of the candidates scored so far.             *)
  best,        (* The local variables of the scoring loop.                 *)
  refine,      (* out_.refine; its trajectory is kept from call to call,   *)
               (* whatever it overlaps now, until a solver writes it.      *)
  out          (* The rest of out_.                                        *)

configuration == <<backend, osqpReady, sampled>>
scene == <<near, next, preds, overflowed>>
vars == <<configuration, pc, scene, costs, best, refine, out>>

\* evaluateCandidate(): shape says that the candidate keeps the limits of the vehicle.
CostResults(P) ==
  {c \in [hit : SUBSET P, impact : 0 .. Never, shape : BOOLEAN, total : 0 .. MaxCost] :
     c.impact = Never <=> c.hit = {}}

Feasible(c) == c.shape /\ c.hit = {}

NothingYet == [feasibleCost |-> Infinite, idxFeasible |-> 0,
               impact |-> 0, fallbackCost |-> Infinite, idxAny |-> 0]

NoOutput == [ok |-> FALSE, failure |-> "", chosen |-> 0, trajectory |-> "none",
             nFeasible |-> 0, rejected |-> FALSE, overflow |-> FALSE]

\* setup() fills out_.refine with samples that are all zero and a cost of zero.
Init ==
  /\ backend \in Backends
  /\ osqpReady \in BOOLEAN
  /\ sampled \in CandidateCounts
  /\ pc = "done"
  /\ near = {} /\ next = 1 /\ preds = {} /\ overflowed = FALSE
  /\ costs = <<>>
  /\ best = NothingYet
  /\ refine = [hit |-> {}, cost |-> 0, initial |-> 0]
  /\ out = NoOutput

-----------------------------------------------------------------------------
(***************************************************************************)
(* The steps of plan().                                                    *)
(***************************************************************************)

\* The simulator calls with whatever is around the ego now.  Without candidates the
\* call fails before the predictions are filled.
Call ==
  /\ pc = "done"
  /\ near' \in SUBSET Agents
  /\ IF sampled = 0
       THEN /\ out' = [NoOutput EXCEPT !.failure = "no_candidates"]
            /\ UNCHANGED <<pc, next, preds, overflowed>>
       ELSE /\ pc' = "predict"
            /\ out' = NoOutput
            /\ next' = 1 /\ preds' = {} /\ overflowed' = FALSE
  /\ costs' = <<>> /\ best' = NothingYet
  /\ refine' = [refine EXCEPT !.hit = {}]
  /\ UNCHANGED configuration

\* Mutant of Predicted: the output takes the flag before the scan has set it.
PredictedBefore == pc' = "score" /\ out' = [out EXCEPT !.overflow = overflowed]

\* fill() ends: the predictions are what the candidates are scored against.
Predicted == pc' = "score" /\ out' = [out EXCEPT !.overflow = overflowed']

\* One agent of fill(): far away or not there; predicted; or one too many.
PassBy ==
  /\ pc = "predict" /\ next <= NumAgents /\ next \notin near
  /\ next' = next + 1
  /\ UNCHANGED <<configuration, pc, near, preds, overflowed, costs, best, refine, out>>

Predict ==
  /\ pc = "predict" /\ next <= NumAgents /\ next \in near
  /\ Cardinality(preds) < MaxAgents
  /\ preds' = preds \cup {next}
  /\ next' = next + 1
  /\ UNCHANGED <<configuration, pc, near, overflowed, costs, best, refine, out>>

Overflow ==
  /\ pc = "predict" /\ next <= NumAgents /\ next \in near
  /\ Cardinality(preds) >= MaxAgents
  /\ overflowed' = TRUE
  /\ Predicted
  /\ UNCHANGED <<configuration, near, next, preds, costs, best, refine>>

AllPredicted ==
  /\ pc = "predict" /\ next > NumAgents
  /\ UNCHANGED <<configuration, scene, costs, best, refine>>
  /\ Predicted

\* Mutant of BuysMoreTime: what a tie is decided by is left out.
BuysMoreTimeOnly(c) == c.impact >= best.impact

\* Ranking when nothing is feasible: most time before the impact, then least cost.
BuysMoreTime(c) ==
  \/ c.impact > best.impact
  \/ c.impact = best.impact /\ c.total < best.fallbackCost

\* One iteration of the scoring loop.
Score ==
  /\ pc = "score" /\ Len(costs) < sampled
  /\ \E c \in CostResults(preds) :
       /\ costs' = Append(costs, c)
       /\ LET i == Len(costs) + 1
              cheaper == Feasible(c) /\ c.total < best.feasibleCost
          IN best' = [feasibleCost |-> IF cheaper THEN c.total ELSE best.feasibleCost,
                      idxFeasible  |-> IF cheaper THEN i ELSE best.idxFeasible,
                      impact       |-> IF BuysMoreTime(c) THEN c.impact ELSE best.impact,
                      fallbackCost |-> IF BuysMoreTime(c) THEN c.total ELSE best.fallbackCost,
                      idxAny       |-> IF BuysMoreTime(c) THEN i ELSE best.idxAny]
       /\ out' = [out EXCEPT !.nFeasible = IF Feasible(c) THEN @ + 1 ELSE @]
  /\ UNCHANGED <<configuration, pc, scene, refine>>

\* Mutant of Choose: no feasible candidate is a failure of the planner.
ChooseFeasible ==
  /\ pc = "score" /\ Len(costs) = sampled
  /\ LET i == best.idxFeasible
     IN IF i = 0
          THEN /\ out' = [out EXCEPT !.failure = "no_feasible_candidate"]
               /\ pc' = "done"
          ELSE /\ out' = [out EXCEPT !.ok = TRUE, !.chosen = i, !.trajectory = "candidate"]
               /\ pc' = IF backend = "none" THEN "done" ELSE "refine"
  /\ UNCHANGED <<configuration, scene, costs, best, refine>>

\* All candidates scored: the cheapest feasible one, or else the one that buys most
\* time.
Choose ==
  /\ pc = "score" /\ Len(costs) = sampled
  /\ LET i == IF best.idxFeasible > 0 THEN best.idxFeasible ELSE best.idxAny
     IN IF i = 0
          THEN /\ out' = [out EXCEPT !.failure = "no_candidate_scored"]
               /\ pc' = "done"
          ELSE /\ out' = [out EXCEPT !.ok = TRUE, !.chosen = i, !.trajectory = "candidate",
                                     !.failure = IF best.idxFeasible > 0 THEN ""
                                                 ELSE "no_feasible_candidate"]
               /\ pc' = IF backend = "none" THEN "done" ELSE "refine"
  /\ UNCHANGED <<configuration, scene, costs, best, refine>>

\* What a solver may leave in out_.refine.
Refinements(costRange) == [hit : SUBSET preds, cost : costRange, initial : costRange]

\* A solver that runs reports the objective of its start and of its result.  OSQP's
\* loop keeps only improvements; iLQR improves a sum of its own, so that the reported
\* objective may come out either way.
Solved == {r \in Refinements(0 .. MaxCost) : backend = "osqp" => r.cost <= r.initial}

\* OSQP that could not be set up leaves the trajectory of an earlier call, or the
\* zeros of setup(), and reports both objectives as zero; if it is not built in,
\* nothing has ever been written to them.  What that trajectory overlaps now is open.
Unsolved == Refinements({0})

Results == IF backend = "osqp" /\ ~osqpReady THEN Unsolved ELSE Solved

\* Mutant of Accepted: only the objective counts.
AcceptedIfCheaper(r) == r.cost <= r.initial

Accepted(r) ==
  /\ r.cost <= r.initial
  /\ costs[out.chosen].hit = {} => r.hit = {}

Refine ==
  /\ pc = "refine"
  /\ \E r \in Results :
       /\ refine' = r
       /\ out' = IF Accepted(r) THEN [out EXCEPT !.trajectory = "refined"]
                                ELSE [out EXCEPT !.rejected = TRUE]
  /\ pc' = "done"
  /\ UNCHANGED <<configuration, scene, costs, best>>

Next == Call \/ PassBy \/ Predict \/ Overflow \/ AllPredicted \/ Score \/ Choose \/ Refine

Spec == Init /\ [][Next]_vars

-----------------------------------------------------------------------------
(***************************************************************************)
(* Properties.                                                             *)
(***************************************************************************)

Findings ==
  [feasibleCost : 0 .. Infinite, idxFeasible : 0 .. sampled,
   impact : 0 .. Never, fallbackCost : 0 .. Infinite, idxAny : 0 .. sampled]

RefineResults ==
  [hit : SUBSET Agents, cost : 0 .. MaxCost, initial : 0 .. MaxCost]

Outputs ==
  [ok : BOOLEAN, chosen : 0 .. sampled, nFeasible : 0 .. sampled,
   failure : {"", "no_candidates", "no_candidate_scored", "no_feasible_candidate"},
   trajectory : {"none", "candidate", "refined"}, rejected : BOOLEAN, overflow : BOOLEAN]

\* Every variable has its type.
TypeOK ==
  /\ backend \in Backends
  /\ osqpReady \in BOOLEAN
  /\ sampled \in CandidateCounts
  /\ pc \in {"predict", "score", "refine", "done"}
  /\ near \subseteq Agents
  /\ next \in 1 .. NumAgents + 1
  /\ preds \subseteq Agents
  /\ overflowed \in BOOLEAN
  /\ costs \in Seq(CostResults(preds)) /\ Len(costs) <= sampled
  /\ best \in Findings
  /\ refine \in RefineResults
  /\ out \in Outputs

\* The call has returned a trajectory.
Answered == pc = "done" /\ out.ok

Executed == IF out.trajectory = "refined" THEN refine.hit ELSE costs[out.chosen].hit

\* "A cheap colliding trajectory can never win on arithmetic", nor a refined one, of this
\* call or left over from another: what is driven overlaps a predicted agent only if no
\* candidate was feasible.
DrivesClearIfPossible ==
  Answered /\ (\E i \in 1 .. Len(costs) : Feasible(costs[i])) => Executed = {}

\* c buys at least as much time before impact as d, and for no more cost if the same.
NoWorse(c, d) == c.impact > d.impact \/ (c.impact = d.impact /\ c.total <= d.total)

\* "A feasible candidate is always preferred to an infeasible one regardless of cost":
\* one is chosen that costs no more than any other feasible one.  Without any, the
\* caller can tell from the output, and a colliding candidate that keeps the vehicle's
\* limits is chosen only if it buys the most time.  Of a choice that breaks those limits
\* nothing is said: lattice.cpp:156 does not want it, planner.cpp:108 does not look.
ChoiceIsBest ==
  Answered =>
    LET c == costs[out.chosen]
    IN /\ Feasible(c) \/ out.nFeasible = 0
       /\ \A i \in 1 .. Len(costs) :
            /\ Feasible(costs[i]) => Feasible(c) /\ c.total <= costs[i].total
            /\ ~Feasible(c) /\ c.shape => NoWorse(c, costs[i])

\* "A dropped agent is a missed collision": the candidates were scored against every
\* agent around the ego, or the output says that the workspace was full, and then
\* the agents left out come after those predicted.
NobodyDroppedUnseen ==
  pc # "predict" /\ sampled > 0 =>
    /\ preds \subseteq near
    /\ preds # near => out.overflow /\ Cardinality(preds) >= MaxAgents
    /\ \A a \in preds, b \in near \ preds : a < b

\* To the simulator the planner is what PlanAnswer says.
Plan == INSTANCE PlanAnswer WITH
  sampling <- sampled > 0,
  answer <- IF pc = "done" /\ out # NoOutput
              THEN [ok |-> out.ok, feasible |-> out.nFeasible > 0]
              ELSE NoAnswer

AnswersEveryCall == Plan!AnswerSpec

=============================================================================
