----------------------------- MODULE PlannerProofs -----------------------------
(***************************************************************************)
(* Proofs about the planner's calls, for any number of agents, candidates, *)
(* samples and costs: the scoring loop leaves the best of what it scored,  *)
(* what is driven is that or a refinement that hits nobody where it does   *)
(* not, and the planner keeps what PlanAnswer promises the simulator.      *)
(***************************************************************************)
EXTENDS Planner, TLAPS

-----------------------------------------------------------------------------
(***************************************************************************)
(* The inductive invariant.                                                *)
(***************************************************************************)

\* What the scoring loop knows about the feasible candidates among those scored.
FeasibleScored ==
  /\ best.idxFeasible \in 0 .. Len(costs)
  /\ best.idxFeasible = 0 =>
       best.feasibleCost = Infinite /\ \A i \in 1 .. Len(costs) : ~Feasible(costs[i])
  /\ best.idxFeasible # 0 =>
       /\ Feasible(costs[best.idxFeasible])
       /\ best.feasibleCost = costs[best.idxFeasible].total
       /\ \A i \in 1 .. Len(costs) : Feasible(costs[i]) => best.feasibleCost <= costs[i].total

\* And about all of them; the first one is always taken.
AnyScored ==
  /\ best.idxAny \in 0 .. Len(costs)
  /\ best.idxAny = 0 => Len(costs) = 0 /\ best.impact = 0 /\ best.fallbackCost = Infinite
  /\ best.idxAny # 0 =>
       /\ best.impact = costs[best.idxAny].impact
       /\ best.fallbackCost = costs[best.idxAny].total
       /\ \A i \in 1 .. Len(costs) : NoWorse(costs[best.idxAny], costs[i])

\* The counter of feasible candidates agrees with the index of the best one.
FeasibleCounted ==
  /\ out.nFeasible <= Len(costs)
  /\ best.idxFeasible # 0 <=> out.nFeasible > 0

\* fill() has predicted the agents around the ego up to the one it looks at.
Predicting ==
  pc = "predict" =>
    /\ preds = {a \in near : a < next}
    /\ overflowed = FALSE
    /\ Len(costs) = 0

\* Where plan() is decides what its output says; a planner without candidates never
\* gets past its first return.
InCall ==
  /\ pc # "done" => sampled > 0
  /\ sampled = 0 => Len(costs) = 0
  /\ pc \in {"predict", "score"} =>
       out.ok = FALSE /\ out.chosen = 0 /\ out.failure = "" /\ out.trajectory = "none"
  /\ pc = "refine" => out.ok = TRUE /\ out.trajectory = "candidate"
  /\ pc = "done" => out = NoOutput \/ (out.ok <=> sampled > 0)
  /\ pc = "done" /\ out = NoOutput => Len(costs) = 0
  /\ pc = "done" /\ ~out.ok => out.nFeasible = 0

\* With a choice made, it is the one the loop found, from all the candidates.
ChosenIsFound ==
  out.ok =>
    /\ sampled > 0 /\ Len(costs) = sampled
    /\ out.chosen = IF best.idxFeasible > 0 THEN best.idxFeasible ELSE best.idxAny
    /\ out.trajectory \in {"candidate", "refined"}

\* A refined trajectory, or what is left of an earlier one, is driven only if it passed
\* the test.
RefinedPassed == Answered /\ out.trajectory = "refined" => Accepted(refine)

IInv ==
  /\ TypeOK
  /\ FeasibleScored
  /\ AnyScored
  /\ FeasibleCounted
  /\ Predicting
  /\ NobodyDroppedUnseen
  /\ InCall
  /\ ChosenIsFound
  /\ RefinedPassed

-----------------------------------------------------------------------------
(***************************************************************************)
(* What the variables hold.                                                *)
(***************************************************************************)

\* A scored candidate costs less than infinity and hits at a sample or never.
LEMMA CandidateType ==
  ASSUME NEW P, NEW c \in CostResults(P)
  PROVE  /\ c.total \in Nat /\ c.total < Infinite
         /\ c.impact \in Nat /\ c.impact <= Never
<1>1. c \in [hit : SUBSET P, impact : 0 .. Never, shape : BOOLEAN, total : 0 .. MaxCost]
  BY DEF CostResults
<1>2. c.total \in 0 .. MaxCost /\ c.impact \in 0 .. Never
  BY <1>1
<1> QED
  BY <1>2, SizesAssumption DEF Infinite, Never

\* So do those that were scored before.
LEMMA ScoredType ==
  ASSUME TypeOK
  PROVE  /\ costs \in Seq(CostResults(preds)) /\ Len(costs) \in Nat
         /\ \A i \in 1 .. Len(costs) :
              /\ costs[i] \in CostResults(preds)
              /\ costs[i].total \in Nat /\ costs[i].total < Infinite
              /\ costs[i].impact \in Nat /\ costs[i].impact <= Never
<1>1. costs \in Seq(CostResults(preds)) /\ Len(costs) \in Nat
  BY DEF TypeOK
<1>2. \A i \in 1 .. Len(costs) : costs[i] \in CostResults(preds)
  BY <1>1
<1> QED
  BY <1>1, <1>2, CandidateType

\* Nothing scored is a sequence of candidates against any predictions.
LEMMA NothingScored ==
  ASSUME TypeOK, Len(costs) = 0
  PROVE  costs = <<>> /\ \A P : costs \in Seq(CostResults(P))
<1>1. costs = <<>>
  BY ScoredType
<1> QED
  BY <1>1

\* The numbers are numbers.
LEMMA Numbers ==
  ASSUME TypeOK
  PROVE  /\ sampled \in Nat /\ next \in Nat /\ NumAgents \in Nat
         /\ out.nFeasible \in 0 .. sampled /\ out.chosen \in 0 .. sampled
         /\ best.feasibleCost \in Nat /\ best.fallbackCost \in Nat /\ best.impact \in Nat
         /\ best.idxFeasible \in Nat /\ best.idxAny \in Nat
         /\ Infinite \in Nat /\ Never \in Nat
<1>1. sampled \in Nat /\ NumAgents \in Nat
  BY SizesAssumption DEF TypeOK
<1>2. next \in Nat
  BY <1>1 DEF TypeOK
<1>3. out.nFeasible \in 0 .. sampled /\ out.chosen \in 0 .. sampled
  BY DEF TypeOK, Outputs
<1>4. Infinite \in Nat /\ Never \in Nat
  BY SizesAssumption DEF Infinite, Never
<1>5. /\ best.feasibleCost \in 0 .. Infinite /\ best.idxFeasible \in 0 .. sampled
      /\ best.impact \in 0 .. Never /\ best.fallbackCost \in 0 .. Infinite
      /\ best.idxAny \in 0 .. sampled
  BY DEF TypeOK, Findings
<1> QED
  BY <1>1, <1>2, <1>3, <1>4, <1>5

\* What a call begins with.
LEMMA NothingFound ==
  ASSUME sampled \in Nat
  PROVE  NothingYet \in Findings /\ NoOutput \in Outputs
<1>1. /\ 0 \in 0 .. Infinite /\ Infinite \in 0 .. Infinite /\ 0 \in 0 .. Never
      /\ 0 \in 0 .. sampled
  BY SizesAssumption DEF Infinite, Never
<1>2. NothingYet \in Findings
  BY <1>1 DEF NothingYet, Findings
<1>3. NoOutput \in Outputs
  BY <1>1 DEF NoOutput, Outputs
<1> QED
  BY <1>2, <1>3

\* An output before any answer is not an answer.
LEMMA NothingIsNoAnswer == NoOutput.ok = FALSE
  BY DEF NoOutput

\* The loop begins with what is true of no candidates.
LEMMA NothingMeans ==
  ASSUME costs = <<>>, best = NothingYet, out.nFeasible = 0
  PROVE  Len(costs) = 0 /\ FeasibleScored /\ AnyScored /\ FeasibleCounted
<1>1. Len(costs) = 0
  OBVIOUS
<1>2. best.idxFeasible = 0 /\ best.idxAny = 0 /\ best.feasibleCost = Infinite
      /\ best.fallbackCost = Infinite /\ best.impact = 0
  BY DEF NothingYet
<1> QED
  BY <1>1, <1>2 DEF FeasibleScored, AnyScored, FeasibleCounted

-----------------------------------------------------------------------------
(***************************************************************************)
(* The steps.                                                              *)
(***************************************************************************)

\* Nothing has been asked.
LEMMA InitInv == Init => IInv
<1> SUFFICES ASSUME Init PROVE IInv
  OBVIOUS
<1>1. sampled \in Nat
  BY SizesAssumption DEF Init
<1>2. costs = <<>> /\ best = NothingYet /\ out = NoOutput /\ pc = "done"
  BY DEF Init
<1>3. out.nFeasible = 0 /\ out.ok = FALSE
  BY <1>2 DEF NoOutput
<1>4. TypeOK
  <2>1. refine \in RefineResults
    <3>1. 0 \in 0 .. MaxCost
      BY SizesAssumption
    <3> QED
      BY <3>1 DEF Init, RefineResults
  <2>2. costs \in Seq(CostResults(preds)) /\ Len(costs) <= sampled /\ 1 \in 1 .. NumAgents + 1
    BY <1>1, <1>2, SizesAssumption
  <2>3. best \in Findings /\ out \in Outputs
    BY <1>1, <1>2, NothingFound
  <2> QED
    BY <2>1, <2>2, <2>3 DEF Init, TypeOK
<1>5. Len(costs) = 0 /\ FeasibleScored /\ AnyScored /\ FeasibleCounted
  BY <1>2, <1>3, NothingMeans
<1> QED
  BY <1>2, <1>3, <1>4, <1>5
     DEF Init, IInv, Predicting, NobodyDroppedUnseen, InCall, ChosenIsFound, RefinedPassed, Answered

\* A call forgets the last one.
LEMMA CallInv == IInv /\ Call => IInv'
<1> SUFFICES ASSUME IInv, Call PROVE IInv'
  OBVIOUS
<1>1. /\ near' \in SUBSET Agents /\ costs' = <<>> /\ best' = NothingYet
      /\ refine' = [refine EXCEPT !.hit = {}]
      /\ backend' = backend /\ osqpReady' = osqpReady /\ sampled' = sampled
      /\ pc = "done"
  BY DEF Call, configuration
<1>2. sampled \in Nat
  BY Numbers DEF IInv
<1>3. refine' \in RefineResults
  BY <1>1 DEF IInv, TypeOK, RefineResults
<1>4. /\ Len(costs') = 0 /\ best' \in Findings' /\ Len(costs') <= sampled
      /\ costs' \in Seq(CostResults(preds'))
  <2>1. NothingYet \in Findings
    BY <1>2, NothingFound
  <2> QED
    BY <1>1, <1>2, <2>1 DEF Findings
<1>5. CASE sampled = 0
  <2>1. /\ out' = [NoOutput EXCEPT !.failure = "no_candidates"]
        /\ pc' = pc /\ next' = next /\ preds' = preds /\ overflowed' = overflowed
    BY <1>5 DEF Call
  <2>2. out' # NoOutput /\ out'.ok = FALSE /\ out'.nFeasible = 0
    BY <2>1 DEF NoOutput
  <2>3. out' \in Outputs'
    BY <1>1, <1>2, <2>1, NothingFound DEF Outputs
  <2>4. TypeOK'
    BY <1>1, <1>3, <1>4, <2>1, <2>3 DEF IInv, TypeOK, RefineResults
  <2>5. FeasibleScored' /\ AnyScored' /\ FeasibleCounted'
    <3>1. /\ best'.idxFeasible = 0 /\ best'.idxAny = 0 /\ best'.feasibleCost = Infinite
          /\ best'.fallbackCost = Infinite /\ best'.impact = 0
      BY <1>1 DEF NothingYet
    <3>2. Len(costs') = 0 /\ out'.nFeasible = 0
      BY <1>4, <2>2
    <3> QED
      BY <3>1, <3>2 DEF FeasibleScored, AnyScored, FeasibleCounted
  <2> QED
    BY <1>1, <1>2, <1>4, <1>5, <2>1, <2>2, <2>4, <2>5
       DEF IInv, Predicting, NobodyDroppedUnseen, InCall, ChosenIsFound, RefinedPassed, Answered
<1>6. CASE sampled # 0
  <2>1. /\ out' = NoOutput /\ pc' = "predict"
        /\ next' = 1 /\ preds' = {} /\ overflowed' = FALSE
    BY <1>6 DEF Call
  <2>2. /\ out'.ok = FALSE /\ out'.chosen = 0 /\ out'.failure = "" /\ out'.trajectory = "none"
        /\ out'.nFeasible = 0
    BY <2>1 DEF NoOutput
  <2>3. out' \in Outputs'
    BY <1>1, <1>2, <2>1, NothingFound DEF Outputs
  <2>4. TypeOK'
    <3>1. next' \in 1 .. NumAgents + 1
      BY <2>1, SizesAssumption
    <3>2. preds' \subseteq Agents /\ overflowed' \in BOOLEAN /\ pc' = "predict"
      BY <2>1
    <3>3. refine' \in RefineResults'
      BY <1>3 DEF RefineResults
    <3>4. /\ backend' \in Backends /\ osqpReady' \in BOOLEAN
          /\ sampled' \in CandidateCounts /\ near' \subseteq Agents
      BY <1>1 DEF IInv, TypeOK
    <3>5. Len(costs') <= sampled'
      BY <1>1, <1>4
    <3> QED
      BY <1>4, <2>3, <3>1, <3>2, <3>3, <3>4, <3>5 DEF TypeOK
  <2>5. FeasibleScored' /\ AnyScored' /\ FeasibleCounted'
    <3>1. /\ best'.idxFeasible = 0 /\ best'.idxAny = 0 /\ best'.feasibleCost = Infinite
          /\ best'.fallbackCost = Infinite /\ best'.impact = 0
      BY <1>1 DEF NothingYet
    <3>2. Len(costs') = 0 /\ out'.nFeasible = 0
      BY <1>4, <2>2
    <3> QED
      BY <3>1, <3>2 DEF FeasibleScored, AnyScored, FeasibleCounted
  <2>6. preds' = {a \in near' : a < next'}
    <3>1. \A a \in Agents : ~(a < 1)
      BY SizesAssumption DEF Agents
    <3> QED
      BY <1>1, <2>1, <3>1
  <2>7. sampled > 0
    BY <1>2, <1>6
  <2> QED
    BY <1>1, <1>4, <2>1, <2>2, <2>4, <2>5, <2>6, <2>7
       DEF IInv, Predicting, NobodyDroppedUnseen, InCall, ChosenIsFound, RefinedPassed, Answered
<1> QED
  BY <1>5, <1>6

\* Steps of fill() that leave the candidates alone keep what is known of them.
LEMMA CandidatesAlone ==
  ASSUME IInv, pc = "predict", pc' \in {"predict", "score"},
         UNCHANGED <<configuration, near, costs, best, refine>>,
         out'.nFeasible = out.nFeasible, out'.ok = out.ok, out'.chosen = out.chosen,
         out'.failure = out.failure, out'.trajectory = out.trajectory
  PROVE  /\ FeasibleScored' /\ AnyScored' /\ FeasibleCounted' /\ InCall' /\ ChosenIsFound'
         /\ RefinedPassed'
<1>1. costs' = costs /\ best' = best /\ refine' = refine /\ sampled' = sampled
  BY DEF configuration
<1>2. FeasibleScored' /\ AnyScored' /\ FeasibleCounted'
  BY <1>1 DEF IInv, FeasibleScored, AnyScored, FeasibleCounted
<1>3. out.ok = FALSE /\ pc' # "done"
  BY DEF IInv, InCall
<1> QED
  BY <1>1, <1>2, <1>3 DEF IInv, InCall, ChosenIsFound, RefinedPassed, Answered

\* The agents up to the next one are the agents up to this one and this one.
LEMMA UpToNext ==
  ASSUME TypeOK
  PROVE  {a \in near : a < next + 1} = {a \in near : a < next} \cup ({next} \cap near)
<1>1. near \subseteq Int /\ next \in Int
  BY Numbers DEF TypeOK, Agents
<1>2. \A a \in near : a < next + 1 <=> (a < next \/ a = next)
  BY <1>1
<1> QED
  BY <1>2

\* An agent that is not near changes nothing but the place of the scan.
LEMMA PassByInv == IInv /\ PassBy => IInv'
<1> SUFFICES ASSUME IInv, PassBy PROVE IInv'
  OBVIOUS
<1>1. /\ pc = "predict" /\ next <= NumAgents /\ next \notin near /\ next' = next + 1
      /\ UNCHANGED <<configuration, pc, near, preds, overflowed, costs, best, refine, out>>
  BY DEF PassBy
<1>2. TypeOK'
  <2>1. next' \in 1 .. NumAgents + 1
    BY <1>1, SizesAssumption DEF IInv, TypeOK
  <2> QED
    BY <1>1, <2>1 DEF IInv, TypeOK, configuration, Findings, Outputs, RefineResults
<1>3. Predicting' /\ NobodyDroppedUnseen'
  <2>1. preds' = {a \in near' : a < next'}
    BY <1>1, UpToNext DEF IInv, Predicting
  <2> QED
    BY <1>1, <2>1 DEF IInv, Predicting, NobodyDroppedUnseen
<1> QED
  BY <1>1, <1>2, <1>3, CandidatesAlone DEF IInv

\* The agents predicted stay those around the ego up to the place of the scan.
LEMMA PredictInv == IInv /\ Predict => IInv'
<1> SUFFICES ASSUME IInv, Predict PROVE IInv'
  OBVIOUS
<1>1. /\ pc = "predict" /\ next <= NumAgents /\ next \in near /\ next' = next + 1
      /\ preds' = preds \cup {next}
      /\ UNCHANGED <<configuration, pc, near, overflowed, costs, best, refine, out>>
  BY DEF Predict
<1>2. TypeOK'
  <2>1. next' \in 1 .. NumAgents + 1
    BY <1>1, SizesAssumption DEF IInv, TypeOK
  <2>2. costs' \in Seq(CostResults(preds'))
    BY <1>1, NothingScored DEF IInv, Predicting
  <2>3. preds' \subseteq Agents
    BY <1>1 DEF IInv, TypeOK
  <2> QED
    BY <1>1, <2>1, <2>2, <2>3 DEF IInv, TypeOK, configuration, Findings, Outputs, RefineResults
<1>3. Predicting' /\ NobodyDroppedUnseen'
  <2>1. preds' = {a \in near' : a < next'}
    BY <1>1, UpToNext DEF IInv, Predicting
  <2> QED
    BY <1>1, <2>1 DEF IInv, Predicting, NobodyDroppedUnseen
<1> QED
  BY <1>1, <1>2, <1>3, CandidatesAlone DEF IInv

\* Those left out come after those predicted, and the output says so.
LEMMA OverflowInv == IInv /\ Overflow => IInv'
<1> SUFFICES ASSUME IInv, Overflow PROVE IInv'
  OBVIOUS
<1>1. /\ pc = "predict" /\ next \in near /\ Cardinality(preds) >= MaxAgents
      /\ overflowed' = TRUE /\ pc' = "score" /\ out' = [out EXCEPT !.overflow = TRUE]
      /\ UNCHANGED <<configuration, near, next, preds, costs, best, refine>>
  BY DEF Overflow, Predicted
<1>2. /\ out' \in Outputs /\ out'.overflow = TRUE
      /\ out'.nFeasible = out.nFeasible /\ out'.ok = out.ok /\ out'.chosen = out.chosen
      /\ out'.failure = out.failure /\ out'.trajectory = out.trajectory
  BY <1>1 DEF IInv, TypeOK, Outputs
<1>3. TypeOK'
  BY <1>1, <1>2 DEF IInv, TypeOK, configuration, Findings, Outputs, RefineResults
<1>4. Predicting' /\ NobodyDroppedUnseen'
  <2>1. preds = {a \in near : a < next}
    BY <1>1 DEF IInv, Predicting
  <2>2. \A a \in preds, b \in near \ preds : a < b
    <3>1. near \subseteq Int /\ next \in Int
      BY Numbers DEF IInv, TypeOK, Agents
    <3> QED
      BY <2>1, <3>1
  <2>3. preds \subseteq near
    BY <2>1
  <2> QED
    BY <1>1, <1>2, <2>2, <2>3 DEF Predicting, NobodyDroppedUnseen
<1> QED
  BY <1>1, <1>2, <1>3, <1>4, CandidatesAlone DEF IInv

\* The scan is over: every agent around the ego is predicted.
LEMMA AllPredictedInv == IInv /\ AllPredicted => IInv'
<1> SUFFICES ASSUME IInv, AllPredicted PROVE IInv'
  OBVIOUS
<1>1. /\ pc = "predict" /\ next > NumAgents
      /\ pc' = "score" /\ out' = [out EXCEPT !.overflow = overflowed]
      /\ UNCHANGED <<configuration, near, next, preds, overflowed, costs, best, refine>>
  BY DEF AllPredicted, Predicted, scene
<1>2. /\ out' \in Outputs
      /\ out'.nFeasible = out.nFeasible /\ out'.ok = out.ok /\ out'.chosen = out.chosen
      /\ out'.failure = out.failure /\ out'.trajectory = out.trajectory
  BY <1>1 DEF IInv, TypeOK, Outputs
<1>3. TypeOK'
  BY <1>1, <1>2 DEF IInv, TypeOK, configuration, Findings, Outputs, RefineResults
<1>4. Predicting' /\ NobodyDroppedUnseen'
  <2>1. preds = {a \in near : a < next}
    BY <1>1 DEF IInv, Predicting
  <2>2. \A a \in near : a < next
    <3>1. \A a \in near : a \in Int /\ a <= NumAgents
      BY SizesAssumption DEF IInv, TypeOK, Agents
    <3> QED
      BY <1>1, <3>1, Numbers DEF IInv
  <2>3. preds = near
    BY <2>1, <2>2
  <2> QED
    BY <1>1, <2>3 DEF Predicting, NobodyDroppedUnseen
<1> QED
  BY <1>1, <1>2, <1>3, <1>4, CandidatesAlone DEF IInv

\* One more candidate: what the loop knows stays true of all those scored.
LEMMA ScoreInv == IInv /\ Score => IInv'
<1> SUFFICES ASSUME IInv, Score PROVE IInv'
  OBVIOUS
<1>1. pc = "score" /\ Len(costs) < sampled
  BY DEF Score
<1>2. UNCHANGED <<configuration, pc, scene, refine>>
  BY DEF Score
<1> DEFINE i == Len(costs) + 1
<1>3. PICK c \in CostResults(preds) :
        /\ costs' = Append(costs, c)
        /\ LET cheaper == Feasible(c) /\ c.total < best.feasibleCost
           IN best' = [feasibleCost |-> IF cheaper THEN c.total ELSE best.feasibleCost,
                       idxFeasible  |-> IF cheaper THEN i ELSE best.idxFeasible,
                       impact       |-> IF BuysMoreTime(c) THEN c.impact ELSE best.impact,
                       fallbackCost |-> IF BuysMoreTime(c) THEN c.total ELSE best.fallbackCost,
                       idxAny       |-> IF BuysMoreTime(c) THEN i ELSE best.idxAny]
        /\ out' = [out EXCEPT !.nFeasible = IF Feasible(c) THEN @ + 1 ELSE @]
  BY DEF Score
<1>4. /\ costs \in Seq(CostResults(preds)) /\ Len(costs) \in Nat
      /\ \A j \in 1 .. Len(costs) :
           /\ costs[j].total \in Nat /\ costs[j].total < Infinite
           /\ costs[j].impact \in Nat
  BY ScoredType DEF IInv
<1>5. /\ c.total \in Nat /\ c.total < Infinite /\ c.impact \in Nat /\ c.impact <= Never
  BY CandidateType
<1>6. /\ costs' \in Seq(CostResults(preds)) /\ Len(costs') = i /\ costs'[i] = c
      /\ \A j \in 1 .. Len(costs) : costs'[j] = costs[j]
      /\ i \in Nat /\ i # 0
  BY <1>3, <1>4
<1>7. \A j \in 1 .. i : j = i \/ j \in 1 .. Len(costs)
  BY <1>4
<1> HIDE DEF i
<1>8. /\ sampled \in Nat /\ best.feasibleCost \in Nat /\ best.fallbackCost \in Nat
      /\ best.impact \in Nat /\ Infinite \in Nat /\ Never \in Nat
      /\ out.nFeasible \in 0 .. sampled
  BY Numbers DEF IInv
<1>9. i \in 1 .. sampled
  BY <1>1, <1>4, <1>8 DEF i
<1>10. FeasibleScored'
  <2>1. CASE Feasible(c) /\ c.total < best.feasibleCost
    <3>1. best'.idxFeasible = i /\ best'.feasibleCost = c.total
      BY <1>3, <2>1
    <3>2. ASSUME NEW j \in 1 .. i, Feasible(costs'[j]) PROVE c.total <= costs'[j].total
      <4>1. CASE j = i
        BY <1>5, <1>6, <4>1
      <4>2. CASE j \in 1 .. Len(costs)
        <5>1. costs'[j] = costs[j] /\ Feasible(costs[j])
          BY <1>6, <3>2, <4>2
        <5>2. best.idxFeasible # 0
          BY <4>2, <5>1 DEF IInv, FeasibleScored
        <5>3. best.feasibleCost <= costs[j].total
          BY <4>2, <5>1, <5>2 DEF IInv, FeasibleScored
        <5> QED
          BY <1>4, <1>5, <1>8, <2>1, <4>2, <5>1, <5>3
      <4> QED
        BY <1>7, <4>1, <4>2
    <3>3. i \in 0 .. i
      BY <1>6
    <3> QED
      BY <1>6, <2>1, <3>1, <3>2, <3>3 DEF FeasibleScored
  <2>2. CASE ~(Feasible(c) /\ c.total < best.feasibleCost)
    <3>1. best'.idxFeasible = best.idxFeasible /\ best'.feasibleCost = best.feasibleCost
      BY <1>3, <2>2
    <3>2. best.idxFeasible \in 0 .. Len(costs)
      BY DEF IInv, FeasibleScored
    <3>3. best.idxFeasible \in 0 .. i
      BY <1>4, <3>2 DEF i
    <3>4. CASE best.idxFeasible = 0
      <4>1. best.feasibleCost = Infinite /\ \A j \in 1 .. Len(costs) : ~Feasible(costs[j])
        BY <3>4 DEF IInv, FeasibleScored
      <4>2. ~Feasible(c)
        BY <1>5, <2>2, <4>1
      <4>3. \A j \in 1 .. i : ~Feasible(costs'[j])
        BY <1>6, <1>7, <4>1, <4>2
      <4> QED
        BY <1>6, <3>1, <3>3, <3>4, <4>1, <4>3 DEF FeasibleScored, Infinite
    <3>5. CASE best.idxFeasible # 0
      <4>1. /\ Feasible(costs[best.idxFeasible])
            /\ best.feasibleCost = costs[best.idxFeasible].total
            /\ \A j \in 1 .. Len(costs) : Feasible(costs[j]) => best.feasibleCost <= costs[j].total
        BY <3>5 DEF IInv, FeasibleScored
      <4>2. best.idxFeasible \in 1 .. Len(costs)
        BY <1>4, <3>2, <3>5
      <4>3. costs'[best.idxFeasible] = costs[best.idxFeasible]
        BY <1>6, <4>2
      <4>4. Feasible(c) => best.feasibleCost <= c.total
        BY <1>5, <1>8, <2>2
      <4>5. \A j \in 1 .. i : Feasible(costs'[j]) => best.feasibleCost <= costs'[j].total
        BY <1>6, <1>7, <4>1, <4>4
      <4> QED
        BY <1>6, <3>1, <3>3, <3>5, <4>1, <4>3, <4>5 DEF FeasibleScored
    <3> QED
      BY <3>4, <3>5
  <2> QED
    BY <2>1, <2>2
<1>11. AnyScored'
  <2>1. ASSUME NEW d \in {c}, NEW j \in 1 .. Len(costs), best.idxAny # 0
        PROVE  NoWorse(costs[best.idxAny], costs[j])
    BY <2>1 DEF IInv, AnyScored
  <2>2. best.idxAny \in 0 .. Len(costs)
    BY DEF IInv, AnyScored
  <2>3. best.idxAny = 0 => Len(costs) = 0 /\ best.impact = 0 /\ best.fallbackCost = Infinite
    BY DEF IInv, AnyScored
  <2>4. best.idxAny # 0 =>
          /\ best.impact = costs[best.idxAny].impact
          /\ best.fallbackCost = costs[best.idxAny].total
    BY DEF IInv, AnyScored
  <2>5. CASE BuysMoreTime(c)
    <3>1. best'.idxAny = i /\ best'.impact = c.impact /\ best'.fallbackCost = c.total
      BY <1>3, <2>5
    <3>2. ASSUME NEW j \in 1 .. i PROVE NoWorse(c, costs'[j])
      <4>1. CASE j = i
        BY <1>5, <1>6, <4>1 DEF NoWorse
      <4>2. CASE j \in 1 .. Len(costs)
        <5>1. best.idxAny # 0
          BY <1>4, <2>3, <4>2
        <5>2. NoWorse(costs[best.idxAny], costs[j])
          BY <2>1, <4>2, <5>1
        <5>3. best.impact > costs[j].impact \/
                (best.impact = costs[j].impact /\ best.fallbackCost <= costs[j].total)
          BY <2>4, <5>1, <5>2 DEF NoWorse
        <5>4. c.impact > best.impact \/ (c.impact = best.impact /\ c.total < best.fallbackCost)
          BY <2>5 DEF BuysMoreTime
        <5>5. costs[j].impact \in Nat /\ costs[j].total \in Nat /\ costs'[j] = costs[j]
          BY <1>4, <1>6, <4>2
        <5>6. c.impact > costs[j].impact \/ (c.impact = costs[j].impact /\ c.total <= costs[j].total)
          BY <1>5, <1>8, <5>3, <5>4, <5>5
        <5> QED
          BY <5>5, <5>6 DEF NoWorse
      <4> QED
        BY <1>7, <4>1, <4>2
    <3>3. i \in 0 .. i
      BY <1>6
    <3> QED
      BY <1>6, <3>1, <3>2, <3>3 DEF AnyScored
  <2>6. CASE ~BuysMoreTime(c)
    <3>1. /\ best'.idxAny = best.idxAny /\ best'.impact = best.impact
          /\ best'.fallbackCost = best.fallbackCost
      BY <1>3, <2>6
    <3>2. ~(c.impact > best.impact) /\ ~(c.impact = best.impact /\ c.total < best.fallbackCost)
      BY <2>6 DEF BuysMoreTime
    <3>3. best.idxAny # 0
      <4>1. best.impact = 0 /\ best.fallbackCost = Infinite => FALSE
        BY <1>5, <1>8, <3>2
      <4> QED
        BY <2>3, <4>1
    <3>4. best.idxAny \in 1 .. Len(costs) /\ best.idxAny \in 0 .. i
      BY <1>4, <2>2, <3>3 DEF i
    <3>5. costs'[best.idxAny] = costs[best.idxAny]
      BY <1>6, <3>4
    <3>6. NoWorse(costs[best.idxAny], c)
      <4>1. best.impact > c.impact \/ (best.impact = c.impact /\ best.fallbackCost <= c.total)
        BY <1>5, <1>8, <3>2
      <4> QED
        BY <2>4, <3>3, <4>1 DEF NoWorse
    <3>7. \A j \in 1 .. i : NoWorse(costs'[best.idxAny], costs'[j])
      BY <1>6, <1>7, <2>1, <3>3, <3>5, <3>6
    <3> QED
      BY <1>6, <2>4, <3>1, <3>3, <3>4, <3>5, <3>7 DEF AnyScored
  <2> QED
    BY <2>5, <2>6
<1>12. /\ out'.nFeasible = IF Feasible(c) THEN out.nFeasible + 1 ELSE out.nFeasible
       /\ out'.ok = out.ok /\ out'.chosen = out.chosen /\ out'.failure = out.failure
       /\ out'.trajectory = out.trajectory /\ out'.rejected = out.rejected
       /\ out'.overflow = out.overflow
  BY <1>3 DEF IInv, TypeOK, Outputs
<1>13. FeasibleCounted'
  <2>1. out.nFeasible <= Len(costs) /\ (best.idxFeasible # 0 <=> out.nFeasible > 0)
    BY DEF IInv, FeasibleCounted
  <2>2. out'.nFeasible <= i
    BY <1>4, <1>8, <1>12, <2>1 DEF i
  <2>3. CASE Feasible(c)
    <3>1. out'.nFeasible > 0
      BY <1>8, <1>12, <2>3
    <3>2. best'.idxFeasible # 0
      <4>1. CASE c.total < best.feasibleCost
        BY <1>3, <1>6, <2>3, <4>1
      <4>2. CASE ~(c.total < best.feasibleCost)
        <5>1. best.feasibleCost # Infinite
          BY <1>5, <4>2
        <5>2. best.idxFeasible # 0
          BY <5>1 DEF IInv, FeasibleScored
        <5> QED
          BY <1>3, <4>2, <5>2
      <4> QED
        BY <4>1, <4>2
    <3> QED
      BY <1>6, <2>2, <3>1, <3>2 DEF FeasibleCounted
  <2>4. CASE ~Feasible(c)
    <3>1. best'.idxFeasible = best.idxFeasible /\ out'.nFeasible = out.nFeasible
      BY <1>3, <1>12, <2>4
    <3> QED
      BY <1>6, <2>1, <2>2, <3>1 DEF FeasibleCounted
  <2> QED
    BY <2>3, <2>4
<1>14. TypeOK'
  <2>1. out'.nFeasible \in 0 .. sampled
    <3>1. out.nFeasible <= Len(costs)
      BY DEF IInv, FeasibleCounted
    <3> QED
      BY <1>1, <1>4, <1>8, <1>12, <3>1
  <2>2. out' \in Outputs
    <3>1. out' = [out EXCEPT !.nFeasible = out'.nFeasible]
      BY <1>3, <1>12 DEF IInv, TypeOK, Outputs
    <3> QED
      BY <2>1, <3>1 DEF IInv, TypeOK, Outputs
  <2>3. best' \in Findings
    <3>1. /\ c.total \in 0 .. Infinite /\ c.impact \in 0 .. Never /\ i \in 0 .. sampled
      BY <1>5, <1>8, <1>9
    <3> QED
      BY <1>3, <3>1 DEF IInv, TypeOK, Findings
  <2>4. Len(costs') <= sampled
    BY <1>6, <1>9
  <2> QED
    BY <1>2, <1>6, <2>2, <2>3, <2>4
       DEF IInv, TypeOK, configuration, scene, Findings, Outputs, RefineResults
<1>15. InCall' /\ ChosenIsFound' /\ RefinedPassed'
  <2>1. /\ out.ok = FALSE /\ out.chosen = 0 /\ out.failure = "" /\ out.trajectory = "none"
        /\ sampled > 0
    BY <1>1 DEF IInv, InCall
  <2>2. sampled' > 0 /\ sampled' # 0
    <3>1. sampled' = sampled /\ sampled > 0 /\ sampled \in Nat
      BY <1>2, <1>8, <2>1 DEF configuration
    <3> QED
      BY <3>1
  <2>3. pc' = "score" /\ out'.ok = FALSE
    BY <1>1, <1>2, <1>12, <2>1
  <2> QED
    BY <1>12, <2>1, <2>2, <2>3 DEF InCall, ChosenIsFound, RefinedPassed, Answered
<1>16. Predicting' /\ NobodyDroppedUnseen'
  BY <1>1, <1>2, <1>12 DEF IInv, Predicting, NobodyDroppedUnseen, configuration, scene
<1> QED
  BY <1>10, <1>11, <1>13, <1>14, <1>15, <1>16 DEF IInv

\* All candidates are scored, so there is one to choose.
LEMMA ChooseInv == IInv /\ Choose => IInv'
<1> SUFFICES ASSUME IInv, Choose PROVE IInv'
  OBVIOUS
<1> DEFINE i == IF best.idxFeasible > 0 THEN best.idxFeasible ELSE best.idxAny
<1>1. /\ pc = "score" /\ Len(costs) = sampled
      /\ UNCHANGED <<configuration, scene, costs, best, refine>>
  BY DEF Choose
<1>2. sampled > 0 /\ sampled # 0 /\ sampled \in Nat
  <2>1. sampled > 0
    BY <1>1 DEF IInv, InCall
  <2>2. sampled \in Nat
    BY Numbers DEF IInv
  <2> QED
    BY <2>1, <2>2
<1>3. i \in 1 .. sampled
  <2>1. best.idxFeasible \in 0 .. Len(costs) /\ best.idxAny \in 0 .. Len(costs)
    BY DEF IInv, FeasibleScored, AnyScored
  <2>2. best.idxAny # 0
    BY <1>1, <1>2 DEF IInv, AnyScored
  <2> QED
    BY <1>1, <1>2, <2>1, <2>2
<1> HIDE DEF i
<1>4. i # 0 /\ i \in 0 .. sampled
  BY <1>2, <1>3
<1>5. PICK f \in {"", "no_feasible_candidate"} :
        out' = [out EXCEPT !.ok = TRUE, !.chosen = i, !.trajectory = "candidate", !.failure = f]
  BY <1>4 DEF Choose, i
<1>6. pc' \in {"done", "refine"}
  BY <1>4 DEF Choose, i
<1>7. /\ out' \in Outputs
      /\ out'.ok = TRUE /\ out'.chosen = i /\ out'.trajectory = "candidate"
      /\ out'.nFeasible = out.nFeasible /\ out'.overflow = out.overflow
  <2>1. out \in Outputs /\ i \in 0 .. sampled
    <3>1. out \in Outputs
      BY DEF IInv, TypeOK
    <3> QED
      BY <1>4, <3>1
  <2>2. out' \in Outputs
    <3> DEFINE o == [out EXCEPT !.ok = TRUE, !.chosen = i]
    <3>1. o \in Outputs
      BY <2>1 DEF Outputs
    <3>2. out' = [o EXCEPT !.trajectory = "candidate", !.failure = f]
      BY <1>5, <2>1 DEF Outputs
    <3> HIDE DEF o
    <3>3. f \in {"", "no_candidates", "no_candidate_scored", "no_feasible_candidate"}
      BY <1>5
    <3> QED
      BY <3>1, <3>2, <3>3 DEF Outputs
  <2>3. out'.ok = TRUE /\ out'.chosen = i /\ out'.trajectory = "candidate"
    BY <1>5, <2>1 DEF Outputs
  <2>4. out'.nFeasible = out.nFeasible /\ out'.overflow = out.overflow
    BY <1>5, <2>1 DEF Outputs
  <2> QED
    BY <2>2, <2>3, <2>4
<1>8. TypeOK'
  BY <1>1, <1>6, <1>7 DEF IInv, TypeOK, configuration, scene, Findings, Outputs, RefineResults
<1>9. FeasibleScored' /\ AnyScored' /\ FeasibleCounted'
  BY <1>1, <1>7 DEF IInv, FeasibleScored, AnyScored, FeasibleCounted
<1>10. Predicting' /\ NobodyDroppedUnseen'
  BY <1>1, <1>6, <1>7 DEF IInv, Predicting, NobodyDroppedUnseen, configuration, scene
<1>11. InCall'
  <2>1. sampled' = sampled /\ sampled' > 0 /\ sampled' # 0
    <3>1. sampled' = sampled
      BY <1>1 DEF configuration
    <3> QED
      BY <1>2, <3>1
  <2>2. out' # NoOutput
    BY <1>7, NothingIsNoAnswer
  <2> QED
    BY <1>6, <1>7, <2>1, <2>2 DEF InCall
<1>12. ChosenIsFound' /\ RefinedPassed'
  <2>1. sampled' > 0 /\ Len(costs') = sampled' /\ best' = best
    BY <1>1, <1>2 DEF configuration
  <2> QED
    BY <1>7, <2>1 DEF ChosenIsFound, RefinedPassed, i
<1> QED
  BY <1>8, <1>9, <1>10, <1>11, <1>12 DEF IInv

\* Only a result that passes the test is driven.
LEMMA RefineInv == IInv /\ Refine => IInv'
<1> SUFFICES ASSUME IInv, Refine PROVE IInv'
  OBVIOUS
<1>1. pc = "refine" /\ pc' = "done" /\ UNCHANGED <<configuration, scene, costs, best>>
  BY DEF Refine
<1>2. PICK r \in Results :
        /\ refine' = r
        /\ out' = IF Accepted(r) THEN [out EXCEPT !.trajectory = "refined"]
                                 ELSE [out EXCEPT !.rejected = TRUE]
  BY DEF Refine
<1>3. r \in RefineResults
  <2>1. preds \subseteq Agents
    BY DEF IInv, TypeOK
  <2>2. CASE backend = "osqp" /\ ~osqpReady
    <3>1. r \in Refinements({0})
      BY <1>2, <2>2 DEF Results, Unsolved
    <3>2. 0 \in 0 .. MaxCost
      BY SizesAssumption
    <3> QED
      BY <2>1, <3>1, <3>2 DEF Refinements, RefineResults
  <2>3. CASE ~(backend = "osqp" /\ ~osqpReady)
    <3>1. r \in Refinements(0 .. MaxCost)
      BY <1>2, <2>3 DEF Results, Solved
    <3> QED
      BY <2>1, <3>1 DEF Refinements, RefineResults
  <2> QED
    BY <2>2, <2>3
<1>4. out.ok = TRUE /\ out.trajectory = "candidate"
  BY <1>1 DEF IInv, InCall
<1>5. /\ out' \in Outputs
      /\ out'.ok = TRUE /\ out'.chosen = out.chosen
      /\ out'.nFeasible = out.nFeasible /\ out'.overflow = out.overflow
      /\ out'.trajectory \in {"candidate", "refined"}
      /\ out'.trajectory = "refined" => Accepted(r)
  <2>1. CASE Accepted(r)
    BY <1>2, <1>4, <2>1 DEF IInv, TypeOK, Outputs
  <2>2. CASE ~Accepted(r)
    BY <1>2, <1>4, <2>2 DEF IInv, TypeOK, Outputs
  <2> QED
    BY <2>1, <2>2
<1>6. TypeOK'
  BY <1>1, <1>2, <1>3, <1>5 DEF IInv, TypeOK, configuration, scene, Findings, Outputs, RefineResults
<1>7. FeasibleScored' /\ AnyScored' /\ FeasibleCounted'
  BY <1>1, <1>5 DEF IInv, FeasibleScored, AnyScored, FeasibleCounted
<1>8. Predicting' /\ NobodyDroppedUnseen'
  BY <1>1, <1>5 DEF IInv, Predicting, NobodyDroppedUnseen, configuration, scene
<1>9. sampled' = sampled /\ sampled > 0 /\ sampled # 0
  BY <1>1, Numbers DEF IInv, InCall, configuration
<1>10. InCall'
  <2>1. out' # NoOutput
    BY <1>5, NothingIsNoAnswer
  <2> QED
    BY <1>1, <1>5, <1>9, <2>1 DEF InCall
<1>11. ChosenIsFound'
  BY <1>1, <1>4, <1>5, <1>9 DEF IInv, ChosenIsFound
<1>12. RefinedPassed'
  BY <1>1, <1>2, <1>5 DEF RefinedPassed, Answered, Accepted
<1> QED
  BY <1>6, <1>7, <1>8, <1>10, <1>11, <1>12 DEF IInv

\* Nothing happens.
LEMMA StutterInv == IInv /\ UNCHANGED vars => IInv'
<1> SUFFICES ASSUME IInv, UNCHANGED vars PROVE IInv'
  OBVIOUS
<1>1. UNCHANGED <<backend, osqpReady, sampled, pc, near, next, preds, overflowed, costs, best,
                  refine, out>>
  BY DEF vars, configuration, scene
<1>2. TypeOK'
  BY <1>1 DEF IInv, TypeOK, Findings, Outputs, RefineResults
<1>3. FeasibleScored' /\ AnyScored' /\ FeasibleCounted'
  BY <1>1 DEF IInv, FeasibleScored, AnyScored, FeasibleCounted
<1>4. Predicting' /\ NobodyDroppedUnseen'
  BY <1>1 DEF IInv, Predicting, NobodyDroppedUnseen
<1>5. InCall' /\ ChosenIsFound'
  BY <1>1 DEF IInv, InCall, ChosenIsFound
<1>6. RefinedPassed'
  BY <1>1 DEF IInv, RefinedPassed, Answered, Accepted
<1> QED
  BY <1>2, <1>3, <1>4, <1>5, <1>6 DEF IInv

\* Every reachable state has the strengthening, from which each property follows.
THEOREM PlannerInv == Spec => []IInv
<1>1. IInv /\ [Next]_vars => IInv'
  BY CallInv, PassByInv, PredictInv, OverflowInv, AllPredictedInv, ScoreInv, ChooseInv, RefineInv,
     StutterInv DEF Next
<1> QED
  BY InitInv, <1>1, PTL DEF Spec

-----------------------------------------------------------------------------
(***************************************************************************)
(* What follows for the trajectory that is driven.                         *)
(***************************************************************************)

\* Every variable keeps its type through prediction, scoring, choice and refinement.
THEOREM PlannerTypeOK == Spec => []TypeOK
<1>1. IInv => TypeOK
  BY DEF IInv
<1> QED
  BY <1>1, PlannerInv, PTL

\* Where a choice was made, the candidate chosen is one of those scored; it is the best
\* of the feasible ones if there is any, and no other buys more time if there is none.
LEMMA ChosenIsScored ==
  ASSUME IInv, Answered
  PROVE  /\ out.chosen \in 1 .. Len(costs)
         /\ best.idxFeasible # 0 => out.chosen = best.idxFeasible
         /\ best.idxFeasible = 0 => out.chosen = best.idxAny /\ best.idxAny # 0
<1>1. best.idxFeasible \in 0 .. Len(costs) /\ best.idxAny \in 0 .. Len(costs)
  BY DEF IInv, FeasibleScored, AnyScored
<1>2. Len(costs) \in Nat
  BY ScoredType DEF IInv
<1>3. out.chosen = IF best.idxFeasible > 0 THEN best.idxFeasible ELSE best.idxAny
  BY DEF IInv, ChosenIsFound, Answered
<1>4. Len(costs) # 0
  <2>1. sampled > 0 /\ Len(costs) = sampled
    BY DEF IInv, ChosenIsFound, Answered
  <2> QED
    BY <1>2, <2>1
<1>5. best.idxAny # 0
  BY <1>4 DEF IInv, AnyScored
<1> QED
  BY <1>1, <1>2, <1>3, <1>5

\* The scoring loop (planner.cpp:90-131) in one pass leaves the index of a feasible
\* candidate of least cost, or, without one, says so and leaves, unless it breaks the
\* limits of the vehicle, a least costly of the latest to hit.
THEOREM PlannerChoiceIsBest == Spec => []ChoiceIsBest
<1>1. IInv => ChoiceIsBest
  <2> SUFFICES ASSUME IInv, Answered
               PROVE  LET c == costs[out.chosen]
                      IN /\ Feasible(c) \/ out.nFeasible = 0
                         /\ \A i \in 1 .. Len(costs) :
                              /\ Feasible(costs[i]) => Feasible(c) /\ c.total <= costs[i].total
                              /\ ~Feasible(c) /\ c.shape => NoWorse(c, costs[i])
    BY DEF ChoiceIsBest
  <2>1. CASE best.idxFeasible # 0
    <3>1. out.chosen = best.idxFeasible
      BY <2>1, ChosenIsScored
    <3>2. /\ Feasible(costs[best.idxFeasible])
          /\ best.feasibleCost = costs[best.idxFeasible].total
          /\ \A i \in 1 .. Len(costs) : Feasible(costs[i]) => best.feasibleCost <= costs[i].total
      BY <2>1 DEF IInv, FeasibleScored
    <3> QED
      BY <3>1, <3>2
  <2>2. CASE best.idxFeasible = 0
    <3>1. out.chosen = best.idxAny /\ best.idxAny # 0
      BY <2>2, ChosenIsScored
    <3>2. \A i \in 1 .. Len(costs) : ~Feasible(costs[i])
      BY <2>2 DEF IInv, FeasibleScored
    <3>3. \A i \in 1 .. Len(costs) : NoWorse(costs[out.chosen], costs[i])
      BY <3>1 DEF IInv, AnyScored
    <3>4. out.nFeasible = 0
      <4>1. ~(out.nFeasible > 0)
        BY <2>2 DEF IInv, FeasibleCounted
      <4> QED
        BY <4>1, Numbers DEF IInv
    <3> QED
      BY <3>2, <3>3, <3>4
  <2> QED
    BY <2>1, <2>2
<1> QED
  BY <1>1, PlannerInv, PTL

\* Choice and acceptance together (planner.cpp:125-186): neither arithmetic nor the
\* refinement makes the ego drive into a predicted agent while a candidate is feasible.
THEOREM PlannerDrivesClear == Spec => []DrivesClearIfPossible
<1>1. IInv => DrivesClearIfPossible
  <2> SUFFICES ASSUME IInv, Answered, NEW i \in 1 .. Len(costs), Feasible(costs[i])
               PROVE  Executed = {}
    BY DEF DrivesClearIfPossible
  <2>1. best.idxFeasible # 0
    BY DEF IInv, FeasibleScored
  <2>2. out.chosen = best.idxFeasible
    BY <2>1, ChosenIsScored
  <2>3. costs[out.chosen].hit = {}
    BY <2>1, <2>2 DEF IInv, FeasibleScored, Feasible
  <2>4. out.trajectory = "refined" => refine.hit = {}
    BY <2>3 DEF IInv, RefinedPassed, Accepted
  <2> QED
    BY <2>3, <2>4 DEF Executed
<1> QED
  BY <1>1, PlannerInv, PTL

\* The workspace of fill() (prediction.cpp:25-80) is of any size: whom it leaves out is
\* said, and comes after all those it predicted.
THEOREM PlannerNobodyDroppedUnseen == Spec => []NobodyDroppedUnseen
<1>1. IInv => NobodyDroppedUnseen
  BY DEF IInv
<1> QED
  BY <1>1, PlannerInv, PTL

-----------------------------------------------------------------------------
(***************************************************************************)
(* The planner is what the simulator takes it for.                         *)
(***************************************************************************)

\* The answer of the refinement mapping.
Answer == IF pc = "done" /\ out # NoOutput
            THEN [ok |-> out.ok, feasible |-> out.nFeasible > 0]
            ELSE NoAnswer

\* An output that returned is an answer that keeps the promise.
KeepsPromise ==
  /\ Answer \in [ok : BOOLEAN, feasible : BOOLEAN]
  /\ Answer # NoAnswer
  /\ Answer.ok = (sampled > 0) /\ (Answer.feasible => Answer.ok)

\* The invariant leaves no other outputs.
LEMMA OutputKeepsPromise == IInv /\ pc = "done" /\ out # NoOutput => KeepsPromise
<1> SUFFICES ASSUME IInv, pc = "done", out # NoOutput PROVE KeepsPromise
  OBVIOUS
<1>1. Answer = [ok |-> out.ok, feasible |-> out.nFeasible > 0]
  BY DEF Answer
<1>2. out.ok \in BOOLEAN /\ out.ok = (sampled > 0)
  <2>1. out \in Outputs
    BY DEF IInv, TypeOK
  <2>2. out.ok \in BOOLEAN
    BY <2>1 DEF Outputs
  <2>3. out.ok <=> sampled > 0
    BY DEF IInv, InCall
  <2>4. (sampled > 0) \in BOOLEAN
    OBVIOUS
  <2> QED
    BY <2>2, <2>3, <2>4, Zenon
<1>3. out.nFeasible > 0 => out.ok
  <2> SUFFICES ASSUME ~out.ok PROVE ~(out.nFeasible > 0)
    BY <1>2
  <2>1. out.nFeasible = 0
    BY DEF IInv, InCall
  <2> QED
    BY <2>1
<1>4. Answer \in [ok : BOOLEAN, feasible : BOOLEAN]
  BY <1>1, <1>2
<1> QED
  BY <1>1, <1>2, <1>3, <1>4, NoAnswerAssumption DEF KeepsPromise

\* Every call is answered once, before the next, usably exactly when the lattice has
\* candidates, and a feasible one is never reported of a failed call.
THEOREM PlannerAnswersEveryCall == Spec => AnswersEveryCall
<1>1. Init => Plan!AnswerInit
  BY DEF Init, Plan!AnswerInit
<1>2. (IInv /\ pc = "done" /\ out # NoOutput => KeepsPromise)'
  BY OutputKeepsPromise, PTL
<1>3. IInv /\ IInv' /\ [Next]_vars => [Plan!Reply \/ Plan!Ask]_<<sampled > 0, Answer>>
  <2> SUFFICES ASSUME IInv, IInv', [Next]_vars
               PROVE  [Plan!Reply \/ Plan!Ask]_<<sampled > 0, Answer>>
    OBVIOUS
  <2>1. sampled' = sampled
    BY DEF Next, vars, configuration, Call, PassBy, Predict, Overflow, AllPredicted, Score,
           Choose, Refine
  <2>2. Answer = NoAnswer => [Plan!Reply \/ Plan!Ask]_<<sampled > 0, Answer>>
    <3> SUFFICES ASSUME Answer = NoAnswer, Answer' # NoAnswer
                 PROVE  Plan!Reply
      BY <2>1 DEF Plan!Reply
    <3>1. pc' = "done" /\ out' # NoOutput
      BY DEF Answer
    <3>2. KeepsPromise'
      BY <1>2, <3>1
    <3> QED
      BY <2>1, <3>2 DEF KeepsPromise, Plan!Reply, Plan!Answers, Plan!Promised, Answer
  <2>3. ASSUME Answer # NoAnswer
        PROVE  [Plan!Reply \/ Plan!Ask]_<<sampled > 0, Answer>>
    <3>1. pc = "done" /\ out # NoOutput
      BY <2>3 DEF Answer
    <3>2. UNCHANGED vars \/ Call
      BY <3>1 DEF Next, PassBy, Predict, Overflow, AllPredicted, Score, Choose, Refine
    <3>3. CASE UNCHANGED vars
      <4>1. pc' = pc /\ out' = out
        BY <3>3 DEF vars
      <4> QED
        BY <2>1, <4>1 DEF Answer
    <3>4. CASE Call /\ sampled = 0
      <4>1. out' = [NoOutput EXCEPT !.failure = "no_candidates"] /\ pc' = "done"
        BY <3>1, <3>4 DEF Call
      <4>2. out' # NoOutput /\ out'.ok = FALSE /\ out'.nFeasible = 0
        BY <4>1 DEF NoOutput
      <4>3. ~(sampled > 0)
        BY <3>4
      <4>4. out.ok = FALSE /\ out.nFeasible = 0
        <5>1. ~out.ok /\ out.nFeasible = 0 /\ out \in Outputs
          BY <3>1, <4>3 DEF IInv, InCall, TypeOK
        <5> QED
          BY <5>1 DEF Outputs
      <4>5. Answer' = Answer
        BY <3>1, <4>1, <4>2, <4>4 DEF Answer
      <4> QED
        BY <2>1, <4>5
    <3>5. CASE Call /\ sampled # 0
      <4>1. pc' = "predict"
        BY <3>5 DEF Call
      <4>2. Answer' = NoAnswer
        BY <4>1 DEF Answer
      <4> QED
        BY <2>1, <2>3, <4>2 DEF Plan!Ask, Answer
    <3> QED
      BY <3>2, <3>3, <3>4, <3>5
  <2> QED
    BY <2>2, <2>3
<1> QED
  BY <1>1, <1>3, PlannerInv, PTL DEF Spec, AnswersEveryCall, Plan!AnswerSpec, Answer

=============================================================================
