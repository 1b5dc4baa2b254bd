---------------------------- MODULE SimulatorProofs ----------------------------
(***************************************************************************)
(* Proofs about the simulator's runs, for every number of agents and steps *)
(* and whatever the limits of the vehicle are.                             *)
(***************************************************************************)
EXTENDS Simulator, WellFoundedInduction, TLAPS

USE DEF Agents, NoCollision

\* Clamping around a value within limits, of a value within them, stays within them: the
\* rate limit, applied last, cannot undo the limits applied before it.
LEMMA RateKeepsLimits ==
  ASSUME NEW lo \in Int, NEW hi \in Int, NEW r \in Nat,
         NEW x \in lo .. hi, NEW p \in lo .. hi
  PROVE  Clamp(x, p - r, p + r) \in lo .. hi
  BY DEF Clamp

\* Nor does it move further than the rate.
LEMMA RateKeepsPace ==
  ASSUME NEW x \in Int, NEW p \in Int, NEW r \in Nat
  PROVE  Clamp(x, p - r, p + r) - p \in -r .. r
  BY DEF Clamp

\* A non-empty set of natural numbers has a smallest element.
LEMMA SmallestElement ==
  ASSUME NEW S \in SUBSET Nat, S # {}
  PROVE  \E m \in S : \A k \in S : m <= k
<1> DEFINE R == OpToRel(<, Nat)
<1>1. \A m, k \in Nat : k < m => <<k, m>> \in R
  BY DEF OpToRel
<1> HIDE DEF R
<1>2. IsWellFoundedOn(R, Nat)
  BY NatLessThanWellFounded DEF R
<1>3. PICK m \in S : \A k \in S : <<k, m>> \notin R
  BY <1>2, WFMin
<1>4. \A k \in S : ~(k < m)
  BY <1>1, <1>3
<1> QED
  BY <1>3, <1>4

\* No agent is named exactly when the ego touches none that counts.
LEMMA CollisionAgentCounts ==
  ASSUME NEW touching \in SUBSET Agents
  PROVE  /\ CollisionAgent(touching) \in Agents \cup {NoCollision}
         /\ CollisionAgent(touching) = NoCollision => touching \ Scenery = {}
         /\ CollisionAgent(touching) # NoCollision => CollisionAgent(touching) \in touching \ Scenery
<1>1. CASE touching \subseteq Scenery
  BY <1>1 DEF CollisionAgent
<1>2. CASE ~(touching \subseteq Scenery)
  <2>1. touching \ Scenery \in SUBSET Nat /\ touching \ Scenery # {}
    BY <1>2, WorldAssumption
  <2>2. \E a \in touching \ Scenery : \A b \in touching \ Scenery : a <= b
    BY <2>1, SmallestElement
  <2>3. CollisionAgent(touching) \in touching \ Scenery
    BY <1>2, <2>2 DEF CollisionAgent
  <2>4. CollisionAgent(touching) \in Agents
    BY <2>3
  <2>5. \A a \in Agents : a # NoCollision
    BY WorldAssumption
  <2> QED
    BY <2>3, <2>4, <2>5
<1> QED
  BY <1>1, <1>2

\* The limits one by one, as the provers want them.
LEMMA LimitsType ==
  /\ MinAccel \in Int /\ MinAccel <= 0
  /\ MaxAccel \in Nat /\ MaxJerk \in Nat /\ MaxSteer \in Nat /\ MaxSteerRate \in Nat
  BY LimitsAssumption

-----------------------------------------------------------------------------
(***************************************************************************)
(* The inductive invariant.                                                *)
(***************************************************************************)

\* In the loop the cycles are the steps before this one, and nothing is reported yet; a
\* planner without candidates gets no further than the first.
InLoop ==
  pc = "cycle" =>
    /\ n >= 1 /\ step <= n - 1
    /\ Len(cycles) = step
    /\ ok = FALSE /\ metrics = NoMetrics
    /\ driver = "planner" /\ ~sampling => step = 0

\* Every cycle names an agent exactly when it touched one that counts.
CollisionsNamed ==
  \A i \in 1 .. Len(cycles) :
    /\ cycles[i].agent = NoCollision => Counted(i) = {}
    /\ cycles[i].agent # NoCollision => cycles[i].agent \in Counted(i)

\* The step from speed u to speed w has acceleration a, or was cut off at standstill.
Explains(a, u, w) == a = w - u \/ (w = 0 /\ a < w - u)

\* In the loop the step that was just made is explained, too.
StepExplained ==
  pc = "cycle" /\ step > 0 => Explains(prevA, cycles[step].v, v)

Close(a, b) == b - a \in -MaxJerk .. MaxJerk

\* Driven, the ego accelerates as commanded, and from one cycle to the next the command
\* changes by no more than the tracker allows.
CommandsClose ==
  driver # "logged" =>
    /\ \A i \in 1 .. Len(cycles) - 1 : Close(cycles[i].aLon, cycles[i + 1].aLon)
    /\ pc = "cycle" =>
         /\ prevA = prevCmd
         /\ step > 0 => Close(cycles[step].aLon, prevCmd)

IInv ==
  /\ TypeOK
  /\ InLoop
  /\ RowAccountsForRun
  /\ CollisionsNamed
  /\ NoCollisionMissed
  /\ AccelExplainsSpeed
  /\ StepExplained
  /\ CommandsClose

\* What a cycle records is a record of a cycle.
LEMMA RecordType ==
  ASSUME TypeOK, NEW touching \in SUBSET Agents, NEW behind \in BOOLEAN
  PROVE  Record(touching, behind) \in CycleRecords
<1>1. CollisionAgent(touching) \in Agents \cup {NoCollision}
  BY CollisionAgentCounts
<1>2. step \in Nat /\ v \in Nat /\ prevA \in Int
  BY WorldAssumption DEF TypeOK
<1>3. (CollisionAgent(touching) # NoCollision /\ behind) \in BOOLEAN
  OBVIOUS
<1> QED
  BY <1>1, <1>2, <1>3 DEF Record, CycleRecords

\* What both steps of the loop do to the cycles keeps everything said of them.
LEMMA CycleAppended ==
  ASSUME IInv, pc = "cycle", NEW touching \in SUBSET Agents, NEW behind \in BOOLEAN,
         cycles' = Append(cycles, Record(touching, behind)), driver' = driver
  PROVE  /\ cycles' \in Seq(CycleRecords)
         /\ Len(cycles') = step + 1
         /\ cycles'[step + 1].v = v /\ cycles'[step + 1].aLon = prevA
         /\ \A i \in 1 .. Len(cycles') : cycles'[i].step = i - 1
         /\ CollisionsNamed'
         /\ AccelExplainsSpeed'
         /\ driver # "logged" =>
              \A i \in 1 .. Len(cycles') - 1 : Close(cycles'[i].aLon, cycles'[i + 1].aLon)
<1> DEFINE r == Record(touching, behind)
<1>1. cycles \in Seq(CycleRecords) /\ r \in CycleRecords /\ Len(cycles) = step
  BY RecordType DEF IInv, TypeOK, InLoop
<1>2. /\ r.step = step /\ r.v = v /\ r.aLon = prevA
      /\ r.touching = touching /\ r.agent = CollisionAgent(touching)
  BY DEF Record
<1> HIDE DEF r
<1>3. cycles' = Append(cycles, r)
  BY DEF r
<1>4. step \in Nat
  BY <1>1
<1>5. /\ cycles' \in Seq(CycleRecords)
      /\ Len(cycles') = step + 1
      /\ cycles'[step + 1] = r
      /\ \A i \in 1 .. step : cycles'[i] = cycles[i]
  BY <1>1, <1>3, <1>4
<1>6. \A i \in 1 .. Len(cycles') : cycles'[i].step = i - 1
  BY <1>1, <1>2, <1>4, <1>5 DEF IInv, RowAccountsForRun
<1>7. CollisionsNamed'
  <2>1. r.agent = NoCollision => r.touching \ Scenery = {}
    BY <1>2, CollisionAgentCounts
  <2>2. r.agent # NoCollision => r.agent \in r.touching \ Scenery
    BY <1>2, CollisionAgentCounts
  <2>3. ASSUME NEW i \in 1 .. Len(cycles')
        PROVE  /\ cycles'[i].agent = NoCollision => cycles'[i].touching \ Scenery = {}
               /\ cycles'[i].agent # NoCollision => cycles'[i].agent \in cycles'[i].touching \ Scenery
    <3>1. CASE i = step + 1
      BY <1>5, <2>1, <2>2, <3>1
    <3>2. CASE i \in 1 .. step
      BY <1>1, <1>5, <3>2 DEF IInv, CollisionsNamed, Counted
    <3> QED
      BY <1>4, <1>5, <2>3, <3>1, <3>2
  <2> QED
    BY <2>3 DEF CollisionsNamed, Counted
<1>8. AccelExplainsSpeed'
  <2>1. ASSUME NEW i \in 1 .. Len(cycles') - 1
        PROVE  Explains(cycles'[i + 1].aLon, cycles'[i].v, cycles'[i + 1].v)
    <3>1. CASE i = step
      <4>1. Explains(prevA, cycles[step].v, v)
        BY <1>4, <1>5, <2>1, <3>1 DEF IInv, StepExplained
      <4> QED
        BY <1>2, <1>5, <2>1, <3>1, <4>1
    <3>2. CASE i \in 1 .. step - 1
      <4>1. cycles'[i] = cycles[i] /\ cycles'[i + 1] = cycles[i + 1]
        BY <1>4, <1>5, <3>2
      <4> QED
        BY <1>1, <3>2, <4>1 DEF IInv, AccelExplainsSpeed, Explains
    <3> QED
      BY <1>4, <1>5, <2>1, <3>1, <3>2
  <2> QED
    BY <2>1 DEF AccelExplainsSpeed, Explains
<1>9. ASSUME driver # "logged", NEW i \in 1 .. Len(cycles') - 1
      PROVE  Close(cycles'[i].aLon, cycles'[i + 1].aLon)
  <2>1. CASE i = step
    <3>1. prevA = prevCmd /\ Close(cycles[step].aLon, prevCmd)
      BY <1>4, <1>5, <1>9, <2>1 DEF IInv, CommandsClose
    <3> QED
      BY <1>2, <1>5, <1>9, <2>1, <3>1
  <2>2. CASE i \in 1 .. step - 1
    <3>1. cycles'[i] = cycles[i] /\ cycles'[i + 1] = cycles[i + 1]
      BY <1>4, <1>5, <2>2
    <3> QED
      BY <1>1, <1>9, <2>2, <3>1 DEF IInv, CommandsClose
  <2> QED
    BY <1>4, <1>5, <1>9, <2>1, <2>2
<1> QED
  BY <1>2, <1>5, <1>6, <1>7, <1>8, <1>9

-----------------------------------------------------------------------------
(***************************************************************************)
(* The steps.                                                              *)
(***************************************************************************)

\* With no cycles there is nothing to be said of them.
LEMMA NoCycles ==
  ASSUME cycles = <<>>
  PROVE  /\ cycles \in Seq(CycleRecords) /\ Len(cycles) = 0
         /\ CollisionsNamed /\ AccelExplainsSpeed
         /\ \A i \in 1 .. Len(cycles) - 1 : Close(cycles[i].aLon, cycles[i + 1].aLon)
         /\ \A i \in 1 .. Len(cycles) : cycles[i].step = i - 1
<1>1. Len(cycles) = 0 /\ cycles \in Seq(CycleRecords)
  OBVIOUS
<1> QED
  BY <1>1 DEF CollisionsNamed, AccelExplainsSpeed

\* The metrics a run begins with, under every status it may end with, claim no cycle.
LEMMA NoMetricsType ==
  /\ NoMetrics \in MetricsRecords
  /\ NoMetrics.nCycles = 0
  /\ \A s \in {"load_fail", "no_route", "planner_fail", "no_cycles"} :
       /\ [NoMetrics EXCEPT !.status = s] \in MetricsRecords
       /\ [NoMetrics EXCEPT !.status = s].nCycles = 0
  BY DEF NoMetrics, MetricsRecords

\* A simulator that has driven nothing.
LEMMA InitInv == Init => IInv
<1> SUFFICES ASSUME Init PROVE IInv
  OBVIOUS
<1>1. cycles = <<>>
  BY DEF Init
<1>2. TypeOK
  <2>1. /\ 0 \in MinAccel .. MaxAccel /\ 0 \in -MaxSteer .. MaxSteer /\ 0 \in 0 .. MaxSteps
        /\ 0 \in Int /\ 0 \in Nat
    BY LimitsType, WorldAssumption
  <2> QED
    BY <1>1, <2>1, NoCycles, NoMetricsType DEF Init, TypeOK
<1> QED
  BY <1>1, <1>2, NoCycles
     DEF Init, IInv, InLoop, RowAccountsForRun, NoCollisionMissed, StepExplained, CommandsClose,
         NoMetrics

\* A scenario that is not driven leaves only its status.
LEMMA RefuseInv == IInv /\ Refuse => IInv'
<1> SUFFICES ASSUME IInv, Refuse PROVE IInv'
  OBVIOUS
<1>1. cycles' = <<>> /\ ok' = FALSE /\ pc' = "done" /\ UNCHANGED <<configuration, n, step, ego>>
  BY DEF Refuse, Cleared
<1>2. PICK s \in {"load_fail", "no_route"} : metrics' = [NoMetrics EXCEPT !.status = s]
  BY DEF Refuse
<1>3. TypeOK'
  <2>1. metrics' \in MetricsRecords
    BY <1>2, NoMetricsType
  <2>2. cycles' \in Seq(CycleRecords)
    BY <1>1
  <2> QED
    BY <1>1, <2>1, <2>2 DEF IInv, TypeOK, configuration, ego
<1>4. /\ Len(cycles') = 0 /\ CollisionsNamed' /\ AccelExplainsSpeed'
      /\ \A i \in 1 .. Len(cycles') - 1 : Close(cycles'[i].aLon, cycles'[i + 1].aLon)
      /\ \A i \in 1 .. Len(cycles') : cycles'[i].step = i - 1
  BY <1>1 DEF CollisionsNamed, AccelExplainsSpeed
<1>5. metrics'.nCycles = 0
  BY <1>2, NoMetricsType
<1> QED
  BY <1>1, <1>3, <1>4, <1>5
     DEF IInv, InLoop, RowAccountsForRun, NoCollisionMissed, StepExplained, CommandsClose

\* A new drive begins from nothing.
LEMMA BeginInv == IInv /\ Begin => IInv'
<1> SUFFICES ASSUME IInv, Begin PROVE IInv'
  OBVIOUS
<1>1. /\ cycles' = <<>> /\ ok' = FALSE /\ pc' = "cycle" /\ metrics' = NoMetrics
      /\ n' \in 1 .. MaxSteps /\ step' = 0
      /\ v' \in 0 .. TopSpeed /\ prevDelta' = 0 /\ prevCmd' = 0 /\ prevA' = 0
      /\ driver' = driver /\ sampling' = sampling
  BY DEF Begin, Cleared, configuration
<1>2. TypeOK'
  <2>1. /\ 0 \in MinAccel .. MaxAccel /\ 0 \in -MaxSteer .. MaxSteer /\ 0 \in 0 .. MaxSteps
        /\ 0 \in Int /\ 0 \in Nat
    BY LimitsType, WorldAssumption
  <2>2. v' \in Nat /\ n' \in 0 .. MaxSteps
    BY <1>1, WorldAssumption
  <2>3. cycles' \in Seq(CycleRecords)
    BY <1>1
  <2> QED
    BY <1>1, <2>1, <2>2, <2>3, NoMetricsType DEF IInv, TypeOK
<1>3. /\ Len(cycles') = 0 /\ CollisionsNamed' /\ AccelExplainsSpeed'
      /\ \A i \in 1 .. Len(cycles') - 1 : Close(cycles'[i].aLon, cycles'[i + 1].aLon)
      /\ \A i \in 1 .. Len(cycles') : cycles'[i].step = i - 1
  BY <1>1 DEF CollisionsNamed, AccelExplainsSpeed
<1>4. InLoop'
  <2>1. n' >= 1 /\ step' <= n' - 1
    <3>1. n' \in 1 .. MaxSteps /\ step' = 0
      BY <1>1
    <3>2. \A k \in 1 .. MaxSteps : k >= 1 /\ 0 <= k - 1
      BY WorldAssumption
    <3> QED
      BY <3>1, <3>2
  <2>2. Len(cycles') = step' /\ step' = 0 /\ ok' = FALSE /\ metrics' = NoMetrics
    BY <1>1, <1>3
  <2> QED
    BY <2>1, <2>2 DEF InLoop
<1>5. RowAccountsForRun' /\ NoCollisionMissed'
  BY <1>1, <1>3 DEF RowAccountsForRun, NoCollisionMissed
<1>6. StepExplained' /\ CommandsClose'
  BY <1>1, <1>3 DEF StepExplained, CommandsClose
<1> QED
  BY <1>2, <1>3, <1>4, <1>5, <1>6 DEF IInv

\* A cycle appends one record, explained by the step before, and makes the next step.
LEMMA CycleInv == IInv /\ Cycle => IInv'
<1> SUFFICES ASSUME IInv, Cycle PROVE IInv'
  OBVIOUS
<1>1. /\ pc = "cycle" /\ step + 1 < n /\ step' = step + 1
      /\ driver' = driver /\ sampling' = sampling
      /\ pc' = pc /\ n' = n /\ metrics' = metrics /\ ok' = ok
  BY DEF Cycle, configuration
<1>2. /\ Len(cycles) = step /\ step \in Nat /\ n \in 1 .. MaxSteps /\ v \in Nat
      /\ prevDelta \in -MaxSteer .. MaxSteer /\ prevCmd \in MinAccel .. MaxAccel
  BY <1>1, WorldAssumption DEF IInv, TypeOK, InLoop
<1>3. PICK touching \in SUBSET Agents, behind \in BOOLEAN :
        cycles' = Append(cycles, Record(touching, behind))
  BY DEF Cycle
<1>4. /\ cycles' \in Seq(CycleRecords)
      /\ Len(cycles') = step + 1
      /\ cycles'[step + 1].v = v /\ cycles'[step + 1].aLon = prevA
      /\ \A i \in 1 .. Len(cycles') : cycles'[i].step = i - 1
      /\ CollisionsNamed'
      /\ AccelExplainsSpeed'
      /\ driver # "logged" =>
           \A i \in 1 .. Len(cycles') - 1 : Close(cycles'[i].aLon, cycles'[i + 1].aLon)
  BY <1>1, <1>3, CycleAppended
<1>5. PICK c \in Commands :
        /\ prevDelta' = Steered(c.delta)
        /\ prevCmd' = Accelerated(c.a)
        /\ \E next \in NextSpeeds(Accelerated(c.a)) :
             /\ prevA' = next - v
             /\ v' = AtLeastZero(next)
  BY DEF Cycle
<1>6. PICK next \in NextSpeeds(prevCmd') : prevA' = next - v /\ v' = AtLeastZero(next)
  BY <1>5
<1>7. c.a \in MinAccel .. MaxAccel /\ c.delta \in -MaxSteer .. MaxSteer
  BY LimitsType DEF Commands
<1>8. /\ prevDelta' \in -MaxSteer .. MaxSteer
      /\ prevCmd' \in MinAccel .. MaxAccel
      /\ prevCmd' - prevCmd \in -MaxJerk .. MaxJerk
  <2>1. prevDelta' = Clamp(c.delta, prevDelta - MaxSteerRate, prevDelta + MaxSteerRate)
    BY <1>5 DEF Steered
  <2>2. prevCmd' = Clamp(c.a, prevCmd - MaxJerk, prevCmd + MaxJerk)
    BY <1>5 DEF Accelerated
  <2>3. -MaxSteer \in Int /\ MaxSteer \in Int /\ MinAccel \in Int /\ MaxAccel \in Int
    BY LimitsType
  <2>4. prevDelta' \in -MaxSteer .. MaxSteer
    BY <1>2, <1>7, <2>1, <2>3, LimitsType, RateKeepsLimits
  <2>5. prevCmd' \in MinAccel .. MaxAccel
    BY <1>2, <1>7, <2>2, <2>3, LimitsType, RateKeepsLimits
  <2>6. c.a \in Int /\ prevCmd \in Int
    BY <1>2, <1>7, <2>3
  <2>7. prevCmd' - prevCmd \in -MaxJerk .. MaxJerk
    BY <2>2, <2>6, LimitsType, RateKeepsPace
  <2> QED
    BY <2>4, <2>5, <2>7
<1>9. next \in Int /\ (driver # "logged" => next = v + prevCmd')
  <2>1. prevCmd' \in Int
    BY <1>8, LimitsType
  <2>2. next = v + prevCmd' \/ (driver = "logged" /\ next \in 0 .. TopSpeed)
    BY <1>6 DEF NextSpeeds
  <2>3. v + prevCmd' \in Int
    BY <1>2, <2>1
  <2>4. next \in Int
    BY <2>2, <2>3, WorldAssumption
  <2> QED
    BY <2>2, <2>4
<1>10. v' \in Nat /\ prevA' \in Int /\ Explains(prevA', v, v')
  <2>1. prevA' = next - v /\ v' = IF next < 0 THEN 0 ELSE next
    BY <1>6 DEF AtLeastZero
  <2> QED
    BY <1>2, <1>9, <2>1 DEF Explains
<1>11. TypeOK'
  <2>1. step' \in 0 .. MaxSteps
    BY <1>1, <1>2, WorldAssumption
  <2> QED
    BY <1>1, <1>4, <1>8, <1>10, <2>1 DEF IInv, TypeOK
<1>12. InLoop'
  <2>1. driver = "planner" => sampling
    BY DEF Cycle, PlannerAnswers, Planner!Promised
  <2>2. n' >= 1 /\ step' <= n' - 1
    BY <1>1, <1>2
  <2> QED
    BY <1>1, <1>4, <2>1, <2>2 DEF IInv, InLoop
<1>13. RowAccountsForRun'
  BY <1>1, <1>4 DEF RowAccountsForRun
<1>14. NoCollisionMissed'
  BY <1>1 DEF NoCollisionMissed
<1>15. StepExplained'
  BY <1>1, <1>4, <1>10 DEF StepExplained
<1>16. CommandsClose'
  <2>1. driver # "logged" => prevA' = prevCmd'
    <3>1. prevCmd' \in Int /\ v \in Int
      BY <1>2, <1>8, LimitsType
    <3>2. \A x, y \in Int : (x + y) - x = y
      OBVIOUS
    <3>3. (v + prevCmd') - v = prevCmd'
      BY <3>1, <3>2
    <3> QED
      BY <1>6, <1>9, <3>3
  <2>2. driver # "logged" => Close(cycles'[step'].aLon, prevCmd')
    BY <1>1, <1>4, <1>8 DEF IInv, CommandsClose, Close
  <2> QED
    BY <1>1, <1>4, <2>1, <2>2 DEF CommandsClose
<1> QED
  BY <1>4, <1>11, <1>12, <1>13, <1>14, <1>15, <1>16 DEF IInv

\* A planner that answers without a trajectory has no candidates, and so fails at once.
LEMMA PlannerFailsInv == IInv /\ PlannerFails => IInv'
<1> SUFFICES ASSUME IInv, PlannerFails PROVE IInv'
  OBVIOUS
<1>1. /\ pc = "cycle" /\ driver = "planner" /\ pc' = "done"
      /\ metrics' = [NoMetrics EXCEPT !.status = "planner_fail"]
      /\ driver' = driver /\ sampling' = sampling /\ n' = n /\ step' = step /\ ok' = ok
      /\ v' = v /\ prevDelta' = prevDelta /\ prevCmd' = prevCmd /\ prevA' = prevA
  BY DEF PlannerFails, configuration, ego
<1>2. PICK touching \in SUBSET Agents, behind \in BOOLEAN :
        cycles' = Append(cycles, Record(touching, behind))
  BY DEF PlannerFails
<1>3. /\ cycles' \in Seq(CycleRecords)
      /\ Len(cycles') = step + 1
      /\ \A i \in 1 .. Len(cycles') : cycles'[i].step = i - 1
      /\ CollisionsNamed'
      /\ AccelExplainsSpeed'
      /\ driver # "logged" =>
           \A i \in 1 .. Len(cycles') - 1 : Close(cycles'[i].aLon, cycles'[i + 1].aLon)
  BY <1>1, <1>2, CycleAppended
<1>4. metrics' \in MetricsRecords /\ metrics'.nCycles = 0
  BY <1>1, NoMetricsType
<1>5. TypeOK'
  BY <1>1, <1>3, <1>4 DEF IInv, TypeOK
<1>6. ok' = FALSE
  BY <1>1 DEF IInv, InLoop
<1>7. step = 0
  <2>1. ~sampling
    BY DEF PlannerFails, PlannerAnswers, Planner!Promised
  <2> QED
    BY <1>1, <2>1 DEF IInv, InLoop
<1>8. Len(cycles') <= 1
  BY <1>3, <1>7
<1> QED
  BY <1>1, <1>3, <1>4, <1>5, <1>6, <1>8
     DEF IInv, InLoop, RowAccountsForRun, NoCollisionMissed, StepExplained, CommandsClose

\* The first collision is the first cycle that named an agent.
LEMMA FirstCollisionIsFirst ==
  ASSUME IInv, Collided # {}
  PROVE  /\ FirstCollision \in 1 .. Len(cycles)
         /\ cycles[FirstCollision].agent # NoCollision
         /\ \A i \in 1 .. Len(cycles) : i < FirstCollision => cycles[i].agent = NoCollision
<1>1. cycles \in Seq(CycleRecords)
  BY DEF IInv, TypeOK
<1>2. Len(cycles) \in Nat
  BY <1>1
<1>3. \A i \in 1 .. Len(cycles) : i \in Nat
  BY <1>2
<1>4. Collided \in SUBSET Nat
  BY <1>3 DEF Collided
<1>5. \E i \in Collided : \A j \in Collided : i <= j
  BY <1>4, SmallestElement
<1>6. FirstCollision \in Collided /\ \A j \in Collided : FirstCollision <= j
  BY <1>5 DEF FirstCollision
<1>7. FirstCollision \in Nat
  BY <1>4, <1>6
<1>8. ASSUME NEW i \in 1 .. Len(cycles), i < FirstCollision PROVE i \notin Collided
  <2>1. ~(FirstCollision <= i)
    BY <1>3, <1>7, <1>8
  <2> QED
    BY <1>6, <2>1
<1> QED
  BY <1>6, <1>8 DEF Collided

\* The metrics of a finished run count all of its cycles.
LEMMA ComputedMetricsType ==
  ASSUME IInv
  PROVE  ComputedMetrics \in MetricsRecords /\ ComputedMetrics.nCycles = Len(cycles)
<1>1. cycles \in Seq(CycleRecords) /\ Len(cycles) \in Nat
  BY DEF IInv, TypeOK
<1>2. CASE cycles = <<>>
  BY <1>2, NoMetricsType DEF ComputedMetrics
<1>3. CASE cycles # <<>> /\ Collided = {}
  BY <1>1, <1>3 DEF ComputedMetrics, NoMetrics, MetricsRecords
<1>4. CASE cycles # <<>> /\ Collided # {}
  <2> DEFINE c == cycles[FirstCollision]
  <2>1. c \in CycleRecords
    BY <1>1, <1>4, FirstCollisionIsFirst
  <2>2. c.agent \in Agents \cup {NoCollision} /\ c.step \in Nat /\ (~c.behind) \in BOOLEAN
    BY <2>1 DEF CycleRecords
  <2>3. ComputedMetrics = [status |-> "ok", nCycles |-> Len(cycles), agent |-> c.agent,
                           time |-> c.step, fault |-> ~c.behind]
    BY <1>4 DEF ComputedMetrics
  <2> HIDE DEF c
  <2> QED
    BY <1>1, <2>2, <2>3 DEF MetricsRecords
<1> QED
  BY <1>2, <1>3, <1>4

\* The row of a finished run dates the first of its collisions.
LEMMA FinishInv == IInv /\ Finish => IInv'
<1> SUFFICES ASSUME IInv, Finish PROVE IInv'
  OBVIOUS
<1>1. /\ pc = "cycle" /\ pc' = "done" /\ ok' = TRUE /\ metrics' = ComputedMetrics
      /\ driver' = driver /\ sampling' = sampling /\ n' = n /\ step' = step
      /\ v' = v /\ prevDelta' = prevDelta /\ prevCmd' = prevCmd /\ prevA' = prevA
      /\ cycles' = cycles
  BY DEF Finish, configuration, ego
<1>2. TypeOK'
  BY <1>1, ComputedMetricsType DEF IInv, TypeOK
<1>3. metrics'.nCycles = Len(cycles)
  BY <1>1, ComputedMetricsType
<1>4. Len(cycles) = n - 1
  <2>1. step \in Int /\ n \in Int
    BY WorldAssumption DEF IInv, TypeOK
  <2>2. step + 1 >= n
    BY DEF Finish
  <2>3. step <= n - 1 /\ Len(cycles) = step
    BY <1>1 DEF IInv, InLoop
  <2> QED
    BY <2>1, <2>2, <2>3
<1>5. RowAccountsForRun'
  BY <1>1, <1>3, <1>4 DEF IInv, RowAccountsForRun
<1>6. NoCollisionMissed'
  <2>1. \A i \in 1 .. Len(cycles) : cycles[i].agent = NoCollision => Counted(i) = {}
    BY DEF IInv, CollisionsNamed
  <2>2. CASE Collided = {}
    <3>1. metrics'.agent = NoCollision
      BY <1>1, <2>2 DEF ComputedMetrics, NoMetrics
    <3>2. \A i \in 1 .. Len(cycles) : Counted(i) = {}
      BY <2>1, <2>2 DEF Collided
    <3> QED
      BY <1>1, <3>1, <3>2 DEF NoCollisionMissed, Counted
  <2>3. CASE Collided # {}
    <3> DEFINE f == FirstCollision
    <3>1. /\ f \in 1 .. Len(cycles) /\ cycles[f].agent # NoCollision
          /\ \A i \in 1 .. Len(cycles) : i < f => cycles[i].agent = NoCollision
      BY <2>3, FirstCollisionIsFirst
    <3>2. cycles # <<>>
      BY <3>1
    <3>3. metrics'.agent = cycles[f].agent /\ metrics'.time = cycles[f].step
      BY <1>1, <2>3, <3>2 DEF ComputedMetrics
    <3>4. cycles[f].step = f - 1
      BY <3>1 DEF IInv, RowAccountsForRun
    <3> HIDE DEF f
    <3>5. f \in Int /\ Len(cycles) \in Int
      BY <3>1 DEF IInv, TypeOK
    <3>6. metrics'.time + 1 = f
      BY <3>3, <3>4, <3>5
    <3>7. metrics'.agent \in Counted(f)
      BY <3>1, <3>3 DEF IInv, CollisionsNamed
    <3>8. \A i \in 1 .. metrics'.time : i \in 1 .. Len(cycles) /\ i < f
      BY <3>1, <3>3, <3>4, <3>5
    <3>9. \A i \in 1 .. metrics'.time : Counted(i) = {}
      BY <2>1, <3>1, <3>8
    <3> QED
      BY <1>1, <3>1, <3>3, <3>6, <3>7, <3>9 DEF NoCollisionMissed, Counted
  <2> QED
    BY <2>2, <2>3
<1> QED
  BY <1>1, <1>2, <1>5, <1>6
     DEF IInv, InLoop, CollisionsNamed, Counted, AccelExplainsSpeed, StepExplained, CommandsClose

\* Nothing happens.
LEMMA StutterInv == IInv /\ UNCHANGED vars => IInv'
  BY DEF vars, configuration, ego, IInv, TypeOK, InLoop, RowAccountsForRun, CollisionsNamed,
         NoCollisionMissed, Counted, AccelExplainsSpeed, StepExplained, CommandsClose

\* Every reachable state has the strengthening, from which each property follows.
THEOREM SimulatorInv == Spec => []IInv
<1>1. IInv /\ [Next]_vars => IInv'
  BY RefuseInv, BeginInv, CycleInv, PlannerFailsInv, FinishInv, StutterInv DEF Next
<1> QED
  BY InitInv, <1>1, PTL DEF Spec

-----------------------------------------------------------------------------
(***************************************************************************)
(* What follows.                                                           *)
(***************************************************************************)

\* Whatever is asked of the ego, its commands stay within the limits of the vehicle.
THEOREM SimulatorTypeOK == Spec => []TypeOK
<1>1. IInv => TypeOK
  BY DEF IInv
<1> QED
  BY SimulatorInv, <1>1, PTL

\* A row counts the cycles of its own recording, whatever this simulator drove before.
THEOREM SimulatorRowAccountsForRun == Spec => []RowAccountsForRun
<1>1. IInv => RowAccountsForRun
  BY DEF IInv
<1> QED
  BY SimulatorInv, <1>1, PTL

\* However many agents are touched at once, a row misses no collision that counts, and
\* dates it by the first.
THEOREM SimulatorNoCollisionMissed == Spec => []NoCollisionMissed
<1>1. IInv => NoCollisionMissed
  BY DEF IInv
<1> QED
  BY SimulatorInv, <1>1, PTL

\* The accelerations of a run are those its recorded speeds show, to a cut-off at standstill.
THEOREM SimulatorAccelExplainsSpeed == Spec => []AccelExplainsSpeed
<1>1. IInv => AccelExplainsSpeed
  BY DEF IInv
<1> QED
  BY SimulatorInv, <1>1, PTL

\* Two steps change the acceleration by twice the limit at most.
LEMMA TwoSteps ==
  ASSUME NEW x \in Int, NEW y \in Int, NEW z \in Int, NEW r \in Nat,
         y - x \in -r .. r, z - y \in -r .. r
  PROVE  z - x \in -(r * 2) .. r * 2
  OBVIOUS

\* The accelerations of a driven run are commands a step apart, so the difference that
\* makes the jerk, one step or two wide, is that many times the limit at most.
THEOREM SimulatorJerkWithinController == Spec => []JerkWithinController
<1>1. IInv => JerkWithinController
  <2> SUFFICES ASSUME IInv, driver # "logged", NEW i \in 1 .. Len(cycles)
               PROVE  JerkSum(i) \in -(MaxJerk * JerkSpan(i)) .. MaxJerk * JerkSpan(i)
    BY DEF JerkWithinController
  <2>1. cycles \in Seq(CycleRecords) /\ Len(cycles) \in Nat /\ MaxJerk \in Nat
    BY LimitsType DEF IInv, TypeOK
  <2>2. \A j \in 1 .. Len(cycles) : cycles[j].aLon \in Int
    <3>1. \A j \in 1 .. Len(cycles) : cycles[j] \in CycleRecords
      BY <2>1
    <3>2. \A c \in CycleRecords : c.aLon \in Int
      BY DEF CycleRecords
    <3> QED
      BY <3>1, <3>2
  <2>3. \A j \in 1 .. Len(cycles) - 1 :
          cycles[j + 1].aLon - cycles[j].aLon \in -MaxJerk .. MaxJerk
    BY DEF IInv, CommandsClose, Close
  <2>4. CASE i > 1 /\ i < Len(cycles)
    <3>1. JerkSum(i) = cycles[i + 1].aLon - cycles[i - 1].aLon /\ JerkSpan(i) = 2
      BY <2>1, <2>4 DEF JerkSum, JerkSpan, After, Before
    <3>2. /\ i - 1 \in 1 .. Len(cycles) - 1 /\ i \in 1 .. Len(cycles) - 1
          /\ (i - 1) + 1 = i /\ i + 1 \in 1 .. Len(cycles) /\ i - 1 \in 1 .. Len(cycles)
      BY <2>1, <2>4
    <3>3. /\ cycles[i].aLon - cycles[i - 1].aLon \in -MaxJerk .. MaxJerk
          /\ cycles[i + 1].aLon - cycles[i].aLon \in -MaxJerk .. MaxJerk
      BY <2>3, <3>2
    <3>4. cycles[i].aLon \in Int /\ cycles[i + 1].aLon \in Int /\ cycles[i - 1].aLon \in Int
      BY <2>2, <3>2
    <3>5. cycles[i + 1].aLon - cycles[i - 1].aLon \in -(MaxJerk * 2) .. MaxJerk * 2
      BY <2>1, <3>3, <3>4, TwoSteps
    <3> QED
      BY <3>1, <3>5
  <2>5. CASE i > 1 /\ ~(i < Len(cycles))
    <3>1. i = Len(cycles) /\ JerkSum(i) = cycles[i].aLon - cycles[i - 1].aLon /\ JerkSpan(i) = 1
      BY <2>1, <2>5 DEF JerkSum, JerkSpan, After, Before
    <3>2. i - 1 \in 1 .. Len(cycles) - 1 /\ (i - 1) + 1 = i
      BY <2>1, <2>5, <3>1
    <3>3. cycles[i].aLon - cycles[i - 1].aLon \in -MaxJerk .. MaxJerk
      BY <2>3, <3>2
    <3> QED
      BY <2>1, <3>1, <3>3
  <2>6. CASE ~(i > 1) /\ i < Len(cycles)
    <3>1. i = 1 /\ JerkSum(i) = cycles[i + 1].aLon - cycles[i].aLon /\ JerkSpan(i) = 1
      BY <2>1, <2>6 DEF JerkSum, JerkSpan, After, Before
    <3>2. cycles[i + 1].aLon - cycles[i].aLon \in -MaxJerk .. MaxJerk
      BY <2>1, <2>3, <2>6
    <3> QED
      BY <2>1, <3>1, <3>2
  <2>7. CASE ~(i > 1) /\ ~(i < Len(cycles))
    <3>1. i = 1 /\ Len(cycles) = 1
      BY <2>1, <2>7
    <3>2. JerkSum(i) = cycles[1].aLon - cycles[1].aLon /\ JerkSpan(i) = 0
      BY <3>1 DEF JerkSum, JerkSpan, After, Before
    <3>3. cycles[1].aLon \in Int
      BY <2>1, <2>2, <3>1
    <3> QED
      BY <2>1, <3>2, <3>3
  <2> QED
    BY <2>4, <2>5, <2>6, <2>7
<1> QED
  BY SimulatorInv, <1>1, PTL

=============================================================================
