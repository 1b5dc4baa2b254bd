------------------------------- MODULE Simulator -------------------------------
(***************************************************************************)
(* One simulator of a batch worker (sim/simulator.cpp) through its runs:   *)
(* the scenario is loaded and routed, then driven cycle by cycle, each     *)
(* from the ego as it is to the ego one step later, and the cycles become  *)
(* the metrics of one row.                                                 *)
(*                                                                         *)
(* Of the ego the model keeps what accumulates: speed, acceleration, the   *)
(* commands given last.  What the tracker or the baselines ask for is any  *)
(* command within the limits of the vehicle; which agents the ego touches  *)
(* is any set.  The time step is the unit of time.                         *)
(***************************************************************************)
EXTENDS Integers, Sequences

CONSTANTS
  NumAgents,   (* world.numAgents(), the ego and suppressed ones left out. *)
  Scenery,     (* The static, background and construction ones of them.    *)
  MaxSteps,    (* Bound: the most steps of a recording.                    *)
  TopSpeed,    (* Bound: the fastest the ego was recorded.                 *)
  MinAccel,    (* veh.max_decel, negative.                                 *)
  MaxAccel,    (* veh.max_accel                                            *)
  MaxJerk,     (* tracker.max_jerk                                         *)
  MaxSteer,    (* veh.max_steer                                            *)
  MaxSteerRate (* veh.max_steer_rate                                       *)

Agents == 1 .. NumAgents

ASSUME WorldAssumption ==
  NumAgents \in Nat /\ Scenery \subseteq Agents /\ MaxSteps \in Nat /\ TopSpeed \in Nat
ASSUME LimitsAssumption ==
  /\ MinAccel \in Int /\ MinAccel <= 0
  /\ {MaxAccel, MaxJerk, MaxSteer, MaxSteerRate} \subseteq Nat

VARIABLES
  driver,     (* Who drives: the planner, pure pursuit, or the recording;  *)
              (* never changes.                                            *)
  sampling,   (* The planner's lattice produces candidates; never changes. *)
  pc,         (* In the loop of run(), or run() has returned.              *)
  n,          (* n_steps                                                   *)
  step,       (* The cycle.                                                *)
  v,          (* ego.v                                                     *)
  prevDelta,  (* prev_delta, the steering commanded last.                  *)
  prevCmd,    (* prev_a_cmd, the acceleration commanded last.              *)
  prevA,      (* prev_a, the acceleration the last step had.               *)
  cycles,     (* out_.cycles.  touching, which the code does not keep, is  *)
              (* every agent the ego overlapped.                           *)
  metrics,    (* out_.metrics                                              *)
  ok          (* out_.ok                                                   *)

configuration == <<driver, sampling>>
ego == <<v, prevDelta, prevCmd, prevA>>
vars == <<configuration, pc, n, step, ego, cycles, metrics, ok>>

\* The planner answers a call as PlanAnswer promises.
Planner == INSTANCE PlanAnswer WITH NoAnswer <- "none", answer <- "none"
PlannerAnswers(isOk) == \E p \in Planner!Answers : Planner!Promised(p) /\ p.ok = isOk

NoCollision == 0

NoMetrics == [status |-> "ok", nCycles |-> 0, agent |-> NoCollision, time |-> 0, fault |-> FALSE]

Init ==
  /\ driver \in {"planner", "pure_pursuit", "logged"}
  /\ sampling \in BOOLEAN
  /\ pc = "done"
  /\ n = 0 /\ step = 0
  /\ v = 0 /\ prevDelta = 0 /\ prevCmd = 0 /\ prevA = 0
  /\ cycles = <<>>
  /\ metrics = NoMetrics
  /\ ok = FALSE

-----------------------------------------------------------------------------
(***************************************************************************)
(* One call of run().                                                      *)
(***************************************************************************)

\* Mutant of Cleared: the cycles of the last run are kept.
ClearedButCycles == UNCHANGED cycles /\ ok' = FALSE

Cleared == cycles' = <<>> /\ ok' = FALSE

\* No ego in the view; no route to where the human went, or no path along it.
Refuse ==
  /\ pc = "done"
  /\ Cleared
  /\ \E s \in {"load_fail", "no_route"} : metrics' = [NoMetrics EXCEPT !.status = s]
  /\ UNCHANGED <<configuration, pc, n, step, ego>>

\* The scenario is routed and the world is reset; nothing is left of the last drive.
Begin ==
  /\ pc = "done"
  /\ Cleared
  /\ metrics' = NoMetrics
  /\ pc' = "cycle"
  /\ n' \in 1 .. MaxSteps
  /\ step' = 0
  /\ v' \in 0 .. TopSpeed /\ prevDelta' = 0 /\ prevCmd' = 0 /\ prevA' = 0
  /\ UNCHANGED configuration

\* Mutant of CollisionAgent: what the ego touches first is all that is looked at.
FirstTouched(touching) ==
  LET first == CHOOSE a \in touching \cup {NoCollision} :
                 touching # {} => a \in touching /\ \A b \in touching : a <= b
  IN IF first \in Scenery THEN NoCollision ELSE first

\* The first agent in index order that the ego touches and that counts.
CollisionAgent(touching) ==
  IF touching \subseteq Scenery
    THEN NoCollision
    ELSE CHOOSE a \in touching \ Scenery : \A b \in touching \ Scenery : a <= b

Record(touching, behind) ==
  [step |-> step, v |-> v, aLon |-> prevA, touching |-> touching,
   agent |-> CollisionAgent(touching),
   behind |-> CollisionAgent(touching) # NoCollision /\ behind]

Clamp(x, lo, hi) == IF x < lo THEN lo ELSE IF x > hi THEN hi ELSE x

\* Mutant of Accelerated: there is no slew limit.
AcceleratedAtOnce(a) == a

\* The commands that are carried out: no faster a change than an actuator can make.
Steered(delta) == Clamp(delta, prevDelta - MaxSteerRate, prevDelta + MaxSteerRate)
Accelerated(a) == Clamp(a, prevCmd - MaxJerk, prevCmd + MaxJerk)

\* Commands within the limits of the vehicle; when the ego is put where the log says
\* there is none.
Commands ==
  IF driver = "logged" THEN [a : {0}, delta : {0}]
                       ELSE [a : MinAccel .. MaxAccel, delta : -MaxSteer .. MaxSteer]

\* The speed one step later before it is cut off at zero; the recorded one, where there
\* is one, of an ego that follows the recording.
NextSpeeds(a) == {v + a} \cup (IF driver = "logged" THEN 0 .. TopSpeed ELSE {})

AtLeastZero(x) == IF x < 0 THEN 0 ELSE x

\* One cycle: look, plan, track, and step the ego and the world.
Cycle ==
  /\ pc = "cycle" /\ step + 1 < n
  /\ driver = "planner" => PlannerAnswers(TRUE)
  /\ \E touching \in SUBSET Agents, behind \in BOOLEAN :
       cycles' = Append(cycles, Record(touching, behind))
  /\ \E c \in Commands :
       /\ prevDelta' = Steered(c.delta)
       /\ prevCmd' = Accelerated(c.a)
       /\ \E next \in NextSpeeds(Accelerated(c.a)) :
            /\ prevA' = next - v
            /\ v' = AtLeastZero(next)
  /\ step' = step + 1
  /\ UNCHANGED <<configuration, pc, n, metrics, ok>>

\* The planner has no trajectory: the run ends with the metrics it began with.
PlannerFails ==
  /\ pc = "cycle" /\ step + 1 < n
  /\ driver = "planner" /\ PlannerAnswers(FALSE)
  /\ \E touching \in SUBSET Agents, behind \in BOOLEAN :
       cycles' = Append(cycles, Record(touching, behind))
  /\ metrics' = [NoMetrics EXCEPT !.status = "planner_fail"]
  /\ pc' = "done"
  /\ UNCHANGED <<configuration, n, step, ego, ok>>

\* The cycles the ego collided in; computeMetrics() keeps the first.
Collided == {i \in 1 .. Len(cycles) : cycles[i].agent # NoCollision}
FirstCollision == CHOOSE i \in Collided : \A j \in Collided : i <= j

ComputedMetrics ==
  IF cycles = <<>> THEN [NoMetrics EXCEPT !.status = "no_cycles"]
  ELSE IF Collided = {} THEN [NoMetrics EXCEPT !.nCycles = Len(cycles)]
  ELSE LET c == cycles[FirstCollision]
       IN [status |-> "ok", nCycles |-> Len(cycles), agent |-> c.agent, time |-> c.step,
           fault |-> ~c.behind]

\* The recording has ended: the cycles become the row.
Finish ==
  /\ pc = "cycle" /\ step + 1 >= n
  /\ metrics' = ComputedMetrics
  /\ ok' = TRUE
  /\ pc' = "done"
  /\ UNCHANGED <<configuration, n, step, ego, cycles>>

Next == Refuse \/ Begin \/ Cycle \/ PlannerFails \/ Finish

Spec == Init /\ [][Next]_vars

\* The jerk of a cycle is the central difference of the accelerations, one-sided at the
\* ends; its numerator, and the steps it spans.
Before(i) == IF i > 1 THEN i - 1 ELSE 1
After(i)  == IF i < Len(cycles) THEN i + 1 ELSE Len(cycles)
JerkSum(i) == cycles[After(i)].aLon - cycles[Before(i)].aLon
JerkSpan(i) == After(i) - Before(i)

-----------------------------------------------------------------------------
(***************************************************************************)
(* Properties.                                                             *)
(***************************************************************************)

CycleRecords ==
  [step : Nat, v : Nat, aLon : Int, touching : SUBSET Agents,
   agent : Agents \cup {NoCollision}, behind : BOOLEAN]

MetricsRecords ==
  [status : {"ok", "no_cycles", "load_fail", "no_route", "planner_fail"},
   nCycles : Nat, agent : Agents \cup {NoCollision}, time : Nat, fault : BOOLEAN]

\* Every variable has its type; the speed is never negative, and the commands, changed
\* no faster than the actuators can, never leave the limits of the vehicle.
TypeOK ==
  /\ driver \in {"planner", "pure_pursuit", "logged"}
  /\ sampling \in BOOLEAN
  /\ pc \in {"cycle", "done"}
  /\ n \in 0 .. MaxSteps
  /\ step \in 0 .. MaxSteps
  /\ v \in Nat
  /\ prevDelta \in -MaxSteer .. MaxSteer
  /\ prevCmd \in MinAccel .. MaxAccel
  /\ prevA \in Int
  /\ cycles \in Seq(CycleRecords)
  /\ metrics \in MetricsRecords
  /\ ok \in BOOLEAN

\* The row counts the cycles that were driven, and these are the steps of this recording
\* but the last, one after the other, whatever was driven before; a run that failed
\* claims none.
RowAccountsForRun ==
  /\ \A i \in 1 .. Len(cycles) : cycles[i].step = i - 1
  /\ pc = "done" /\ ok => Len(cycles) = n - 1 /\ metrics.nCycles = n - 1
  /\ pc = "done" /\ ~ok => metrics.nCycles = 0 /\ Len(cycles) <= 1

Counted(i) == cycles[i].touching \ Scenery

\* "Scoring the ego for clipping a cone would swamp the vehicle collision rate", and a
\* cone must not hide a vehicle: the row of a finished run says collision exactly when
\* the ego touched an agent that counts in some cycle, and then names the first time.
NoCollisionMissed ==
  pc = "done" /\ ok =>
    /\ metrics.agent = NoCollision => \A i \in 1 .. Len(cycles) : Counted(i) = {}
    /\ metrics.agent # NoCollision =>
         /\ metrics.agent \in Counted(metrics.time + 1)
         /\ \A i \in 1 .. metrics.time : Counted(i) = {}

\* "So that the controller cannot be the thing that breaches it": the jerk of every cycle
\* the ego was driven in is within the limit of the tracker.
JerkWithinController ==
  driver # "logged" =>
    \A i \in 1 .. Len(cycles) :
      JerkSum(i) \in -(MaxJerk * JerkSpan(i)) .. MaxJerk * JerkSpan(i)

\* The acceleration of a cycle is that of the step before it, as the recorded speeds have
\* it, but for a step cut off at standstill, which braked no harder than recorded.
AccelExplainsSpeed ==
  \A i \in 1 .. Len(cycles) - 1 :
    LET gained == cycles[i + 1].v - cycles[i].v
    IN \/ cycles[i + 1].aLon = gained
       \/ cycles[i + 1].v = 0 /\ cycles[i + 1].aLon < gained

=============================================================================
