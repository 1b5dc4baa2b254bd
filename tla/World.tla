-------------------------------- MODULE World --------------------------------
(***************************************************************************)
(* The closed-loop world (sim/world.cpp): the agents around the ego, moved *)
(* step by step either as they were recorded (log_replay) or by a driver   *)
(* model along the path they were recorded on (reactive).                  *)
(*                                                                         *)
(* An agent is where it is along its own recorded path.  What the driver   *)
(* model makes of leader, gap and target speed is how far the agent        *)
(* advances in a step: any distance up to MaxAdvance.  Agents that are not *)
(* the ego; the ego's entry is skipped by every loop and never changes.    *)
(***************************************************************************)
EXTENDS Integers, FiniteSets

CONSTANTS
  Agents,      (* The agents of the scenario but the ego.                  *)
  NumSteps,    (* view.numSteps(): the recording has steps 0 .. NumSteps-1.*)
  Recordings,  (* The recordings an agent may have, see Recording.         *)
  Shifts,      (* The time shifts of a perturbation; positive delays.      *)
  MaxAdvance,  (* Bound: the farthest an agent gets in one step.           *)
  Lookahead,   (* How far ahead along its path an agent aims.              *)
  Nobody       (* No agent is perturbed, or suppressed.                    *)

Steps == 0 .. NumSteps - 1

Absent == -1     \* A recorded sample that is not valid.
Astray == -2     \* A place that is not on the agent's path.

\* At every step the arc length, along the agent's path, of the recorded place: it
\* starts from 0 at the first valid sample and never decreases.
Recording == [Steps -> Nat \cup {Absent}]

ASSUME StepsAssumption == NumSteps \in Nat \ {0}
ASSUME AgentsAssumption == Nobody \notin Agents
ASSUME RecordingsAssumption ==
  /\ Recordings \subseteq Recording
  /\ \A g \in Recordings : \A t \in Steps :
       g[t] # Absent => /\ \E u \in 0 .. t : g[u] = 0
                        /\ \A u \in 0 .. t : g[u] <= g[t]
ASSUME ShiftsAssumption == Shifts \subseteq Int
ASSUME MotionAssumption == MaxAdvance \in Nat /\ Lookahead \in Nat \ {0}

VARIABLES
  log,         (* The recording of each agent; never changes.              *)
  mode,        (* "log_replay" or "reactive"; never changes.               *)
  perturb,     (* The agent whose time is shifted, and the shift.          *)
  suppressed,  (* The agents excluded by the agent-removal ablation.       *)
  step,        (* The simulation step the world is at.                     *)
  agent        (* cur_: of each agent whether it is there, its arc length  *)
               (* s as the code keeps it, and the place its position is at.*)

scenario == <<log, mode, perturb, suppressed>>
vars == <<scenario, step, agent>>

\* shifted(): the recorded step of agent i at step t, under the perturbation.
Shifted(i, t) == IF perturb.agent = i THEN t - perturb.shift ELSE t

\* loggedValid()
LoggedValid(i, t) == Shifted(i, t) \in Steps /\ log[i][Shifted(i, t)] # Absent

\* loggedPos() at a step where the agent is recorded.
LoggedPlace(i, t) == log[i][Shifted(i, t)]

\* AgentPath: the recorded places without repetition, usable from two points on.
Places(i)  == {log[i][t] : t \in Steps} \ {Absent}
Usable(i)  == Cardinality(Places(i)) >= 2
PathEnd(i) == CHOOSE p \in Places(i) : \A q \in Places(i) : q <= p

\* The place of an agent that is not there is of no consequence.
PlaceAtReset(i) == IF LoggedValid(i, 0) THEN LoggedPlace(i, 0) ELSE Astray

\* reset(), then suppress() for the agent the ablation removes.
Init ==
  /\ log \in [Agents -> Recordings]
  /\ mode \in {"log_replay", "reactive"}
  /\ perturb \in [agent : Agents \cup {Nobody}, shift : Shifts]
  /\ \E x \in Agents \cup {Nobody} : suppressed = {x} \cap Agents
  /\ step = 0
  /\ agent = [i \in Agents |-> [valid |-> LoggedValid(i, 0), s |-> 0,
                                place |-> PlaceAtReset(i)]]

-----------------------------------------------------------------------------
(***************************************************************************)
(* One step of one agent, to step t.                                       *)
(***************************************************************************)

\* Mutant of Gone: the agent is frozen, not taken away.
Frozen(i) == agent[i]

Gone(i) == [agent[i] EXCEPT !.valid = FALSE]

\* Log replay: there when recorded, where recorded.
Replayed(i, t) ==
  IF LoggedValid(i, t) THEN [agent[i] EXCEPT !.valid = TRUE, !.place = LoggedPlace(i, t)]
                       ELSE Gone(i)

\* No path to follow: held in place for as long as it is recorded.
HeldInPlace(i, t) == [agent[i] EXCEPT !.valid = @ /\ LoggedValid(i, t)]

\* Mutant of Entering: the arc length is that of an earlier entry.
EnteringWithOldArc(i, t) ==
  IF LoggedValid(i, t) THEN [agent[i] EXCEPT !.valid = TRUE, !.place = LoggedPlace(i, t)]
                       ELSE agent[i]

\* Not there: it enters when and where its recording says, and its arc length is
\* found by projection.
Entering(i, t) ==
  IF LoggedValid(i, t) THEN [valid |-> TRUE, s |-> LoggedPlace(i, t), place |-> LoggedPlace(i, t)]
                       ELSE agent[i]

\* Where following the path takes an agent: past the end of the path straight on,
\* before it towards the point ahead of s; a point behind turns it off its path.
Followed(i, s, d) ==
  LET p == agent[i].place
      aim == IF s + Lookahead <= PathEnd(i) THEN s + Lookahead ELSE PathEnd(i)
  IN IF p # Astray /\ (s >= PathEnd(i) \/ aim >= p) THEN p + d ELSE Astray

\* The driver model advances the agent by d; when its recording has ended it stays
\* only while it is on its path.
Driven(i, t, d) ==
  LET s == agent[i].s + d
  IN [valid |-> LoggedValid(i, t) \/ s < PathEnd(i), s |-> s, place |-> Followed(i, s, d)]

\* Mutant of After: whether the agent is there is not looked at.
AfterAlwaysDriven(i, t, d) ==
  CASE i \in suppressed                                     -> Gone(i)
    [] i \notin suppressed /\ mode = "log_replay"           -> Replayed(i, t)
    [] i \notin suppressed /\ mode = "reactive" /\ ~Usable(i) -> HeldInPlace(i, t)
    [] OTHER                                                -> Driven(i, t, d)

After(i, t, d) ==
  CASE i \in suppressed                                     -> Gone(i)
    [] i \notin suppressed /\ mode = "log_replay"           -> Replayed(i, t)
    [] i \notin suppressed /\ mode = "reactive" /\ ~Usable(i) -> HeldInPlace(i, t)
    [] i \notin suppressed /\ mode = "reactive" /\ Usable(i) /\ ~agent[i].valid -> Entering(i, t)
    [] OTHER                                                -> Driven(i, t, d)

\* step(): every agent moves once.  The simulator ends with the recording, so that
\* the step it moves to is always a recorded one.
Step ==
  /\ step + 1 < NumSteps
  /\ step' = step + 1
  /\ \E d \in [Agents -> 0 .. MaxAdvance] :
       agent' = [i \in Agents |-> After(i, step + 1, d[i])]
  /\ UNCHANGED scenario

\* The scenario is over.
Over == step + 1 >= NumSteps /\ UNCHANGED vars

Next == Step \/ Over

Spec == Init /\ [][Next]_vars

-----------------------------------------------------------------------------
(***************************************************************************)
(* Properties.                                                             *)
(***************************************************************************)

\* Every variable has its type.
TypeOK ==
  /\ log \in [Agents -> Recordings]
  /\ mode \in {"log_replay", "reactive"}
  /\ perturb \in [agent : Agents \cup {Nobody}, shift : Shifts]
  /\ suppressed \subseteq Agents
  /\ step \in Steps
  /\ agent \in [Agents -> [valid : BOOLEAN, s : Nat, place : Nat \cup {Astray}]]

Active == Agents \ suppressed

\* Log replay shows exactly the recording, shifted in time for the perturbed agent:
\* an agent is there when it was recorded and where, at every step of the scenario.
ReplayIsFaithful ==
  mode = "log_replay" =>
    \A i \in Active : /\ agent[i].valid <=> LoggedValid(i, step)
                      /\ agent[i].valid => agent[i].place = LoggedPlace(i, step)

\* No agent is there that was not recorded by now: the driver model may keep one
\* longer than its recording but never brings one in early, whatever the shift.
NoGhosts ==
  \A i \in Active : agent[i].valid => \E t \in 0 .. step : LoggedValid(i, t)

\* The reactive world misses no agent that moves: one that is recorded at this step
\* is there, also when it had driven to the end of its path and was taken away.
\* The paired comparison of the two agent models rests on this.
MovingAgentsArePresent ==
  \A i \in Active : Usable(i) /\ LoggedValid(i, step) => agent[i].valid

\* "So that agents do not accumulate forever": a reactive agent outlives its
\* recording only on the path it recorded.
LingersOnlyOnPath ==
  mode = "reactive" =>
    \A i \in Active : agent[i].valid /\ ~LoggedValid(i, step) => agent[i].s < PathEnd(i)

\* Agent removal: from the first step on a suppressed agent is never there.
SuppressedStaysGone == step > 0 => \A i \in suppressed : ~agent[i].valid

\* The arc length that steers a reactive agent is the one of the place it is at,
\* through entries, exits and entries again, unless its recording was brought forward.
ArcLengthIsOwn ==
  mode = "reactive" =>
    \A i \in Active : /\ Usable(i) /\ agent[i].valid
                      /\ perturb.agent = i => perturb.shift >= 0
                      => agent[i].s = agent[i].place

=============================================================================
