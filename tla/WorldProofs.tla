----------------------------- MODULE WorldProofs -----------------------------
(***************************************************************************)
(* What the closed-loop world guarantees for any number of agents and      *)
(* steps, any recordings, any time shifts and any driver model.            *)
(***************************************************************************)
EXTENDS World, FiniteSetTheorems, WellFoundedInduction, TLAPS

(***************************************************************************)
(* The end of a path.                                                      *)
(***************************************************************************)

\* A set of naturals that is not empty has a least element.
LEMMA LeastNatural ==
  ASSUME NEW T \in SUBSET Nat, T # {}
  PROVE  \E m \in T : \A n \in T : m <= n
<1>1. PICK m \in T : \A n \in T : ~ (<<n, m>> \in OpToRel(<, Nat))
  BY NatLessThanWellFounded, WFMin
<1>2. \A n \in T : ~ (n < m)
  BY <1>1 DEF OpToRel
<1> QED BY <1>2

\* A path has a last point, which is a natural number, and no point lies behind it.
LEMMA PathHasEnd ==
  ASSUME NEW i \in Agents, log[i] \in Recordings, Usable(i)
  PROVE  PathEnd(i) \in Nat /\ \A q \in Places(i) : q <= PathEnd(i)
<1> DEFINE g == log[i]
           Late == {n \in Nat : n \in 0 .. NumSteps - 1 /\ g[NumSteps - 1 - n] # Absent}
<1>1. /\ g \in [Steps -> Nat \cup {Absent}]
      /\ \A t \in Steps : g[t] # Absent => \A u \in 0 .. t : g[u] <= g[t]
  BY RecordingsAssumption DEF Recording
<1>2. Places(i) # {}
  BY FS_EmptySet DEF Usable
<1>3. PICK t0 \in Steps : g[t0] # Absent
  BY <1>2 DEF Places
<1>4. NumSteps - 1 - t0 \in Late
  BY <1>3, StepsAssumption DEF Steps
<1>5. PICK m \in Late : \A n \in Late : m <= n
  <2> HIDE DEF Late
  <2>1. Late \in SUBSET Nat
    BY DEF Late
  <2> QED BY <1>4, <2>1, LeastNatural
<1> DEFINE last == NumSteps - 1 - m
<1>6. last \in Steps /\ g[last] # Absent /\ g[last] \in Nat
  BY <1>1, <1>5, StepsAssumption DEF Steps
<1>7. ASSUME NEW t \in Steps, g[t] # Absent PROVE t \in 0 .. last
  <2>1. NumSteps - 1 - t \in Late
    BY <1>7, StepsAssumption DEF Steps
  <2> QED BY <1>5, <2>1, StepsAssumption DEF Steps
<1>8. g[last] \in Places(i) /\ \A q \in Places(i) : q <= g[last]
  BY <1>1, <1>6, <1>7 DEF Places
<1>9. PathEnd(i) \in Places(i) /\ \A q \in Places(i) : q <= PathEnd(i)
  BY <1>8 DEF PathEnd
<1> QED BY <1>1, <1>9 DEF Places

(***************************************************************************)
(* Type correctness and what a step does to one agent.                     *)
(***************************************************************************)

\* A recorded place is a place.
LEMMA RecordedPlace ==
  ASSUME TypeOK, NEW i \in Agents, NEW t, LoggedValid(i, t)
  PROVE  LoggedPlace(i, t) \in Nat
BY RecordingsAssumption DEF TypeOK, LoggedValid, LoggedPlace, Recording

\* The cases of After, as a step of the world uses it.
LEMMA StepOfAgent ==
  ASSUME TypeOK, Step, NEW i \in Agents
  PROVE  /\ UNCHANGED scenario
         /\ step' = step + 1
         /\ \/ i \in suppressed /\ agent'[i] = Gone(i)
            \/ i \notin suppressed /\ mode = "log_replay" /\ agent'[i] = Replayed(i, step + 1)
            \/ /\ i \notin suppressed /\ mode = "reactive" /\ ~Usable(i)
               /\ agent'[i] = HeldInPlace(i, step + 1)
            \/ /\ i \notin suppressed /\ mode = "reactive" /\ Usable(i) /\ ~agent[i].valid
               /\ agent'[i] = Entering(i, step + 1)
            \/ /\ i \notin suppressed /\ mode = "reactive" /\ Usable(i) /\ agent[i].valid
               /\ \E d \in 0 .. MaxAdvance : agent'[i] = Driven(i, step + 1, d)
<1>1. PICK d \in [Agents -> 0 .. MaxAdvance] :
         agent' = [j \in Agents |-> After(j, step + 1, d[j])]
  BY DEF Step
<1>2. agent'[i] = After(i, step + 1, d[i]) /\ d[i] \in 0 .. MaxAdvance
  BY <1>1
<1>3. mode = "log_replay" \/ mode = "reactive"
  BY DEF TypeOK
<1>4. UNCHANGED scenario /\ step' = step + 1
  BY DEF Step
<1>5. CASE i \in suppressed
  BY <1>2, <1>4, <1>5 DEF After
<1>6. CASE i \notin suppressed /\ mode = "log_replay"
  BY <1>2, <1>4, <1>6 DEF After
<1>7. CASE i \notin suppressed /\ mode = "reactive"
  <2>1. CASE ~Usable(i)
    BY <1>2, <1>4, <1>7, <2>1 DEF After
  <2>2. CASE Usable(i) /\ ~agent[i].valid
    BY <1>2, <1>4, <1>7, <2>2 DEF After
  <2>3. CASE Usable(i) /\ agent[i].valid
    <3>1. agent'[i] = Driven(i, step + 1, d[i])
      BY <1>2, <1>7, <2>3 DEF After
    <3> QED BY <1>2, <1>4, <1>7, <2>3, <3>1
  <2> QED BY <2>1, <2>2, <2>3
<1> QED BY <1>3, <1>5, <1>6, <1>7

\* Everybody starts with a state of the right type.
LEMMA InitType == Init => TypeOK
<1> SUFFICES ASSUME Init PROVE TypeOK
  OBVIOUS
<1>1. ASSUME NEW i \in Agents PROVE PlaceAtReset(i) \in Nat \cup {Astray}
  BY <1>1, RecordingsAssumption DEF Init, PlaceAtReset, LoggedValid, LoggedPlace, Recording
<1>2. ASSUME NEW i \in Agents PROVE LoggedValid(i, 0) \in BOOLEAN
  BY DEF LoggedValid
<1>3. agent \in [Agents -> [valid : BOOLEAN, s : Nat, place : Nat \cup {Astray}]]
  BY <1>1, <1>2 DEF Init
<1>4. step \in Steps
  BY StepsAssumption DEF Init, Steps
<1> QED BY <1>3, <1>4 DEF Init, TypeOK

AgentState == [valid : BOOLEAN, s : Nat, place : Nat \cup {Astray}]

\* So is the state of an agent that was driven a step further.
LEMMA DrivenType ==
  ASSUME TypeOK, NEW i \in Agents, NEW t, NEW d \in 0 .. MaxAdvance
  PROVE  Driven(i, t, d) \in AgentState
<1>1. agent[i].s + d \in Nat
  BY MotionAssumption DEF TypeOK
<1>2. Followed(i, agent[i].s + d, d) \in Nat \cup {Astray}
  BY MotionAssumption DEF TypeOK, Followed
<1>3. (LoggedValid(i, t) \/ agent[i].s + d < PathEnd(i)) \in BOOLEAN
  BY DEF LoggedValid
<1> QED BY <1>1, <1>2, <1>3 DEF Driven, AgentState

\* When a driven agent stays, and what becomes of its arc length.
LEMMA DrivenFields ==
  ASSUME NEW i, NEW t, NEW d
  PROVE  /\ Driven(i, t, d).valid <=> LoggedValid(i, t) \/ agent[i].s + d < PathEnd(i)
         /\ Driven(i, t, d).s = agent[i].s + d
<1>1. Driven(i, t, d).valid = (LoggedValid(i, t) \/ agent[i].s + d < PathEnd(i))
  BY Zenon DEF Driven
<1> QED BY <1>1 DEF Driven

\* Every step keeps the types.
LEMMA NextType == TypeOK /\ [Next]_vars => TypeOK'
<1>1. ASSUME TypeOK, Step PROVE TypeOK'
  <2>1. ASSUME NEW i \in Agents PROVE agent'[i] \in AgentState
    <3>0. agent[i] \in AgentState
      BY <1>1 DEF TypeOK, AgentState
    <3>1. CASE agent'[i] = Gone(i)
      BY <3>0, <3>1 DEF Gone, AgentState
    <3>2. CASE agent'[i] = Replayed(i, step + 1)
      <4>1. CASE LoggedValid(i, step + 1)
        <5>1. LoggedPlace(i, step + 1) \in Nat
          BY <1>1, <4>1, RecordedPlace
        <5> QED BY <3>0, <3>2, <4>1, <5>1 DEF Replayed, AgentState
      <4>2. CASE ~LoggedValid(i, step + 1)
        BY <3>0, <3>2, <4>2 DEF Replayed, Gone, AgentState
      <4> QED BY <4>1, <4>2
    <3>3. CASE agent'[i] = HeldInPlace(i, step + 1)
      BY <3>0, <3>3 DEF HeldInPlace, AgentState, LoggedValid
    <3>4. CASE agent'[i] = Entering(i, step + 1)
      BY <1>1, <3>0, <3>4, RecordedPlace DEF Entering, AgentState
    <3>5. CASE \E d \in 0 .. MaxAdvance : agent'[i] = Driven(i, step + 1, d)
      BY <1>1, <3>5, DrivenType
    <3> QED BY <1>1, <3>1, <3>2, <3>3, <3>4, <3>5, StepOfAgent
  <2>2. agent' \in [Agents -> AgentState]
    BY <1>1, <2>1 DEF Step
  <2>3. step' \in Steps
    BY <1>1, StepsAssumption DEF Step, TypeOK, Steps
  <2> QED BY <1>1, <2>2, <2>3 DEF Step, scenario, TypeOK, AgentState
<1>2. ASSUME TypeOK, UNCHANGED vars PROVE TypeOK'
  BY <1>2 DEF TypeOK, vars, scenario
<1> QED BY <1>1, <1>2 DEF Next, Over

\* Every variable of the world keeps its type.
THEOREM WorldTypeCorrect == Spec => []TypeOK
BY InitType, NextType, PTL DEF Spec

(***************************************************************************)
(* The inductive invariant: the properties themselves.  Each looks at one  *)
(* agent at a time and at the recording, which never changes; what one     *)
(* needs of the others is that an agent not there has no arc length to     *)
(* keep, and that one that is driven was there before.                     *)
(***************************************************************************)
WorldInv ==
  /\ TypeOK
  /\ ReplayIsFaithful
  /\ NoGhosts
  /\ MovingAgentsArePresent
  /\ LingersOnlyOnPath
  /\ SuppressedStaysGone
  /\ ArcLengthIsOwn

\* The invariant holds when the world is set up: everybody is where the log starts.
LEMMA InitInv == Init => WorldInv
<1> SUFFICES ASSUME Init PROVE WorldInv
  OBVIOUS
<1>1. TypeOK
  BY InitType
<1>2. ReplayIsFaithful /\ MovingAgentsArePresent /\ LingersOnlyOnPath
  BY DEF Init, Active, ReplayIsFaithful, MovingAgentsArePresent, LingersOnlyOnPath, PlaceAtReset
<1>3. NoGhosts
  <2>1. 0 \in 0 .. step
    BY DEF Init
  <2> QED BY <2>1 DEF Init, Active, NoGhosts
<1>4. SuppressedStaysGone
  BY DEF Init, SuppressedStaysGone
<1>5. ASSUME NEW i \in Agents, agent[i].valid, perturb.agent = i => perturb.shift >= 0
      PROVE  agent[i].s = agent[i].place
  <2>1. LoggedValid(i, 0) /\ agent[i].s = 0 /\ agent[i].place = LoggedPlace(i, 0)
    BY <1>5 DEF Init, PlaceAtReset
  <2>2. perturb.shift \in Int
    BY <1>1, ShiftsAssumption DEF TypeOK
  <2>3. Shifted(i, 0) = 0
    BY <1>5, <2>1, <2>2, StepsAssumption DEF Shifted, LoggedValid, Steps
  <2>4. log[i] \in Recordings
    BY <1>1 DEF TypeOK
  <2>5. log[i][0] = 0
    BY <2>1, <2>3, <2>4, RecordingsAssumption DEF LoggedValid, Recording
  <2> QED BY <2>1, <2>3, <2>5 DEF LoggedPlace
<1>6. ArcLengthIsOwn
  BY <1>5 DEF ArcLengthIsOwn, Active
<1> QED BY <1>1, <1>2, <1>3, <1>4, <1>6 DEF WorldInv

\* Every step keeps it, one conjunct after the other.
LEMMA NextInv == WorldInv /\ [Next]_vars => WorldInv'
<1>1. ASSUME WorldInv, Step PROVE WorldInv'
  <2> USE <1>1
  <2>0. /\ TypeOK /\ TypeOK'
        /\ UNCHANGED scenario /\ step' = step + 1 /\ step \in Nat
    BY NextType, StepsAssumption DEF WorldInv, Next, Step, TypeOK, Steps
  <2>1. \A i \in Agents, t \in Int :
          /\ LoggedValid(i, t)' <=> LoggedValid(i, t)
          /\ LoggedPlace(i, t)' = LoggedPlace(i, t)
          /\ Usable(i)' <=> Usable(i)
          /\ PathEnd(i)' = PathEnd(i)
    BY <2>0 DEF scenario, LoggedValid, LoggedPlace, Shifted, Usable, PathEnd, Places
  <2>2. Active' = Active /\ mode' = mode /\ perturb' = perturb /\ suppressed' = suppressed
    BY <2>0 DEF scenario, Active
  <2>3. ASSUME NEW i \in Agents PROVE agent[i] \in AgentState
    BY <2>0 DEF TypeOK, AgentState
  <2>4. ReplayIsFaithful'
    <3> SUFFICES ASSUME NEW i \in Active, mode = "log_replay"
                 PROVE  /\ agent'[i].valid <=> LoggedValid(i, step + 1)
                        /\ agent'[i].valid => agent'[i].place = LoggedPlace(i, step + 1)
      BY <2>0, <2>1, <2>2 DEF ReplayIsFaithful, Active
    <3>1. agent'[i] = Replayed(i, step + 1)
      BY <2>0, StepOfAgent DEF Active
    <3> QED BY <2>3, <3>1 DEF Replayed, Gone, AgentState, Active
  <2>5. NoGhosts'
    <3> SUFFICES ASSUME NEW i \in Active, agent'[i].valid
                 PROVE  \E t \in 0 .. step + 1 : LoggedValid(i, t)
      BY <2>0, <2>1, <2>2 DEF NoGhosts, Active
    <3>1. agent[i].valid \/ LoggedValid(i, step + 1)
      BY <2>0, <2>3, StepOfAgent DEF Active, AgentState, Replayed, Gone, HeldInPlace, Entering
    <3> QED BY <2>0, <3>1 DEF WorldInv, NoGhosts
  <2>6. MovingAgentsArePresent'
    <3> SUFFICES ASSUME NEW i \in Active, Usable(i), LoggedValid(i, step + 1)
                 PROVE  agent'[i].valid
      BY <2>0, <2>1, <2>2 DEF MovingAgentsArePresent, Active
    <3>1. \/ agent'[i] = Replayed(i, step + 1)
          \/ agent'[i] = Entering(i, step + 1)
          \/ \E d \in 0 .. MaxAdvance : agent'[i] = Driven(i, step + 1, d)
      BY <2>0, StepOfAgent DEF Active
    <3>2. CASE agent'[i] = Replayed(i, step + 1)
      BY <2>3, <3>2 DEF Active, AgentState, Replayed
    <3>3. CASE agent'[i] = Entering(i, step + 1)
      BY <3>3 DEF Entering
    <3>4. CASE \E d \in 0 .. MaxAdvance : agent'[i] = Driven(i, step + 1, d)
      BY <3>4, DrivenFields
    <3> QED BY <3>1, <3>2, <3>3, <3>4
  <2>7. LingersOnlyOnPath'
    <3> SUFFICES ASSUME NEW i \in Active, mode = "reactive", agent'[i].valid,
                        ~LoggedValid(i, step + 1)
                 PROVE  agent'[i].s < PathEnd(i)
      BY <2>0, <2>1, <2>2 DEF LingersOnlyOnPath, Active
    <3>1. \/ agent'[i] = HeldInPlace(i, step + 1)
          \/ ~agent[i].valid /\ agent'[i] = Entering(i, step + 1)
          \/ \E d \in 0 .. MaxAdvance : agent'[i] = Driven(i, step + 1, d)
      BY <2>0, StepOfAgent DEF Active
    <3>2. agent'[i] # HeldInPlace(i, step + 1)
      BY <2>3 DEF Active, AgentState, HeldInPlace
    <3>3. CASE ~agent[i].valid /\ agent'[i] = Entering(i, step + 1)
      BY <3>3 DEF Entering
    <3>4. CASE \E d \in 0 .. MaxAdvance : agent'[i] = Driven(i, step + 1, d)
      BY <3>4, DrivenFields
    <3> QED BY <3>1, <3>2, <3>3, <3>4
  <2>8. SuppressedStaysGone'
    <3> SUFFICES ASSUME NEW i \in suppressed PROVE ~agent'[i].valid
      BY <2>2 DEF SuppressedStaysGone
    <3>1. i \in Agents
      BY <2>0 DEF TypeOK
    <3> QED BY <2>0, <2>3, <3>1, StepOfAgent DEF Gone, AgentState
  <2>9. ArcLengthIsOwn'
    <3> SUFFICES ASSUME NEW i \in Active, mode = "reactive", Usable(i), agent'[i].valid,
                        perturb.agent = i => perturb.shift >= 0
                 PROVE  agent'[i].s = agent'[i].place
      BY <2>0, <2>1, <2>2 DEF ArcLengthIsOwn, Active
    <3>1. CASE ~agent[i].valid
      <4>1. agent'[i] = Entering(i, step + 1)
        BY <2>0, <3>1, StepOfAgent DEF Active
      <4> QED BY <2>3, <3>1, <4>1 DEF Active, AgentState, Entering
    <3>2. CASE agent[i].valid
      <4>1. PICK d \in 0 .. MaxAdvance : agent'[i] = Driven(i, step + 1, d)
        BY <2>0, <3>2, StepOfAgent DEF Active
      <4>2. agent[i].s = agent[i].place /\ agent[i].s \in Nat
        BY <2>3, <3>2 DEF WorldInv, ArcLengthIsOwn, Active, AgentState
      <4>3. PathEnd(i) \in Nat
        BY <2>0, PathHasEnd DEF TypeOK, Active
      <4>4. d \in Nat /\ Lookahead \in Nat
        BY MotionAssumption
      <4>5. Followed(i, agent[i].s + d, d) = agent[i].s + d
        BY <4>2, <4>3, <4>4 DEF Followed, Astray
      <4> QED BY <4>1, <4>5 DEF Driven
    <3> QED BY <3>1, <3>2
  <2> QED BY <2>0, <2>4, <2>5, <2>6, <2>7, <2>8, <2>9 DEF WorldInv
<1>2. ASSUME WorldInv, UNCHANGED vars PROVE WorldInv'
  <2> USE <1>2
  <2>1. TypeOK'
    BY NextType DEF WorldInv
  <2>2. \A i \in Agents, t \in Int :
          /\ LoggedValid(i, t)' <=> LoggedValid(i, t)
          /\ LoggedPlace(i, t)' = LoggedPlace(i, t)
          /\ Usable(i)' <=> Usable(i)
          /\ PathEnd(i)' = PathEnd(i)
    BY DEF vars, scenario, LoggedValid, LoggedPlace, Shifted, Usable, PathEnd, Places
  <2>3. /\ Active' = Active /\ mode' = mode /\ perturb' = perturb
        /\ suppressed' = suppressed /\ step' = step /\ agent' = agent /\ step \in Int
    BY DEF vars, scenario, Active, WorldInv, TypeOK, Steps
  <2>4. ReplayIsFaithful'
    BY <2>2, <2>3 DEF WorldInv, ReplayIsFaithful, Active
  <2>5. NoGhosts'
    BY <2>2, <2>3 DEF WorldInv, NoGhosts, Active
  <2>6. MovingAgentsArePresent'
    BY <2>2, <2>3 DEF WorldInv, MovingAgentsArePresent, Active
  <2>7. LingersOnlyOnPath'
    BY <2>2, <2>3 DEF WorldInv, LingersOnlyOnPath, Active
  <2>8. SuppressedStaysGone'
    BY <2>3 DEF WorldInv, SuppressedStaysGone
  <2>9. ArcLengthIsOwn'
    BY <2>2, <2>3 DEF WorldInv, ArcLengthIsOwn, Active
  <2> QED BY <2>1, <2>4, <2>5, <2>6, <2>7, <2>8, <2>9 DEF WorldInv
<1> QED BY <1>1, <1>2 DEF Next, Over

\* Log replay shows the recording and nothing else.
THEOREM WorldReplayIsFaithful == Spec => []ReplayIsFaithful
<1>1. WorldInv => ReplayIsFaithful
  BY DEF WorldInv
<1> QED BY InitInv, NextInv, <1>1, PTL DEF Spec

\* No driver model brings an agent in before it was recorded.
THEOREM WorldNoGhosts == Spec => []NoGhosts
<1>1. WorldInv => NoGhosts
  BY DEF WorldInv
<1> QED BY InitInv, NextInv, <1>1, PTL DEF Spec

\* Whatever the driver model does, the reactive world has every moving agent that
\* log replay has.
THEOREM WorldMovingAgentsArePresent == Spec => []MovingAgentsArePresent
<1>1. WorldInv => MovingAgentsArePresent
  BY DEF WorldInv
<1> QED BY InitInv, NextInv, <1>1, PTL DEF Spec

\* After its recording has ended an agent is there only while it is on its
\* path: a vehicle reaches the end and is gone.
THEOREM WorldLingersOnlyOnPath == Spec => []LingersOnlyOnPath
<1>1. WorldInv => LingersOnlyOnPath
  BY DEF WorldInv
<1> QED BY InitInv, NextInv, <1>1, PTL DEF Spec

\* An agent that was suppressed stays gone, whatever else was perturbed.
THEOREM WorldSuppressedStaysGone == Spec => []SuppressedStaysGone
<1>1. WorldInv => SuppressedStaysGone
  BY DEF WorldInv
<1> QED BY InitInv, NextInv, <1>1, PTL DEF Spec

\* An agent that is recorded as seen, or delayed, is steered by its own arc length.
THEOREM WorldArcLengthIsOwn == Spec => []ArcLengthIsOwn
<1>1. WorldInv => ArcLengthIsOwn
  BY DEF WorldInv
<1> QED BY InitInv, NextInv, <1>1, PTL DEF Spec

=============================================================================
