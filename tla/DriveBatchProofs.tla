--------------------------- MODULE DriveBatchProofs ---------------------------
(***************************************************************************)
(* The batch runner's guarantees for any number of workers and scenarios   *)
(* and any flush threshold.                                                *)
(***************************************************************************)
EXTENDS DriveBatch, FiniteSetTheorems, TLAPS

(***************************************************************************)
(* Type correctness.                                                       *)
(***************************************************************************)

\* Scenarios are numbered.
LEMMA WorkIsNat == Work \subseteq Nat
BY NumWorkAssumption DEF Work

\* Adding a row, or a buffer, to a file gives a file again.
LEMMA RowsClosed ==
  ASSUME NEW a \in Rows, NEW b \in Rows
  PROVE  /\ NoRows \in Rows
         /\ \A i \in Work : OneRow(a, i) \in Rows
         /\ Plus(a, b) \in Rows
         /\ \A K \in SUBSET Work : Kept(a, K) \in Rows
BY DEF NoRows, OneRow, Plus, Kept, Rows

\* The types, at the start.
LEMMA InitType == Init => TypeOK
<1> SUFFICES ASSUME Init PROVE TypeOK
  OBVIOUS
<1>1. NoRows \in Rows
  BY DEF NoRows, Rows
<1>2. /\ bufM \in [Workers -> Rows]
      /\ bufF \in [Workers -> Rows]
      /\ fileM \in Rows
      /\ fileF \in Rows
  BY <1>1 DEF Init
<1>3. /\ tally \in [Tallied -> Nat]
      /\ cur \in [Workers -> Nat]
      /\ local \in [Workers -> Nat]
      /\ routed \in [Workers -> BOOLEAN]
  BY DEF Init
<1>4. /\ features \in BOOLEAN
      /\ recorded \in BOOLEAN
  BY DEF Init
<1> QED BY <1>2, <1>3, <1>4 DEF Init, TypeOK

\* The types, over a step.
LEMMA NextType == TypeOK /\ [Next]_vars => TypeOK'
<1> SUFFICES ASSUME TypeOK, [Next]_vars PROVE TypeOK'
  OBVIOUS
<1> USE DEF At, Goto
<1>1. ASSUME NEW w \in Workers, Claim(w) PROVE TypeOK'
  BY <1>1, NumWorkAssumption DEF Claim, TypeOK, Work
<1>2. ASSUME NEW w \in Workers, SkipUnreadable(w) PROVE TypeOK'
  BY <1>2 DEF SkipUnreadable, Bump, TypeOK
<1>3. ASSUME NEW w \in Workers, Replay(w) PROVE TypeOK'
  <2> DEFINE i == cur[w]  k == kind[i]
  <2>1. i \in Work /\ k \in Kinds
    BY <1>3 DEF Replay, TypeOK
  <2>2. bufM' \in [Workers -> Rows]
    BY <1>3, <2>1, RowsClosed DEF Replay, TypeOK
  <2>3. bufF' \in [Workers -> Rows]
    BY <1>3, <2>1, RowsClosed DEF Replay, TypeOK
  <2>4. tally' \in [Tallied -> Nat]
    BY <1>3 DEF Replay, Bump, TypeOK
  <2>5. routed' \in [Workers -> BOOLEAN]
    BY <1>3, <2>1 DEF Replay, TypeOK, RouteAfter
  <2>6. /\ local' \in [Workers -> Nat]
        /\ pc' \in [Workers -> {"claim", "replay", "flush", "flushM", "flushF", "finish",
                                "drain", "drainM", "drainF", "exited"}]
        /\ \A v \in Workers : pc'[v] = "replay" => cur[v] \in Work
    BY <1>3 DEF Replay, TypeOK
  <2> QED
    BY <1>3, <2>2, <2>3, <2>4, <2>5, <2>6 DEF Replay, TypeOK
<1>4. ASSUME NEW w \in Workers, Lock(w) PROVE TypeOK'
  BY <1>4 DEF Lock, TypeOK
<1>5. ASSUME NEW w \in Workers, WriteMetrics(w) PROVE TypeOK'
  <2>1. fileM' \in Rows /\ bufM' \in [Workers -> Rows]
    BY <1>5, RowsClosed DEF WriteMetrics, TypeOK, Plus, Rows, NoRows
  <2> QED BY <1>5, <2>1 DEF WriteMetrics, TypeOK
<1>6. ASSUME NEW w \in Workers, WriteFeatures(w) PROVE TypeOK'
  <2>1. fileF' \in Rows /\ bufF' \in [Workers -> Rows]
    BY <1>6 DEF WriteFeatures, TypeOK, Plus, Rows, NoRows
  <2> QED BY <1>6, <2>1 DEF WriteFeatures, TypeOK
<1>7. ASSUME NEW w \in Workers, Finish(w) PROVE TypeOK'
  BY <1>7 DEF Finish, Bump, TypeOK
<1>8. CASE JoinAndClose
  BY <1>8 DEF JoinAndClose, TypeOK
<1>9. CASE RecordRun
  BY <1>9 DEF RecordRun, TypeOK
<1>10. CASE Kill
  <2>1. CASE \E K, L \in SUBSET Work : fileM' = Kept(fileM, K) /\ fileF' = Kept(fileF, L)
    <3>1. PICK K \in SUBSET Work, L \in SUBSET Work :
                 fileM' = Kept(fileM, K) /\ fileF' = Kept(fileF, L)
      BY <2>1
    <3>2. fileM' \in Rows /\ fileF' \in Rows
      BY <3>1, RowsClosed DEF TypeOK
    <3> QED BY <1>10, <3>2 DEF Kill, TypeOK
  <2>2. CASE UNCHANGED <<fileM, fileF>>
    BY <1>10, <2>2 DEF Kill, TypeOK
  <2> QED BY <1>10, <2>1, <2>2 DEF Kill
<1>11. CASE Ended \/ UNCHANGED vars
  BY <1>11 DEF Ended, vars, TypeOK
<1> QED
  BY <1>1, <1>2, <1>3, <1>4, <1>5, <1>6, <1>7, <1>8, <1>9, <1>10, <1>11 DEF Next, Worker

\* Every variable of the batch runner keeps its type.
THEOREM BatchTypeCorrect == Spec => []TypeOK
BY InitType, NextType, PTL DEF Spec

(***************************************************************************)
(* The inductive invariant.  RowsAccountedFor says where each row is; it   *)
(* is not inductive alone, because what happens when the work runs out     *)
(* depends on why a worker leaves its loop and what it leaves behind:      *)
(*   - a worker past the end of the list knows that all are claimed;       *)
(*   - a worker that has written its buffer has nothing left in it;        *)
(* so that when every worker has exited, every row must be in the file.    *)
(***************************************************************************)
DrainedKnowsAllClaimed ==
  \A w \in Workers : pc[w] \in {"drain", "drainM", "drainF", "exited"} => next >= NumWork

\* A worker past its last write has nothing left to write.
WrittenIsEmpty ==
  \A w \in Workers : pc[w] \in {"flushF", "drainF", "exited"} => bufM[w] = NoRows

\* Closed files hold every row there is.
ClosedIsComplete ==
  phase \in {"closed", "exited"} => \A i \in Work : Readable(i) => fileM[i] = 1

\* Only a batch that exited is recorded.
RecordedIsExited == recorded => phase = "exited"

\* Only scenarios that could be read are in a buffer.
BufferedIsReadable ==
  \A w \in Workers : \A i \in Work : bufM[w][i] > 0 => Readable(i)

BatchInv ==
  /\ TypeOK
  /\ RowsAccountedFor
  /\ NoDuplicateRow
  /\ DrainedKnowsAllClaimed
  /\ WrittenIsEmpty
  /\ ClosedIsComplete
  /\ RecordedIsExited
  /\ BufferedIsReadable

\* The invariant, at the start.
LEMMA InitInv == Init => BatchInv
<1> SUFFICES ASSUME Init PROVE BatchInv
  OBVIOUS
<1>1. TypeOK
  BY InitType
<1>2. RowsAccountedFor /\ NoDuplicateRow
  BY WorkIsNat DEF Init, RowsAccountedFor, NoDuplicateRow, AtMostOnce, OnePlace, OnlyClaimed, NoneLost,
                    Readable, Holds, InFlight, Claimed, NoRows, Work
<1>3. BufferedIsReadable
  BY DEF Init, BufferedIsReadable, NoRows
<1> QED
  BY <1>1, <1>2, <1>3 DEF Init, BatchInv, DrainedKnowsAllClaimed, WrittenIsEmpty,
                          ClosedIsComplete, RecordedIsExited

\* Where the rows are, after each step of a worker.
LEMMA WorkerKeepsRows ==
  ASSUME BatchInv, NEW w \in Workers, Worker(w)
  PROVE  RowsAccountedFor'
<1> SUFFICES ASSUME NEW i \in Work
             PROVE  AtMostOnce(i)' /\ OnePlace(i)' /\ OnlyClaimed(i)' /\ NoneLost(i)'
  BY DEF RowsAccountedFor
<1>0. /\ TypeOK /\ TypeOK'
      /\ phase = "running"
      /\ AtMostOnce(i) /\ OnePlace(i) /\ OnlyClaimed(i) /\ NoneLost(i)
  BY NextType DEF BatchInv, Next, RowsAccountedFor, Worker, At, Claim, SkipUnreadable,
                  Replay, Lock, WriteMetrics, WriteFeatures, Finish
<1> USE DEF At, Goto, Holds, InFlight, Claimed, Readable
<1>1. CASE Claim(w)
  <2>1. AtMostOnce(i)' /\ OnlyClaimed(i)'
    BY <1>0, <1>1, WorkIsNat DEF Claim, TypeOK, AtMostOnce, OnlyClaimed
  <2>2. OnePlace(i)'
    <3>1. \A v \in Workers : /\ bufM'[v][i] = bufM[v][i]
                             /\ bufM[v][i] \in Nat
                             /\ InFlight(v, i)' <=> \/ v = w /\ i = next
                                                    \/ v # w /\ InFlight(v, i)
      <4>1. /\ bufM' = bufM
            /\ \A v \in Workers : bufM[v][i] \in Nat
        BY <1>0, <1>1 DEF Claim, TypeOK, Rows
      <4>2. \A v \in Workers :
              /\ pc'[v] = IF v = w THEN IF next < NumWork THEN "replay" ELSE "drain" ELSE pc[v]
              /\ cur'[v] = IF v = w THEN next ELSE cur[v]
        BY <1>0, <1>1 DEF Claim, TypeOK
      <4>3. i = next => next < NumWork
        BY NumWorkAssumption DEF Work
      <4> QED BY <4>1, <4>2, <4>3
    <3>2. /\ next' = next + 1 /\ next \in Nat /\ i \in Nat
          /\ fileM' = fileM /\ fileM[i] \in Nat
          /\ ~InFlight(w, i)
      BY <1>0, <1>1, WorkIsNat DEF Claim, TypeOK, Rows
    <3>3. CASE i = next
      <4>1. fileM[i] = 0 /\ \A v \in Workers : ~InFlight(v, i) /\ bufM[v][i] = 0
        BY <1>0, <3>1, <3>2, <3>3 DEF OnePlace, OnlyClaimed
      <4> HIDE DEF InFlight
      <4> QED BY <3>1, <3>2, <3>3, <4>1 DEF OnePlace
    <3>4. CASE i # next
      <4> HIDE DEF InFlight
      <4>1. \A v \in Workers : Holds(v, i)' => Holds(v, i)
        BY <3>1, <3>2, <3>4
      <4> QED BY <1>0, <3>1, <3>2, <3>4, <4>1 DEF OnePlace
    <3> QED BY <3>3, <3>4
  <2>3. NoneLost(i)'
    <3>1. CASE i = next
      BY <1>0, <1>1, <3>1, NumWorkAssumption DEF Claim, TypeOK, NoneLost, Work
    <3>2. CASE i # next
      <4>1. ASSUME NEW v \in Workers, Holds(v, i) PROVE Holds(v, i)'
        BY <1>0, <1>1, <4>1 DEF Claim, TypeOK
      <4>2. Claimed(i)' => Claimed(i)
        BY <1>0, <1>1, <3>2, WorkIsNat DEF Claim, TypeOK
      <4> QED BY <1>0, <1>1, <4>1, <4>2 DEF Claim, NoneLost
    <3> QED BY <3>1, <3>2
  <2> QED BY <2>1, <2>2, <2>3
<1>2. CASE SkipUnreadable(w)
  BY <1>0, <1>2 DEF SkipUnreadable, TypeOK, AtMostOnce, OnePlace, OnlyClaimed, NoneLost
<1>3. CASE Replay(w)
  <2>1. /\ bufM' = [bufM EXCEPT ![w] = OneRow(bufM[w], cur[w])]
        /\ cur[w] \in Work /\ pc[w] = "replay"
    BY <1>0, <1>3 DEF Replay, TypeOK
  <2>2. \A v \in Workers : bufM'[v][i] = IF v = w /\ i = cur[w] THEN bufM[v][i] + 1
                                         ELSE bufM[v][i]
    BY <1>0, <2>1 DEF TypeOK, OneRow, Rows
  <2>3. AtMostOnce(i)' /\ OnlyClaimed(i)'
    BY <1>0, <1>3, <2>1, <2>2 DEF Replay, TypeOK, AtMostOnce, OnlyClaimed, OnePlace, Rows
  <2>4. \A v \in Workers : Holds(v, i)' <=> Holds(v, i)
    BY <1>0, <1>3, <2>1, <2>2 DEF Replay, TypeOK, Rows
  <2>5. OnePlace(i)' /\ NoneLost(i)'
    BY <1>0, <1>3, <2>1, <2>2, <2>4 DEF Replay, TypeOK, OnePlace, NoneLost, Rows
  <2> QED BY <2>3, <2>5
<1>4. CASE Lock(w)
  BY <1>0, <1>4 DEF Lock, TypeOK, AtMostOnce, OnePlace, OnlyClaimed, NoneLost
<1>5. CASE WriteMetrics(w)
  <2>1. /\ fileM'[i] = fileM[i] + bufM[w][i]
        /\ \A v \in Workers : bufM'[v][i] = IF v = w THEN 0 ELSE bufM[v][i]
        /\ fileM[i] \in Nat /\ bufM[w][i] \in Nat
        /\ UNCHANGED <<kind, next, cur>>
        /\ \A v \in Workers : pc'[v] = "replay" <=> pc[v] = "replay"
        /\ pc[w] # "replay"
    BY <1>0, <1>5 DEF WriteMetrics, TypeOK, Plus, NoRows, Rows
  <2>2. bufM[w][i] \in {0, 1} /\ fileM[i] \in {0, 1}
    BY <1>0, <2>1 DEF AtMostOnce
  <2>3. CASE bufM[w][i] = 0
    BY <1>0, <2>1, <2>3 DEF AtMostOnce, OnePlace, OnlyClaimed, NoneLost
  <2>4. CASE bufM[w][i] = 1
    BY <1>0, <2>1, <2>4 DEF AtMostOnce, OnePlace, OnlyClaimed, NoneLost
  <2> QED BY <2>2, <2>3, <2>4
<1>6. CASE WriteFeatures(w)
  BY <1>0, <1>6 DEF WriteFeatures, TypeOK, AtMostOnce, OnePlace, OnlyClaimed, NoneLost
<1>7. CASE Finish(w)
  BY <1>0, <1>7 DEF Finish, TypeOK, AtMostOnce, OnePlace, OnlyClaimed, NoneLost
<1> QED BY <1>1, <1>2, <1>3, <1>4, <1>5, <1>6, <1>7 DEF Worker

\* The invariant, over a step.
LEMMA NextInv == BatchInv /\ [Next]_vars => BatchInv'
<1> SUFFICES ASSUME BatchInv, [Next]_vars PROVE BatchInv'
  OBVIOUS
<1>0. TypeOK /\ TypeOK'
  BY NextType DEF BatchInv
<1>1. ASSUME NEW w \in Workers, Worker(w) PROVE BatchInv'
  <2> USE DEF At, Goto
  <2>1. phase = "running" /\ phase' = "running" /\ recorded' = recorded
    BY <1>1 DEF Worker, Claim, SkipUnreadable, Replay, Lock, WriteMetrics, WriteFeatures, Finish
  <2>2. RowsAccountedFor'
    BY <1>1, WorkerKeepsRows
  <2>3. NoDuplicateRow'
    BY <2>1, <2>2 DEF RowsAccountedFor, AtMostOnce, NoDuplicateRow
  <2>4. DrainedKnowsAllClaimed'
    BY <1>0, <1>1, NumWorkAssumption
       DEF BatchInv, DrainedKnowsAllClaimed, TypeOK, Worker, Claim, SkipUnreadable, Replay,
           Lock, WriteMetrics, WriteFeatures, Finish
  <2>5. WrittenIsEmpty'
    BY <1>0, <1>1
       DEF BatchInv, WrittenIsEmpty, TypeOK, Worker, Claim, SkipUnreadable, Replay,
           Lock, WriteMetrics, WriteFeatures, Finish
  <2>6. ClosedIsComplete' /\ RecordedIsExited'
    BY <2>1 DEF BatchInv, ClosedIsComplete, RecordedIsExited
  <2>7. BufferedIsReadable'
    <3> SUFFICES ASSUME NEW v \in Workers, NEW i \in Work, bufM'[v][i] > 0
                 PROVE  Readable(i)'
      BY DEF BufferedIsReadable
    <3>1. Readable(i)' <=> Readable(i)
      BY <1>1 DEF Worker, Claim, SkipUnreadable, Replay, Lock, WriteMetrics, WriteFeatures,
                  Finish, Readable
    <3>2. bufM[v][i] > 0 => Readable(i)
      BY DEF BatchInv, BufferedIsReadable
    <3>3. CASE Replay(w)
      <4>1. bufM' = [bufM EXCEPT ![w] = OneRow(@, cur[w])] /\ Readable(cur[w])
        BY <3>3 DEF Replay, Readable
      <4>2. bufM'[v][i] = bufM[v][i] \/ i = cur[w]
        BY <1>0, <4>1 DEF OneRow, TypeOK, Rows
      <4> QED BY <3>1, <3>2, <4>1, <4>2
    <3>4. CASE WriteMetrics(w)
      <4>1. bufM'[v][i] = bufM[v][i] \/ bufM'[v][i] = 0
        BY <1>0, <3>4 DEF WriteMetrics, TypeOK, NoRows
      <4> QED BY <3>1, <3>2, <4>1
    <3>5. CASE ~Replay(w) /\ ~WriteMetrics(w)
      <4>1. bufM' = bufM
        BY <1>1, <3>5 DEF Worker, Claim, SkipUnreadable, Lock, WriteFeatures, Finish
      <4> QED BY <3>1, <3>2, <4>1
    <3> QED BY <3>3, <3>4, <3>5
  <2> QED BY <1>0, <2>2, <2>3, <2>4, <2>5, <2>6, <2>7 DEF BatchInv
<1>2. CASE JoinAndClose
  <2> USE <1>2 DEF JoinAndClose
  <2>1. ASSUME NEW i \in Work, Readable(i) PROVE fileM[i] = 1
    <3>1. PICK w \in Workers : pc[w] = "exited"
      BY WorkersAssumption
    <3>2. Claimed(i)
      BY <1>0, <3>1, NumWorkAssumption DEF BatchInv, DrainedKnowsAllClaimed, Claimed, Work, TypeOK
    <3>3. \A v \in Workers : ~Holds(v, i)
      BY DEF BatchInv, WrittenIsEmpty, Holds, InFlight, NoRows
    <3> QED BY <2>1, <3>2, <3>3 DEF BatchInv, RowsAccountedFor, NoneLost
  <2> QED BY <1>0, <2>1
       DEF BatchInv, RowsAccountedFor, NoDuplicateRow, DrainedKnowsAllClaimed, WrittenIsEmpty,
           ClosedIsComplete, RecordedIsExited, Readable, BufferedIsReadable
<1>3. CASE RecordRun
  BY <1>0, <1>3 DEF RecordRun, BatchInv, RowsAccountedFor, NoDuplicateRow, Readable,
     DrainedKnowsAllClaimed, WrittenIsEmpty, ClosedIsComplete, RecordedIsExited,
     BufferedIsReadable
<1>4. CASE Kill
  <2>1. NoDuplicateRow'
    <3> SUFFICES ASSUME NEW i \in Work PROVE fileM'[i] <= 1
      BY DEF NoDuplicateRow
    <3>1. fileM'[i] = fileM[i] \/ fileM'[i] = 0
      BY <1>0, <1>4 DEF Kill, Kept, TypeOK
    <3> QED BY <3>1 DEF BatchInv, NoDuplicateRow
  <2> QED BY <1>0, <1>4, <2>1
       DEF Kill, BatchInv, RowsAccountedFor, DrainedKnowsAllClaimed, WrittenIsEmpty,
           ClosedIsComplete, RecordedIsExited, BufferedIsReadable, Readable
<1>5. CASE Ended \/ UNCHANGED vars
  BY <1>0, <1>5 DEF Ended, vars, BatchInv, RowsAccountedFor, AtMostOnce, OnePlace, OnlyClaimed,
     NoneLost, Holds, InFlight, Claimed, Readable, NoDuplicateRow, DrainedKnowsAllClaimed,
     WrittenIsEmpty, ClosedIsComplete, RecordedIsExited, BufferedIsReadable
<1> QED BY <1>1, <1>2, <1>3, <1>4, <1>5 DEF Next

\* While the workers run, every claimed scenario's row is in exactly one place.
THEOREM BatchRowsAccountedFor == Spec => []RowsAccountedFor
<1>1. BatchInv => RowsAccountedFor
  BY DEF BatchInv
<1> QED BY InitInv, NextInv, <1>1, PTL DEF Spec

\* No scenario is written twice, by any interleaving of any number of workers.
THEOREM BatchNoDuplicateRow == Spec => []NoDuplicateRow
<1>1. BatchInv => NoDuplicateRow
  BY DEF BatchInv
<1> QED BY InitInv, NextInv, <1>1, PTL DEF Spec

\* The row in runs.csv vouches for a complete metrics file.
THEOREM BatchRecordedIsComplete == Spec => []RecordedIsComplete
<1>1. BatchInv => RecordedIsComplete
  BY DEF BatchInv, RecordedIsExited, ClosedIsComplete, RecordedIsComplete
<1> QED BY InitInv, NextInv, <1>1, PTL DEF Spec

(***************************************************************************)
(* The batch runner implements RunLedger.                                  *)
(***************************************************************************)

\* The start of a batch is the start of the ledger.
LEMMA LedgerInitially == Init => Ledger!LedgerInit
BY DEF Init, NoRows, Readable, Ledger!LedgerInit

\* A step of the batch is a step of the ledger, or none.
LEMMA StepKeepsLedger ==
  BatchInv /\ [Next]_vars => [Ledger!LedgerNext]_(Ledger!ledger)
<1> SUFFICES ASSUME BatchInv, [Next]_vars
             PROVE  Ledger!LedgerNext \/ UNCHANGED Ledger!ledger
  OBVIOUS
<1> DEFINE R == {i \in Work : Readable(i)}
<1>0. TypeOK
  BY DEF BatchInv
<1>1. ASSUME NEW w \in Workers, WriteMetrics(w) PROVE Ledger!LedgerNext
  <2> DEFINE S == {i \in Work : bufM[w][i] > 0}
  <2>1. /\ phase = "running" /\ phase' = "running"
        /\ UNCHANGED <<kind, recorded>>
        /\ fileM' = Plus(fileM, bufM[w])
        /\ pc[w] # "replay"
    BY <1>1 DEF WriteMetrics, At
  <2>2. ASSUME NEW i \in S
        PROVE  Readable(i) /\ fileM[i] = 0 /\ bufM[w][i] = 1
    <3>1. Holds(w, i) /\ bufM[w][i] \in Nat /\ i \in Work
      BY <1>0 DEF Holds, TypeOK, Rows
    <3>2. /\ fileM[i] = 0
          /\ bufM[w][i] = 1
      BY <2>1, <3>1 DEF BatchInv, RowsAccountedFor, AtMostOnce, OnePlace
    <3>3. Readable(i)
      BY <3>1, <2>1 DEF BatchInv, BufferedIsReadable, Readable
    <3> QED BY <3>2, <3>3
  <2>3. fileM' = [i \in Work |-> IF i \in S THEN 1 ELSE fileM[i]]
    <3>1. ASSUME NEW i \in Work
          PROVE  fileM[i] + bufM[w][i] = IF i \in S THEN 1 ELSE fileM[i]
      <4>1. fileM[i] \in Nat /\ bufM[w][i] \in Nat
        BY <1>0 DEF TypeOK, Rows
      <4> QED BY <4>1, <2>2
    <3> HIDE DEF S
    <3> QED BY <2>1, <3>1 DEF Plus
  <2>4. Ledger!AppendRows(S)
    BY <2>1, <2>2, <2>3 DEF Ledger!AppendRows, Readable
  <2> QED BY <2>4 DEF Ledger!LedgerNext
<1>2. ASSUME NEW w \in Workers, Worker(w), ~WriteMetrics(w) PROVE UNCHANGED Ledger!ledger
  BY <1>2 DEF Worker, Claim, SkipUnreadable, Replay, Lock, WriteFeatures, Finish,
              Ledger!ledger, Readable
<1>3. CASE JoinAndClose
  <2>1. ClosedIsComplete'
    BY NextInv, <1>3 DEF BatchInv
  <2> QED BY <1>3, <2>1
       DEF JoinAndClose, ClosedIsComplete, Ledger!LedgerNext, Ledger!CloseFile, Readable
<1>4. CASE RecordRun
  BY <1>4, <1>0 DEF RecordRun, BatchInv, ClosedIsComplete, RecordedIsExited, TypeOK,
     Ledger!LedgerNext, Ledger!Vouch, Ledger!ledger, Readable
<1>5. CASE Kill
  <2>1. CASE phase = "closed"
    BY <1>5, <2>1 DEF Kill, Ledger!ledger, Readable
  <2>2. ASSUME phase = "running",
               NEW K \in SUBSET Work, fileM' = Kept(fileM, K)
        PROVE  Ledger!LedgerNext
    <3>1. Ledger!CutOff(Work \ K)
      BY <1>5, <2>2 DEF Kill, Kept, Ledger!CutOff, Readable
    <3> QED BY <3>1 DEF Ledger!LedgerNext
  <2> QED BY <1>5, <2>1, <2>2 DEF Kill
<1>6. CASE Ended \/ UNCHANGED vars
  BY <1>6 DEF Ended, vars, Ledger!ledger, Readable
<1> QED BY <1>1, <1>2, <1>3, <1>4, <1>5, <1>6 DEF Next

\* Seen from outside, threads, buffers, mutex and crashes come to appending groups
\* of rows, each scenario once, and vouching only for a complete file.
THEOREM BatchKeepsTheLedger == Spec => KeepsTheLedger
<1>1. Spec => [][BatchInv /\ [Next]_vars]_vars
  BY InitInv, NextInv, PTL DEF Spec
<1> QED BY LedgerInitially, InitInv, NextInv, StepKeepsLedger, PTL
        DEF Spec, KeepsTheLedger, Ledger!LedgerSpec

(***************************************************************************)
(* The summary.  The counters are bumped one by one; what they come to is  *)
(* the number of scenarios that are past the worker's two bumps.           *)
(***************************************************************************)
Busy(w) == pc[w] \in {"replay", "flush", "flushM", "flushF", "finish"}

\* The scenarios that were replayed and feed the counter c, and those that are done.
Replayed(c) ==
  {i \in Work : Claimed(i) /\ c \in CountersOf(kind[i]) /\ \A w \in Workers : ~InFlight(w, i)}

\* The scenarios that are claimed and that no worker is busy with.
Completed == {i \in Work : Claimed(i) /\ \A w \in Workers : ~(Busy(w) /\ cur[w] = i)}

\* No two workers are busy with one scenario, and the counters count.
CountInv ==
  phase = "running" =>
    /\ \A w \in Workers : Busy(w) => cur[w] \in Work /\ Claimed(cur[w])
    /\ \A v, w \in Workers : Busy(v) /\ Busy(w) /\ cur[v] = cur[w] => v = w
    /\ \A c \in Tallied \ {"done"} : tally[c] = Cardinality(Replayed(c))
    /\ tally["done"] = Cardinality(Completed)

\* Any set of scenarios is finite, and one more scenario makes it larger by one.
LEMMA OneMoreScenario ==
  /\ \A S \in SUBSET Work : IsFiniteSet(S) /\ Cardinality(S) \in Nat
  /\ \A S \in SUBSET Work, i \in Work : i \notin S => Cardinality(S \cup {i}) = Cardinality(S) + 1
<1>1. IsFiniteSet(Work)
  BY NumWorkAssumption, FS_Interval DEF Work
<1>2. \A S \in SUBSET Work : IsFiniteSet(S) /\ Cardinality(S) \in Nat
  BY <1>1, FS_Subset, FS_CardinalityType
<1>3. QED
  BY <1>2, FS_AddElement

\* What a scenario counts for; "done" is bumped apart.
LEMMA CountersAreTallied ==
  /\ \A k : CountersOf(k) \subseteq Tallied \ {"done"}
  /\ CountersOf("unreadable") = {"load_fail"}
  BY Zenon DEF CountersOf, Tallied

\* A step of a worker that neither starts nor ends the work on a scenario counts nothing.
LEMMA CountsStay ==
  ASSUME TypeOK, CountInv, NEW w \in Workers, NEW to,
         pc' = [pc EXCEPT ![w] = to], pc[w] # "replay", to # "replay",
         pc[w] \in {"flush", "flushM", "flushF", "finish"}
           <=> to \in {"flush", "flushM", "flushF", "finish"},
         UNCHANGED <<kind, next, cur, tally, phase>>
  PROVE  CountInv'
<1>1. \A v \in Workers : (Busy(v)' <=> Busy(v)) /\ \A i : InFlight(v, i)' <=> InFlight(v, i)
  BY DEF TypeOK, Busy, InFlight
<1>2. \A c : Replayed(c)' = Replayed(c)
  BY <1>1 DEF Replayed, Claimed
<1>3. Completed' = Completed
  BY <1>1 DEF Completed, Claimed
<1>4. QED
  BY <1>1, <1>2, <1>3 DEF CountInv, Claimed

\* Claiming hands out a scenario nobody is busy with, and counts nothing.
LEMMA ClaimCounts == ASSUME TypeOK, CountInv, NEW w \in Workers, Claim(w) PROVE CountInv'
<1>1. /\ next \in Nat /\ next' = next + 1 /\ UNCHANGED <<kind, tally, phase>> /\ phase = "running"
      /\ pc[w] = "claim"
      /\ \A v \in Workers :
           /\ pc'[v] = IF v = w THEN IF next < NumWork THEN "replay" ELSE "drain" ELSE pc[v]
           /\ cur'[v] = IF v = w THEN next ELSE cur[v]
  BY DEF Claim, At, Goto, TypeOK
<1>2. next < NumWork => next \in Work
  BY <1>1, NumWorkAssumption DEF Work
<1>3. \A v \in Workers : Busy(v) => v # w /\ cur[v] \in Work /\ cur[v] < next
  BY <1>1 DEF Busy, CountInv, Claimed
<1>4. \A v \in Workers : (Busy(v)' <=> Busy(v)) \/ (v = w /\ next < NumWork /\ Busy(w)')
  BY <1>1 DEF Busy
<1>5. \A v \in Workers : Busy(v)' => (v = w /\ next < NumWork) \/ (v # w /\ Busy(v))
  BY <1>1 DEF Busy
<1>6. \A v \in Workers : Busy(v)' => cur'[v] \in Work /\ cur'[v] < next'
  <2>1. ASSUME NEW v \in Workers, Busy(v)' PROVE cur'[v] \in Work /\ cur'[v] < next'
    <3>1. CASE v = w /\ next < NumWork
      <4>1. cur'[v] = next /\ next' = next + 1 /\ next \in Nat /\ next \in Work
        BY <1>1, <1>2, <3>1
      <4>2. QED
        BY <4>1
    <3>2. CASE v # w /\ Busy(v)
      <4>1. cur'[v] = cur[v] /\ cur[v] \in Work /\ cur[v] < next
        BY <1>1, <1>3, <3>2
      <4>2. next' = next + 1 /\ next \in Nat /\ cur[v] \in Nat
        BY <1>1, <4>1, WorkIsNat
      <4>3. cur[v] < next'
        BY <4>1, <4>2
      <4>4. QED
        BY <4>1, <4>3, Zenon
    <3>3. QED
      BY <1>5, <2>1, <3>1, <3>2
  <2>2. QED
    BY <2>1
<1>7. \A u, v \in Workers : Busy(u)' /\ Busy(v)' /\ cur'[u] = cur'[v] => u = v
  BY <1>1, <1>3, <1>5, WorkIsNat DEF CountInv
<1>8. \A i \in Work : i < next' <=> i < next \/ i = next
  <2>1. next \in Nat /\ next' = next + 1
    BY <1>1
  <2>2. \A i \in Nat : i < next' <=> i < next \/ i = next
    BY <2>1
  <2>3. QED
    BY <2>2, WorkIsNat
<1>9. \A i \in Work : i = next => Busy(w)' /\ cur'[w] = i /\ InFlight(w, i)'
  <2>1. next \in Work => next < NumWork
    BY NumWorkAssumption DEF Work
  <2>2. QED
    BY <1>1, <2>1 DEF Busy, InFlight
<1>10. \A i \in Work, v \in Workers : i < next => (InFlight(v, i)' <=> InFlight(v, i))
  BY <1>1, WorkIsNat DEF InFlight
<1>11. \A i \in Work, v \in Workers :
         i < next => ((Busy(v)' /\ cur'[v] = i) <=> (Busy(v) /\ cur[v] = i))
  BY <1>1, WorkIsNat DEF Busy
<1>12. \A c : Replayed(c)' = Replayed(c)
  BY <1>1, <1>8, <1>9, <1>10 DEF Replayed, Claimed
<1>13. Completed' = Completed
  BY <1>1, <1>8, <1>9, <1>11 DEF Completed, Claimed
<1>14. QED
  BY <1>1, <1>6, <1>7, <1>12, <1>13 DEF CountInv, Claimed

\* An unreadable scenario is a load failure, and done with.
LEMMA SkipCounts == ASSUME TypeOK, CountInv, NEW w \in Workers, SkipUnreadable(w) PROVE CountInv'
<1> DEFINE i == cur[w]
<1>1. /\ UNCHANGED <<kind, next, cur, phase>> /\ phase = "running" /\ pc[w] = "replay"
      /\ kind[i] = "unreadable"
      /\ tally' = [c \in Tallied |-> IF c \in {"load_fail", "done"} THEN tally[c] + 1 ELSE tally[c]]
      /\ \A v \in Workers : pc'[v] = IF v = w THEN "claim" ELSE pc[v]
  BY DEF SkipUnreadable, At, Goto, Bump, TypeOK
<1>2. Busy(w) /\ i \in Work /\ Claimed(i) /\ InFlight(w, i)
  BY <1>1 DEF CountInv, Busy, InFlight
<1>3. \A v \in Workers : (Busy(v)' <=> v # w /\ Busy(v))
                         /\ \A j : InFlight(v, j)' <=> v # w /\ InFlight(v, j)
  BY <1>1 DEF Busy, InFlight
<1>4. \A v \in Workers : v # w => ~InFlight(v, i) /\ ~(Busy(v) /\ cur[v] = i)
  BY <1>1, <1>2 DEF CountInv, Busy, InFlight
<1>5. \A j : InFlight(w, j) => j = i
  BY DEF InFlight
<1> HIDE DEF i
<1>6. i \notin Completed /\ Completed' = Completed \cup {i}
  BY <1>1, <1>2, <1>3, <1>4 DEF Completed, Claimed, i
<1>7. \A c : i \notin Replayed(c)
             /\ Replayed(c)' = IF c = "load_fail" THEN Replayed(c) \cup {i} ELSE Replayed(c)
  <2>1. ASSUME NEW c PROVE i \notin Replayed(c)
    BY <1>2 DEF Replayed
  <2>2. ASSUME NEW c, NEW j PROVE j \in Replayed(c)' <=> j \in Replayed(c) \/ (j = i /\ c = "load_fail")
    BY <1>1, <1>2, <1>3, <1>4, <1>5, CountersAreTallied DEF Replayed, Claimed
  <2>3. QED
    BY <2>1, <2>2
<1>8. Completed \in SUBSET Work /\ \A c : Replayed(c) \in SUBSET Work
  BY DEF Completed, Replayed
<1>9. \A c \in Tallied \ {"done"} : tally'[c] = Cardinality(Replayed(c)')
  BY <1>1, <1>2, <1>7, <1>8, OneMoreScenario DEF CountInv
<1>10. tally'["done"] = Cardinality(Completed')
  BY <1>1, <1>2, <1>6, <1>8, OneMoreScenario DEF CountInv, Tallied
<1>11. QED
  BY <1>1, <1>3, <1>9, <1>10 DEF CountInv, Claimed

\* A replayed scenario feeds the counters of its status; it is not yet done with.
LEMMA ReplayCounts == ASSUME TypeOK, CountInv, NEW w \in Workers, Replay(w) PROVE CountInv'
<1> DEFINE i == cur[w]
           to == IF local[w] + 1 >= FlushEvery THEN "flush" ELSE "finish"
<1>1. /\ UNCHANGED <<kind, next, cur, phase>> /\ phase = "running" /\ pc[w] = "replay"
      /\ tally' = [c \in Tallied |-> IF c \in CountersOf(kind[i]) THEN tally[c] + 1 ELSE tally[c]]
      /\ \A v \in Workers : pc'[v] = IF v = w THEN to ELSE pc[v]
  BY DEF Replay, At, Goto, Bump, TypeOK
<1>2. Busy(w) /\ i \in Work /\ Claimed(i) /\ InFlight(w, i)
  BY <1>1 DEF CountInv, Busy, InFlight
<1>3. \A v \in Workers : (Busy(v)' <=> Busy(v))
                         /\ \A j : InFlight(v, j)' <=> v # w /\ InFlight(v, j)
  BY <1>1 DEF Busy, InFlight
<1>4. \A v \in Workers : v # w => ~InFlight(v, i)
  BY <1>1, <1>2 DEF CountInv, Busy, InFlight
<1>5. \A j : InFlight(w, j) => j = i
  BY DEF InFlight
<1>6. Completed' = Completed
  BY <1>1, <1>3 DEF Completed, Claimed
<1> HIDE DEF i, to
<1>7. \A c : i \notin Replayed(c)
             /\ Replayed(c)' = IF c \in CountersOf(kind[i]) THEN Replayed(c) \cup {i} ELSE Replayed(c)
  <2>1. ASSUME NEW c PROVE i \notin Replayed(c)
    BY <1>2 DEF Replayed
  <2>2. ASSUME NEW c, NEW j
        PROVE  j \in Replayed(c)' <=> j \in Replayed(c) \/ (j = i /\ c \in CountersOf(kind[i]))
    BY <1>1, <1>2, <1>3, <1>4, <1>5 DEF Replayed, Claimed
  <2>3. QED
    BY <2>1, <2>2
<1>8. \A c : Replayed(c) \in SUBSET Work
  BY DEF Replayed
<1>9. \A c \in Tallied \ {"done"} : tally'[c] = Cardinality(Replayed(c)')
  BY <1>1, <1>2, <1>7, <1>8, OneMoreScenario DEF CountInv
<1>10. tally'["done"] = tally["done"]
  BY <1>1, CountersAreTallied DEF Tallied
<1>11. QED
  BY <1>1, <1>3, <1>6, <1>9, <1>10 DEF CountInv, Claimed

\* The second bump: the scenario is done with.
LEMMA FinishCounts == ASSUME TypeOK, CountInv, NEW w \in Workers, Finish(w) PROVE CountInv'
<1> DEFINE i == cur[w]
<1>1. /\ UNCHANGED <<kind, next, cur, phase>> /\ phase = "running" /\ pc[w] = "finish"
      /\ tally' = [c \in Tallied |-> IF c = "done" THEN tally[c] + 1 ELSE tally[c]]
      /\ \A v \in Workers : pc'[v] = IF v = w THEN "claim" ELSE pc[v]
  BY DEF Finish, At, Goto, Bump, TypeOK
<1>2. Busy(w) /\ i \in Work /\ Claimed(i)
  BY <1>1 DEF CountInv, Busy
<1>3. \A v \in Workers : (Busy(v)' <=> v # w /\ Busy(v)) /\ \A j : InFlight(v, j)' <=> InFlight(v, j)
  BY <1>1 DEF Busy, InFlight
<1>4. \A v \in Workers : v # w => ~(Busy(v) /\ cur[v] = i)
  BY <1>1, <1>2 DEF CountInv
<1>5. \A c : Replayed(c)' = Replayed(c)
  BY <1>1, <1>3 DEF Replayed, Claimed
<1> HIDE DEF i
<1>6. i \notin Completed /\ Completed' = Completed \cup {i}
  BY <1>1, <1>2, <1>3, <1>4 DEF Completed, Claimed, i
<1>7. Completed \in SUBSET Work
  BY DEF Completed
<1>8. tally'["done"] = Cardinality(Completed')
  BY <1>1, <1>2, <1>6, <1>7, OneMoreScenario DEF CountInv, Tallied
<1>9. \A c \in Tallied \ {"done"} : tally'[c] = tally[c]
  BY <1>1
<1>10. QED
  BY <1>1, <1>3, <1>5, <1>8, <1>9 DEF CountInv, Claimed

\* Before the first claim nothing is counted.
LEMMA CountInvInit == Init => CountInv
<1> SUFFICES ASSUME Init PROVE CountInv
  OBVIOUS
<1>1. \A i \in Work : ~Claimed(i)
  BY WorkIsNat DEF Init, Claimed
<1>2. Completed = {} /\ \A c : Replayed(c) = {}
  BY <1>1 DEF Completed, Replayed
<1>3. QED
  BY <1>2, FS_EmptySet DEF Init, CountInv, Busy, Tallied

\* The counters keep counting, whatever step is taken.
LEMMA CountInvNext == TypeOK /\ CountInv /\ [Next]_vars => CountInv'
<1> SUFFICES ASSUME TypeOK, CountInv, [Next]_vars PROVE CountInv'
  OBVIOUS
<1>1. ASSUME NEW w \in Workers, Lock(w) \/ WriteMetrics(w) \/ WriteFeatures(w) PROVE CountInv'
  <2>1. PICK to : pc' = [pc EXCEPT ![w] = to] /\ pc[w] # "replay" /\ to # "replay"
                  /\ (pc[w] \in {"flush", "flushM", "flushF", "finish"}
                        <=> to \in {"flush", "flushM", "flushF", "finish"})
    BY <1>1 DEF Lock, WriteMetrics, WriteFeatures, At, Goto
  <2>2. UNCHANGED <<kind, next, cur, tally, phase>>
    BY <1>1 DEF Lock, WriteMetrics, WriteFeatures
  <2>3. QED
    BY <2>1, <2>2, CountsStay
<1>2. ASSUME NEW w \in Workers, Worker(w) PROVE CountInv'
  BY <1>1, <1>2, ClaimCounts, SkipCounts, ReplayCounts, FinishCounts DEF Worker
<1>3. CASE JoinAndClose \/ RecordRun \/ Kill
  BY <1>3 DEF JoinAndClose, RecordRun, Kill, CountInv
<1>4. CASE UNCHANGED vars
  <2>1. Completed' = Completed /\ \A c : Replayed(c)' = Replayed(c)
    BY <1>4 DEF vars, Completed, Replayed, Claimed, Busy, InFlight
  <2>2. QED
    BY <1>4, <2>1 DEF vars, CountInv, Claimed, Busy
<1>5. QED
  BY <1>2, <1>3, <1>4 DEF Next, Ended

\* The kinds of scenario are told apart by the four counters of a status: each kind feeds
\* exactly one of them.
LEMMA OneStatusEach ==
  \A k : LET S == {"ok", "no_route", "planner_fail", "load_fail"} IN
         \E c \in S : c \in CountersOf(k) /\ \A d \in S : d \in CountersOf(k) => d = c
  BY Zenon DEF CountersOf

\* Four disjoint sets that cover the work list have its size together.
LEMMA FourParts ==
  ASSUME NEW A \in SUBSET Work, NEW B \in SUBSET Work, NEW C \in SUBSET Work, NEW D \in SUBSET Work,
         A \cap B = {}, (A \cup B) \cap C = {}, (A \cup B \cup C) \cap D = {},
         A \cup B \cup C \cup D = Work
  PROVE  Cardinality(A) + Cardinality(B) + Cardinality(C) + Cardinality(D) = NumWork
<1>1. Cardinality(Work) = NumWork
  BY NumWorkAssumption, FS_Interval DEF Work
<1>2. \A S \in SUBSET Work : IsFiniteSet(S) /\ Cardinality(S) \in Nat
  BY OneMoreScenario
<1>3. ASSUME NEW S \in SUBSET Work, NEW T \in SUBSET Work, S \cap T = {}
      PROVE  Cardinality(S \cup T) = Cardinality(S) + Cardinality(T)
  <2>1. Cardinality(S \cap T) = 0
    BY <1>3, FS_EmptySet
  <2>2. Cardinality(S \cup T) = Cardinality(S) + Cardinality(T) - Cardinality(S \cap T)
    BY <1>2, FS_Union
  <2>3. QED
    BY <1>2, <2>1, <2>2
<1>4. Cardinality(A \cup B) = Cardinality(A) + Cardinality(B)
  BY <1>3
<1>5. Cardinality((A \cup B) \cup C) = Cardinality(A \cup B) + Cardinality(C)
  BY <1>3
<1>6. Cardinality((A \cup B \cup C) \cup D) = Cardinality(A \cup B \cup C) + Cardinality(D)
  BY <1>3
<1>7. QED
  BY <1>1, <1>2, <1>4, <1>5, <1>6

\* When the last worker has exited, every scenario has been counted, and has its row.
LEMMA JoinAgrees ==
  ASSUME BatchInv, CountInv, BatchInv', JoinAndClose
  PROVE  SummaryAgreesWithRows'
<1>1. /\ phase = "running" /\ \A w \in Workers : pc[w] = "exited"
      /\ UNCHANGED <<kind, fileM, tally>> /\ phase' = "closed"
  BY DEF JoinAndClose
<1>2. \A i \in Work : Claimed(i)
  <2>1. next >= NumWork
    BY <1>1, WorkersAssumption DEF BatchInv, DrainedKnowsAllClaimed
  <2>2. QED
    BY <2>1, NumWorkAssumption DEF BatchInv, TypeOK, Claimed, Work
<1>3. \A w \in Workers : ~Busy(w) /\ \A i : ~InFlight(w, i)
  BY <1>1 DEF Busy, InFlight
<1> DEFINE feeding(c) == {i \in Work : c \in CountersOf(kind[i])}
<1>4. Completed = Work /\ \A c : Replayed(c) = feeding(c)
  BY <1>2, <1>3 DEF Completed, Replayed
<1>5. Cardinality(Work) = NumWork
  BY NumWorkAssumption, FS_Interval DEF Work
<1>6. \A c \in Tallied \ {"done"} : tally[c] = Cardinality(feeding(c))
  BY <1>1, <1>4 DEF CountInv
<1>7. tally["done"] = NumWork
  BY <1>1, <1>4, <1>5 DEF CountInv
<1> HIDE DEF feeding
<1>8. tally["ok"] + tally["no_route"] + tally["planner_fail"] + tally["load_fail"] = NumWork
  <2>1. \A c : feeding(c) \in SUBSET Work
    BY DEF feeding
  <2>2. \A c, d \in {"ok", "no_route", "planner_fail", "load_fail"} :
          c # d => feeding(c) \cap feeding(d) = {}
    BY OneStatusEach DEF feeding
  <2>3. feeding("ok") \cup feeding("no_route") \cup feeding("planner_fail") \cup feeding("load_fail") = Work
    BY OneStatusEach DEF feeding
  <2>4. Cardinality(feeding("ok")) + Cardinality(feeding("no_route"))
          + Cardinality(feeding("planner_fail")) + Cardinality(feeding("load_fail")) = NumWork
    <3>1. /\ feeding("ok") \cap feeding("no_route") = {}
          /\ (feeding("ok") \cup feeding("no_route")) \cap feeding("planner_fail") = {}
          /\ (feeding("ok") \cup feeding("no_route") \cup feeding("planner_fail"))
               \cap feeding("load_fail") = {}
      BY <2>2
    <3>2. QED
      BY <2>1, <2>3, <3>1, FourParts
  <2>5. QED
    BY <1>6, <2>4 DEF Tallied
<1>9. ASSUME NEW c \in {"ok", "no_route", "planner_fail", "collisions", "at_fault"}
      PROVE  tally'[c] = RowsWith(c)'
  <2>1. ASSUME NEW i \in Work, c \in CountersOf(kind[i]) PROVE fileM'[i] = 1
    <3>1. kind[i] # "unreadable"
      BY <2>1, CountersAreTallied
    <3>2. QED
      BY <1>1, <3>1 DEF BatchInv, ClosedIsComplete, Readable
  <2>2. feeding(c) = {i \in Work : fileM'[i] = 1 /\ c \in CountersOf(kind'[i])}
    BY <1>1, <2>1 DEF feeding
  <2>3. QED
    BY <1>1, <1>6, <2>2 DEF RowsWith, Tallied
<1>10. QED
  BY <1>1, <1>7, <1>8, <1>9 DEF SummaryAgreesWithRows

\* For any number of workers and scenarios and any interleaving of their bumps, flushes and
\* writes, the summary printed at the end says of the run what the metrics file says.
THEOREM BatchSummaryAgrees == Spec => []SummaryAgreesWithRows
<1>1. Init => SummaryAgreesWithRows
  BY DEF Init, SummaryAgreesWithRows
<1>2. BatchInv /\ CountInv /\ SummaryAgreesWithRows /\ BatchInv' /\ [Next]_vars => SummaryAgreesWithRows'
  <2> SUFFICES ASSUME BatchInv, CountInv, SummaryAgreesWithRows, BatchInv', [Next]_vars
               PROVE  SummaryAgreesWithRows'
    OBVIOUS
  <2>1. ASSUME NEW w \in Workers, Worker(w) PROVE SummaryAgreesWithRows'
    BY <2>1 DEF Worker, At, Claim, SkipUnreadable, Replay, Lock, WriteMetrics, WriteFeatures, Finish,
                SummaryAgreesWithRows
  <2>2. CASE JoinAndClose
    BY <2>2, JoinAgrees
  <2>3. CASE RecordRun
    BY <2>3 DEF RecordRun, SummaryAgreesWithRows, RowsWith
  <2>4. CASE Kill
    BY <2>4 DEF Kill, SummaryAgreesWithRows
  <2>5. CASE UNCHANGED vars
    BY <2>5 DEF vars, SummaryAgreesWithRows, RowsWith
  <2>6. QED
    BY <2>1, <2>2, <2>3, <2>4, <2>5 DEF Next, Ended
<1>3. BatchInv => TypeOK
  BY DEF BatchInv
<1>4. QED
  BY <1>1, <1>2, <1>3, InitInv, NextInv, CountInvInit, CountInvNext, PTL DEF Spec

=============================================================================
