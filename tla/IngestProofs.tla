----------------------------- MODULE IngestProofs -----------------------------
(***************************************************************************)
(* What the downloader reports and what the converter delivers, for every  *)
(* number of scenarios, threads, retries, starts and kills, every limit,   *)
(* shard size and every state earlier attempts may have left.              *)
(***************************************************************************)
EXTENDS Ingest, FiniteSetTheorems, SequenceTheorems, TLAPS

-----------------------------------------------------------------------------
(* The invariants.                                                         *)

\* A thread at a file of a scenario.
AtFile == [phase : {"get", "body"}, s : Scenarios, n : {1, 2}, tries : Nat]

\* The downloader: a thread at a file has the earlier files of its scenario, whatever it
\* skipped because it was there; what is reported is so.
FetchInv ==
  /\ dirs \subseteq Scenarios
  /\ raw \in [Scenarios -> [DOMAIN Files -> Content]]
  /\ keys \in {"none", "torn", "whole"}
  /\ fstage \in {"off", "list", "write", "pool", "done", "failed"}
  /\ limit \in 0 .. NumScenarios
  /\ queue \in Nat \ {0}
  /\ outcome \in [Scenarios -> {"pending", "ok", "failed"}]
  /\ job \in [Threads -> AtFile \cup {Idle}]
  /\ \A w \in Threads : job[w] # Idle =>
       \A k \in 1 .. job[w].n - 1 : raw[job[w].s][k] = "whole"
  /\ ReportIsHonest

\* The results the main process has taken, and what it has written into shards.
Taken == {sources[k] : k \in 1 .. taken}
Shipped == UNION {ToSet(listed[n]) : n \in DOMAIN listed}

\* What the converter keeps, by its type.
ConvertType ==
  /\ sources \in Seq(Scenarios)
  /\ taken \in 0 .. Len(sources)
  /\ kept \in Nat
  /\ buffer \in Seq(Scenarios)
  /\ listed \in Seq(Seq(Scenarios))
  /\ result \in [Scenarios -> {"none", "kept", "unfit", "missing_input_files"}]
  /\ conversion \in Nat
  /\ shard = [n \in Scenarios |-> shard[n]]
  /\ cstage \in {"off", "pool", "open", "write", "manifest", "rejections", "done"}

\* The shards and then the buffer are in the order of the directories.
OrderInv ==
  /\ InOrder(sources)
  /\ InOrder(buffer)
  /\ \A n, m \in DOMAIN listed : \A i \in DOMAIN listed[n], j \in DOMAIN listed[m] :
       n < m \/ (n = m /\ i < j) => listed[n][i] < listed[m][j]
  /\ \A n \in DOMAIN listed : \A i \in DOMAIN listed[n], j \in DOMAIN buffer :
       listed[n][i] < buffer[j]

\* Every result that was taken is in a shard or in the buffer, or is rejected, and is
\* counted once.
AccountInv ==
  /\ \A s \in Taken : result[s] # "none"
  /\ ToSet(buffer) \cup Shipped = {s \in Taken : result[s] = "kept"}
  /\ rejected = {[id |-> s, why |-> result[s]] : s \in {t \in Taken : result[t] # "kept"}}
  /\ IsFiniteSet(rejected) /\ IsFiniteSet({s \in Taken : result[s] = "kept"})
  /\ kept = Cardinality({s \in Taken : result[s] = "kept"})
  /\ taken = kept + Cardinality(rejected)

\* A shard that is listed is written and is not empty, so that there are no more shards
\* than scenarios; one that is not full is the last one there will be.
ShardInv ==
  /\ \A n \in DOMAIN listed :
       /\ listed[n] # <<>>
       /\ n <= listed[n][1]
       /\ shard[n] = [state |-> "whole", by |-> conversion, ids |-> listed[n]]
       /\ Len(listed[n]) # ShardSize => n = Len(listed) /\ taken = Len(sources) /\ buffer = <<>>
  /\ cstage = "pool" => Len(buffer) < ShardSize
  /\ cstage \in {"open", "write"} =>
       /\ buffer # <<>>
       /\ Len(buffer) # ShardSize => taken = Len(sources)
  /\ cstage \in {"manifest", "rejections", "done"} => taken = Len(sources) /\ buffer = <<>>

\* The report says what the main process has in memory.
ReportInv ==
  /\ cstage \in {"rejections", "done"} =>
       manifest = [state |-> "whole", by |-> conversion, seen |-> Len(sources), kept |-> kept,
                   rejected |-> Cardinality(rejected), shards |-> listed]
  /\ cstage = "done" => rejections.reasons = rejected

\* What was kept was valid and whole when it was read, and still is; what was ready at the
\* start cannot have another result.
ReadyInv ==
  /\ \A s \in Scenarios : result[s] = "kept" => s \in Valid /\ ScenarioComplete(s)
  /\ \A s \in ready : s \in Valid /\ ScenarioComplete(s) /\ result[s] \in {"none", "kept"}
  /\ \A n \in Scenarios : shard[n].state = "whole" =>
       \A s \in ToSet(shard[n].ids) : s \in Valid /\ ScenarioComplete(s)

\* The invariant of the converter, and that of both programs.
ConvertInv == ConvertType /\ OrderInv /\ AccountInv /\ ShardInv /\ ReportInv

IInv == FetchInv /\ ConvertInv /\ ReadyInv

-----------------------------------------------------------------------------
(* The downloader.                                                         *)

\* A scenario has two files.
LEMMA TwoFiles == DOMAIN Files = {1, 2} /\ Len(Files) = 2
  BY DEF Files

\* The first missing file is missing, and those before it are not.
LEMMA FirstMissing ==
  ASSUME NEW s, NEW n \in {1, 2}, Missing(s, n) # {}
  PROVE  /\ Min(Missing(s, n)) \in {1, 2}
         /\ Min(Missing(s, n)) >= n
         /\ \A k \in n .. Min(Missing(s, n)) - 1 : raw[s][k] = "whole"
<1>1. Missing(s, n) \subseteq {1, 2} /\ \A k \in Missing(s, n) : k >= n
  BY TwoFiles DEF Missing
<1>2. PICK m \in Missing(s, n) : \A k \in Missing(s, n) : m <= k
  <2>1. CASE 1 \in Missing(s, n)
    BY <1>1, <2>1
  <2>2. CASE 1 \notin Missing(s, n)
    BY <1>1, <2>2
  <2>3. QED
    BY <2>1, <2>2
<1>3. Min(Missing(s, n)) = m
  BY <1>1, <1>2 DEF Min
<1>4. \A k \in n .. m - 1 : raw[s][k] = "whole"
  <2> SUFFICES ASSUME NEW k \in n .. m - 1 PROVE raw[s][k] = "whole"
    OBVIOUS
  <2>1. k \notin Missing(s, n) /\ k \in n .. Len(Files)
    BY <1>1, <1>2, TwoFiles
  <2>2. QED
    BY <2>1 DEF Missing
<1>5. QED
  BY <1>1, <1>3, <1>4

\* Nothing is whole, pending or at work that was not before the first invocation.
LEMMA FetchInvInit == Init => FetchInv
<1> SUFFICES ASSUME Init PROVE FetchInv
  OBVIOUS
<1>1. Len(Files) \in Nat /\ NumScenarios \in 0 .. NumScenarios
  BY TwoFiles, NumScenariosAssumption
<1>2. QED
  BY <1>1, EarlierAssumption
  DEF Init, RawInit, FetchInit, FetchInv, ReportIsHonest, Idle

\* While the downloader is used alone or together with the converter, a file that is whole
\* stays whole.
LEMMA WholeStays ==
  FetchInv /\ [Next]_vars =>
    \A s \in Scenarios, n \in DOMAIN Files : raw[s][n] = "whole" => raw'[s][n] = "whole"
<1> SUFFICES ASSUME FetchInv, [Next]_vars
             PROVE  \A s \in Scenarios, n \in DOMAIN Files : raw[s][n] = "whole" => raw'[s][n] = "whole"
  OBVIOUS
<1>1. CASE UNCHANGED raw
  BY <1>1
<1>2. ASSUME NEW w \in Threads, raw' = [raw EXCEPT ![job[w].s][job[w].n] = "whole"]
      PROVE  \A s \in Scenarios, n \in DOMAIN Files : raw[s][n] = "whole" => raw'[s][n] = "whole"
  BY <1>2 DEF FetchInv
<1>3. QED
  BY <1>1, <1>2
  DEF Next, Fetching, Converting, FetchNext, FetchStep, StartFetch, ListFails, OpenKeys, WriteKeys,
      Thread, TakeScenario, Get, Receive, Collect, KillFetch, ConvertNext, ConvertStep, StartConvert,
      Compute, Take, LastFlush, OpenShard, WriteShard, WriteReport, KillConvert, vars, rawFiles

\* What is so of the reports stays so, whatever the converter does meanwhile.
LEMMA FetchInvIdle ==
  FetchInv /\ UNCHANGED <<rawFiles, fetch>> => FetchInv'
  BY DEF FetchInv, ReportIsHonest, ScenarioComplete, rawFiles, fetch

\* A start, a listing and a kill report nothing.
LEMMA FetchInvMain ==
  ASSUME FetchInv, StartFetch \/ ListFails \/ OpenKeys \/ WriteKeys \/ KillFetch
  PROVE  FetchInv'
<1> USE DEF FetchInv, ReportIsHonest, rawFiles
<1>1. UNCHANGED rawFiles /\ \A s \in Scenarios : ScenarioComplete(s)' <=> ScenarioComplete(s)
  BY DEF StartFetch, ListFails, OpenKeys, WriteKeys, KillFetch, rawFiles, ScenarioComplete
<1>2. CASE StartFetch
  <2>1. limit' \in 0 .. NumScenarios
    BY <1>2, LimitsAssumption DEF StartFetch
  <2>2. fstage' \in {"list", "failed", "pool"}
    BY <1>2, Zenon DEF StartFetch
  <2>3. QED
    BY <1>1, <1>2, <2>1, <2>2 DEF StartFetch
<1>3. CASE ListFails \/ OpenKeys \/ WriteKeys
  BY <1>1, <1>3 DEF ListFails, OpenKeys, WriteKeys
<1>4. CASE KillFetch
  BY <1>1, <1>4, NumScenariosAssumption DEF KillFetch, Idle
<1>5. QED
  BY <1>2, <1>3, <1>4

\* A thread that goes on has the files before the one it goes on to, and reports its
\* scenario when it has both.
LEMMA FetchInvThread ==
  ASSUME FetchInv, [Next]_vars, NEW w \in Threads, Thread(w)
  PROVE  FetchInv'
<1> USE DEF FetchInv, ReportIsHonest
<1>1. \A s \in Scenarios : ScenarioComplete(s) => ScenarioComplete(s)'
  BY WholeStays DEF ScenarioComplete
<1>2. /\ fstage = "pool" /\ fstage' = "pool" /\ UNCHANGED <<keys, limit>>
      /\ queue' \in Nat \ {0}
  BY DEF Thread, TakeScenario, Get, Receive, InPhase
<1>3. dirs' \subseteq Scenarios /\ raw' \in [Scenarios -> [DOMAIN Files -> Content]]
  <2>1. dirs' \subseteq Scenarios
    BY NumScenariosAssumption DEF Thread, TakeScenario, Get, Receive, rawFiles, Scenarios
  <2>2. CASE UNCHANGED raw
    BY <2>1, <2>2
  <2>3. CASE raw' = [raw EXCEPT ![job[w].s][job[w].n] = "whole"]
    BY <2>1, <2>3 DEF Content
  <2>4. QED
    BY <2>2, <2>3 DEF Thread, TakeScenario, Get, Receive, rawFiles
<1>4. \A s \in Scenarios, n \in {1, 2} : raw[s][n] = "whole" => raw'[s][n] = "whole"
  BY WholeStays, TwoFiles
\* It is enough to look at this thread's job and the outcome of its scenario.
<1>5. ASSUME NEW new, job' = [job EXCEPT ![w] = new], new \in AtFile \cup {Idle},
             new # Idle => \A k \in 1 .. new.n - 1 : raw'[new.s][k] = "whole",
             \/ UNCHANGED outcome
             \/ \E s \in Scenarios, report \in {"ok", "failed"} :
                  outcome' = [outcome EXCEPT ![s] = report] /\ (report = "ok" => ScenarioComplete(s)')
      PROVE  FetchInv'
  <2>1. job' \in [Threads -> AtFile \cup {Idle}]
    BY <1>5
  <2>2. ASSUME NEW v \in Threads, job'[v] # Idle, NEW k \in 1 .. job'[v].n - 1
        PROVE  raw'[job'[v].s][k] = "whole"
    <3>1. CASE v = w
      BY <1>5, <2>2, <3>1
    <3>2. CASE v # w
      <4>1. job'[v] = job[v] /\ job[v] \in AtFile
        BY <1>5, <2>2, <3>2
      <4>2. job[v].s \in Scenarios /\ k \in {1, 2} /\ raw[job[v].s][k] = "whole"
        BY <2>2, <4>1 DEF AtFile
      <4>3. QED
        BY <1>4, <4>1, <4>2
    <3>3. QED
      BY <3>1, <3>2
  <2>3. /\ outcome' \in [Scenarios -> {"pending", "ok", "failed"}]
        /\ \A s \in Scenarios : outcome'[s] = "ok" => ScenarioComplete(s)'
    BY <1>1, <1>5
  <2>4. QED
    BY <1>2, <1>3, <2>1, <2>2, <2>3
<1>6. CASE TakeScenario(w)
  <2>1. queue \in Scenarios /\ UNCHANGED raw
    BY <1>6, NumScenariosAssumption DEF TakeScenario, Scenarios
  <2>2. CASE ScenarioComplete(queue)
    <3>1. UNCHANGED job /\ outcome' = [outcome EXCEPT ![queue] = "ok"]
      BY <1>6, <2>2 DEF TakeScenario
    <3>2. job' = [job EXCEPT ![w] = job[w]]
      BY <3>1
    <3>3. job[w] \in AtFile \cup {Idle} /\ job[w] = Idle
      BY <1>6 DEF TakeScenario, InPhase, AtFile, Idle
    <3>4. \A n \in DOMAIN Files : raw'[queue][n] = "whole"
      BY <2>1, <2>2 DEF ScenarioComplete
    <3>5. \E s \in Scenarios, report \in {"ok", "failed"} :
            outcome' = [outcome EXCEPT ![s] = report] /\ (report = "ok" => ScenarioComplete(s)')
      BY <2>1, <3>1, <3>4 DEF ScenarioComplete
    <3>6. QED
      BY <1>5, <3>2, <3>3, <3>5
  <2>3. CASE ~ScenarioComplete(queue)
    <3> DEFINE new == [phase |-> "get", s |-> queue, n |-> Min(Missing(queue, 1)), tries |-> 0]
    <3>1. Missing(queue, 1) # {}
      BY <2>3, TwoFiles DEF Missing, ScenarioComplete
    <3>2. /\ new.n \in {1, 2} /\ \A k \in 1 .. new.n - 1 : raw[queue][k] = "whole"
      BY <3>1, FirstMissing
    <3>3. job' = [job EXCEPT ![w] = new] /\ UNCHANGED outcome
      BY <1>6, <2>3 DEF TakeScenario
    <3>4. new \in AtFile
      BY <2>1, <3>2 DEF AtFile
    <3>5. \A k \in 1 .. new.n - 1 : raw'[new.s][k] = "whole"
      BY <2>1, <3>2
    <3> HIDE DEF new
    <3>6. QED
      BY <1>5, <3>3, <3>4, <3>5
  <2>4. QED
    BY <2>2, <2>3
<1>7. ASSUME GiveUp(w), job[w] \in AtFile
      PROVE  FetchInv'
  <2>1. job' = [job EXCEPT ![w] = Idle] /\ job[w].s \in Scenarios
    BY <1>7 DEF GiveUp, AtFile
  <2>2. outcome' = [outcome EXCEPT ![job[w].s] = "failed"]
    BY <1>7 DEF GiveUp
  <2>3. QED
    BY <1>5, <2>1, <2>2
<1>8. ASSUME NEW p \in {"get", "body"}, InPhase(w, p)
      PROVE  job[w] \in AtFile /\ job[w] # Idle
  BY <1>8 DEF InPhase, Idle, AtFile
<1>9. CASE Get(w)
  <2>1. job[w] \in AtFile /\ job[w] # Idle /\ UNCHANGED raw
    BY <1>8, <1>9 DEF Get, rawFiles
  <2>2. ASSUME NEW new, job' = [job EXCEPT ![w] = new], UNCHANGED outcome,
               new \in AtFile, new.s = job[w].s, new.n = job[w].n
        PROVE  FetchInv'
    BY <1>5, <2>1, <2>2
  <2>3. CASE job' = [job EXCEPT ![w].tries = @ + 1] /\ UNCHANGED outcome
    <3> DEFINE new == [job[w] EXCEPT !.tries = @ + 1]
    <3>1. job' = [job EXCEPT ![w] = new]
      BY <2>3
    <3>2. new \in AtFile /\ new.s = job[w].s /\ new.n = job[w].n
      BY <2>1 DEF AtFile
    <3> HIDE DEF new
    <3>3. QED
      BY <2>2, <2>3, <3>1, <3>2
  <2>4. CASE job' = [job EXCEPT ![w].phase = "body"] /\ UNCHANGED outcome
    <3> DEFINE new == [job[w] EXCEPT !.phase = "body"]
    <3>1. job' = [job EXCEPT ![w] = new]
      BY <2>4
    <3>2. new \in AtFile /\ new.s = job[w].s /\ new.n = job[w].n
      BY <2>1 DEF AtFile
    <3> HIDE DEF new
    <3>3. QED
      BY <2>2, <2>4, <3>1, <3>2
  <2>5. QED
    BY <1>7, <1>9, <2>1, <2>3, <2>4 DEF Get
<1>10. CASE Receive(w)
  <2>1. job[w] \in AtFile /\ job[w] # Idle
    BY <1>8, <1>10 DEF Receive
  <2> DEFINE s == job[w].s
             n == job[w].n
             rest == Missing(s, n + 1)
  <2>2. s \in Scenarios /\ n \in {1, 2} /\ \A k \in 1 .. n - 1 : raw[s][k] = "whole"
    BY <2>1 DEF AtFile
  <2>3. ASSUME Onward(w), raw' = [raw EXCEPT ![s][n] = "whole"]
        PROVE  FetchInv'
    <3>1. raw'[s][n] = "whole" /\ \A k \in 1 .. n - 1 : raw'[s][k] = "whole"
      BY <1>4, <2>2, <2>3, TwoFiles
    <3>2. CASE rest # {}
      <4> DEFINE new == [phase |-> "get", s |-> s, n |-> Min(rest), tries |-> 0]
      <4>1. n + 1 \in {1, 2}
        BY <2>2, <3>2, TwoFiles DEF Missing
      <4>2. Min(rest) \in {1, 2} /\ Min(rest) >= n + 1
            /\ \A k \in n + 1 .. Min(rest) - 1 : raw[s][k] = "whole"
        BY <3>2, <4>1, FirstMissing
      <4>3. job' = [job EXCEPT ![w] = new] /\ UNCHANGED outcome
        BY <2>3, <3>2, <2>1 DEF Onward
      <4>4. new \in AtFile
        BY <2>2, <4>2 DEF AtFile
      <4>5. ASSUME NEW k \in 1 .. new.n - 1 PROVE raw'[new.s][k] = "whole"
        <5>1. k \in 1 .. n - 1 \/ k = n \/ k \in n + 1 .. Min(rest) - 1
          BY <2>2, <4>2
        <5>2. k \in {1, 2}
          BY <4>2
        <5>3. QED
          BY <1>4, <2>2, <3>1, <4>2, <5>1, <5>2
      <4> HIDE DEF new
      <4>6. QED
        BY <1>5, <4>3, <4>4, <4>5
    <3>3. CASE rest = {}
      <4>1. job' = [job EXCEPT ![w] = Idle] /\ outcome' = [outcome EXCEPT ![s] = "ok"]
        BY <2>3, <3>3 DEF Onward
      <4>2. \A k \in {1, 2} : raw'[s][k] = "whole"
        <5> SUFFICES ASSUME NEW k \in {1, 2} PROVE raw'[s][k] = "whole"
          OBVIOUS
        <5>1. CASE k <= n
          BY <2>2, <3>1, <5>1
        <5>2. CASE k > n
          <6>1. raw[s][k] = "whole"
            BY <2>2, <3>3, <5>2, TwoFiles DEF Missing
          <6>2. QED
            BY <1>4, <2>2, <6>1
        <5>3. QED
          BY <2>2, <5>1, <5>2
      <4> HIDE DEF s
      <4>3. \E t \in Scenarios, report \in {"ok", "failed"} :
              outcome' = [outcome EXCEPT ![t] = report] /\ (report = "ok" => ScenarioComplete(t)')
        BY <2>2, <4>1, <4>2, TwoFiles DEF ScenarioComplete
      <4>4. QED
        BY <1>5, <4>1, <4>3
    <3>4. QED
      BY <3>2, <3>3
  <2>4. QED
    BY <1>7, <1>10, <2>1, <2>3 DEF Receive
<1>11. QED
  BY <1>6, <1>9, <1>10 DEF Thread

\* A run ends well when every scenario it was asked for is reported and none failed.
LEMMA FetchInvCollect ==
  ASSUME FetchInv, Collect PROVE FetchInv'
<1>1. 1 .. limit \subseteq Scenarios
  BY NumScenariosAssumption DEF FetchInv, Scenarios
<1>2. fstage' \in {"failed", "done"} /\ UNCHANGED <<rawFiles, keys, queue, job, outcome, limit>>
  BY DEF Collect, rawFiles
<1>3. fstage' = "done" => \A s \in 1 .. limit : outcome[s] = "ok"
  BY <1>1 DEF Collect, FetchInv
<1>4. QED
  BY <1>1, <1>2, <1>3 DEF FetchInv, ReportIsHonest, ScenarioComplete, rawFiles

\* Every step of the two programs keeps it.
LEMMA FetchInvNext == FetchInv /\ [Next]_vars => FetchInv'
<1> SUFFICES ASSUME FetchInv, [Next]_vars PROVE FetchInv'
  OBVIOUS
<1>1. CASE FetchNext
  BY <1>1, FetchInvMain, FetchInvThread, FetchInvCollect DEF FetchNext, FetchStep
<1>2. CASE UNCHANGED <<rawFiles, fetch>>
  BY <1>2, FetchInvIdle
<1>3. ConvertNext => UNCHANGED rawFiles
  BY DEF ConvertNext, ConvertStep, StartConvert, Compute, Take, LastFlush, OpenShard, WriteShard,
         WriteReport, KillConvert, rawFiles
<1>4. QED
  BY <1>1, <1>2, <1>3 DEF Next, Fetching, Converting, vars

\* What the downloader reports is so, whatever earlier attempts left, whichever requests
\* fail, are repeated or break off, and whenever it is killed.
THEOREM IngestReportIsHonest == Spec => []ReportIsHonest
<1>1. FetchInv => ReportIsHonest
  BY DEF FetchInv
<1>2. QED
  BY <1>1, FetchInvInit, FetchInvNext, PTL DEF Spec

-----------------------------------------------------------------------------
(* The converter.                                                          *)

\* Everything ConvertInv speaks of.
converting == <<cstage, sources, result, taken, kept, buffer, listed, rejected, conversion,
                shard, manifest, rejections>>

\* Its invariant speaks of its own variables only.
LEMMA ConvertInvIdle ==
  ConvertInv /\ UNCHANGED converting => ConvertInv'
<1> SUFFICES ASSUME ConvertInv, UNCHANGED converting PROVE ConvertInv'
  OBVIOUS
<1> USE DEF converting, ConvertInv
<1>1. ConvertType'
  BY DEF ConvertType
<1>2. OrderInv'
  BY DEF OrderInv, InOrder
<1>3. Taken' = Taken /\ Shipped' = Shipped
  BY DEF Taken, Shipped
<1>4. AccountInv'
  BY <1>3 DEF AccountInv
<1>5. ShardInv' /\ ReportInv'
  BY DEF ShardInv, ReportInv
<1>6. QED
  BY <1>1, <1>2, <1>4, <1>5

\* No result is taken yet.
Fresh ==
  /\ sources \in Seq(Scenarios) /\ InOrder(sources)
  /\ conversion \in Nat
  /\ cstage \in {"off", "pool"}
  /\ shard = [n \in Scenarios |-> shard[n]]
  /\ result = [s \in Scenarios |-> "none"]
  /\ taken = 0 /\ kept = 0
  /\ buffer = <<>> /\ listed = <<>> /\ rejected = {}

\* Then there is nothing to account for.
LEMMA NothingTaken == Fresh => ConvertInv
<1> SUFFICES ASSUME Fresh PROVE ConvertInv
  OBVIOUS
<1> USE DEF Fresh
<1>1. Taken = {} /\ Shipped = {} /\ ToSet(buffer) = {}
  BY DEF Taken, Shipped, ToSet
<1>2. ConvertType
  BY DEF ConvertType
<1>3. OrderInv
  BY DEF OrderInv, InOrder
<1>4. AccountInv
  BY <1>1, FS_EmptySet DEF AccountInv
<1>5. ShardInv /\ ReportInv
  BY ShardSizeAssumption DEF ShardInv, ReportInv
<1>6. QED
  BY <1>2, <1>3, <1>4, <1>5 DEF ConvertInv

\* Before the first start nothing is converted.
LEMMA ConvertInvInit == Init => ConvertInv /\ ReadyInv
<1> SUFFICES ASSUME Init PROVE ConvertInv /\ ReadyInv
  OBVIOUS
<1>1. ConvertInv
  <2>1. InOrder(<<>>)
    BY DEF InOrder
  <2>2. QED
    BY <2>1, NothingTaken DEF Init, ConvertInit, Fresh
<1>2. ReadyInv
  BY DEF Init, ConvertInit, ReadyInv, Absent
<1>3. QED
  BY <1>1, <1>2

\* The smaller of two numbers.
LEMMA SmallerOfTwo ==
  ASSUME NEW a \in Nat, NEW b \in Nat
  PROVE  Min({a, b}) \in Nat /\ Min({a, b}) <= b
<1>1. PICK m \in {a, b} : \A k \in {a, b} : m <= k
  OBVIOUS
<1>2. Min({a, b}) = m
  BY <1>1 DEF Min
<1>3. QED
  BY <1>1, <1>2

\* The listing is sorted, and so is its beginning.
LEMMA StartInv ==
  ASSUME FetchInv, ConvertInv, StartConvert PROVE ConvertInv'
<1> DEFINE count == Cardinality(dirs)
<1>1. count \in Nat
  <2>1. IsFiniteSet(Scenarios)
    BY FS_Interval, NumScenariosAssumption DEF Scenarios
  <2>2. IsFiniteSet(dirs)
    BY <2>1, FS_Subset DEF FetchInv
  <2>3. QED
    BY <2>2, FS_CardinalityType
<1> HIDE DEF count
<1>2. PICK most \in Limits, all \in [1 .. count -> dirs] :
        InOrder(all) /\ sources' = SubSeq(all, 1, Min({most, count}))
  BY DEF StartConvert, count
<1> DEFINE m == Min({most, count})
<1>3. m \in 0 .. count
  BY <1>1, SmallerOfTwo, LimitsAssumption, NumScenariosAssumption
<1>4. sources' = SubSeq(all, 1, m)
  BY <1>2
<1> HIDE DEF m
<1>5. \A i \in 1 .. m : all[i] \in Scenarios
  BY <1>1, <1>3 DEF FetchInv
<1>6. sources' \in Seq(Scenarios) /\ Len(sources') = m /\ \A i \in 1 .. m : sources'[i] = all[i]
  BY <1>3, <1>4, <1>5, SubSeqProperties
<1>7. InOrder(sources)'
  <2> SUFFICES ASSUME NEW i \in 1 .. m, NEW j \in 1 .. m, i < j PROVE sources'[i] < sources'[j]
    BY <1>6 DEF InOrder
  <2>1. all[i] < all[j]
    BY <1>1, <1>2, <1>3 DEF InOrder
  <2>2. QED
    BY <1>6, <2>1
<1>8. cstage' = "pool" /\ conversion' \in Nat /\ UNCHANGED shard
  BY DEF StartConvert, ConvertInv, ConvertType, cache
<1>9. Afresh
  BY DEF StartConvert
<1>10. Fresh'
  BY <1>6, <1>7, <1>8, <1>9 DEF Fresh, Afresh, ConvertInv, ConvertType
<1>11. QED
  BY <1>10, NothingTaken, PTL

\* A killed converter has nothing to account for.
LEMMA KillInv ==
  ASSUME ConvertInv, KillConvert PROVE ConvertInv'
<1>1. InOrder(<<>>)
  BY DEF InOrder
<1>2. Fresh'
  <2>1. InOrder(sources)'
    BY <1>1 DEF KillConvert
  <2>2. QED
    BY <2>1 DEF Fresh, KillConvert, Afresh, ConvertInv, ConvertType, cache
<1>3. QED
  BY <1>2, NothingTaken, PTL

\* What is taken are scenarios, and what is written or buffered was taken.
LEMMA TakenScenarios ==
  ASSUME ConvertInv
  PROVE  /\ Taken \subseteq Scenarios
         /\ \A j \in DOMAIN buffer : buffer[j] \in Taken
         /\ \A n \in DOMAIN listed : \A i \in DOMAIN listed[n] : listed[n][i] \in Taken
<1>1. Taken \subseteq Scenarios
  BY DEF ConvertInv, ConvertType, Taken
<1>2. ToSet(buffer) \subseteq Taken /\ Shipped \subseteq Taken
  BY DEF ConvertInv, AccountInv
<1>3. QED
  <2>1. \A j \in DOMAIN buffer : buffer[j] \in ToSet(buffer)
    BY DEF ToSet
  <2>2. \A n \in DOMAIN listed : ToSet(listed[n]) \subseteq Shipped
    BY Zenon DEF Shipped
  <2>3. \A n \in DOMAIN listed : \A i \in DOMAIN listed[n] : listed[n][i] \in ToSet(listed[n])
    BY DEF ToSet
  <2>4. QED
    BY <1>1, <1>2, <2>1, <2>2, <2>3

\* A process of the pool only adds a result, of a scenario that was not taken.
LEMMA ComputeInv ==
  ASSUME ConvertInv, NEW s \in Scenarios, Compute(s)
  PROVE  ConvertInv'
<1> USE DEF ConvertInv
<1>1. /\ UNCHANGED <<cstage, sources, taken, kept, buffer, listed, rejected, conversion, shard,
                     manifest, rejections>>
      /\ result[s] = "none" /\ result' = [result EXCEPT ![s] = Converted(s)]
  BY DEF Compute, cache
<1>2. Taken' = Taken /\ Shipped' = Shipped
  BY <1>1 DEF Taken, Shipped
<1>3. \A t \in Taken : result'[t] = result[t]
  BY <1>1, TakenScenarios DEF ConvertType, AccountInv
<1>4. ConvertType'
  <2>1. Converted(s) \in {"missing_input_files", "kept", "unfit"}
    BY Zenon DEF Converted
  <2>2. QED
    BY <1>1, <2>1 DEF ConvertType
<1>5. OrderInv'
  BY <1>1 DEF OrderInv, InOrder
<1>6. AccountInv'
  <2>1. {t \in Taken : result'[t] = "kept"} = {t \in Taken : result[t] = "kept"}
    BY <1>3
  <2>2. {[id |-> t, why |-> result'[t]] : t \in {t \in Taken : result'[t] # "kept"}} = rejected
    BY <1>3 DEF AccountInv
  <2>3. QED
    BY <1>1, <1>2, <1>3, <2>1, <2>2 DEF AccountInv
<1>7. ShardInv' /\ ReportInv'
  BY <1>1 DEF ShardInv, ReportInv
<1>8. QED
  BY <1>4, <1>5, <1>6, <1>7

\* The next scenario follows, in the order of the directories, all that were taken.
LEMMA NextIsLater ==
  ASSUME ConvertInv, taken < Len(sources)
  PROVE  /\ sources[taken + 1] \in Scenarios
         /\ \A t \in Taken : t < sources[taken + 1]
         /\ Taken \cup {sources[taken + 1]} = {sources[k] : k \in 1 .. taken + 1}
<1> USE DEF ConvertInv, ConvertType
<1>1. taken \in Nat /\ taken + 1 \in 1 .. Len(sources) /\ DOMAIN sources = 1 .. Len(sources)
  OBVIOUS
<1>2. \A t \in Taken : t < sources[taken + 1]
  BY <1>1 DEF Taken, OrderInv, InOrder
<1>3. \A k \in 1 .. taken + 1 : k \in 1 .. taken \/ k = taken + 1
  BY <1>1
<1>4. 1 .. taken \subseteq 1 .. taken + 1 /\ taken + 1 \in 1 .. taken + 1
  BY <1>1
<1>5. Taken \cup {sources[taken + 1]} = {sources[k] : k \in 1 .. taken + 1}
  BY <1>3, <1>4, Zenon DEF Taken
<1>6. QED
  BY <1>1, <1>2, <1>5

\* A result that is taken goes to the end of the buffer, or to the rejected ones, and is
\* counted there; a buffer that is full is written before the next one is taken.
LEMMA TakeInv ==
  ASSUME ConvertInv, Take
  PROVE  ConvertInv'
<1> USE DEF ConvertInv
<1> DEFINE s == sources[taken + 1]
           keeps == {t \in Taken : result[t] = "kept"}
           drops == {t \in Taken : result[t] # "kept"}
<1>1. /\ cstage = "pool" /\ taken < Len(sources) /\ result[s] # "none" /\ taken' = taken + 1
      /\ UNCHANGED <<sources, result, listed, conversion, shard, manifest, rejections>>
  BY DEF Take, cache
<1>2. s \in Scenarios /\ s \notin Taken /\ (\A t \in Taken : t < s) /\ Taken' = Taken \cup {s}
  <2>1. s \in Scenarios /\ \A t \in Taken : t < s
    BY <1>1, NextIsLater
  <2>2. Taken' = Taken \cup {s}
    BY <1>1, NextIsLater DEF Taken
  <2>3. QED
    BY <2>1, <2>2 DEF Scenarios
<1>3. Shipped' = Shipped /\ Taken \subseteq Scenarios
  BY <1>1, TakenScenarios DEF Shipped
<1>4. /\ taken \in Nat /\ kept \in Nat /\ taken' \in 0 .. Len(sources') /\ Len(sources) \in Nat
      /\ buffer \in Seq(Scenarios)
  BY <1>1 DEF ConvertType
<1>5. IsFiniteSet(keeps) /\ IsFiniteSet(rejected)
  BY DEF AccountInv
<1> HIDE DEF s
<1>6. CASE result[s] = "kept"
  <2>1. /\ kept' = kept + 1 /\ buffer' = Append(buffer, s) /\ UNCHANGED rejected
        /\ cstage' = IF Len(buffer') >= ShardSize THEN "open" ELSE "pool"
    BY <1>6 DEF Take, s
  <2>2. /\ buffer' \in Seq(Scenarios) /\ Len(buffer') = Len(buffer) + 1
        /\ \A j \in DOMAIN buffer : j \in DOMAIN buffer' /\ buffer'[j] = buffer[j]
        /\ buffer'[Len(buffer) + 1] = s
        /\ DOMAIN buffer' = DOMAIN buffer \cup {Len(buffer) + 1}
    BY <1>2, <1>4, <2>1
  <2>3. ConvertType'
    BY <1>1, <1>4, <2>1, <2>2 DEF ConvertType
  <2>4. OrderInv'
    <3>1. ASSUME NEW i \in DOMAIN buffer', NEW j \in DOMAIN buffer', i < j
          PROVE  buffer'[i] < buffer'[j]
      <4>1. i \in DOMAIN buffer
        BY <1>4, <2>2, <3>1
      <4>2. buffer[i] < s
        BY <1>2, <4>1, TakenScenarios
      <4>3. j \in DOMAIN buffer => buffer[i] < buffer[j]
        BY <3>1, <4>1 DEF OrderInv, InOrder
      <4>4. QED
        BY <2>2, <4>1, <4>2, <4>3
    <3>2. ASSUME NEW n \in DOMAIN listed, NEW i \in DOMAIN listed[n], NEW j \in DOMAIN buffer'
          PROVE  listed[n][i] < buffer'[j]
      <4>1. listed[n][i] < s
        BY <1>2, TakenScenarios
      <4>2. j \in DOMAIN buffer => listed[n][i] < buffer[j]
        BY DEF OrderInv
      <4>3. QED
        BY <2>2, <4>1, <4>2
    <3>3. QED
      BY <1>1, <3>1, <3>2 DEF OrderInv, InOrder
  <2>5. AccountInv'
    <3>1. {t \in Taken' : result'[t] = "kept"} = keeps \cup {s}
      BY <1>1, <1>2, <1>6
    <3>2. {t \in Taken' : result'[t] # "kept"} = drops
      BY <1>1, <1>2, <1>6
    <3>3. ToSet(buffer') = ToSet(buffer) \cup {s}
      <4>1. ToSet(buffer) \cup {s} \subseteq ToSet(buffer')
        BY <2>2 DEF ToSet
      <4>2. ToSet(buffer') \subseteq ToSet(buffer) \cup {s}
        BY <2>2 DEF ToSet
      <4>3. QED
        BY <4>1, <4>2
    <3>4. IsFiniteSet(keeps \cup {s}) /\ Cardinality(keeps \cup {s}) = Cardinality(keeps) + 1
      BY <1>2, <1>5, FS_AddElement
    <3>5. rejected' = {[id |-> t, why |-> result'[t]] : t \in drops}
      BY <1>1, <2>1 DEF AccountInv
    <3>6. /\ \A t \in Taken' : result'[t] # "none"
          /\ ToSet(buffer') \cup Shipped' = keeps \cup {s}
      BY <1>1, <1>2, <1>3, <3>3 DEF AccountInv
    <3>7. kept = Cardinality(keeps) /\ taken = kept + Cardinality(rejected)
          /\ Cardinality(rejected) \in Nat
      BY <1>5, FS_CardinalityType DEF AccountInv
    <3> HIDE DEF keeps, drops
    <3>8. kept' = Cardinality(keeps \cup {s}) /\ taken' = kept' + Cardinality(rejected')
      BY <1>1, <1>4, <2>1, <3>4, <3>7
    <3>9. QED
      BY <1>5, <2>1, <3>1, <3>2, <3>4, <3>5, <3>6, <3>8 DEF AccountInv
  <2>6. ShardInv'
    <3>1. \A n \in DOMAIN listed : Len(listed[n]) = ShardSize
      <4>1. taken # Len(sources)
        BY <1>1, <1>4
      <4>2. QED
        BY <4>1, Zenon DEF ShardInv
    <3>2. cstage' = "open" => buffer' # <<>> /\ Len(buffer') = ShardSize
      BY <1>1, <1>4, <2>1, <2>2, ShardSizeAssumption DEF ShardInv
    <3>3. cstage' = "pool" => Len(buffer') < ShardSize
      BY <1>4, <2>1, <2>2, ShardSizeAssumption
    <3>4. cstage' \in {"open", "pool"}
      BY <2>1
    <3>5. QED
      BY <1>1, <3>1, <3>2, <3>3, <3>4 DEF ShardInv
  <2>7. ReportInv'
    BY <2>1 DEF ReportInv
  <2>8. QED
    BY <2>3, <2>4, <2>5, <2>6, <2>7
<1>7. CASE result[s] # "kept"
  <2> DEFINE entry == [id |-> s, why |-> result[s]]
  <2>1. rejected' = rejected \cup {entry} /\ UNCHANGED <<kept, buffer, cstage>>
    BY <1>7 DEF Take, s
  <2>2. ConvertType'
    BY <1>1, <1>4, <2>1 DEF ConvertType
  <2>3. OrderInv'
    BY <1>1, <2>1 DEF OrderInv, InOrder
  <2>4. AccountInv'
    <3>1. {t \in Taken' : result'[t] = "kept"} = keeps
      BY <1>1, <1>2, <1>7
    <3>2. {t \in Taken' : result'[t] # "kept"} = drops \cup {s}
      BY <1>1, <1>2, <1>7
    <3>3. rejected = {[id |-> t, why |-> result[t]] : t \in drops}
      BY DEF AccountInv
    <3>4. rejected' = {[id |-> t, why |-> result'[t]] : t \in drops \cup {s}}
      BY <1>1, <2>1, <3>3, Zenon
    <3>5. \A r \in rejected : r.id \in Taken
      BY <3>3
    <3>6. entry \notin rejected
      BY <1>2, <3>5
    <3>7. IsFiniteSet(rejected') /\ Cardinality(rejected') = Cardinality(rejected) + 1
          /\ Cardinality(rejected) \in Nat
      BY <1>5, <2>1, <3>6, FS_AddElement, FS_CardinalityType
    <3>8. /\ \A t \in Taken' : result'[t] # "none"
          /\ ToSet(buffer') \cup Shipped' = keeps
          /\ kept' = Cardinality(keeps) /\ taken = kept + Cardinality(rejected)
      BY <1>1, <1>2, <1>3, <2>1 DEF AccountInv
    <3> HIDE DEF keeps, drops, entry
    <3>9. taken' = kept' + Cardinality(rejected')
      <4>1. taken' = taken + 1 /\ kept' = kept
        BY <1>1, <2>1
      <4>2. QED
        BY <1>4, <3>7, <3>8, <4>1
    <3>10. QED
      BY <1>5, <3>1, <3>2, <3>4, <3>7, <3>8, <3>9 DEF AccountInv
  <2>5. ShardInv'
    BY <1>1, <2>1 DEF ShardInv
  <2>6. ReportInv'
    BY <1>1, <2>1 DEF ReportInv
  <2>7. QED
    BY <2>2, <2>3, <2>4, <2>5, <2>6
<1>8. QED
  BY <1>6, <1>7

\* Between the results and the shards nothing is moved.
LEMMA LastFlushInv ==
  ASSUME ConvertInv, LastFlush
  PROVE  ConvertInv'
<1>1. /\ cstage = "pool" /\ taken = Len(sources)
      /\ cstage' = IF buffer # <<>> THEN "open" ELSE "manifest"
      /\ UNCHANGED <<sources, result, taken, kept, buffer, listed, rejected, conversion, shard,
                     manifest, rejections>>
  BY DEF LastFlush, progress, cache
<1>2. Taken' = Taken /\ Shipped' = Shipped
  BY <1>1 DEF Taken, Shipped
<1>3. OrderInv' /\ AccountInv'
  BY <1>1, <1>2 DEF ConvertInv, OrderInv, InOrder, AccountInv
<1>4. ConvertType' /\ ShardInv' /\ ReportInv'
  BY <1>1 DEF ConvertInv, ConvertType, ShardInv, ReportInv
<1>5. QED
  BY <1>3, <1>4 DEF ConvertInv

\* The next shard has a number of its own: its first scenario comes after that of every
\* shard before it, so there are not more of them than scenarios.
LEMMA NextShard ==
  ASSUME ConvertInv, buffer # <<>>
  PROVE  Len(listed) + 1 \in Scenarios /\ Len(listed) + 1 <= buffer[1]
<1>1. /\ buffer \in Seq(Scenarios) /\ listed \in Seq(Seq(Scenarios)) /\ 1 \in DOMAIN buffer
      /\ Len(listed) \in Nat /\ DOMAIN listed = 1 .. Len(listed) /\ buffer[1] \in Scenarios
  BY DEF ConvertInv, ConvertType
<1>2. Len(listed) + 1 <= buffer[1]
  <2>1. CASE Len(listed) = 0
    BY <1>1, <2>1, NumScenariosAssumption DEF Scenarios
  <2>2. CASE Len(listed) > 0
    <3> DEFINE n == Len(listed)
    <3>1. n \in DOMAIN listed /\ listed[n] \in Seq(Scenarios)
      BY <1>1, <2>2
    <3> HIDE DEF n
    <3>2. listed[n] # <<>> /\ n <= listed[n][1]
      BY <3>1, Zenon DEF ConvertInv, ShardInv
    <3>3. 1 \in DOMAIN listed[n] /\ listed[n][1] \in Scenarios
      BY <3>1, <3>2
    <3>4. listed[n][1] < buffer[1]
      BY <1>1, <3>1, <3>3 DEF ConvertInv, OrderInv
    <3>5. QED
      BY <1>1, <3>2, <3>3, <3>4, NumScenariosAssumption DEF Scenarios, n
  <2>3. QED
    BY <1>1, <2>1, <2>2
<1>3. QED
  BY <1>1, <1>2, NumScenariosAssumption DEF Scenarios

\* Opening the next shard empties none that is listed.
LEMMA OpenShardInv ==
  ASSUME ConvertInv, OpenShard
  PROVE  ConvertInv'
<1>1. /\ cstage = "open" /\ cstage' = "write"
      /\ shard' = [shard EXCEPT ![Len(listed) + 1] = Torn]
      /\ UNCHANGED <<sources, result, taken, kept, buffer, listed, rejected, conversion, manifest,
                     rejections>>
  BY DEF OpenShard, progress
<1>2. Taken' = Taken /\ Shipped' = Shipped
  BY <1>1 DEF Taken, Shipped
<1>3. ConvertType'
  BY <1>1 DEF ConvertInv, ConvertType
<1>4. OrderInv' /\ AccountInv'
  BY <1>1, <1>2 DEF ConvertInv, OrderInv, InOrder, AccountInv
<1>5. \A n \in DOMAIN listed : shard'[n] = shard[n]
  BY <1>1 DEF ConvertInv, ConvertType
<1>6. ShardInv' /\ ReportInv'
  BY <1>1, <1>5 DEF ConvertInv, ShardInv, ReportInv
<1>7. QED
  BY <1>3, <1>4, <1>6 DEF ConvertInv

\* A shard that is written becomes the last one listed, and the buffer is empty.
LEMMA WriteShardInv ==
  ASSUME ConvertInv, WriteShard
  PROVE  ConvertInv'
<1> DEFINE L == Len(listed)
<1>1. /\ cstage = "write" /\ cstage' = "pool"
      /\ shard' = [shard EXCEPT ![L + 1] = ShardFile(buffer)]
      /\ listed' = Append(listed, buffer) /\ buffer' = <<>>
      /\ UNCHANGED <<sources, result, taken, kept, rejected, conversion, manifest, rejections>>
  BY DEF WriteShard
<1>2. /\ buffer # <<>> /\ (Len(buffer) # ShardSize => taken = Len(sources))
      /\ L + 1 \in Scenarios /\ L + 1 <= buffer[1]
  BY <1>1, NextShard DEF ConvertInv, ShardInv
<1>3. /\ listed \in Seq(Seq(Scenarios)) /\ buffer \in Seq(Scenarios) /\ L \in Nat
      /\ DOMAIN listed = 1 .. L
  BY DEF ConvertInv, ConvertType
<1>4. /\ listed' \in Seq(Seq(Scenarios)) /\ DOMAIN listed' = DOMAIN listed \cup {L + 1}
      /\ Len(listed') = L + 1
      /\ \A n \in DOMAIN listed : listed'[n] = listed[n] /\ n # L + 1 /\ n < L + 1
      /\ listed'[L + 1] = buffer
  BY <1>1, <1>3
<1> HIDE DEF L
<1>5. Taken' = Taken
  BY <1>1 DEF Taken
<1>6. Shipped' = Shipped \cup ToSet(buffer) /\ ToSet(buffer') = {}
  <2>1. Shipped' = UNION {ToSet(listed'[n]) : n \in DOMAIN listed \cup {L + 1}}
    BY <1>4, Zenon DEF Shipped
  <2>2. ToSet(buffer') = {}
    BY <1>1 DEF ToSet
  <2>3. \A n \in DOMAIN listed : ToSet(listed'[n]) = ToSet(listed[n])
    BY <1>4
  <2>4. ToSet(listed'[L + 1]) = ToSet(buffer)
    BY <1>4
  <2>5. QED
    BY <2>1, <2>2, <2>3, <2>4 DEF Shipped
<1>7. ConvertType'
  <2>1. buffer' \in Seq(Scenarios)
    BY <1>1
  <2>2. shard' = [n \in Scenarios |-> shard'[n]]
    BY <1>1 DEF ConvertInv, ConvertType
  <2>3. QED
    BY <1>1, <1>4, <2>1, <2>2 DEF ConvertInv, ConvertType
<1>8. OrderInv'
  <2>1. InOrder(sources)' /\ InOrder(buffer)'
    BY <1>1 DEF ConvertInv, OrderInv, InOrder
  <2>2. ASSUME NEW n \in DOMAIN listed', NEW m \in DOMAIN listed',
               NEW i \in DOMAIN listed'[n], NEW j \in DOMAIN listed'[m],
               n < m \/ (n = m /\ i < j)
        PROVE  listed'[n][i] < listed'[m][j]
    <3>1. CASE m = L + 1 /\ n \in DOMAIN listed
      <4>1. listed'[n] = listed[n] /\ listed'[m] = buffer
        BY <1>4, <3>1
      <4>2. QED
        BY <2>2, <3>1, <4>1 DEF ConvertInv, OrderInv
    <3>2. CASE m = L + 1 /\ n = L + 1
      <4>1. listed'[n] = buffer /\ listed'[m] = buffer /\ i < j
        BY <1>3, <1>4, <2>2, <3>2
      <4>2. QED
        BY <2>2, <4>1 DEF ConvertInv, OrderInv, InOrder
    <3>3. CASE m \in DOMAIN listed
      <4>1. n \in DOMAIN listed
        BY <1>3, <1>4, <2>2, <3>3
      <4>2. listed'[n] = listed[n] /\ listed'[m] = listed[m]
        BY <1>4, <3>3, <4>1
      <4>3. QED
        BY <2>2, <3>3, <4>1, <4>2 DEF ConvertInv, OrderInv
    <3>4. QED
      BY <1>4, <2>2, <3>1, <3>2, <3>3
  <2>3. DOMAIN buffer' = {}
    BY <1>1
  <2>4. QED
    BY <2>1, <2>2, <2>3 DEF OrderInv
<1>9. AccountInv'
  BY <1>1, <1>5, <1>6 DEF ConvertInv, AccountInv
<1>10. ShardInv'
  <2>1. ASSUME NEW n \in DOMAIN listed'
        PROVE  /\ listed'[n] # <<>>
               /\ n <= listed'[n][1]
               /\ shard'[n] = [state |-> "whole", by |-> conversion', ids |-> listed'[n]]
               /\ Len(listed'[n]) # ShardSize =>
                    n = Len(listed') /\ taken' = Len(sources') /\ buffer' = <<>>
    <3>1. CASE n = L + 1
      <4>1. shard'[n] = ShardFile(buffer)
        BY <1>1, <1>2, <3>1 DEF ConvertInv, ConvertType
      <4>2. QED
        BY <1>1, <1>2, <1>4, <3>1, <4>1 DEF ShardFile
    <3>2. CASE n \in DOMAIN listed
      <4>1. listed'[n] = listed[n] /\ n # L + 1
        BY <1>4, <3>2
      <4>2. shard'[n] = shard[n]
        BY <1>1, <4>1 DEF ConvertInv, ConvertType
      <4>3. Len(listed[n]) = ShardSize
        BY <1>2, <3>2 DEF ConvertInv, ShardInv
      <4>4. QED
        BY <1>1, <3>2, <4>1, <4>2, <4>3 DEF ConvertInv, ShardInv
    <3>3. QED
      BY <1>4, <2>1, <3>1, <3>2
  <2>2. Len(buffer') < ShardSize
    BY <1>1, ShardSizeAssumption
  <2>3. cstage' \notin {"open", "write", "manifest", "rejections", "done"}
    BY <1>1
  <2>4. QED
    BY <2>1, <2>2, <2>3 DEF ShardInv
<1>11. ReportInv'
  BY <1>1 DEF ReportInv
<1>12. QED
  BY <1>7, <1>8, <1>9, <1>10, <1>11 DEF ConvertInv

\* The report is written from what is in memory.
LEMMA WriteReportInv ==
  ASSUME ConvertInv, WriteReport
  PROVE  ConvertInv'
<1>1. /\ cstage \in {"manifest", "rejections"} /\ cstage' \in {cstage, "rejections", "done"}
      /\ UNCHANGED <<sources, result, taken, kept, buffer, listed, rejected, conversion, shard>>
  BY DEF WriteReport, progress
<1>2. Taken' = Taken /\ Shipped' = Shipped
  BY <1>1 DEF Taken, Shipped
<1>3. ConvertType' /\ OrderInv' /\ AccountInv'
  BY <1>1, <1>2 DEF ConvertInv, ConvertType, OrderInv, InOrder, AccountInv
<1>4. ShardInv'
  BY <1>1 DEF ConvertInv, ShardInv
<1>5. ReportInv'
  BY <1>1 DEF WriteReport, progress, ConvertInv, ReportInv
<1>6. QED
  BY <1>3, <1>4, <1>5 DEF ConvertInv

\* Every step of the two programs keeps the converter's invariant.
LEMMA ConvertInvNext == FetchInv /\ ConvertInv /\ [Next]_vars => ConvertInv'
<1> SUFFICES ASSUME FetchInv, ConvertInv, [Next]_vars PROVE ConvertInv'
  OBVIOUS
<1>1. CASE UNCHANGED converting
  BY <1>1, ConvertInvIdle
<1>2. CASE ConvertNext
  BY <1>2, StartInv, KillInv, ComputeInv, TakeInv, LastFlushInv, OpenShardInv, WriteShardInv,
     WriteReportInv DEF ConvertNext, ConvertStep
<1>3. QED
  BY <1>1, <1>2 DEF Next, Fetching, Converting, converter, converting, progress, cache, vars

-----------------------------------------------------------------------------
(* The two programs together.                                              *)

\* A result is of files that are whole by then and stay so, and what was ready cannot be
\* found wanting later.
LEMMA ReadyInvNext ==
  FetchInv /\ ConvertInv /\ ReadyInv /\ [Next]_vars => ReadyInv'
<1> SUFFICES ASSUME FetchInv, ConvertInv, ReadyInv, [Next]_vars PROVE ReadyInv'
  OBVIOUS
<1>1. \A s \in Scenarios : ScenarioComplete(s) => ScenarioComplete(s)'
  BY WholeStays DEF ScenarioComplete
<1>2. ready \subseteq Scenarios /\ Valid \subseteq Scenarios
  BY ValidAssumption DEF ReadyInv
\* It is enough to look at the results and the shards that are new.
<1>3. ASSUME UNCHANGED ready \/ (ready' = {s \in Valid : ScenarioComplete(s)}
                                 /\ \A s \in Scenarios : result'[s] = "none"),
             \A s \in Scenarios : \/ result'[s] \in {"none", result[s]}
                                  \/ result[s] = "none" /\ result'[s] = Converted(s),
             \A n \in Scenarios : \/ shard'[n] = shard[n]
                                  \/ shard'[n].state # "whole"
                                  \/ \A s \in ToSet(shard'[n].ids) : s \in Scenarios /\ result[s] = "kept"
      PROVE  ReadyInv'
  <2>1. ASSUME NEW s \in Scenarios, result'[s] = "kept"
        PROVE  s \in Valid /\ ScenarioComplete(s)'
    <3>1. Converted(s) = "kept" => ScenarioComplete(s) /\ s \in Valid
      BY Zenon DEF Converted
    <3>2. QED
      BY <1>1, <1>3, <2>1, <3>1 DEF ReadyInv
  <2>2. ASSUME NEW s \in ready'
        PROVE  s \in Valid /\ ScenarioComplete(s)' /\ result'[s] \in {"none", "kept"}
    <3>1. CASE UNCHANGED ready
      <4>1. s \in Scenarios /\ s \in Valid /\ ScenarioComplete(s) /\ result[s] \in {"none", "kept"}
        BY <1>2, <2>2, <3>1 DEF ReadyInv
      <4>2. Converted(s) = "kept"
        <5>1. \A n \in DOMAIN Files : raw[s][n] # "none"
          BY <4>1 DEF ScenarioComplete
        <5>2. QED
          BY <4>1, <5>1, Zenon DEF Converted
      <4>3. QED
        BY <1>1, <1>3, <4>1, <4>2
    <3>2. CASE ready' = {t \in Valid : ScenarioComplete(t)} /\ \A t \in Scenarios : result'[t] = "none"
      BY <1>1, <1>2, <2>2, <3>2
    <3>3. QED
      BY <1>3, <3>1, <3>2
  <2>3. ASSUME NEW n \in Scenarios, shard'[n].state = "whole", NEW s \in ToSet(shard'[n].ids)
        PROVE  s \in Valid /\ ScenarioComplete(s)'
    <3>1. CASE shard'[n] = shard[n]
      BY <1>1, <1>2, <2>3, <3>1 DEF ReadyInv
    <3>2. CASE shard'[n] # shard[n]
      BY <1>1, <1>3, <2>3, <3>2 DEF ReadyInv
    <3>3. QED
      BY <3>1, <3>2
  <2>4. QED
    BY <2>1, <2>2, <2>3 DEF ReadyInv, ScenarioComplete
<1>4. CASE UNCHANGED <<result, shard, conversion>>
  BY <1>3, <1>4 DEF Next, Fetching, Converting, converter, progress, cache, vars
<1>5. CASE Converting(StartConvert \/ KillConvert)
  <2>1. \A s \in Scenarios : result'[s] = "none"
    BY <1>5 DEF Converting, StartConvert, KillConvert, Afresh
  <2>2. UNCHANGED shard /\ (UNCHANGED ready \/ ready' = {s \in Valid : ScenarioComplete(s)})
    BY <1>5 DEF Converting, StartConvert, KillConvert, cache
  <2>3. QED
    BY <1>3, <2>1, <2>2
<1>6. ASSUME NEW s \in Scenarios, Converting(Compute(s))
      PROVE  ReadyInv'
  <2>1. UNCHANGED <<shard, ready>> /\ result[s] = "none" /\ result' = [result EXCEPT ![s] = Converted(s)]
    BY <1>6 DEF Converting, Compute, cache
  <2>2. QED
    BY <1>3, <2>1 DEF ConvertInv, ConvertType
<1>7. CASE Converting(OpenShard)
  <2>1. UNCHANGED <<result, ready>> /\ shard' = [shard EXCEPT ![Len(listed) + 1] = Torn]
    BY <1>7 DEF Converting, OpenShard, progress
  <2>2. \A n \in Scenarios : shard'[n] = shard[n] \/ shard'[n].state # "whole"
    BY <2>1 DEF ConvertInv, ConvertType, Torn
  <2>3. QED
    BY <1>3, <2>1, <2>2
<1>8. CASE Converting(WriteShard)
  <2>1. UNCHANGED <<result, ready>> /\ shard' = [shard EXCEPT ![Len(listed) + 1] = ShardFile(buffer)]
    BY <1>8 DEF Converting, WriteShard
  <2>2. \A s \in ToSet(buffer) : s \in Scenarios /\ result[s] = "kept"
    BY TakenScenarios DEF ConvertInv, AccountInv
  <2>3. \A n \in Scenarios : shard'[n] = shard[n] \/ shard'[n].ids = buffer
    BY <2>1 DEF ConvertInv, ConvertType, ShardFile
  <2>4. QED
    BY <1>3, <2>1, <2>2, <2>3
<1>9. QED
  <2>1. CASE Fetching(FetchNext) \/ UNCHANGED vars
    BY <1>4, <2>1 DEF Fetching, converter, progress, cache, vars
  <2>2. CASE Converting(Take \/ LastFlush \/ WriteReport)
    BY <1>4, <2>2 DEF Converting, Take, LastFlush, WriteReport, progress, cache
  <2>3. QED
    BY <1>5, <1>6, <1>7, <1>8, <2>1, <2>2 DEF Next, Converting, ConvertNext, ConvertStep

\* The invariant of both programs over the directory they share.
THEOREM IngestInv == Spec => []IInv
<1>1. Init => IInv
  BY FetchInvInit, ConvertInvInit DEF IInv
<1>2. IInv /\ [Next]_vars => IInv'
  BY FetchInvNext, ConvertInvNext, ReadyInvNext DEF IInv
<1>3. QED
  BY <1>1, <1>2, PTL DEF Spec

\* A conversion that ended wrote what its manifest says: the directories it did not
\* reject, in their order, in full shards, each counted once, whatever was killed before.
THEOREM IngestManifestTrue == Spec => []ManifestTrue
<1>1. IInv => ManifestTrue
  <2> SUFFICES ASSUME ConvertInv, cstage = "done" PROVE ManifestTrue
    BY DEF IInv, ManifestTrue
  <2> DEFINE out == {r.id : r \in rejections.reasons}
             shards == manifest.shards
             keeps == {t \in Taken : result[t] = "kept"}
  <2>1. /\ manifest = [state |-> "whole", by |-> conversion, seen |-> Len(sources), kept |-> kept,
                       rejected |-> Cardinality(rejected), shards |-> listed]
        /\ rejections.reasons = rejected
        /\ taken = Len(sources) /\ buffer = <<>>
    BY DEF ConvertInv, ReportInv, ShardInv
  <2>2. shards = listed /\ manifest.seen = Len(sources) /\ manifest.kept = kept
        /\ manifest.rejected = Cardinality(rejected)
    BY <2>1
  <2>3. sources \in Seq(Scenarios) /\ listed \in Seq(Seq(Scenarios))
    BY DEF ConvertInv, ConvertType
  <2>4. Taken = ToSet(sources)
    BY <2>1, <2>3 DEF Taken, ToSet
  <2>5. Delivered = keeps
    <3>1. ToSet(buffer) = {}
      BY <2>1 DEF ToSet
    <3>2. Delivered = Shipped
      BY <2>2 DEF Delivered, Shipped
    <3>3. QED
      BY <3>1, <3>2 DEF ConvertInv, AccountInv
  <2>6. out = Taken \ keeps
    <3> DEFINE drops == {t \in Taken : result[t] # "kept"}
    <3>1. rejections.reasons = {[id |-> s, why |-> result[s]] : s \in drops}
      BY <2>1, Zenon DEF ConvertInv, AccountInv
    <3>2. out \subseteq drops
      BY <3>1
    <3>3. ASSUME NEW s \in drops PROVE s \in out
      <4>1. [id |-> s, why |-> result[s]] \in rejections.reasons
        BY <3>1
      <4>2. QED
        BY <4>1
    <3>4. QED
      BY <3>2, <3>3
  <2>7. manifest.seen = manifest.kept + manifest.rejected /\ manifest.kept = Cardinality(keeps)
    BY <2>1, <2>2 DEF ConvertInv, AccountInv
  <2>8. \A n \in DOMAIN shards :
          /\ shard[n] = [state |-> "whole", by |-> conversion, ids |-> shards[n]]
          /\ n < Len(shards) => Len(shards[n]) = ShardSize
    BY <2>2, <2>3 DEF ConvertInv, ShardInv
  <2>9. \A n, m \in DOMAIN shards : \A i \in DOMAIN shards[n], j \in DOMAIN shards[m] :
          n < m \/ (n = m /\ i < j) => shards[n][i] < shards[m][j]
    BY <2>2 DEF ConvertInv, OrderInv
  <2>10. Delivered = ToSet(sources) \ out /\ out \subseteq ToSet(sources)
    BY <2>4, <2>5, <2>6
  <2>11. manifest.kept = Cardinality(Delivered)
    BY <2>5, <2>7
  <2> HIDE DEF keeps
  <2>12. QED
    BY <2>7, <2>8, <2>9, <2>10, <2>11 DEF ManifestTrue
<1>2. QED
  BY <1>1, IngestInv, PTL

\* Nothing but valid scenarios with whole files is in a shard, and what was ready when a
\* conversion started is delivered when it ends, however the downloads interleave.
THEOREM IngestDeliversWhatIsReady == Spec => []DeliversWhatIsReady
<1>1. IInv => DeliversWhatIsReady
  <2> SUFFICES ASSUME ConvertInv, ReadyInv, cstage = "done"
               PROVE  ready \cap ToSet(sources) \subseteq Delivered
    BY DEF IInv, ReadyInv, DeliversWhatIsReady
  <2>1. taken = Len(sources) /\ buffer = <<>> /\ manifest.shards = listed
    BY DEF ConvertInv, ShardInv, ReportInv
  <2>2. sources \in Seq(Scenarios)
    BY DEF ConvertInv, ConvertType
  <2>3. Taken = ToSet(sources)
    BY <2>1, <2>2 DEF Taken, ToSet
  <2>4. Delivered = {t \in Taken : result[t] = "kept"}
    <3>1. ToSet(buffer) = {} /\ Delivered = Shipped
      BY <2>1 DEF Delivered, Shipped, ToSet
    <3>2. QED
      BY <3>1 DEF ConvertInv, AccountInv
  <2>5. \A s \in ready \cap Taken : result[s] = "kept"
    BY DEF ReadyInv, ConvertInv, AccountInv
  <2>6. QED
    BY <2>3, <2>4, <2>5
<1>2. QED
  BY <1>1, IngestInv, PTL

=============================================================================
