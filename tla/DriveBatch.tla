------------------------------ MODULE DriveBatch ------------------------------
(***************************************************************************)
(* The batch runner (apps/drive_batch.cpp): worker threads claim scenarios *)
(* from a shared atomic counter, replay each with their own Simulator,     *)
(* collect CSV rows in a thread-local buffer, and append the buffer to the *)
(* shared output files under a mutex, every FlushEvery rows and once more  *)
(* when the work runs out.  The main thread joins the workers, closes the  *)
(* files and appends the run's provenance row to runs.csv.                 *)
(*                                                                         *)
(* A CSV file, or a buffer of rows, is the number of rows it holds for     *)
(* each scenario: nothing downstream depends on the order of rows, and     *)
(* everything depends on a scenario having exactly one.                    *)
(***************************************************************************)
EXTENDS Integers, FiniteSets

CONSTANTS
  Workers,      (* The worker threads (--jobs).                            *)
  NumWork,      (* work.size(): scenarios handed out, numbered from 0.     *)
  FlushEvery,   (* Rows a worker buffers before it writes; 64 in the code. *)
  Kinds         (* The kinds of scenario the shards hold, see AllKinds.    *)

(***************************************************************************)
(* What replaying a scenario comes to.                                     *)
(*   unreadable    ShardReader::scenario rejects the record                *)
(*   no_ego        run() returns before it has searched a route            *)
(*   no_route      findRoute finds none                                    *)
(*   no_path       a route, but an empty reference path                    *)
(*   planner_fail  the planner fails in some cycle                         *)
(*   no_cycles     a single-step scenario: nothing to score                *)
(*   ok, hit, fault    scored; without collision, with one, at fault       *)
(***************************************************************************)
AllKinds == {"unreadable", "no_ego", "no_route", "no_path", "planner_fail",
             "no_cycles", "ok", "hit", "fault"}

ASSUME WorkersAssumption == Workers # {}
ASSUME NumWorkAssumption == NumWork \in Nat \ {0}
ASSUME FlushAssumption   == FlushEvery \in Nat \ {0}
ASSUME KindsAssumption   == Kinds # {} /\ Kinds \subseteq AllKinds

Work == 0 .. NumWork - 1

\* The counters a replayed scenario feeds, chosen by the status of its row: every
\* status but three counts as a load failure, and only an ok row is looked into.
CountersOf(k) ==
  CASE k = "ok"                       -> {"ok"}
    [] k = "hit"                      -> {"ok", "collisions"}
    [] k = "fault"                    -> {"ok", "collisions", "at_fault"}
    [] k \in {"no_route", "no_path"}  -> {"no_route"}
    [] k = "planner_fail"             -> {"planner_fail"}
    [] OTHER                          -> {"load_fail"}

VARIABLES
  kind,      (* What each scenario of the work list is; never changes.     *)
  features,  (* The --features file is wanted and could be opened.         *)
  next,      (* Counters::next, the index the next claim receives.         *)
  pc,        (* Where each worker is in its loop.                          *)
  cur,       (* The index each worker claimed last.                        *)
  routed,    (* out_.route.ok() of each worker's Simulator, which survives *)
             (* from one run() to the next.                                *)
  bufM,      (* Each worker's buffered metrics rows.                       *)
  bufF,      (* Each worker's buffered features rows.                      *)
  local,     (* Rows since each worker's last write.                       *)
  mutex,     (* The holder of out_mutex, or Free.                          *)
  fileM,     (* The metrics file.                                          *)
  fileF,     (* The features file.                                         *)
  tally,     (* The other Counters.                                        *)
  phase,     (* The main thread.                                           *)
  recorded   (* runs.csv has this run's row.                               *)

vars == <<kind, features, next, pc, cur, routed, bufM, bufF, local, mutex,
          fileM, fileF, tally, phase, recorded>>

Free == "free"
ASSUME FreeAssumption == Free \notin Workers

NoRows == [i \in Work |-> 0]
Tallied == {"done", "ok", "no_route", "planner_fail", "load_fail",
            "collisions", "at_fault"}

\* Mutant of Bump: a plain ++, which two threads can lose.
BumpRacy(C) ==
  tally' \in {tally, [c \in Tallied |-> IF c \in C THEN tally[c] + 1 ELSE tally[c]]}

\* fetch_add(1) on each of the counters C.
Bump(C) == tally' = [c \in Tallied |-> IF c \in C THEN tally[c] + 1 ELSE tally[c]]

Init ==
  /\ kind \in [Work -> Kinds]
  /\ features \in BOOLEAN
  /\ next = 0
  /\ pc = [w \in Workers |-> "claim"]
  /\ cur = [w \in Workers |-> 0]
  /\ routed = [w \in Workers |-> FALSE]
  /\ bufM = [w \in Workers |-> NoRows]
  /\ bufF = [w \in Workers |-> NoRows]
  /\ local = [w \in Workers |-> 0]
  /\ mutex = Free
  /\ fileM = NoRows
  /\ fileF = NoRows
  /\ tally = [c \in Tallied |-> 0]
  /\ phase = "running"
  /\ recorded = FALSE

(***************************************************************************)
(* The worker.                                                             *)
(***************************************************************************)

At(w, from) == phase = "running" /\ pc[w] = from
Goto(w, to) == pc' = [pc EXCEPT ![w] = to]

\* Mutants of Claim: the counter is a plain ++; a worker ends without its last write.
ClaimRacy(w) ==
  /\ At(w, "claim")
  /\ next' \in {next, next + 1}
  /\ cur' = [cur EXCEPT ![w] = next]
  /\ Goto(w, IF next < NumWork THEN "replay" ELSE "drain")
  /\ UNCHANGED <<kind, features, routed, bufM, bufF, local, mutex, fileM, fileF,
                 tally, phase, recorded>>

ClaimWithoutDrain(w) ==
  /\ At(w, "claim")
  /\ next' = next + 1
  /\ cur' = [cur EXCEPT ![w] = next]
  /\ Goto(w, IF next < NumWork THEN "replay" ELSE "exited")
  /\ UNCHANGED <<kind, features, routed, bufM, bufF, local, mutex, fileM, fileF,
                 tally, phase, recorded>>

\* next.fetch_add(1); past the end of the list the worker leaves its loop.
Claim(w) ==
  /\ At(w, "claim")
  /\ next' = next + 1
  /\ cur' = [cur EXCEPT ![w] = next]
  /\ Goto(w, IF next < NumWork THEN "replay" ELSE "drain")
  /\ UNCHANGED <<kind, features, routed, bufM, bufF, local, mutex, fileM, fileF,
                 tally, phase, recorded>>

\* The shard rejects the record: counted, and no row is produced.
SkipUnreadable(w) ==
  /\ At(w, "replay")
  /\ kind[cur[w]] = "unreadable"
  /\ Bump({"load_fail", "done"})
  /\ Goto(w, "claim")
  /\ UNCHANGED <<kind, features, next, cur, routed, bufM, bufF, local, mutex,
                 fileM, fileF, phase, recorded>>

\* The route verdict the Simulator holds after run(): a scenario without an ego
\* returns before out_.route is assigned and leaves the previous one's.
RouteAfter(w) ==
  IF kind[cur[w]] = "no_ego" THEN routed[w] ELSE kind[cur[w]] # "no_route"

OneRow(rows, i) == [rows EXCEPT ![i] = @ + 1]

\* simulator.run, the metrics row, the counters and the features row.
Replay(w) ==
  LET i == cur[w]
      k == kind[i]
  IN
  /\ At(w, "replay")
  /\ k # "unreadable"
  /\ routed' = [routed EXCEPT ![w] = RouteAfter(w)]
  /\ bufM' = [bufM EXCEPT ![w] = OneRow(@, i)]
  /\ bufF' = IF features /\ RouteAfter(w)
               THEN [bufF EXCEPT ![w] = OneRow(@, i)] ELSE bufF
  /\ Bump(CountersOf(k))
  /\ local' = [local EXCEPT ![w] = @ + 1]
  /\ Goto(w, IF local[w] + 1 >= FlushEvery THEN "flush" ELSE "finish")
  /\ UNCHANGED <<kind, features, next, cur, mutex, fileM, fileF, phase, recorded>>

\* lock_guard on out_mutex, before the periodic write and before the last one.
Lock(w) ==
  /\ At(w, "flush") \/ At(w, "drain")
  /\ mutex = Free
  /\ mutex' = w
  /\ Goto(w, IF pc[w] = "flush" THEN "flushM" ELSE "drainM")
  /\ UNCHANGED <<kind, features, next, cur, routed, bufM, bufF, local, fileM,
                 fileF, tally, phase, recorded>>

Plus(a, b) == [i \in Work |-> a[i] + b[i]]

\* fwrite of the metrics rows.  The buffer counts as emptied by the write: the
\* code clears both after the second write, and nothing reads them in between.
WriteMetrics(w) ==
  /\ At(w, "flushM") \/ At(w, "drainM")
  /\ fileM' = Plus(fileM, bufM[w])
  /\ bufM' = [bufM EXCEPT ![w] = NoRows]
  /\ Goto(w, IF pc[w] = "flushM" THEN "flushF" ELSE "drainF")
  /\ UNCHANGED <<kind, features, next, cur, routed, bufF, local, mutex, fileF,
                 tally, phase, recorded>>

\* Mutant of WriteFeatures: the last write does not release the mutex.
WriteFeaturesLocked(w) ==
  /\ At(w, "flushF") \/ At(w, "drainF")
  /\ fileF' = Plus(fileF, bufF[w])
  /\ bufF' = [bufF EXCEPT ![w] = NoRows]
  /\ local' = [local EXCEPT ![w] = 0]
  /\ mutex' = IF pc[w] = "flushF" THEN Free ELSE w
  /\ Goto(w, IF pc[w] = "flushF" THEN "finish" ELSE "exited")
  /\ UNCHANGED <<kind, features, next, cur, routed, bufM, fileM, tally, phase,
                 recorded>>

\* fwrite of the features rows, when there is such a file; the buffers are empty
\* and the mutex is released.  After the last write the thread ends.
WriteFeatures(w) ==
  /\ At(w, "flushF") \/ At(w, "drainF")
  /\ fileF' = Plus(fileF, bufF[w])
  /\ bufF' = [bufF EXCEPT ![w] = NoRows]
  /\ local' = [local EXCEPT ![w] = 0]
  /\ mutex' = Free
  /\ Goto(w, IF pc[w] = "flushF" THEN "finish" ELSE "exited")
  /\ UNCHANGED <<kind, features, next, cur, routed, bufM, fileM, tally, phase,
                 recorded>>

\* done.fetch_add(1)
Finish(w) ==
  /\ At(w, "finish")
  /\ Bump({"done"})
  /\ Goto(w, "claim")
  /\ UNCHANGED <<kind, features, next, cur, routed, bufM, bufF, local, mutex,
                 fileM, fileF, phase, recorded>>

Worker(w) ==
  \/ Claim(w)
  \/ SkipUnreadable(w)
  \/ Replay(w)
  \/ Lock(w)
  \/ WriteMetrics(w)
  \/ WriteFeatures(w)
  \/ Finish(w)

(***************************************************************************)
(* The main thread.                                                        *)
(***************************************************************************)

\* join of every worker, then fclose of both files: their rows reach the disk.
JoinAndClose ==
  /\ phase = "running"
  /\ \A w \in Workers : pc[w] = "exited"
  /\ phase' = "closed"
  /\ UNCHANGED <<kind, features, next, pc, cur, routed, bufM, bufF, local, mutex,
                 fileM, fileF, tally, recorded>>

\* The row of runs.csv, and the summary.  When runs.csv cannot be opened the row
\* is silently left out and the program still exits with 0.
RecordRun ==
  /\ phase = "closed"
  /\ recorded' \in BOOLEAN
  /\ phase' = "exited"
  /\ UNCHANGED <<kind, features, next, pc, cur, routed, bufM, bufF, local, mutex,
                 fileM, fileF, tally>>

Kept(rows, K) == [i \in Work |-> IF i \in K THEN rows[i] ELSE 0]

\* The process is killed.  Until fclose the C library holds rows in its own
\* buffers, and those it has not written by then are lost.
Kill ==
  /\ \/ /\ phase = "running"
        /\ \E K, L \in SUBSET Work :
             fileM' = Kept(fileM, K) /\ fileF' = Kept(fileF, L)
     \/ /\ phase = "closed"
        /\ UNCHANGED <<fileM, fileF>>
  /\ phase' = "killed"
  /\ UNCHANGED <<kind, features, next, pc, cur, routed, bufM, bufF, local, mutex,
                 tally, recorded>>

\* The process has ended; nothing more happens.
Ended == phase \in {"exited", "killed"} /\ UNCHANGED vars

Next ==
  \/ \E w \in Workers : Worker(w)
  \/ JoinAndClose
  \/ RecordRun
  \/ Kill
  \/ Ended

\* Every thread the operating system runs keeps running: nothing in the loop
\* waits except for the mutex, which is held for two writes.
Fairness ==
  /\ \A w \in Workers : WF_vars(Worker(w))
  /\ WF_vars(JoinAndClose)
  /\ WF_vars(RecordRun)

Spec == Init /\ [][Next]_vars /\ Fairness

-----------------------------------------------------------------------------
(***************************************************************************)
(* Properties.                                                             *)
(***************************************************************************)

Rows == [Work -> Nat]

\* Every variable has its type.
TypeOK ==
  /\ kind \in [Work -> Kinds]
  /\ features \in BOOLEAN
  /\ next \in Nat
  /\ pc \in [Workers -> {"claim", "replay", "flush", "flushM", "flushF", "finish",
                          "drain", "drainM", "drainF", "exited"}]
  /\ cur \in [Workers -> Nat]
  /\ \A w \in Workers : pc[w] = "replay" => cur[w] \in Work
  /\ routed \in [Workers -> BOOLEAN]
  /\ bufM \in [Workers -> Rows]
  /\ bufF \in [Workers -> Rows]
  /\ local \in [Workers -> Nat]
  /\ mutex \in Workers \cup {Free}
  /\ fileM \in Rows
  /\ fileF \in Rows
  /\ tally \in [Tallied -> Nat]
  /\ phase \in {"running", "closed", "exited", "killed"}
  /\ recorded \in BOOLEAN

Claimed(i)  == i < next
Readable(i) == kind[i] # "unreadable"

\* Worker w answers for the row of scenario i: it is about to produce it, or holds
\* it in its buffer.
InFlight(w, i) == pc[w] = "replay" /\ cur[w] = i
Holds(w, i)    == InFlight(w, i) \/ bufM[w][i] > 0

\* No row is there twice, in the file or with a worker.
AtMostOnce(i) == fileM[i] <= 1 /\ \A w \in Workers : bufM[w][i] <= 1

\* A worker that answers for the row of a scenario is the only one that does, is
\* either producing it or keeping it, and the file does not have it.
OnePlace(i) ==
  \A w \in Workers :
    Holds(w, i) => /\ Claimed(i)
                   /\ fileM[i] = 0
                   /\ ~(InFlight(w, i) /\ bufM[w][i] > 0)
                   /\ \A v \in Workers \ {w} : ~Holds(v, i)

OnlyClaimed(i) == fileM[i] > 0 => Claimed(i)

NoneLost(i) ==
  Claimed(i) /\ Readable(i) => fileM[i] = 1 \/ \E w \in Workers : Holds(w, i)

\* While the workers run, the row of every claimed scenario is in exactly one
\* place: with one worker, once, or in the file, once.  An unreadable scenario is
\* with a worker until that worker has counted it, and in no place after.  This is
\* what handing scenarios out through one atomic counter is for.
RowsAccountedFor ==
  phase = "running" =>
    \A i \in Work : AtMostOnce(i) /\ OnePlace(i) /\ OnlyClaimed(i) /\ NoneLost(i)

\* A scenario never has two rows in the metrics file, whoever claimed it and
\* whenever the process dies: (run_id, scenario_id) is the loader's primary key.
NoDuplicateRow == \A i \in Work : fileM[i] <= 1

\* A row in runs.csv vouches for the metrics file: every scenario the shards could
\* read has its row there, also when the process is killed at any moment.
RecordedIsComplete ==
  recorded => \A i \in Work : Readable(i) => fileM[i] = 1

RowsWith(c) == Cardinality({i \in Work : fileM[i] = 1 /\ c \in CountersOf(kind[i])})

\* The summary printed at the end agrees with the file: the counters, updated one
\* by one with relaxed ordering by all the workers, come to what the rows say.
SummaryAgreesWithRows ==
  phase \in {"closed", "exited"} =>
    /\ tally["done"] = NumWork
    /\ tally["ok"] + tally["no_route"] + tally["planner_fail"] + tally["load_fail"] = NumWork
    /\ \A c \in {"ok", "no_route", "planner_fail", "collisions", "at_fault"} :
         tally[c] = RowsWith(c)

\* A features row describes the situation of its own scenario (schema.sql, header):
\* a scenario without a route of its own has none.
FeaturesDescribeOwnScenario ==
  \A i \in Work : fileF[i] > 0 => kind[i] \notin {"no_ego", "no_route"}

\* Unless it is killed the batch comes to its end: no worker waits for ever for the
\* mutex and every readable scenario gets its row.
BatchEnds ==
  <>(phase = "killed" \/ (phase = "exited" /\ \A i \in Work : Readable(i) => fileM[i] = 1))

(***************************************************************************)
(* The batch runner keeps the promise of RunLedger: the file seen from     *)
(* outside is the stream the workers write to.                             *)
(***************************************************************************)
Ledger == INSTANCE RunLedger WITH
  Scenarios <- Work,
  readable  <- {i \in Work : Readable(i)},
  rows      <- fileM,
  vouched   <- recorded,
  open      <- (phase = "running")

\* Whatever the interleaving of workers, counters, buffers and mutex, and wherever
\* the process is killed, the metrics file and runs.csv evolve as RunLedger allows.
KeepsTheLedger == Ledger!LedgerSpec

=============================================================================
