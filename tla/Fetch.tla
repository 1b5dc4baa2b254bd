--------------------------------- MODULE Fetch ---------------------------------
(***************************************************************************)
(* The downloader (scripts/fetch_av2.py, av2/download.py): the listing of  *)
(* the bucket is cached in a file, a pool of threads downloads one         *)
(* scenario each, and an invocation that was killed or had failures is     *)
(* repeated.  A body goes to a .part file, which nobody else reads, and is *)
(* renamed when its length is the listed one.                              *)
(***************************************************************************)
EXTENDS RawFiles, FiniteSetsExt

CONSTANTS
  Threads,      (* The threads of the pool (--jobs).                       *)
  Retries       (* How often a request is repeated (--retries).            *)

ASSUME ThreadsAssumption == Threads # {}
ASSUME RetriesAssumption == Retries \in Nat

VARIABLES
  keys,      (* The cached listing: "none", "torn" or "whole".             *)
  fstage,    (* Where the main thread is.                                  *)
  limit,     (* How many scenarios are attempted (--limit).                *)
  queue,     (* The scenario the pool hands out next.                      *)
  job,       (* What each thread is at.                                    *)
  outcome,   (* What became of each scenario in this invocation.           *)
  fetches    (* How many times the downloader was invoked.                 *)

fetch == <<keys, fstage, limit, queue, job, outcome, fetches>>

\* A thread without work, or at file number n of scenario s, requesting it after so many
\* tries, or receiving it.
Idle == [phase |-> "idle"]

FetchInit ==
  /\ keys = "none"
  /\ fstage = "off"
  /\ limit = NumScenarios
  /\ queue = 1
  /\ job = [w \in Threads |-> Idle]
  /\ outcome = [s \in Scenarios |-> "pending"]
  /\ fetches = 0

\* fetch_av2.py starts; --refresh-keys ignores the cached listing.  A torn one cannot
\* be parsed and ends the program.  --list-only downloads nothing: it is --limit 0.
StartFetch ==
  /\ fstage \in {"off", "done", "failed"}
  /\ fetches' = fetches + 1
  /\ \E refresh \in BOOLEAN :
       fstage' = CASE refresh \/ keys = "none"    -> "list"
                   [] ~refresh /\ keys = "torn"   -> "failed"
                   [] ~refresh /\ keys = "whole"  -> "pool"
  /\ limit' \in Limits
  /\ queue' = 1
  /\ outcome' = [s \in Scenarios |-> "pending"]
  /\ UNCHANGED <<rawFiles, keys, job>>

\* The bucket cannot be listed: the exception ends the program.
ListFails ==
  /\ fstage = "list"
  /\ fstage' = "failed"
  /\ UNCHANGED <<rawFiles, keys, queue, job, outcome, limit, fetches>>

\* The listing is complete, and the file that caches it is opened, which empties it.
OpenKeys ==
  /\ fstage = "list"
  /\ keys' = "torn"
  /\ fstage' = "write"
  /\ UNCHANGED <<rawFiles, queue, job, outcome, limit, fetches>>

\* The listing is in the file; the scenarios are submitted in order.
WriteKeys ==
  /\ fstage = "write"
  /\ keys' = "whole"
  /\ fstage' = "pool"
  /\ UNCHANGED <<rawFiles, queue, job, outcome, limit, fetches>>

(***************************************************************************)
(* A thread of the pool.                                                   *)
(***************************************************************************)

InPhase(w, p) == fstage = "pool" /\ job[w].phase = p

\* The files of scenario s from number n on that have to be requested: those that are
\* not there at their length.
Missing(s, n) == {k \in n .. Len(Files) : raw[s][k] # "whole"}

\* The thread goes on with the next missing file of its scenario, or has all of them.
Onward(w) ==
  LET rest == Missing(job[w].s, job[w].n + 1) IN
  IF rest # {}
    THEN /\ job' = [job EXCEPT ![w] = [phase |-> "get", s |-> @.s, n |-> Min(rest), tries |-> 0]]
         /\ UNCHANGED outcome
    ELSE /\ job' = [job EXCEPT ![w] = Idle]
         /\ outcome' = [outcome EXCEPT ![job[w].s] = "ok"]

\* An exception is reported as the scenario's error; its other files are left.
GiveUp(w) ==
  /\ job' = [job EXCEPT ![w] = Idle]
  /\ outcome' = [outcome EXCEPT ![job[w].s] = "failed"]

\* The next scenario: nothing to do when it is complete, else its directory is made.
TakeScenario(w) ==
  /\ InPhase(w, "idle") /\ queue <= limit
  /\ queue' = queue + 1
  /\ IF ScenarioComplete(queue)
       THEN /\ outcome' = [outcome EXCEPT ![queue] = "ok"]
            /\ UNCHANGED <<dirs, job>>
       ELSE /\ dirs' = dirs \cup {queue}
            /\ job' = [job EXCEPT ![w] = [phase |-> "get", s |-> queue,
                                         n |-> Min(Missing(queue, 1)), tries |-> 0]]
            /\ UNCHANGED outcome
  /\ UNCHANGED <<raw, keys, fstage, limit, fetches>>

\* _get(): a transport fault or a status to come back for is retried, up to a bound;
\* any other status is not; otherwise the body can be read.
Get(w) ==
  /\ InPhase(w, "get")
  /\ \/ IF job[w].tries < Retries
          THEN job' = [job EXCEPT ![w].tries = @ + 1] /\ UNCHANGED outcome
          ELSE GiveUp(w)
     \/ GiveUp(w)
     \/ job' = [job EXCEPT ![w].phase = "body"] /\ UNCHANGED outcome
  /\ UNCHANGED <<rawFiles, keys, fstage, queue, limit, fetches>>

\* Mutant of Receive: a body that is too short ends the scenario without an error.
ReceiveQuietly(w) ==
  /\ InPhase(w, "body")
  /\ \/ Onward(w) /\ UNCHANGED raw
     \/ Onward(w) /\ raw' = [raw EXCEPT ![job[w].s][job[w].n] = "whole"]
  /\ UNCHANGED <<dirs, keys, fstage, queue, limit, fetches>>

\* The body: it breaks off, or is shorter than listed, which is an error that is not
\* retried; or it is whole and the file gets its name.
Receive(w) ==
  /\ InPhase(w, "body")
  /\ \/ GiveUp(w) /\ UNCHANGED raw
     \/ Onward(w) /\ raw' = [raw EXCEPT ![job[w].s][job[w].n] = "whole"]
  /\ UNCHANGED <<dirs, keys, fstage, queue, limit, fetches>>

Thread(w) == TakeScenario(w) \/ Get(w) \/ Receive(w)

\* Mutant of Collect: it waits for every scenario that is listed.
CollectAll ==
  /\ fstage = "pool"
  /\ \A s \in Scenarios : outcome[s] # "pending"
  /\ fstage' = IF \E s \in Scenarios : outcome[s] = "failed" THEN "failed" ELSE "done"
  /\ UNCHANGED <<rawFiles, keys, queue, job, outcome, limit, fetches>>

\* Every future is collected; the failures decide the exit status.
Collect ==
  /\ fstage = "pool"
  /\ \A s \in 1 .. limit : outcome[s] # "pending"
  /\ fstage' = IF \E s \in Scenarios : outcome[s] = "failed" THEN "failed" ELSE "done"
  /\ UNCHANGED <<rawFiles, keys, queue, job, outcome, limit, fetches>>

\* The process is killed: what it had in memory is gone.
KillFetch ==
  /\ fstage \in {"list", "write", "pool"}
  /\ fstage' = "off"
  /\ limit' = NumScenarios
  /\ queue' = 1
  /\ job' = [w \in Threads |-> Idle]
  /\ outcome' = [s \in Scenarios |-> "pending"]
  /\ UNCHANGED <<rawFiles, keys, fetches>>

\* The program by itself.
FetchStep ==
  \/ ListFails
  \/ OpenKeys
  \/ WriteKeys
  \/ \E w \in Threads : Thread(w)
  \/ Collect

FetchNext == StartFetch \/ FetchStep \/ KillFetch

=============================================================================
