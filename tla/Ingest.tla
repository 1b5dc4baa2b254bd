-------------------------------- MODULE Ingest --------------------------------
(***************************************************************************)
(* From the bucket to the cache: the downloader and the converter over the *)
(* same raw directory, in any interleaving.                                *)
(***************************************************************************)
EXTENDS Fetch, Convert

CONSTANT MaxStarts   (* Bound: how often a program is started.             *)

ASSUME MaxStartsAssumption == MaxStarts \in Nat

VARIABLE ready   (* Observer: the valid scenarios whose files were whole   *)
                 (* when the converter was started.                        *)

converter == <<cstage, progress, cache>>

vars == <<rawFiles, fetch, converter, ready>>

Init == RawInit /\ FetchInit /\ ConvertInit /\ ready = {}

Fetching(step) == step /\ UNCHANGED <<converter, ready>>

Converting(step) ==
  /\ step
  /\ ready' = IF conversion' # conversion THEN {s \in Valid : ScenarioComplete(s)} ELSE ready
  /\ UNCHANGED fetch

Next ==
  /\ Fetching(FetchNext) \/ Converting(ConvertNext)
  /\ fetches' + conversion' <= MaxStarts

\* A program that was started runs on: one of its threads or processes takes a step
\* as long as one can, and a request ends, by its timeout if nothing else.  Nobody has
\* to start or to kill a program.
Spec ==
  /\ Init /\ [][Next]_vars
  /\ WF_vars(Fetching(FetchStep))
  /\ WF_vars(Converting(ConvertStep))

-----------------------------------------------------------------------------
(***************************************************************************)
(* Properties.                                                             *)
(***************************************************************************)

\* What the downloader reports is so: a scenario without an error has all its files,
\* and a run that ends well leaves none of those it was asked for incomplete, whatever
\* was there before and whichever requests failed.
ReportIsHonest ==
  /\ \A s \in Scenarios : outcome[s] = "ok" => ScenarioComplete(s)
  /\ fstage = "done" => \A s \in 1 .. limit : ScenarioComplete(s)

\* What the manifest says is in the cache.
Delivered == UNION {ToSet(manifest.shards[n]) : n \in DOMAIN manifest.shards}

\* "Shard membership is reproducible from the sorted directory list": the shards of a
\* conversion that ended hold the directories it did not reject, in their order within a
\* shard and from one to the next, all but the last shard are full, and the manifest
\* counts every directory once.
ManifestTrue ==
  cstage = "done" =>
    LET out    == {r.id : r \in rejections.reasons}
        shards == manifest.shards
    IN
    /\ Delivered = ToSet(sources) \ out
    /\ \A n, m \in DOMAIN shards : \A i \in DOMAIN shards[n], j \in DOMAIN shards[m] :
         n < m \/ (n = m /\ i < j) => shards[n][i] < shards[m][j]
    /\ \A n \in DOMAIN shards :
         /\ shard[n] = [state |-> "whole", by |-> conversion, ids |-> shards[n]]
         /\ n < Len(shards) => Len(shards[n]) = ShardSize
    /\ manifest.seen = manifest.kept + manifest.rejected
    /\ manifest.kept = Cardinality(Delivered)
    /\ out \subseteq ToSet(sources)

\* "Nothing is dropped silently": nothing reaches a shard but valid scenarios with
\* whole files, although the files arrive while the converter reads; and a scenario
\* that was ready when the conversion started is in its shards when it ends.
DeliversWhatIsReady ==
  /\ \A n \in Scenarios : shard[n].state = "whole" =>
       \A s \in ToSet(shard[n].ids) : s \in Valid /\ ScenarioComplete(s)
  /\ cstage = "done" => ready \cap ToSet(sources) \subseteq Delivered

\* Neither program hangs: a download that has begun ends with its report, with an
\* exception or by a kill, and a conversion ends although it waits for results in order.
IngestEnds ==
  /\ fstage \in {"write", "pool"} ~> fstage \in {"off", "done", "failed"}
  /\ cstage = "pool" ~> cstage \in {"off", "done"}

=============================================================================
