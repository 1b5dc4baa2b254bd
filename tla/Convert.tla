-------------------------------- MODULE Convert --------------------------------
(***************************************************************************)
(* The converter (scripts/convert_av2.py, av2/convert.py): a pool of       *)
(* processes converts the scenarios that have a directory when it starts,  *)
(* in any order; the main process takes the results in the order of the    *)
(* directories, writes a shard when enough are kept, and at the end the    *)
(* manifest and the rejections.  It may run while files are still being    *)
(* downloaded, and may be killed and repeated.                             *)
(***************************************************************************)
EXTENDS RawFiles, SequencesExt

CONSTANTS
  Valid,            (* The scenarios that pass the filters of conversion.  *)
  ShardSize         (* Scenarios per shard (--shard-size).                 *)

ASSUME ValidAssumption == Valid \subseteq Scenarios
ASSUME ShardSizeAssumption == ShardSize \in Nat \ {0}

VARIABLES
  cstage,       (* Where the main process is.                              *)
  sources,      (* The directories, sorted, up to --limit.                 *)
  result,       (* What the pool made of each.                             *)
  taken,        (* How many results the main process has taken.            *)
  kept,         (* How many of them were kept.                             *)
  buffer,       (* The kept ones that are in no shard yet (kept_buf).      *)
  listed,       (* The shards written, as the manifest will list them.     *)
  rejected,     (* The scenarios rejected, with the reason.                *)
  conversion,   (* How many times the converter was invoked.               *)
  shard,        (* The shard files.                                        *)
  manifest,     (* The file manifest.json.                                 *)
  rejections    (* The file rejections.json.                               *)

progress == <<sources, result, taken, kept, buffer, listed, rejected, conversion>>
cache == <<shard, manifest, rejections>>

\* A shard, or a file of the report: not there, cut off while it is written, or whole,
\* from the conversion of that number, which stands for the constants in force in it.
Absent == [state |-> "absent"]
Torn == [state |-> "torn"]

ShardFile(ids) == [state |-> "whole", by |-> conversion, ids |-> ids]

ConvertInit ==
  /\ cstage = "off"
  /\ sources = <<>>
  /\ result = [s \in Scenarios |-> "none"]
  /\ taken = 0 /\ kept = 0
  /\ buffer = <<>> /\ listed = <<>> /\ rejected = {}
  /\ conversion = 0
  /\ shard = [n \in Scenarios |-> Absent]
  /\ manifest = Absent
  /\ rejections = Absent

\* The main process has no results yet.
Afresh ==
  /\ result' = [s \in Scenarios |-> "none"]
  /\ taken' = 0 /\ kept' = 0
  /\ buffer' = <<>> /\ listed' = <<>> /\ rejected' = {}

\* No two elements stand in the wrong order.
InOrder(seq) == \A i, j \in DOMAIN seq : i < j => seq[i] < seq[j]

\* convert_av2.py starts: the directories there are, sorted, the first so many of them.
\* With none it ends at once.
StartConvert ==
  /\ cstage \in {"off", "done"}
  /\ \E most \in Limits, all \in [1 .. Cardinality(dirs) -> dirs] :
       /\ InOrder(all)
       /\ sources' = SubSeq(all, 1, Min({most, Cardinality(dirs)}))
  /\ sources' # <<>>
  /\ cstage' = "pool"
  /\ conversion' = conversion + 1
  /\ Afresh
  /\ UNCHANGED <<rawFiles, cache>>

\* Mutant of Converted: files that are there are taken to be fine.
ConvertedBlindly(s) ==
  CASE \E n \in DOMAIN Files : raw[s][n] = "none" -> "missing_input_files"
    [] s \in Valid                               -> "kept"
    [] OTHER                                      -> "unfit"

\* convert_dir(): the files have to be there, to parse, and to pass the filters; a short
\* one does not parse.
Converted(s) ==
  CASE \E n \in DOMAIN Files : raw[s][n] = "none" -> "missing_input_files"
    [] ScenarioComplete(s) /\ s \in Valid         -> "kept"
    [] OTHER                                      -> "unfit"

\* A process of the pool converts a scenario, reading what is there at that moment.
Compute(s) ==
  /\ cstage \notin {"off", "done"}
  /\ s \in ToSet(sources) /\ result[s] = "none"
  /\ result' = [result EXCEPT ![s] = Converted(s)]
  /\ UNCHANGED <<rawFiles, cstage, sources, taken, kept, buffer, listed, rejected,
                 conversion, cache>>

\* Mutant of Take: the results are taken as they come (imap_unordered).
TakeUnordered ==
  /\ cstage = "pool"
  /\ \E s \in ToSet(sources) :
       /\ result[s] # "none"
       /\ s \notin ToSet(buffer) \cup ToSet(FlattenSeq(listed)) \cup {r.id : r \in rejected}
       /\ taken' = taken + 1
       /\ IF result[s] = "kept"
            THEN /\ kept' = kept + 1
                 /\ buffer' = Append(buffer, s)
                 /\ cstage' = IF Len(buffer') >= ShardSize THEN "open" ELSE "pool"
                 /\ UNCHANGED rejected
            ELSE /\ rejected' = rejected \cup {[id |-> s, why |-> result[s]]}
                 /\ UNCHANGED <<kept, buffer, cstage>>
  /\ UNCHANGED <<rawFiles, sources, result, listed, conversion, cache>>

\* The main process takes the next result, in the order of the directories.
Take ==
  /\ cstage = "pool" /\ taken < Len(sources)
  /\ LET s == sources[taken + 1] IN
       /\ result[s] # "none"
       /\ taken' = taken + 1
       /\ IF result[s] = "kept"
            THEN /\ kept' = kept + 1
                 /\ buffer' = Append(buffer, s)
                 /\ cstage' = IF Len(buffer') >= ShardSize THEN "open" ELSE "pool"
                 /\ UNCHANGED rejected
            ELSE /\ rejected' = rejected \cup {[id |-> s, why |-> result[s]]}
                 /\ UNCHANGED <<kept, buffer, cstage>>
  /\ UNCHANGED <<rawFiles, sources, result, listed, conversion, cache>>

\* All results are taken: what is left in the buffer makes the last shard.
LastFlush ==
  /\ cstage = "pool" /\ taken = Len(sources)
  /\ cstage' = IF buffer # <<>> THEN "open" ELSE "manifest"
  /\ UNCHANGED <<rawFiles, progress, cache>>

\* write_shard() opens the next file, which empties it, and writes it under its name.
OpenShard ==
  /\ cstage = "open"
  /\ shard' = [shard EXCEPT ![Len(listed) + 1] = Torn]
  /\ cstage' = "write"
  /\ UNCHANGED <<rawFiles, progress, manifest, rejections>>

\* The shard is written, and the main process goes back to the results.
WriteShard ==
  /\ cstage = "write"
  /\ shard' = [shard EXCEPT ![Len(listed) + 1] = ShardFile(buffer)]
  /\ listed' = Append(listed, buffer)
  /\ buffer' = <<>>
  /\ cstage' = "pool"
  /\ UNCHANGED <<rawFiles, sources, result, taken, kept, rejected, conversion,
                 manifest, rejections>>

\* The manifest and then the rejections: each is opened, which empties it, and written.
\* One that was left torn is as if it were opened already.
WriteReport ==
  /\ \/ /\ cstage = "manifest" /\ manifest.state # "torn"
        /\ manifest' = Torn
        /\ UNCHANGED <<cstage, rejections>>
     \/ /\ cstage = "manifest" /\ manifest.state = "torn"
        /\ manifest' = [state |-> "whole", by |-> conversion, seen |-> Len(sources),
                        kept |-> kept, rejected |-> Cardinality(rejected), shards |-> listed]
        /\ cstage' = "rejections"
        /\ UNCHANGED rejections
     \/ /\ cstage = "rejections" /\ rejections.state # "torn"
        /\ rejections' = Torn
        /\ UNCHANGED <<cstage, manifest>>
     \/ /\ cstage = "rejections" /\ rejections.state = "torn"
        /\ rejections' = [state |-> "whole", by |-> conversion, reasons |-> rejected]
        /\ cstage' = "done"
        /\ UNCHANGED manifest
  /\ UNCHANGED <<rawFiles, progress, shard>>

\* The process is killed, or an exception ends it: what it had in memory is gone.
KillConvert ==
  /\ cstage \notin {"off", "done"}
  /\ cstage' = "off"
  /\ sources' = <<>>
  /\ Afresh
  /\ UNCHANGED <<rawFiles, conversion, cache>>

\* The program by itself.
ConvertStep ==
  \/ \E s \in Scenarios : Compute(s)
  \/ Take
  \/ LastFlush
  \/ OpenShard
  \/ WriteShard
  \/ WriteReport

ConvertNext == StartConvert \/ ConvertStep \/ KillConvert

=============================================================================
