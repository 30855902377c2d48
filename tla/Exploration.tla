---------------------------- MODULE Exploration -----------------------------
(***************************************************************************)
(* The live snapshot command (discovery/run_live.py): it runs the whole    *)
(* matrix of queries, writes their summary, fetches one record for some of *)
(* the queries, writes each, and ends with a manifest of them.  No file is *)
(* ever replaced: each is created exclusively, then written.               *)
(*                                                                         *)
(* Commands, each with a matrix of its own, may be started for the same    *)
(* output directory one after the other or side by side, may fail at every *)
(* call and may be killed.                                                 *)
(***************************************************************************)
EXTENDS QueryMatrix

CONSTANTS
  Commands,   \* the commands started for one output directory
  Matrices,   \* the matrices they may be given
  Responses,  \* the payloads Search may return
  SampleIds   \* SAMPLE_QUERY_IDS

(* The constant names queries, at least one and each once; matrices and     *)
(* payloads carry sequences.                                                *)
ASSUME SampleIdsAssumption ==
  /\ SampleIds \in Seq(ToSet(SampleIds)) \ {<<>>}
  /\ IsInjective(SampleIds)
ASSUME MatricesAssumption == \A m \in Matrices : m.queries \in Seq(ToSet(m.queries))
ASSUME ResponsesAssumption == \A r \in Responses : r.items \in Seq(ToSet(r.items))

VARIABLES
  matrix,     \* the matrix file given to each command
  pc,         \* of each command
  asked,      \* the requests of each command, in order
  summaries,  \* of each command
  sample,     \* sample_number of each command
  manifest,   \* sample_manifest of each command
  dir         \* the files of the output directory, by name

vars == <<matrix, pc, asked, summaries, sample, manifest, dir>>

SummaryFile   == <<"search_summary">>
RecordFile(n) == <<"records", n>>
ManifestFile  == <<"sample_manifest">>

RecordFiles == {RecordFile(n) : n \in DOMAIN SampleIds}
Files       == RecordFiles \cup {SummaryFile, ManifestFile}

Ended == {"finished", "failed", "killed"}

Init ==
  /\ matrix \in [Commands -> Matrices]
  /\ pc = [c \in Commands |-> "load"]
  /\ asked = [c \in Commands |-> <<>>]
  /\ summaries = [c \in Commands |-> <<>>]
  /\ sample = [c \in Commands |-> 1]
  /\ manifest = [c \in Commands |-> <<>>]
  /\ dir = <<>>

Goto(c, label) == pc' = [pc EXCEPT ![c] = label]

Ask(c, request) == asked' = [asked EXCEPT ![c] = Append(@, request)]

-----------------------------------------------------------------------------
(* The matrix and the searches                                             *)

(* Loading it, and the credential.                                          *)
Load(c) ==
  /\ pc[c] = "load"
  /\ Goto(c, IF ValidMatrix(matrix[c]) THEN "search" ELSE "failed")
  /\ UNCHANGED <<matrix, asked, summaries, sample, manifest, dir>>

NextQuery(c) == matrix[c].queries[Len(summaries[c]) + 1]

(* request_from_query refuses the query.                                    *)
RequestRefused(c) ==
  /\ pc[c] = "search"
  /\ ~Requestable(NextQuery(c))
  /\ Goto(c, "failed")
  /\ UNCHANGED <<matrix, asked, summaries, sample, manifest, dir>>

SearchFails(c) ==
  /\ pc[c] = "search"
  /\ Requestable(NextQuery(c))
  /\ Ask(c, <<"search", NextQuery(c).query_id>>)
  /\ Goto(c, "failed")
  /\ UNCHANGED <<matrix, summaries, sample, manifest, dir>>

AskUntilSummarized(c) ==
  /\ pc[c] = "search"
  /\ Requestable(NextQuery(c))
  /\ Ask(c, <<"search", NextQuery(c).query_id>>)
  /\ \E response \in Responses :
       IF Summarizable(NextQuery(c), response)
       THEN /\ summaries' = [summaries EXCEPT ![c] =
                               Append(@, Summary(NextQuery(c), response))]
            /\ Goto(c, IF Len(summaries'[c]) = Len(matrix[c].queries)
                       THEN "open_summary" ELSE "search")
       ELSE Len(asked[c]) < 5 /\ UNCHANGED <<pc, summaries>>
  /\ UNCHANGED <<matrix, sample, manifest, dir>>

(* One turn of run_query_matrix; summarize_search may refuse the answer.    *)
SearchNext(c) ==
  /\ pc[c] = "search"
  /\ Requestable(NextQuery(c))
  /\ Ask(c, <<"search", NextQuery(c).query_id>>)
  /\ \E response \in Responses :
       IF Summarizable(NextQuery(c), response)
       THEN /\ summaries' = [summaries EXCEPT ![c] =
                               Append(@, Summary(NextQuery(c), response))]
            /\ Goto(c, IF Len(summaries'[c]) = Len(matrix[c].queries)
                       THEN "open_summary" ELSE "search")
       ELSE Goto(c, "failed") /\ UNCHANGED summaries
  /\ UNCHANGED <<matrix, sample, manifest, dir>>

-----------------------------------------------------------------------------
(* _write_new_json                                                         *)

(* The file exists, with nothing or some of its text in it.                 *)
Opened(c) == [by |-> c, whole |-> FALSE]

Written(c, value) == [by |-> c, whole |-> TRUE, value |-> value]

Put(file, content) ==
  dir' = [f \in DOMAIN dir \cup {file} |-> IF f = file THEN content ELSE dir[f]]

CreateOrTruncate(c, file, next) == Put(file, Opened(c)) /\ Goto(c, next)

(* open("x"): one writer creates the file, another one is refused.          *)
Create(c, file, next) ==
  IF file \in DOMAIN dir
  THEN Goto(c, "failed") /\ UNCHANGED dir
  ELSE Put(file, Opened(c)) /\ Goto(c, next)

Write(c, file, value, next) ==
  /\ Put(file, Written(c, value))
  /\ Goto(c, next)

(* A directory that cannot be made, a full disk, no matrix file, no         *)
(* credential.                                                              *)
SystemCallFails(c) ==
  /\ pc[c] \notin Ended \cup {"search", "fetch"}
  /\ Goto(c, "failed")
  /\ UNCHANGED <<matrix, asked, summaries, sample, manifest, dir>>

-----------------------------------------------------------------------------
(* The files                                                               *)

CreateSummary(c) ==
  /\ pc[c] = "open_summary"
  /\ Create(c, SummaryFile, "write_summary")
  /\ UNCHANGED <<matrix, asked, summaries, sample, manifest>>

WriteSummary(c) ==
  /\ pc[c] = "write_summary"
  /\ Write(c, SummaryFile, summaries[c], "fetch")
  /\ UNCHANGED <<matrix, asked, summaries, sample, manifest>>

SummariesOf(c, query_id) ==
  {s \in ToSet(summaries[c]) : s.query_id = query_id}

AfterSampleTooSoon(c) ==
  IF sample[c] + 1 >= Len(SampleIds) THEN "open_manifest" ELSE "fetch"

(* The last turn of the loop is over.                                       *)
AfterSample(c) == IF sample[c] = Len(SampleIds) THEN "open_manifest" ELSE "fetch"

(* summary_by_id raises KeyError.                                           *)
NoSuchQuery(c) ==
  /\ pc[c] = "fetch"
  /\ SummariesOf(c, SampleIds[sample[c]]) = {}
  /\ Goto(c, "failed")
  /\ UNCHANGED <<matrix, asked, summaries, sample, manifest, dir>>

NothingSampled(c) ==
  /\ pc[c] = "fetch"
  /\ \E s \in SummariesOf(c, SampleIds[sample[c]]) : s.sampled_records = <<>>
  /\ sample' = [sample EXCEPT ![c] = @ + 1]
  /\ Goto(c, AfterSample(c))
  /\ UNCHANGED <<matrix, asked, summaries, manifest, dir>>

(* record_snapshot of the first sampled record returns or raises.           *)
Fetch(c) ==
  /\ pc[c] = "fetch"
  /\ \E s \in SummariesOf(c, SampleIds[sample[c]]) :
       /\ s.sampled_records # <<>>
       /\ Ask(c, <<"record", s.query_id, s.sampled_records[1]>>)
  /\ \/ Goto(c, "open_record")
     \/ Goto(c, "failed")
  /\ UNCHANGED <<matrix, summaries, sample, manifest, dir>>

CreateRecord(c) ==
  /\ pc[c] = "open_record"
  /\ Create(c, RecordFile(sample[c]), "write_record")
  /\ UNCHANGED <<matrix, asked, summaries, sample, manifest>>

(* The record's identifier stands for its document.                         *)
WriteRecord(c) ==
  /\ pc[c] = "write_record"
  /\ \E s \in SummariesOf(c, SampleIds[sample[c]]) :
       /\ Write(c, RecordFile(sample[c]), s.sampled_records[1], AfterSample(c))
       /\ manifest' = [manifest EXCEPT ![c] =
                         Append(@, [query_id  |-> s.query_id,
                                    record_id |-> s.sampled_records[1],
                                    file      |-> RecordFile(sample[c])])]
  /\ sample' = [sample EXCEPT ![c] = @ + 1]
  /\ UNCHANGED <<matrix, asked, summaries>>

CreateManifest(c) ==
  /\ pc[c] = "open_manifest"
  /\ Create(c, ManifestFile, "write_manifest")
  /\ UNCHANGED <<matrix, asked, summaries, sample, manifest>>

WriteManifest(c) ==
  /\ pc[c] = "write_manifest"
  /\ Write(c, ManifestFile, manifest[c], "finished")
  /\ UNCHANGED <<matrix, asked, summaries, sample, manifest>>

Kill(c) ==
  /\ pc[c] \notin Ended
  /\ Goto(c, "killed")
  /\ UNCHANGED <<matrix, asked, summaries, sample, manifest, dir>>

-----------------------------------------------------------------------------

Step(c) ==
  \/ Load(c)
  \/ RequestRefused(c)
  \/ SearchFails(c)
  \/ SearchNext(c)
  \/ CreateSummary(c)
  \/ WriteSummary(c)
  \/ NoSuchQuery(c)
  \/ NothingSampled(c)
  \/ Fetch(c)
  \/ CreateRecord(c)
  \/ WriteRecord(c)
  \/ CreateManifest(c)
  \/ WriteManifest(c)
  \/ SystemCallFails(c)

Next == \E c \in Commands : Step(c) \/ Kill(c)

Spec == Init /\ [][Next]_vars

-----------------------------------------------------------------------------
(* Types                                                                   *)

Whole(file) == file \in DOMAIN dir /\ dir[file].whole

(* Control and the files of the output directory.                           *)
TypeOK ==
  /\ matrix \in [Commands -> Matrices]
  /\ pc \in [Commands -> Ended \cup
       {"load", "search", "open_summary", "write_summary", "fetch", "open_record",
        "write_record", "open_manifest", "write_manifest"}]
  /\ sample \in [Commands -> 1..Len(SampleIds) + 1]
  /\ DOMAIN dir \subseteq Files
  /\ \A f \in DOMAIN dir : dir[f].by \in Commands /\ dir[f].whole \in BOOLEAN

-----------------------------------------------------------------------------
(* Safety                                                                  *)

(* Everything in the directory was written by one command, although several *)
(* may have been started for it, failed midway and been started again: the  *)
(* summary is created first, and only once (_write_new_json).               *)
SnapshotIsOfOneCommand ==
  \A f, g \in DOMAIN dir : dir[f].by = dir[g].by

(* A written manifest proves the snapshot: the summary covers the matrix of *)
(* its command in order, each query within its approved sample limit, and   *)
(* the records are those the summary samples first for the queries to       *)
(* sample, all there and no other (the order of main).                      *)
ManifestIsComplete ==
  Whole(ManifestFile) =>
    /\ Whole(SummaryFile)
    /\ LET entries == dir[SummaryFile].value
           samples == dir[ManifestFile].value
           queries == matrix[dir[ManifestFile].by].queries
           toSample == {s \in ToSet(entries) :
                          Contains(SampleIds, s.query_id) /\ s.sampled_records # <<>>}
       IN /\ QueryIds(entries) = QueryIds(queries)
          /\ \A n \in DOMAIN entries :
               /\ Len(entries[n].sampled_records) <= queries[n].sample_limit
               /\ IsInjective(entries[n].sampled_records)
               /\ entries[n].items_count <= entries[n].total_results
          /\ {<<s.query_id, s.record_id>> : s \in ToSet(samples)}
               = {<<s.query_id, s.sampled_records[1]>> : s \in toSample}
          /\ \A s \in ToSet(samples) :
               Whole(s.file) /\ dir[s.file].value = s.record_id
          /\ DOMAIN dir \cap RecordFiles = {s.file : s \in ToSet(samples)}

(* "no retries": whatever fails, no request of a command is made again, the *)
(* first sample is asked for after the last query, and a matrix that its    *)
(* loader refuses costs no request at all.                                  *)
RequestsAreNotRepeated ==
  \A c \in Commands :
    /\ IsInjective(asked[c])
    /\ Len(asked[c]) <= Len(matrix[c].queries) + Len(SampleIds)
    /\ \A n \in DOMAIN asked[c] :
         asked[c][n][1] = "search" <=> n <= Len(matrix[c].queries)
    /\ ~ValidMatrix(matrix[c]) => asked[c] = <<>>

(* Prior evidence is never replaced: not by the same command, not by        *)
(* another one (_write_new_json).                                           *)
EvidenceIsKept ==
  [][\A f \in DOMAIN dir :
       /\ f \in DOMAIN dir' /\ dir'[f].by = dir[f].by
       /\ Whole(f) => dir'[f] = dir[f]]_vars

(* "Reject incomplete, duplicate, or unbounded query definitions"           *)
(* (DiscoveryQuery.__post_init__): no query of a matrix that loads is       *)
(* refused once requests have been spent on it.                             *)
LoadedQueriesCanBeAsked ==
  \A c \in Commands : asked[c] # <<>> =>
    \A query \in ToSet(matrix[c].queries) : Requestable(query)

=============================================================================
