------------------------- MODULE ExplorationProofs --------------------------
(***************************************************************************)
(* A snapshot directory is the work of one command and nothing in it is    *)
(* replaced, no command makes a request twice, and a manifest proves that  *)
(* the snapshot is all there: for every number of commands, every matrix   *)
(* and every answer.                                                       *)
(*                                                                         *)
(* Three invariants, each resting on the one before: whose the files are   *)
(* (IInv), what every command has asked and summarized (AskInv), and what  *)
(* the files prove of the samples taken so far (FileInv).                  *)
(***************************************************************************)
EXTENDS Exploration, SequenceProofs

(* A command that is past the creation of the summary.                      *)
Past == {"write_summary", "fetch", "open_record", "write_record", "open_manifest",
         "write_manifest", "finished"}

(* Where a command can be.                                                  *)
Labels == Ended \cup Past \cup {"load", "search", "open_summary"}

(* A command with a file open.                                              *)
Writing == {"write_summary", "write_record", "write_manifest"}

(* The file it has open.                                                    *)
FileOf(c) ==
  IF pc[c] = "write_summary" THEN SummaryFile
  ELSE IF pc[c] = "write_record" THEN RecordFile(sample[c])
  ELSE ManifestFile

(* Only the command that created the summary goes past it.                  *)
PastOwnsSummary ==
  \A c \in Commands : pc[c] \in Past =>
    SummaryFile \in DOMAIN dir /\ dir[SummaryFile].by = c

(* Every file is of the command that created the summary.                   *)
FilesFollowSummary ==
  \A f \in DOMAIN dir :
    SummaryFile \in DOMAIN dir /\ dir[f].by = dir[SummaryFile].by

(* A file that is being written is the writer's own and not yet whole.      *)
OpenFilesAreOwned ==
  \A c \in Commands : pc[c] \in Writing =>
    FileOf(c) \in DOMAIN dir /\ dir[FileOf(c)] = Opened(c)

IInv ==
  /\ pc \in [Commands -> Labels]
  /\ PastOwnsSummary
  /\ FilesFollowSummary
  /\ OpenFilesAreOwned

(* What a step does to the files there are.                                 *)
Keeps ==
  \A f \in DOMAIN dir :
    /\ f \in DOMAIN dir' /\ dir'[f].by = dir[f].by
    /\ Whole(f) => dir'[f] = dir[f]

-----------------------------------------------------------------------------

(* Two commands are never both past the summary.                            *)
LEMMA OneIsPast ==
  ASSUME IInv, NEW c \in Commands, NEW d \in Commands, pc[c] \in Past, pc[d] \in Past
  PROVE  c = d
BY Zenon DEF IInv, PastOwnsSummary

(* Goto moves one command.                                                  *)
LEMMA OneMoves ==
  ASSUME IInv, NEW c \in Commands, NEW label \in Labels, Goto(c, label)
  PROVE  /\ pc' \in [Commands -> Labels]
         /\ pc'[c] = label
         /\ \A d \in Commands : d # c => pc'[d] = pc[d]
BY DEF IInv, Goto

(* A step that touches no file and does not get past the summary.           *)
LEMMA MoveKeeps ==
  ASSUME IInv, NEW c \in Commands, NEW label \in Labels, Goto(c, label),
         label \notin Writing, label \in Past => pc[c] \in Past,
         \A d \in Commands : d # c /\ pc[d] \in Writing => sample'[d] = sample[d],
         UNCHANGED dir
  PROVE  IInv' /\ Keeps
<1>1. /\ pc' \in [Commands -> Labels]
      /\ pc'[c] = label
      /\ \A d \in Commands : d # c => pc'[d] = pc[d]
  BY OneMoves
<1>2. PastOwnsSummary'
  BY <1>1, Zenon DEF IInv, PastOwnsSummary
<1>3. FilesFollowSummary'
  BY Zenon DEF IInv, FilesFollowSummary
<1>4. OpenFilesAreOwned'
  <2> SUFFICES ASSUME NEW d \in Commands, pc'[d] \in Writing
               PROVE  FileOf(d)' \in DOMAIN dir /\ dir[FileOf(d)'] = Opened(d)
    BY Zenon DEF OpenFilesAreOwned, Opened
  <2>1. d # c /\ pc'[d] = pc[d]
    BY <1>1
  <2>2. FileOf(d)' = FileOf(d)
    BY <2>1, Zenon DEF FileOf, RecordFile, SummaryFile, ManifestFile
  <2> QED
    BY <2>1, <2>2, Zenon DEF IInv, OpenFilesAreOwned
<1>5. Keeps
  BY Zenon DEF Keeps
<1> QED
  BY <1>1, <1>2, <1>3, <1>4, <1>5, Zenon DEF IInv

(* What Put leaves alone.                                                   *)
LEMMA PutOne ==
  ASSUME NEW file, NEW content, Put(file, content)
  PROVE  /\ DOMAIN dir' = DOMAIN dir \cup {file}
         /\ dir'[file] = content
         /\ \A f \in DOMAIN dir : f # file => dir'[f] = dir[f]
BY DEF Put

(* open("x"): the summary by a command that has not created it, another     *)
(* file by the one that has.                                                *)
LEMMA CreateKeeps ==
  ASSUME IInv, NEW c \in Commands, NEW file, NEW next \in Writing,
         Create(c, file, next), UNCHANGED sample,
         \/ next = "write_summary" /\ file = SummaryFile
         \/ pc[c] \in Past /\ file \in {RecordFile(sample[c]), ManifestFile},
         next = "write_record" <=> file = RecordFile(sample[c]),
         next = "write_manifest" <=> file = ManifestFile
  PROVE  IInv' /\ Keeps
<1>1. CASE file \in DOMAIN dir
  <2>1. Goto(c, "failed") /\ UNCHANGED dir
    BY <1>1, Zenon DEF Create
  <2> QED
    BY <2>1, MoveKeeps DEF Past, Writing, Labels, Ended
<1>2. CASE file \notin DOMAIN dir
  <2>1. Put(file, Opened(c)) /\ Goto(c, next)
    BY <1>2, Zenon DEF Create
  <2>2. /\ DOMAIN dir' = DOMAIN dir \cup {file}
        /\ dir'[file] = Opened(c)
        /\ \A f \in DOMAIN dir : dir'[f] = dir[f]
    BY <1>2, <2>1, PutOne, Zenon
  <2>3. /\ pc' \in [Commands -> Labels]
        /\ pc'[c] = next
        /\ \A d \in Commands : d # c => pc'[d] = pc[d]
    <3>1. next \in Labels
      BY DEF Writing, Labels, Past
    <3> QED
      BY <2>1, <3>1, OneMoves, Zenon
  <2>4. dir'[file].by = c
    BY <2>2 DEF Opened
  <2>5. SummaryFile \in DOMAIN dir' /\ dir'[SummaryFile].by = c
    <3>1. CASE file = SummaryFile
      BY <2>2, <2>4, <3>1, Zenon
    <3>2. CASE pc[c] \in Past
      BY <2>2, <3>2, Zenon DEF IInv, PastOwnsSummary
    <3> QED
      BY <3>1, <3>2, Zenon
  <2>6. \A f \in DOMAIN dir : dir[f].by = c
    <3>1. CASE file = SummaryFile
      BY <1>2, <3>1, Zenon DEF IInv, FilesFollowSummary
    <3>2. CASE pc[c] \in Past
      BY <3>2, Zenon DEF IInv, FilesFollowSummary, PastOwnsSummary
    <3> QED
      BY <3>1, <3>2, Zenon
  <2>7. \A d \in Commands : d # c => pc[d] \notin Past
    BY <2>6, Zenon DEF IInv, PastOwnsSummary
  <2>8. PastOwnsSummary'
    BY <2>3, <2>5, <2>7, Zenon DEF PastOwnsSummary
  <2>9. FilesFollowSummary'
    <3> SUFFICES ASSUME NEW f \in DOMAIN dir' PROVE dir'[f].by = c
      BY <2>5, Zenon DEF FilesFollowSummary
    <3> QED
      BY <2>2, <2>4, <2>6, Zenon
  <2>10. OpenFilesAreOwned'
    <3> SUFFICES ASSUME NEW d \in Commands, pc'[d] \in Writing
                 PROVE  FileOf(d)' \in DOMAIN dir' /\ dir'[FileOf(d)'] = Opened(d)
      BY Zenon DEF OpenFilesAreOwned, Opened
    <3>1. d = c
      BY <2>3, <2>7 DEF Past, Writing
    <3>2. FileOf(c)' = file
      BY <2>3 DEF FileOf, Writing
    <3> QED
      BY <2>2, <3>1, <3>2, Zenon
  <2>11. Keeps
    BY <2>2, Zenon DEF Keeps
  <2> QED
    BY <2>3, <2>8, <2>9, <2>10, <2>11, Zenon DEF IInv
<1> QED
  BY <1>1, <1>2, Zenon

(* The writer fills its own file.                                           *)
LEMMA WriteKeeps ==
  ASSUME IInv, NEW c \in Commands, pc[c] \in Writing, NEW value,
         NEW next \in Labels, next \notin Writing,
         Write(c, FileOf(c), value, next)
  PROVE  IInv' /\ Keeps
<1> DEFINE file == FileOf(c)
<1>1. file \in DOMAIN dir /\ dir[file] = Opened(c)
  BY Zenon DEF IInv, OpenFilesAreOwned
<1>2. dir[file].by = c /\ ~dir[file].whole
  BY <1>1 DEF Opened
<1>3. Put(file, Written(c, value)) /\ Goto(c, next)
  BY Zenon DEF Write
<1>4. /\ DOMAIN dir' = DOMAIN dir \cup {file}
      /\ dir'[file] = Written(c, value)
      /\ \A f \in DOMAIN dir : f # file => dir'[f] = dir[f]
  BY <1>3, PutOne, Zenon
<1>5. DOMAIN dir' = DOMAIN dir
  BY <1>1, <1>4
<1>6. dir'[file].by = c
  BY <1>4 DEF Written
<1>7. \A f \in DOMAIN dir : dir'[f].by = dir[f].by
  BY <1>2, <1>4, <1>6, Zenon
<1>8. /\ pc' \in [Commands -> Labels]
      /\ pc'[c] = next
      /\ \A d \in Commands : d # c => pc'[d] = pc[d]
  BY <1>3, OneMoves, Zenon
<1>9. pc[c] \in Past
  BY DEF Past, Writing
<1>10. PastOwnsSummary'
  <2> SUFFICES ASSUME NEW d \in Commands, pc'[d] \in Past
               PROVE  SummaryFile \in DOMAIN dir /\ dir[SummaryFile].by = d
    BY <1>5, <1>7, Zenon DEF PastOwnsSummary
  <2> QED
    BY <1>8, <1>9, Zenon DEF IInv, PastOwnsSummary
<1>11. FilesFollowSummary'
  BY <1>5, <1>7, Zenon DEF IInv, FilesFollowSummary
<1>12. OpenFilesAreOwned'
  <2>1. \A d \in Commands : pc'[d] \notin Writing
    <3> SUFFICES ASSUME NEW d \in Commands, pc'[d] \in Writing PROVE FALSE
      OBVIOUS
    <3>1. d # c /\ pc[d] \in Writing
      BY <1>8, Zenon
    <3>2. pc[d] \in Past
      BY <3>1 DEF Past, Writing
    <3> QED
      BY <1>9, <3>1, <3>2, OneIsPast, Zenon
  <2> QED
    BY <2>1, Zenon DEF OpenFilesAreOwned
<1>13. Keeps
  BY <1>2, <1>4, <1>5, <1>7, Zenon DEF Keeps, Whole
<1> QED
  BY <1>8, <1>10, <1>11, <1>12, <1>13, Zenon DEF IInv

-----------------------------------------------------------------------------

(* Nothing is there at the start.                                           *)
LEMMA Initially == Init => IInv
<1> SUFFICES ASSUME Init PROVE IInv
  OBVIOUS
<1>1. pc \in [Commands -> Labels] /\ \A c \in Commands : pc[c] = "load"
  BY DEF Init, Labels
<1>2. DOMAIN dir = {}
  BY DEF Init
<1> QED
  BY <1>1, <1>2 DEF IInv, PastOwnsSummary, FilesFollowSummary, OpenFilesAreOwned,
    Past, Writing

(* The steps that touch no file.                                            *)
LEMMA OtherStepsKeep ==
  ASSUME IInv, NEW c \in Commands,
         \/ Load(c) \/ RequestRefused(c) \/ SearchFails(c) \/ SearchNext(c)
         \/ NoSuchQuery(c) \/ NothingSampled(c) \/ Fetch(c) \/ SystemCallFails(c)
         \/ Kill(c)
  PROVE  IInv' /\ Keeps
<1> DEFINE Targets == {"search", "failed", "open_summary", "fetch", "open_record",
                       "open_manifest", "killed"}
<1>1. PICK label \in Targets :
        /\ Goto(c, label)
        /\ label \in Past => pc[c] \in Past
  <2>1. CASE Load(c)
    BY <2>1 DEF Load, Past
  <2>2. CASE RequestRefused(c)
    BY <2>2 DEF RequestRefused, Past
  <2>3. CASE SearchFails(c)
    BY <2>3 DEF SearchFails, Past
  <2>4. CASE SearchNext(c)
    <3>1. \E label \in {"open_summary", "search", "failed"} : Goto(c, label)
      BY <2>4 DEF SearchNext
    <3> QED
      BY <3>1 DEF Past
  <2>5. CASE NoSuchQuery(c)
    BY <2>5 DEF NoSuchQuery, Past
  <2>6. CASE NothingSampled(c)
    BY <2>6 DEF NothingSampled, AfterSample, Past
  <2>7. CASE Fetch(c)
    BY <2>7 DEF Fetch, Past
  <2>8. CASE SystemCallFails(c)
    BY <2>8 DEF SystemCallFails, Past
  <2>9. CASE Kill(c)
    BY <2>9 DEF Kill, Past
  <2> QED
    BY <2>1, <2>2, <2>3, <2>4, <2>5, <2>6, <2>7, <2>8, <2>9, Zenon
<1>2. label \in Labels /\ label \notin Writing
  BY DEF Writing, Labels, Past, Ended
<1>3. UNCHANGED dir
  BY DEF Load, RequestRefused, SearchFails, SearchNext, NoSuchQuery, NothingSampled,
    Fetch, SystemCallFails, Kill
<1>4. \A d \in Commands : d # c /\ pc[d] \in Writing => sample'[d] = sample[d]
  <2>1. CASE NothingSampled(c)
    <3>1. pc[c] \in Past
      BY <2>1 DEF NothingSampled, Past
    <3>2. \A d \in Commands : pc[d] \in Writing => pc[d] \in Past
      BY DEF Writing, Past
    <3> QED
      BY <3>1, <3>2, OneIsPast, Zenon
  <2>2. CASE UNCHANGED sample
    BY <2>2, Zenon
  <2> QED
    BY <2>1, <2>2, Zenon DEF Load, RequestRefused, SearchFails, SearchNext, NoSuchQuery,
      Fetch, SystemCallFails, Kill
<1> QED
  BY <1>1, <1>2, <1>3, <1>4, MoveKeeps, Zenon

(* Every step keeps the invariant and what is in the directory.             *)
LEMMA StepKeeps ==
  ASSUME IInv, [Next]_vars
  PROVE  IInv' /\ Keeps
<1>1. ASSUME NEW c \in Commands, Step(c) \/ Kill(c)
      PROVE  IInv' /\ Keeps
  <2>1. CASE CreateSummary(c)
    <3>1. Create(c, SummaryFile, "write_summary") /\ UNCHANGED sample
      BY <2>1, Zenon DEF CreateSummary
    <3>2. SummaryFile # RecordFile(sample[c]) /\ SummaryFile # ManifestFile
      BY DEF SummaryFile, RecordFile, ManifestFile
    <3> QED
      BY <3>1, <3>2, CreateKeeps DEF Writing
  <2>2. CASE CreateRecord(c)
    <3>1. Create(c, RecordFile(sample[c]), "write_record") /\ UNCHANGED sample
      BY <2>2, Zenon DEF CreateRecord
    <3>2. RecordFile(sample[c]) # ManifestFile
      BY DEF RecordFile, ManifestFile
    <3>3. pc[c] \in Past
      BY <2>2 DEF CreateRecord, Past
    <3> QED
      BY <3>1, <3>2, <3>3, CreateKeeps DEF Writing
  <2>3. CASE CreateManifest(c)
    <3>1. Create(c, ManifestFile, "write_manifest") /\ UNCHANGED sample
      BY <2>3, Zenon DEF CreateManifest
    <3>2. RecordFile(sample[c]) # ManifestFile
      BY DEF RecordFile, ManifestFile
    <3>3. pc[c] \in Past
      BY <2>3 DEF CreateManifest, Past
    <3> QED
      BY <3>1, <3>2, <3>3, CreateKeeps DEF Writing
  <2>4. CASE WriteSummary(c)
    <3>1. pc[c] \in Writing /\ FileOf(c) = SummaryFile
      BY <2>4 DEF WriteSummary, Writing, FileOf
    <3>2. Write(c, FileOf(c), summaries[c], "fetch")
      BY <2>4, <3>1, Zenon DEF WriteSummary
    <3> QED
      BY <3>1, <3>2, WriteKeeps DEF Writing, Labels, Past, Ended
  <2>5. CASE WriteRecord(c)
    <3>1. pc[c] \in Writing /\ FileOf(c) = RecordFile(sample[c])
      BY <2>5 DEF WriteRecord, Writing, FileOf
    <3>2. PICK s : Write(c, FileOf(c), s.sampled_records[1], AfterSample(c))
      BY <2>5, <3>1, Zenon DEF WriteRecord
    <3>3. AfterSample(c) \in Labels /\ AfterSample(c) \notin Writing
      BY DEF AfterSample, Writing, Labels, Past
    <3> QED
      BY <3>1, <3>2, <3>3, WriteKeeps, Zenon
  <2>6. CASE WriteManifest(c)
    <3>1. pc[c] \in Writing /\ FileOf(c) = ManifestFile
      BY <2>6 DEF WriteManifest, Writing, FileOf
    <3>2. Write(c, FileOf(c), manifest[c], "finished")
      BY <2>6, <3>1, Zenon DEF WriteManifest
    <3> QED
      BY <3>1, <3>2, WriteKeeps DEF Writing, Labels, Past, Ended
  <2> QED
    BY <1>1, <2>1, <2>2, <2>3, <2>4, <2>5, <2>6, OtherStepsKeep, Zenon DEF Step
<1>2. CASE UNCHANGED vars
  <2>1. UNCHANGED <<pc, sample, dir>>
    BY <1>2 DEF vars
  <2>2. Keeps
    BY <2>1, Zenon DEF Keeps
  <2>3. IInv'
    BY <2>1 DEF IInv, PastOwnsSummary, FilesFollowSummary, OpenFilesAreOwned, FileOf
  <2> QED
    BY <2>2, <2>3
<1> QED
  BY <1>1, <1>2, Zenon DEF Next

(* The invariant holds throughout.                                          *)
THEOREM Invariant == Spec => []IInv
<1>1. Init => IInv
  BY Initially
<1>2. IInv /\ [Next]_vars => IInv'
  BY StepKeeps, Zenon
<1> QED
  BY <1>1, <1>2, PTL DEF Spec

(* A directory never holds the work of two commands.                        *)
THEOREM OneCommandPerSnapshot == Spec => []SnapshotIsOfOneCommand
<1>1. IInv => SnapshotIsOfOneCommand
  BY Zenon DEF IInv, FilesFollowSummary, SnapshotIsOfOneCommand
<1> QED
  BY <1>1, Invariant, PTL

(* No file is replaced or changes hands (_write_new_json).                  *)
THEOREM EvidenceStays == Spec => EvidenceIsKept
<1>1. IInv /\ [Next]_vars => [Keeps]_vars
  BY StepKeeps, Zenon
<1>2. [Keeps]_vars =>
        [\A f \in DOMAIN dir :
           /\ f \in DOMAIN dir' /\ dir'[f].by = dir[f].by
           /\ Whole(f) => dir'[f] = dir[f]]_vars
  BY Zenon DEF Keeps
<1> QED
  BY <1>1, <1>2, Invariant, PTL DEF Spec, EvidenceIsKept

-----------------------------------------------------------------------------
(* Requests and summaries                                                  *)

IsSequence(s) == s \in Seq(ToSet(s))

(* s is the summary of an answer to query.                                  *)
SummaryOf(s, query) ==
  \E r \in Responses : s = Summary(query, r) /\ Summarizable(query, r)

(* The summaries list is of the first queries of m, in order.               *)
Summarized(m, list) ==
  /\ IsSequence(list)
  /\ Len(list) <= Len(m.queries)
  /\ \A n \in 1..Len(list) : SummaryOf(list[n], m.queries[n])

(* The clauses of RequestsAreNotRepeated for the requests of one command.   *)
AskedOnce(m, list) ==
  /\ IsInjective(list)
  /\ Len(list) <= Len(m.queries) + Len(SampleIds)
  /\ \A n \in DOMAIN list : list[n][1] = "search" <=> n <= Len(m.queries)
  /\ ~ValidMatrix(m) => list = <<>>

(* How many samples a command may have asked for that is at number n.       *)
Tried(label, n) == IF label \in {"open_record", "write_record"} THEN n ELSE n - 1

(* A command that searches has asked for as many queries as it summarized.  *)
Searching(m, requests, list) ==
  /\ ValidMatrix(m)
  /\ Len(list) < Len(m.queries)
  /\ Len(requests) = Len(list)
  /\ \A n \in DOMAIN requests : requests[n] = <<"search", m.queries[n].query_id>>

(* Afterwards it asks for the records of different samples.                 *)
Sampling(m, requests, list, tried) ==
  /\ ValidMatrix(m)
  /\ Len(list) = Len(m.queries)
  /\ Len(m.queries) <= Len(requests)
  /\ Len(requests) <= Len(m.queries) + tried
  /\ \A n \in DOMAIN requests : n > Len(m.queries) =>
       \E j \in 1..tried : requests[n][2] = SampleIds[j]

BeforeFetch == {"load", "search", "open_summary", "write_summary"}
AtSample    == {"fetch", "open_record", "write_record"}
AfterFetch  == {"open_manifest", "write_manifest"}

(* What a command at label has asked, summarized, sampled and listed.       *)
Phase(m, label, requests, list, n, entries) ==
  /\ IsSequence(requests)
  /\ AskedOnce(m, requests)
  /\ Summarized(m, list)
  /\ label \in BeforeFetch => n = 1 /\ entries = <<>>
  /\ label \in AtSample => n \in 1..Len(SampleIds)
  /\ label \in AfterFetch => n = Len(SampleIds) + 1
  /\ label = "load" => requests = <<>> /\ list = <<>>
  /\ label = "search" => Searching(m, requests, list)
  /\ label \in {"open_summary", "write_summary"} \cup AtSample \cup AfterFetch =>
       Sampling(m, requests, list, Tried(label, n))

PhaseOf(c) == Phase(matrix[c], pc[c], asked[c], summaries[c], sample[c], manifest[c])

AskInv ==
  /\ matrix \in [Commands -> Matrices]
  /\ DOMAIN asked = Commands /\ DOMAIN summaries = Commands
  /\ DOMAIN sample = Commands /\ DOMAIN manifest = Commands
  /\ \A c \in Commands : PhaseOf(c)

(* Appending to a sequence.                                                 *)
LEMMA AppendTo ==
  ASSUME NEW s, IsSequence(s), NEW x
  PROVE  LET t == Append(s, x)
         IN /\ Len(s) \in Nat
            /\ DOMAIN s = 1..Len(s)
            /\ IsSequence(t)
            /\ Len(t) = Len(s) + 1
            /\ DOMAIN t = 1..(Len(s) + 1)
            /\ t[Len(s) + 1] = x
            /\ \A i \in 1..Len(s) : t[i] = s[i]
            /\ ToSet(t) = ToSet(s) \cup {x}
<1> DEFINE X == ToSet(s) \cup {x}
           t == Append(s, x)
<1>1. s \in Seq(X)
  <2>1. ToSet(s) \subseteq X
    OBVIOUS
  <2>2. s \in Seq(ToSet(s))
    BY DEF IsSequence
  <2> HIDE DEF X
  <2>3. QED
    BY <2>1, <2>2
<1>2. x \in X
  OBVIOUS
<1>3. ToSet(t) = ToSet(s) \cup {x}
  <2> HIDE DEF X
  <2>1. QED
    BY <1>1, <1>2, MembersOfAppend
<1>4. t \in Seq(X)
  <2> HIDE DEF X
  <2>1. QED
    BY <1>1, <1>2
<1>5. IsSequence(t)
  BY <1>3, <1>4 DEF IsSequence
<1>6. /\ Len(s) \in Nat
      /\ DOMAIN s = 1..Len(s)
      /\ Len(t) = Len(s) + 1
      /\ DOMAIN t = 1..(Len(s) + 1)
      /\ t[Len(s) + 1] = x
      /\ \A i \in 1..Len(s) : t[i] = s[i]
  <2> HIDE DEF X
  <2>1. QED
    BY <1>1, <1>2
<1>7. QED
  BY <1>3, <1>5, <1>6

(* A sequence stays without repeats if the new member is new.               *)
LEMMA AppendFresh ==
  ASSUME NEW s, IsSequence(s), IsInjective(s), NEW x, \A i \in 1..Len(s) : s[i] # x
  PROVE  IsInjective(Append(s, x))
<1> DEFINE t == Append(s, x)
<1>1. /\ Len(s) \in Nat
      /\ DOMAIN s = 1..Len(s)
      /\ DOMAIN t = 1..(Len(s) + 1)
      /\ t[Len(s) + 1] = x
      /\ \A i \in 1..Len(s) : t[i] = s[i]
  BY AppendTo, Zenon
<1> HIDE DEF t
<1>2. \A i \in 1..(Len(s) + 1) : i \in 1..Len(s) \/ i = Len(s) + 1
  BY <1>1
<1>3. IsInjective(t)
  BY <1>1, <1>2 DEF IsInjective
<1>4. QED
  BY <1>3 DEF t

(* What the assumptions say of lengths.                                     *)
LEMMA Lengths ==
  ASSUME NEW m \in Matrices
  PROVE  /\ Len(m.queries) \in Nat
         /\ DOMAIN m.queries = 1..Len(m.queries)
         /\ ValidMatrix(m) => Len(m.queries) > 0
         /\ Len(SampleIds) \in Nat \ {0}
         /\ DOMAIN SampleIds = 1..Len(SampleIds)
<1>1. m.queries \in Seq(ToSet(m.queries))
  BY MatricesAssumption
<1>2. SampleIds \in Seq(ToSet(SampleIds)) /\ SampleIds # <<>>
  BY SampleIdsAssumption
<1>3. Len(SampleIds) \in Nat \ {0} /\ DOMAIN SampleIds = 1..Len(SampleIds)
  BY <1>2
<1>4. Len(m.queries) \in Nat /\ DOMAIN m.queries = 1..Len(m.queries)
  BY <1>1
<1>5. m.queries # <<>> => Len(m.queries) > 0
  BY <1>1
<1>6. QED
  BY <1>3, <1>4, <1>5 DEF ValidMatrix

(* A command that ends keeps what it asked.                                 *)
LEMMA PhaseEnds ==
  ASSUME NEW m, NEW label, NEW requests, NEW list, NEW n, NEW entries,
         Phase(m, label, requests, list, n, entries),
         NEW next \in Ended, NEW k, NEW others
  PROVE  Phase(m, next, requests, list, k, others)
<1>1. /\ next \notin BeforeFetch
      /\ next \notin AtSample
      /\ next \notin AfterFetch
      /\ next # "load" /\ next # "search"
      /\ next \notin {"open_summary", "write_summary"} \cup AtSample \cup AfterFetch
  BY DEF Ended, BeforeFetch, AtSample, AfterFetch
<1>2. QED
  BY <1>1, Zenon DEF Phase

(* A matrix that loads.                                                     *)
LEMMA PhaseLoads ==
  ASSUME NEW m \in Matrices, ValidMatrix(m), NEW requests, NEW list, NEW n, NEW entries,
         Phase(m, "load", requests, list, n, entries)
  PROVE  Phase(m, "search", requests, list, n, entries)
<1>1. requests = <<>> /\ list = <<>> /\ n = 1 /\ entries = <<>>
  BY DEF Phase, BeforeFetch
<1>2. Searching(m, requests, list)
  BY <1>1, Lengths DEF Searching
<1>3. QED
  BY <1>1, <1>2 DEF Phase, BeforeFetch, AtSample, AfterFetch

(* The request for the query after those summarized.                        *)
NextAsk(m, list) == <<"search", m.queries[Len(list) + 1].query_id>>

(* The request for the next query is a new one.                             *)
LEMMA QueryAsked ==
  ASSUME NEW m \in Matrices, NEW requests, NEW list, NEW n, NEW entries,
         Phase(m, "search", requests, list, n, entries)
  PROVE  LET new == Append(requests, NextAsk(m, list))
         IN /\ IsSequence(new)
            /\ AskedOnce(m, new)
            /\ Len(new) = Len(list) + 1
            /\ \A i \in DOMAIN new : new[i] = <<"search", m.queries[i].query_id>>
<1> DEFINE x == NextAsk(m, list)
           new == Append(requests, x)
<1>0. x = <<"search", m.queries[Len(list) + 1].query_id>>
  BY DEF NextAsk
<1>1. IsSequence(requests) /\ AskedOnce(m, requests) /\ Searching(m, requests, list)
  BY DEF Phase
<1>2. /\ Len(requests) \in Nat
      /\ DOMAIN requests = 1..Len(requests)
      /\ IsSequence(new)
      /\ Len(new) = Len(requests) + 1
      /\ DOMAIN new = 1..(Len(requests) + 1)
      /\ new[Len(requests) + 1] = x
      /\ \A i \in 1..Len(requests) : new[i] = requests[i]
  BY <1>1, AppendTo
<1>3. Len(requests) = Len(list) /\ Len(list) < Len(m.queries)
  BY <1>1 DEF Searching
<1>4. /\ Len(m.queries) \in Nat
      /\ DOMAIN m.queries = 1..Len(m.queries)
      /\ Len(SampleIds) \in Nat
  BY Lengths
<1>5. \A i \in 1..Len(requests) : requests[i] # x
  <2> SUFFICES ASSUME NEW i \in 1..Len(requests), requests[i] = x PROVE FALSE
    OBVIOUS
  <2>1. requests[i] = <<"search", m.queries[i].query_id>>
    BY <1>1, <1>2 DEF Searching
  <2>2. m.queries[i].query_id = m.queries[Len(list) + 1].query_id
    BY <1>0, <2>1
  <2>3. i \in DOMAIN m.queries /\ Len(list) + 1 \in DOMAIN m.queries
    BY <1>2, <1>3, <1>4
  <2>4. IsInjective(QueryIds(m.queries))
    BY <1>1 DEF Searching, ValidMatrix
  <2>5. i = Len(list) + 1
    BY <2>2, <2>3, <2>4 DEF IsInjective, QueryIds
  <2>6. QED
    BY <1>2, <1>3, <2>5
<1>6. IsInjective(new)
  BY <1>1, <1>5, AppendFresh DEF AskedOnce
<1>7. \A i \in DOMAIN new : i \in 1..Len(requests) \/ i = Len(list) + 1
  BY <1>2, <1>3
<1> HIDE DEF new
<1>8. \A i \in DOMAIN new : new[i] = <<"search", m.queries[i].query_id>>
  BY <1>0, <1>1, <1>2, <1>3, <1>7 DEF Searching
<1>9. AskedOnce(m, new)
  <2>1. Len(new) <= Len(m.queries) + Len(SampleIds)
    BY <1>2, <1>3, <1>4
  <2>2. \A i \in DOMAIN new : new[i][1] = "search" /\ i <= Len(m.queries)
    BY <1>2, <1>3, <1>4, <1>8
  <2>3. ValidMatrix(m)
    BY <1>1 DEF Searching
  <2>4. QED
    BY <1>6, <2>1, <2>2, <2>3 DEF AskedOnce
<1>10. QED
  BY <1>2, <1>3, <1>8, <1>9 DEF new

(* A search that fails, or whose answer has no summary.                     *)
LEMMA PhaseSearchEnds ==
  ASSUME NEW m \in Matrices, NEW requests, NEW list, NEW n, NEW entries,
         Phase(m, "search", requests, list, n, entries)
  PROVE  Phase(m, "failed",
               Append(requests, NextAsk(m, list)),
               list, n, entries)
<1> DEFINE new == Append(requests, NextAsk(m, list))
<1>1. IsSequence(new) /\ AskedOnce(m, new)
  BY QueryAsked
<1>2. Summarized(m, list)
  BY DEF Phase
<1> HIDE DEF new
<1>3. Phase(m, "failed", new, list, n, entries)
  BY <1>1, <1>2 DEF Phase, BeforeFetch, AtSample, AfterFetch
<1>4. QED
  BY <1>3 DEF new

(* A search that is summarized.                                             *)
LEMMA PhaseSearchGoesOn ==
  ASSUME NEW m \in Matrices, NEW requests, NEW list, NEW n, NEW entries,
         Phase(m, "search", requests, list, n, entries),
         NEW summary, SummaryOf(summary, m.queries[Len(list) + 1])
  PROVE  Phase(m,
               IF Len(Append(list, summary)) = Len(m.queries)
               THEN "open_summary" ELSE "search",
               Append(requests, NextAsk(m, list)),
               Append(list, summary), n, entries)
<1> DEFINE new == Append(requests, NextAsk(m, list))
           longer == Append(list, summary)
<1>1. /\ IsSequence(new)
      /\ AskedOnce(m, new)
      /\ Len(new) = Len(list) + 1
      /\ \A i \in DOMAIN new : new[i] = <<"search", m.queries[i].query_id>>
  BY QueryAsked
<1>2. Summarized(m, list) /\ Searching(m, requests, list) /\ n = 1 /\ entries = <<>>
  BY DEF Phase, BeforeFetch
<1>3. /\ Len(list) \in Nat
      /\ IsSequence(longer)
      /\ Len(longer) = Len(list) + 1
      /\ longer[Len(list) + 1] = summary
      /\ \A i \in 1..Len(list) : longer[i] = list[i]
  BY <1>2, AppendTo DEF Summarized
<1>4. Len(m.queries) \in Nat /\ Len(list) < Len(m.queries)
  BY <1>2, Lengths DEF Searching
<1>5. DOMAIN new = 1..Len(new)
  BY <1>1 DEF IsSequence
<1> HIDE DEF new, longer
<1>6. Summarized(m, longer)
  <2>1. ASSUME NEW i \in 1..(Len(list) + 1) PROVE SummaryOf(longer[i], m.queries[i])
    <3>1. CASE i = Len(list) + 1
      BY <1>3, <3>1
    <3>2. CASE i \in 1..Len(list)
      BY <1>2, <1>3, <3>2 DEF Summarized
    <3>3. QED
      BY <1>3, <3>1, <3>2
  <2>2. Len(longer) <= Len(m.queries)
    BY <1>3, <1>4
  <2>3. QED
    BY <1>3, <2>1, <2>2 DEF Summarized
<1>7. ValidMatrix(m)
  BY <1>2 DEF Searching
<1>8. CASE Len(longer) = Len(m.queries)
  <2>1. Sampling(m, new, longer, 0)
    BY <1>1, <1>3, <1>4, <1>5, <1>7, <1>8 DEF Sampling
  <2>2. Tried("open_summary", n) = 0
    BY <1>2 DEF Tried
  <2>3. Phase(m, "open_summary", new, longer, n, entries)
    BY <1>1, <1>2, <1>6, <2>1, <2>2 DEF Phase, BeforeFetch, AtSample, AfterFetch
  <2>4. QED
    BY <1>8, <2>3 DEF new, longer
<1>9. CASE Len(longer) # Len(m.queries)
  <2>1. Searching(m, new, longer)
    BY <1>1, <1>3, <1>4, <1>7, <1>9 DEF Searching
  <2>2. Phase(m, "search", new, longer, n, entries)
    BY <1>1, <1>2, <1>6, <2>1 DEF Phase, BeforeFetch, AtSample, AfterFetch
  <2>3. QED
    BY <1>9, <2>2 DEF new, longer
<1>10. QED
  BY <1>8, <1>9

(* The summary is created, then written.                                    *)
LEMMA PhaseSummary ==
  ASSUME NEW m \in Matrices, NEW requests, NEW list, NEW n, NEW entries,
         NEW label \in {"open_summary", "write_summary"},
         Phase(m, label, requests, list, n, entries)
  PROVE  /\ Phase(m, "write_summary", requests, list, n, entries)
         /\ Phase(m, "fetch", requests, list, n, entries)
<1>1. /\ IsSequence(requests) /\ AskedOnce(m, requests) /\ Summarized(m, list)
      /\ n = 1 /\ entries = <<>>
      /\ Sampling(m, requests, list, Tried(label, n))
  BY DEF Phase, BeforeFetch
<1>2. /\ Tried("write_summary", n) = Tried(label, n)
      /\ Tried("fetch", n) = Tried(label, n)
  BY DEF Tried
<1>3. n \in 1..Len(SampleIds)
  BY <1>1, Lengths
<1>4. Sampling(m, requests, list, Tried("write_summary", n))
      /\ Sampling(m, requests, list, Tried("fetch", n))
  BY <1>1, <1>2, Zenon
<1>5. QED
  BY <1>1, <1>3, <1>4 DEF Phase, BeforeFetch, AtSample, AfterFetch

(* A sample is passed over, or its record is written.                       *)
LEMMA PhaseNextSample ==
  ASSUME NEW m \in Matrices, NEW requests, NEW list, NEW n, NEW entries, NEW others,
         NEW label \in {"fetch", "write_record"},
         Phase(m, label, requests, list, n, entries)
  PROVE  Phase(m, IF n = Len(SampleIds) THEN "open_manifest" ELSE "fetch",
               requests, list, n + 1, others)
<1>1. /\ IsSequence(requests) /\ AskedOnce(m, requests) /\ Summarized(m, list)
      /\ n \in 1..Len(SampleIds)
      /\ Sampling(m, requests, list, Tried(label, n))
  BY DEF Phase, AtSample
<1>2. PICK next \in {"open_manifest", "fetch"} :
        next = IF n = Len(SampleIds) THEN "open_manifest" ELSE "fetch"
  OBVIOUS
<1>3. Len(SampleIds) \in Nat
  BY Lengths
<1>4. Tried(next, n + 1) = n /\ Tried(label, n) \in {n - 1, n}
  BY <1>1, <1>3 DEF Tried
<1>5. Sampling(m, requests, list, n)
  <2>1. PICK tried \in {n - 1, n} : Sampling(m, requests, list, tried)
    BY <1>1, <1>4
  <2>2. tried \in Int /\ tried <= n /\ 1..tried \subseteq 1..n
    BY <1>1, <1>3, <2>1
  <2>3. Len(requests) \in Nat /\ Len(m.queries) \in Nat
    BY <1>1, Lengths DEF IsSequence
  <2>4. Len(requests) <= Len(m.queries) + n
    BY <1>1, <1>3, <2>1, <2>2, <2>3 DEF Sampling
  <2>5. QED
    BY <2>1, <2>2, <2>4, Zenon DEF Sampling
<1>6. next = "open_manifest" => n + 1 = Len(SampleIds) + 1
  BY <1>2
<1>7. next = "fetch" => n + 1 \in 1..Len(SampleIds)
  BY <1>1, <1>2, <1>3
<1>8. Sampling(m, requests, list, Tried(next, n + 1))
  BY <1>4, <1>5, Zenon
<1>9. Phase(m, next, requests, list, n + 1, others)
  BY <1>1, <1>6, <1>7, <1>8 DEF Phase, BeforeFetch, AtSample, AfterFetch
<1>10. QED
  BY <1>2, <1>9

(* The request for the record of a sample is a new one.                     *)
LEMMA PhaseFetches ==
  ASSUME NEW m \in Matrices, NEW requests, NEW list, NEW n, NEW entries,
         Phase(m, "fetch", requests, list, n, entries), NEW record
  PROVE  LET new == Append(requests, <<"record", SampleIds[n], record>>)
         IN /\ Phase(m, "open_record", new, list, n, entries)
            /\ Phase(m, "failed", new, list, n, entries)
<1> DEFINE x == <<"record", SampleIds[n], record>>
           new == Append(requests, x)
<1>1. /\ IsSequence(requests) /\ AskedOnce(m, requests) /\ Summarized(m, list)
      /\ n \in 1..Len(SampleIds)
      /\ Sampling(m, requests, list, n - 1)
  BY DEF Phase, AtSample, Tried
<1>2. x[1] = "record" /\ x[2] = SampleIds[n]
  OBVIOUS
<1> HIDE DEF x
<1>3. /\ Len(requests) \in Nat
      /\ DOMAIN requests = 1..Len(requests)
      /\ IsSequence(new)
      /\ Len(new) = Len(requests) + 1
      /\ DOMAIN new = 1..(Len(requests) + 1)
      /\ new[Len(requests) + 1] = x
      /\ \A i \in 1..Len(requests) : new[i] = requests[i]
  BY <1>1, AppendTo
<1>4. /\ Len(m.queries) \in Nat
      /\ Len(SampleIds) \in Nat
      /\ DOMAIN SampleIds = 1..Len(SampleIds)
  BY Lengths
<1>5. /\ Len(m.queries) <= Len(requests)
      /\ Len(requests) <= Len(m.queries) + (n - 1)
      /\ \A i \in DOMAIN requests : i > Len(m.queries) =>
           \E j \in 1..(n - 1) : requests[i][2] = SampleIds[j]
  BY <1>1 DEF Sampling
<1>6. \A i \in 1..Len(requests) : requests[i] # x
  <2> SUFFICES ASSUME NEW i \in 1..Len(requests), requests[i] = x PROVE FALSE
    OBVIOUS
  <2>1. i > Len(m.queries)
    <3>1. requests[i][1] # "search"
      BY <1>2
    <3>2. ~(i <= Len(m.queries))
      BY <1>1, <1>3, <3>1 DEF AskedOnce
    <3>3. QED
      BY <1>4, <3>2
  <2>2. PICK j \in 1..(n - 1) : requests[i][2] = SampleIds[j]
    BY <1>3, <1>5, <2>1
  <2>3. SampleIds[j] = SampleIds[n]
    BY <1>2, <2>2
  <2>4. j \in DOMAIN SampleIds /\ n \in DOMAIN SampleIds /\ j # n
    BY <1>1, <1>4
  <2>5. QED
    BY <2>3, <2>4, SampleIdsAssumption DEF IsInjective
<1>7. IsInjective(new)
  BY <1>1, <1>6, AppendFresh DEF AskedOnce
<1>8. \A i \in DOMAIN new : i \in 1..Len(requests) \/ i = Len(requests) + 1
  BY <1>3
<1> HIDE DEF new
<1>9. AskedOnce(m, new)
  <2>1. Len(new) <= Len(m.queries) + Len(SampleIds)
    BY <1>1, <1>3, <1>4, <1>5
  <2>2. ASSUME NEW i \in DOMAIN new
        PROVE  new[i][1] = "search" <=> i <= Len(m.queries)
    <3>1. CASE i \in 1..Len(requests)
      BY <1>1, <1>3, <3>1 DEF AskedOnce
    <3>2. CASE i = Len(requests) + 1
      <4>1. new[i][1] # "search"
        BY <1>2, <1>3, <3>2
      <4>2. ~(i <= Len(m.queries))
        BY <1>3, <1>4, <1>5, <3>2
      <4>3. QED
        BY <4>1, <4>2
    <3>3. QED
      BY <1>8, <3>1, <3>2
  <2>3. ValidMatrix(m)
    BY <1>1 DEF Sampling
  <2>4. QED
    BY <1>7, <2>1, <2>2, <2>3 DEF AskedOnce
<1>10. Sampling(m, new, list, n)
  <2>1. ASSUME NEW i \in DOMAIN new, i > Len(m.queries)
        PROVE  \E j \in 1..n : new[i][2] = SampleIds[j]
    <3>1. CASE i \in 1..Len(requests)
      <4>1. PICK j \in 1..(n - 1) : requests[i][2] = SampleIds[j]
        BY <1>3, <1>5, <2>1, <3>1
      <4>2. j \in 1..n /\ new[i] = requests[i]
        BY <1>1, <1>3, <1>4, <3>1
      <4>3. QED
        BY <4>1, <4>2
    <3>2. CASE i = Len(requests) + 1
      <4>1. n \in 1..n
        BY <1>1, <1>4
      <4>2. QED
        BY <1>2, <1>3, <3>2, <4>1
    <3>3. QED
      BY <1>8, <2>1, <3>1, <3>2
  <2>2. Len(m.queries) <= Len(new) /\ Len(new) <= Len(m.queries) + n
    BY <1>1, <1>3, <1>4, <1>5
  <2>3. QED
    BY <1>1, <2>1, <2>2 DEF Sampling
<1>11. Phase(m, "open_record", new, list, n, entries)
  BY <1>1, <1>3, <1>9, <1>10 DEF Phase, BeforeFetch, AtSample, AfterFetch, Tried, new
<1>12. Phase(m, "failed", new, list, n, entries)
  BY <1>1, <1>3, <1>9 DEF Phase, BeforeFetch, AtSample, AfterFetch, new
<1>13. QED
  BY <1>11, <1>12 DEF new, x

(* The record's file, and the manifest, are created.                        *)
LEMMA PhaseCreates ==
  ASSUME NEW m, NEW requests, NEW list, NEW n, NEW entries
  PROVE  /\ Phase(m, "open_record", requests, list, n, entries) =>
              Phase(m, "write_record", requests, list, n, entries)
         /\ Phase(m, "open_manifest", requests, list, n, entries) =>
              Phase(m, "write_manifest", requests, list, n, entries)
<1>1. Tried("write_record", n) = Tried("open_record", n)
  BY DEF Tried
<1>2. Tried("write_manifest", n) = Tried("open_manifest", n)
  BY DEF Tried
<1>3. QED
  BY <1>1, <1>2 DEF Phase, BeforeFetch, AtSample, AfterFetch

(* Nothing depends on the command's end.                                    *)
LEMMA PhaseFinishes ==
  ASSUME NEW m, NEW requests, NEW list, NEW n, NEW entries,
         Phase(m, "write_manifest", requests, list, n, entries)
  PROVE  Phase(m, "finished", requests, list, n, entries)
BY PhaseEnds DEF Ended

-----------------------------------------------------------------------------
(* The requests of all commands                                            *)

(* g differs from f at c at most.                                           *)
ChangesAt(f, g, c) ==
  DOMAIN g = DOMAIN f /\ \A d \in DOMAIN f : d # c => g[d] = f[d]

LEMMA NoChange ==
  ASSUME NEW f, NEW c
  PROVE  ChangesAt(f, f, c)
BY DEF ChangesAt

LEMMA OneChange ==
  ASSUME NEW f, NEW c \in DOMAIN f, NEW v
  PROVE  ChangesAt(f, [f EXCEPT ![c] = v], c) /\ [f EXCEPT ![c] = v][c] = v
BY Zenon DEF ChangesAt

(* What a command asks for.                                                 *)
LEMMA AskAppends ==
  ASSUME AskInv, NEW c \in Commands, NEW request, Ask(c, request)
  PROVE  ChangesAt(asked, asked', c) /\ asked'[c] = Append(asked[c], request)
<1>1. c \in DOMAIN asked
  BY DEF AskInv
<1>2. QED
  BY <1>1, OneChange, Zenon DEF Ask

(* A step of one command: the others are where they were.                   *)
LEMMA PhaseSteps ==
  ASSUME IInv, AskInv, NEW c \in Commands, NEW label \in Labels, Goto(c, label),
         UNCHANGED matrix,
         ChangesAt(asked, asked', c), ChangesAt(summaries, summaries', c),
         ChangesAt(sample, sample', c), ChangesAt(manifest, manifest', c),
         Phase(matrix[c], label, asked'[c], summaries'[c], sample'[c], manifest'[c])
  PROVE  AskInv'
<1>1. pc'[c] = label /\ \A d \in Commands : d # c => pc'[d] = pc[d]
  BY OneMoves
<1>2. ASSUME NEW d \in Commands PROVE PhaseOf(d)'
  <2>1. CASE d = c
    BY <1>1, <2>1, Zenon DEF PhaseOf
  <2>2. CASE d # c
    <3>1. /\ pc'[d] = pc[d] /\ asked'[d] = asked[d] /\ summaries'[d] = summaries[d]
          /\ sample'[d] = sample[d] /\ manifest'[d] = manifest[d]
      BY <1>1, <2>2, Zenon DEF ChangesAt, AskInv
    <3>2. PhaseOf(d)
      BY DEF AskInv
    <3>3. QED
      BY <3>1, <3>2, Zenon DEF PhaseOf
  <2>3. QED
    BY <2>1, <2>2
<1>3. /\ DOMAIN asked' = Commands /\ DOMAIN summaries' = Commands
      /\ DOMAIN sample' = Commands /\ DOMAIN manifest' = Commands
  BY Zenon DEF ChangesAt, AskInv
<1>4. matrix' \in [Commands -> Matrices]
  BY DEF AskInv
<1>5. QED
  BY <1>2, <1>3, <1>4, Zenon DEF AskInv

(* A step that changes nothing but where the command is.                    *)
LEMMA PhaseMoves ==
  ASSUME IInv, AskInv, NEW c \in Commands, NEW label \in Labels, Goto(c, label),
         UNCHANGED <<matrix, asked, summaries, sample, manifest>>,
         Phase(matrix[c], label, asked[c], summaries[c], sample[c], manifest[c])
  PROVE  AskInv'
<1>1. /\ ChangesAt(asked, asked', c) /\ ChangesAt(summaries, summaries', c)
      /\ ChangesAt(sample, sample', c) /\ ChangesAt(manifest, manifest', c)
  BY NoChange, Zenon
<1>2. QED
  BY <1>1, PhaseSteps, Zenon

LEMMA AskInitially == Init => AskInv
<1> SUFFICES ASSUME Init PROVE AskInv
  OBVIOUS
<1>1. matrix \in [Commands -> Matrices]
  BY DEF Init
<1>2. /\ DOMAIN asked = Commands /\ DOMAIN summaries = Commands
      /\ DOMAIN sample = Commands /\ DOMAIN manifest = Commands
  BY DEF Init
<1>3. ASSUME NEW c \in Commands PROVE PhaseOf(c)
  <2>1. pc[c] = "load" /\ asked[c] = <<>> /\ summaries[c] = <<>> /\ sample[c] = 1
        /\ manifest[c] = <<>>
    BY DEF Init
  <2>2. IsSequence(<<>>) /\ IsInjective(<<>>) /\ Len(<<>>) = 0 /\ DOMAIN <<>> = {}
    BY DEF IsSequence, IsInjective, ToSet
  <2>3. Len(matrix[c].queries) \in Nat /\ Len(SampleIds) \in Nat
    BY <1>1, Lengths
  <2>4. AskedOnce(matrix[c], <<>>) /\ Summarized(matrix[c], <<>>)
    BY <2>2, <2>3 DEF AskedOnce, Summarized
  <2>5. Phase(matrix[c], "load", <<>>, <<>>, 1, <<>>)
    BY <2>2, <2>4 DEF Phase, BeforeFetch, AtSample, AfterFetch
  <2>6. QED
    BY <2>1, <2>5, Zenon DEF PhaseOf
<1>4. QED
  BY <1>1, <1>2, <1>3 DEF AskInv

(* Every step of a command keeps its requests in order.                     *)
LEMMA StepAsks ==
  ASSUME IInv, AskInv, NEW c \in Commands, Step(c) \/ Kill(c)
  PROVE  AskInv'
<1> DEFINE P(label, requests, list, n, entries) ==
             Phase(matrix[c], label, requests, list, n, entries)
<1>0. P(pc[c], asked[c], summaries[c], sample[c], manifest[c]) /\ matrix[c] \in Matrices
  BY DEF AskInv, PhaseOf
<1>e. ASSUME NEW label \in Ended, Goto(c, label),
             UNCHANGED <<matrix, asked, summaries, sample, manifest>>
      PROVE  AskInv'
  <2>1. label \in Labels
    BY DEF Labels
  <2>2. P(label, asked[c], summaries[c], sample[c], manifest[c])
    BY <1>0, PhaseEnds
  <2>3. QED
    BY <1>e, <2>1, <2>2, PhaseMoves, Zenon
<1>1. CASE Load(c)
  <2>1. pc[c] = "load" /\ UNCHANGED <<matrix, asked, summaries, sample, manifest>>
    BY <1>1, Zenon DEF Load
  <2>2. CASE ValidMatrix(matrix[c])
    <3>1. Goto(c, "search")
      BY <1>1, <2>2, Zenon DEF Load
    <3>2. P("search", asked[c], summaries[c], sample[c], manifest[c])
      BY <1>0, <2>1, <2>2, PhaseLoads
    <3>3. "search" \in Labels
      BY DEF Labels
    <3>4. QED
      BY <2>1, <3>1, <3>2, <3>3, PhaseMoves, Zenon
  <2>3. CASE ~ValidMatrix(matrix[c])
    <3>1. Goto(c, "failed") /\ "failed" \in Ended
      BY <1>1, <2>3 DEF Load, Ended
    <3>2. QED
      BY <1>e, <2>1, <3>1, Zenon
  <2>4. QED
    BY <2>2, <2>3
<1>2. CASE RequestRefused(c) \/ NoSuchQuery(c) \/ SystemCallFails(c) \/ Kill(c)
  <2>1. \E label \in Ended : Goto(c, label)
    BY <1>2 DEF RequestRefused, NoSuchQuery, SystemCallFails, Kill, Ended
  <2>2. UNCHANGED <<matrix, asked, summaries, sample, manifest>>
    BY <1>2, Zenon DEF RequestRefused, NoSuchQuery, SystemCallFails, Kill
  <2>3. QED
    BY <1>e, <2>1, <2>2, Zenon
<1>3. CASE SearchFails(c)
  <2>1. pc[c] = "search" /\ Goto(c, "failed")
        /\ Ask(c, NextAsk(matrix[c], summaries[c]))
        /\ UNCHANGED <<matrix, summaries, sample, manifest>>
    BY <1>3, Zenon DEF SearchFails, NextQuery, NextAsk
  <2>2. ChangesAt(asked, asked', c)
        /\ asked'[c] = Append(asked[c], NextAsk(matrix[c], summaries[c]))
    BY <2>1, AskAppends, Zenon
  <2>3. P("search", asked[c], summaries[c], sample[c], manifest[c])
    BY <1>0, <2>1, Zenon
  <2>4. P("failed", asked'[c], summaries[c], sample[c], manifest[c])
    BY <1>0, <2>2, <2>3, PhaseSearchEnds, Zenon
  <2>5. "failed" \in Labels
    BY DEF Labels, Ended
  <2>6. /\ ChangesAt(summaries, summaries', c) /\ ChangesAt(sample, sample', c)
        /\ ChangesAt(manifest, manifest', c)
    BY <2>1, NoChange, Zenon
  <2>7. P("failed", asked'[c], summaries'[c], sample'[c], manifest'[c])
    BY <2>1, <2>4, Zenon
  <2>8. QED
    BY <2>1, <2>2, <2>5, <2>6, <2>7, PhaseSteps, Zenon
<1>4. CASE SearchNext(c)
  <2>1. pc[c] = "search"
        /\ Ask(c, NextAsk(matrix[c], summaries[c]))
        /\ UNCHANGED <<matrix, sample, manifest>>
    BY <1>4, Zenon DEF SearchNext, NextQuery, NextAsk
  <2>2. ChangesAt(asked, asked', c)
        /\ asked'[c] = Append(asked[c], NextAsk(matrix[c], summaries[c]))
    BY <2>1, AskAppends, Zenon
  <2>3. P("search", asked[c], summaries[c], sample[c], manifest[c])
    BY <1>0, <2>1, Zenon
  <2>4. ChangesAt(sample, sample', c) /\ ChangesAt(manifest, manifest', c)
    BY <2>1, NoChange, Zenon
  <2>5. PICK response \in Responses :
          IF Summarizable(NextQuery(c), response)
          THEN /\ summaries' = [summaries EXCEPT ![c] =
                                  Append(@, Summary(NextQuery(c), response))]
               /\ Goto(c, IF Len(summaries'[c]) = Len(matrix[c].queries)
                          THEN "open_summary" ELSE "search")
          ELSE Goto(c, "failed") /\ UNCHANGED summaries
    BY <1>4, Zenon DEF SearchNext
  <2>6. CASE Summarizable(NextQuery(c), response)
    <3> DEFINE summary == Summary(NextQuery(c), response)
               label == IF Len(summaries'[c]) = Len(matrix[c].queries)
                        THEN "open_summary" ELSE "search"
    <3>1. ChangesAt(summaries, summaries', c)
          /\ summaries'[c] = Append(summaries[c], summary)
      <4>1. c \in DOMAIN summaries
        BY DEF AskInv
      <4>2. summaries' = [summaries EXCEPT ![c] = Append(summaries[c], summary)]
        BY <2>5, <2>6, Zenon
      <4> HIDE DEF summary
      <4>3. QED
        BY <4>1, <4>2, OneChange, Zenon
    <3>2. SummaryOf(summary, matrix[c].queries[Len(summaries[c]) + 1])
      BY <2>6, Zenon DEF SummaryOf, NextQuery
    <3>3. P(label, asked'[c], summaries'[c], sample[c], manifest[c])
      <4> HIDE DEF summary
      <4>1. QED
        BY <1>0, <2>2, <2>3, <3>1, <3>2, PhaseSearchGoesOn, Zenon
    <3>4. label \in Labels
      BY DEF Labels
    <3>5. Goto(c, label)
      BY <2>5, <2>6, Zenon
    <3>6. P(label, asked'[c], summaries'[c], sample'[c], manifest'[c])
      BY <2>1, <3>3, Zenon
    <3> HIDE DEF label, summary
    <3>7. QED
      BY <2>1, <2>2, <2>4, <3>1, <3>4, <3>5, <3>6, PhaseSteps, Zenon
  <2>7. CASE ~Summarizable(NextQuery(c), response)
    <3>1. Goto(c, "failed") /\ UNCHANGED summaries
      BY <2>5, <2>7, Zenon
    <3>2. P("failed", asked'[c], summaries[c], sample[c], manifest[c])
      BY <1>0, <2>2, <2>3, PhaseSearchEnds, Zenon
    <3>3. P("failed", asked'[c], summaries'[c], sample'[c], manifest'[c])
      BY <2>1, <3>1, <3>2, Zenon
    <3>4. "failed" \in Labels /\ ChangesAt(summaries, summaries', c)
      BY <3>1, NoChange DEF Labels, Ended
    <3>5. QED
      BY <2>1, <2>2, <2>4, <3>1, <3>3, <3>4, PhaseSteps, Zenon
  <2>8. QED
    BY <2>6, <2>7
<1>5. CASE CreateSummary(c) \/ CreateRecord(c) \/ CreateManifest(c)
  <2>1. UNCHANGED <<matrix, asked, summaries, sample, manifest>>
    BY <1>5, Zenon DEF CreateSummary, CreateRecord, CreateManifest
  <2>2. PICK file, next :
          /\ Create(c, file, next)
          /\ \/ pc[c] = "open_summary" /\ next = "write_summary"
             \/ pc[c] = "open_record" /\ next = "write_record"
             \/ pc[c] = "open_manifest" /\ next = "write_manifest"
    BY <1>5, Zenon DEF CreateSummary, CreateRecord, CreateManifest
  <2>3. CASE Goto(c, "failed")
    BY <1>e, <2>1, <2>3 DEF Ended
  <2>4. CASE Goto(c, next)
    <3>1. next \in Labels
      BY <2>2 DEF Labels, Past
    <3>2. P(next, asked[c], summaries[c], sample[c], manifest[c])
      BY <1>0, <2>2, PhaseSummary, PhaseCreates
    <3>3. QED
      BY <2>1, <2>4, <3>1, <3>2, PhaseMoves, Zenon
  <2>5. QED
    BY <2>2, <2>3, <2>4, Zenon DEF Create
<1>6. CASE WriteSummary(c)
  <2>1. pc[c] = "write_summary" /\ Goto(c, "fetch")
        /\ UNCHANGED <<matrix, asked, summaries, sample, manifest>>
    BY <1>6, Zenon DEF WriteSummary, Write
  <2>2. P("fetch", asked[c], summaries[c], sample[c], manifest[c])
    BY <1>0, <2>1, PhaseSummary
  <2>3. "fetch" \in Labels
    BY DEF Labels, Past
  <2>4. QED
    BY <2>1, <2>2, <2>3, PhaseMoves, Zenon
<1>7. CASE WriteManifest(c)
  <2>1. pc[c] = "write_manifest" /\ Goto(c, "finished")
        /\ UNCHANGED <<matrix, asked, summaries, sample, manifest>>
    BY <1>7, Zenon DEF WriteManifest, Write
  <2>2. "finished" \in Ended
    BY DEF Ended
  <2>3. QED
    BY <1>e, <2>1, <2>2, Zenon
<1>8. CASE NothingSampled(c) \/ WriteRecord(c)
  <2>1. pc[c] \in {"fetch", "write_record"} /\ Goto(c, AfterSample(c))
        /\ sample' = [sample EXCEPT ![c] = @ + 1]
        /\ UNCHANGED <<matrix, asked, summaries>>
    BY <1>8 DEF NothingSampled, WriteRecord, Write
  <2>2. ChangesAt(manifest, manifest', c)
    <3>1. CASE UNCHANGED manifest
      BY <3>1, NoChange, Zenon
    <3>2. CASE \E entries : manifest' = [manifest EXCEPT ![c] = entries]
      <4>1. c \in DOMAIN manifest
        BY DEF AskInv
      <4>2. QED
        BY <3>2, <4>1, OneChange, Zenon
    <3>3. QED
      BY <1>8, <3>1, <3>2, Zenon DEF NothingSampled, WriteRecord
  <2>3. ChangesAt(sample, sample', c) /\ sample'[c] = sample[c] + 1
    <3>1. c \in DOMAIN sample
      BY DEF AskInv
    <3>2. QED
      BY <2>1, <3>1, OneChange, Zenon
  <2>4. ChangesAt(asked, asked', c) /\ ChangesAt(summaries, summaries', c)
    BY <2>1, NoChange, Zenon
  <2>5. P(AfterSample(c), asked[c], summaries[c], sample[c] + 1, manifest'[c])
    BY <1>0, <2>1, PhaseNextSample, Zenon DEF AfterSample
  <2>6. P(AfterSample(c), asked'[c], summaries'[c], sample'[c], manifest'[c])
    BY <2>1, <2>3, <2>5, Zenon
  <2>7. AfterSample(c) \in Labels
    BY DEF AfterSample, Labels, Past
  <2>8. QED
    BY <2>1, <2>2, <2>3, <2>4, <2>6, <2>7, PhaseSteps, Zenon
<1>9. CASE Fetch(c)
  <2>1. PICK s \in SummariesOf(c, SampleIds[sample[c]]) :
          Ask(c, <<"record", s.query_id, s.sampled_records[1]>>)
    BY <1>9, Zenon DEF Fetch
  <2>2. s.query_id = SampleIds[sample[c]]
    BY <2>1 DEF SummariesOf
  <2>3. ChangesAt(asked, asked', c)
        /\ asked'[c] = Append(asked[c],
                         <<"record", SampleIds[sample[c]], s.sampled_records[1]>>)
    BY <2>1, <2>2, AskAppends, Zenon
  <2>4. pc[c] = "fetch" /\ UNCHANGED <<matrix, summaries, sample, manifest>>
    BY <1>9, Zenon DEF Fetch
  <2>5. PICK label \in {"open_record", "failed"} : Goto(c, label)
    BY <1>9, Zenon DEF Fetch
  <2>6. P("fetch", asked[c], summaries[c], sample[c], manifest[c])
    BY <1>0, <2>4, Zenon
  <2>7. P(label, asked'[c], summaries[c], sample[c], manifest[c])
    BY <1>0, <2>3, <2>5, <2>6, PhaseFetches, Zenon
  <2>8. P(label, asked'[c], summaries'[c], sample'[c], manifest'[c])
    BY <2>4, <2>7, Zenon
  <2>9. /\ ChangesAt(summaries, summaries', c) /\ ChangesAt(sample, sample', c)
        /\ ChangesAt(manifest, manifest', c)
    BY <2>4, NoChange, Zenon
  <2>10. label \in Labels
    BY DEF Labels, Past, Ended
  <2>11. QED
    BY <2>3, <2>4, <2>5, <2>8, <2>9, <2>10, PhaseSteps, Zenon
<1>10. QED
  BY <1>1, <1>2, <1>3, <1>4, <1>5, <1>6, <1>7, <1>8, <1>9, Zenon DEF Step

-----------------------------------------------------------------------------
(* The files and what they prove                                           *)

(* Whole, of the directory d.                                               *)
WholeIn(d, file) == file \in DOMAIN d /\ d[file].whole

(* The summaries that list records, of the samples before number n.         *)
ToSample(list, n) ==
  {s \in ToSet(list) :
     /\ \E j \in DOMAIN SampleIds : j < n /\ s.query_id = SampleIds[j]
     /\ s.sampled_records # <<>>}

Firsts(set)      == {<<s.query_id, s.sampled_records[1]>> : s \in set}
Pairs(entries)   == {<<e.query_id, e.record_id>> : e \in ToSet(entries)}
FilesOf(entries) == {e.file : e \in ToSet(entries)}

(* Every entry has its record in d, and there is an entry for every sample  *)
(* before number n that lists records.                                      *)
EntriesProven(d, list, n, entries) ==
  /\ IsSequence(entries)
  /\ \A e \in ToSet(entries) : WholeIn(d, e.file) /\ d[e.file].value = e.record_id
  /\ Pairs(entries) = Firsts(ToSample(list, n))

(* The records in d have their entries, but for the one being written.      *)
RecordsListed(d, label, n, entries) ==
  DOMAIN d \cap RecordFiles =
    FilesOf(entries) \cup (IF label = "write_record" THEN {RecordFile(n)} ELSE {})

SummaryWritten(d, list) == WholeIn(d, SummaryFile) /\ d[SummaryFile].value = list

(* The sample whose record is being fetched lists one.                      *)
SampleListed(list, n) ==
  \A s \in ToSet(list) : s.query_id = SampleIds[n] => s.sampled_records # <<>>

Active == Past \ {"finished"}

(* What a command at label has in the directory d, if it is still at work.  *)
Proves(d, label, list, n, entries) ==
  /\ label \in Active =>
       /\ ~WholeIn(d, ManifestFile)
       /\ EntriesProven(d, list, n, entries)
       /\ RecordsListed(d, label, n, entries)
  /\ label \in Active \ {"write_summary"} => SummaryWritten(d, list)
  /\ label \in {"open_record", "write_record"} => SampleListed(list, n)

(* What ManifestIsComplete says of the matrix m and the directory d.        *)
Complete(m, d) ==
  /\ WholeIn(d, SummaryFile)
  /\ LET entries == d[SummaryFile].value
         samples == d[ManifestFile].value
         toSample == {s \in ToSet(entries) :
                        Contains(SampleIds, s.query_id) /\ s.sampled_records # <<>>}
     IN /\ QueryIds(entries) = QueryIds(m.queries)
        /\ \A n \in DOMAIN entries :
             /\ Len(entries[n].sampled_records) <= m.queries[n].sample_limit
             /\ IsInjective(entries[n].sampled_records)
             /\ entries[n].items_count <= entries[n].total_results
        /\ Pairs(samples) = Firsts(toSample)
        /\ \A s \in ToSet(samples) : WholeIn(d, s.file) /\ d[s.file].value = s.record_id
        /\ DOMAIN d \cap RecordFiles = FilesOf(samples)

(* ManifestIsComplete, of the matrices ms of the commands.                  *)
CompleteOf(ms, d) ==
  WholeIn(d, ManifestFile) => Complete(ms[d[ManifestFile].by], d)

ProvesOf(c) == Proves(dir, pc[c], summaries[c], sample[c], manifest[c])

FileInv ==
  /\ \A c \in Commands : ProvesOf(c)
  /\ CompleteOf(matrix, dir)

(* The names of the files differ.                                           *)
LEMMA FileNames ==
  /\ SummaryFile # ManifestFile
  /\ SummaryFile \notin RecordFiles
  /\ ManifestFile \notin RecordFiles
BY DEF SummaryFile, ManifestFile, RecordFiles, RecordFile

(* No two summaries of a command are of the same query.                     *)
LEMMA OneSummary ==
  ASSUME NEW m \in Matrices, ValidMatrix(m), NEW list, Summarized(m, list),
         NEW s \in ToSet(list), NEW t \in ToSet(list), s.query_id = t.query_id
  PROVE  s = t
<1>1. list \in Seq(ToSet(list)) /\ Len(list) <= Len(m.queries)
  BY DEF Summarized, IsSequence
<1>2. PICK i \in 1..Len(list), j \in 1..Len(list) : s = list[i] /\ t = list[j]
  BY <1>1 DEF ToSet
<1>3. ASSUME NEW k \in 1..Len(list) PROVE list[k].query_id = m.queries[k].query_id
  <2>1. PICK r : list[k] = Summary(m.queries[k], r)
    BY Zenon DEF Summarized, SummaryOf
  <2>2. QED
    BY <2>1 DEF Summary
<1>4. i \in DOMAIN m.queries /\ j \in DOMAIN m.queries
  BY <1>1, Lengths
<1>5. i = j
  <2>1. m.queries[i].query_id = m.queries[j].query_id
    BY <1>2, <1>3
  <2>2. QED
    BY <1>4, <2>1 DEF ValidMatrix, IsInjective, QueryIds
<1>6. QED
  BY <1>2, <1>5

(* The samples before n + 1 are those before n, and n.                      *)
LEMMA OneMoreSample ==
  ASSUME NEW list, NEW n \in DOMAIN SampleIds, n \in Nat,
         \A j \in DOMAIN SampleIds : j \in Nat
  PROVE  ToSample(list, n + 1) =
           ToSample(list, n) \cup
             {s \in ToSet(list) : s.query_id = SampleIds[n] /\ s.sampled_records # <<>>}
<1>1. \A j \in DOMAIN SampleIds : j < n + 1 <=> j < n \/ j = n
  OBVIOUS
<1>2. QED
  BY <1>1 DEF ToSample

(* A directory with one file more, or one file written.                     *)
PutIn(d, new, file, content) ==
  /\ DOMAIN new = DOMAIN d \cup {file}
  /\ new[file] = content
  /\ \A f \in DOMAIN d : f # file => new[f] = d[f]

(* What was whole stays whole.                                              *)
LEMMA WholeStays ==
  ASSUME NEW d, NEW new, NEW file, NEW content, PutIn(d, new, file, content),
         ~WholeIn(d, file), NEW f, WholeIn(d, f)
  PROVE  WholeIn(new, f) /\ new[f] = d[f] /\ f # file
BY DEF PutIn, WholeIn

(* Entries keep their records.                                              *)
LEMMA EntriesStay ==
  ASSUME NEW d, NEW new, NEW file, NEW content, PutIn(d, new, file, content),
         ~WholeIn(d, file), NEW list, NEW n, NEW entries,
         EntriesProven(d, list, n, entries)
  PROVE  EntriesProven(new, list, n, entries)
<1>1. ASSUME NEW e \in ToSet(entries)
      PROVE  WholeIn(new, e.file) /\ new[e.file].value = e.record_id
  <2>1. WholeIn(d, e.file) /\ d[e.file].value = e.record_id
    BY DEF EntriesProven
  <2>2. WholeIn(new, e.file) /\ new[e.file] = d[e.file]
    BY <2>1, WholeStays
  <2>3. QED
    BY <2>1, <2>2
<1>2. QED
  BY <1>1, Zenon DEF EntriesProven

(* The written record of the present sample and its entry: every sample     *)
(* before the next one has its entry.                                       *)
LEMMA RecordProven ==
  ASSUME NEW m \in Matrices, ValidMatrix(m), NEW list, Summarized(m, list),
         NEW n \in DOMAIN SampleIds, n \in Nat, \A j \in DOMAIN SampleIds : j \in Nat,
         NEW s \in ToSet(list), s.query_id = SampleIds[n], s.sampled_records # <<>>,
         NEW d, NEW new, NEW c, NEW entries,
         PutIn(d, new, RecordFile(n), Written(c, s.sampled_records[1])),
         ~WholeIn(d, RecordFile(n)), EntriesProven(d, list, n, entries)
  PROVE  EntriesProven(new, list, n + 1,
           Append(entries, [query_id  |-> s.query_id,
                            record_id |-> s.sampled_records[1],
                            file      |-> RecordFile(n)]))
<1> DEFINE entry == [query_id |-> s.query_id, record_id |-> s.sampled_records[1],
                     file |-> RecordFile(n)]
           longer == Append(entries, entry)
           pair == <<s.query_id, s.sampled_records[1]>>
<1>1. entry.query_id = s.query_id /\ entry.record_id = s.sampled_records[1]
      /\ entry.file = RecordFile(n)
  OBVIOUS
<1>2. WholeIn(new, RecordFile(n)) /\ new[RecordFile(n)].value = s.sampled_records[1]
  BY DEF PutIn, Written, WholeIn
<1>3. EntriesProven(new, list, n, entries)
  BY EntriesStay
<1> HIDE DEF entry
<1>4. IsSequence(longer) /\ ToSet(longer) = ToSet(entries) \cup {entry}
  BY <1>3, AppendTo DEF EntriesProven
<1> HIDE DEF longer
<1>5. Pairs(longer) = Pairs(entries) \cup {pair}
  BY <1>1, <1>4 DEF Pairs
<1>6. {t \in ToSet(list) : t.query_id = SampleIds[n] /\ t.sampled_records # <<>>} = {s}
  BY OneSummary
<1>7. ToSample(list, n + 1) = ToSample(list, n) \cup {s}
  BY <1>6, OneMoreSample
<1>8. Firsts(ToSample(list, n + 1)) = Firsts(ToSample(list, n)) \cup {pair}
  BY <1>7 DEF Firsts
<1>9. \A e \in ToSet(longer) : WholeIn(new, e.file) /\ new[e.file].value = e.record_id
  BY <1>1, <1>2, <1>3, <1>4, Zenon DEF EntriesProven
<1>10. QED
  BY <1>3, <1>4, <1>5, <1>8, <1>9 DEF EntriesProven, longer, entry

(* A command that is not at work has nothing to prove.                      *)
LEMMA InactiveProves ==
  ASSUME NEW d, NEW label, label \notin Active, NEW list, NEW n, NEW entries
  PROVE  Proves(d, label, list, n, entries)
<1>1. label \notin {"open_record", "write_record"}
  BY DEF Active, Past
<1>2. QED
  BY <1>1, Zenon DEF Proves

(* Without a whole manifest there is nothing to be complete.                *)
LEMMA NoManifest ==
  ASSUME NEW m, NEW d, ~WholeIn(d, ManifestFile)
  PROVE  CompleteOf(m, d)
BY Zenon DEF CompleteOf

(* What a file that is put into the directory leaves as it was.             *)
LEMMA PutStays ==
  ASSUME NEW d, NEW new, NEW file, NEW content, PutIn(d, new, file, content),
         ~WholeIn(d, file), NEW label \in Active, NEW list, NEW n, NEW entries,
         Proves(d, label, list, n, entries),
         file = ManifestFile => ~content.whole
  PROVE  /\ ~WholeIn(new, ManifestFile)
         /\ EntriesProven(new, list, n, entries)
         /\ label # "write_summary" => SummaryWritten(new, list)
         /\ DOMAIN new \cap RecordFiles =
              (DOMAIN d \cap RecordFiles) \cup ({file} \cap RecordFiles)
<1>1. ~WholeIn(d, ManifestFile) /\ EntriesProven(d, list, n, entries)
  BY DEF Proves
<1>2. ~WholeIn(new, ManifestFile)
  BY <1>1 DEF PutIn, WholeIn
<1>3. EntriesProven(new, list, n, entries)
  BY <1>1, EntriesStay
<1>4. ASSUME label # "write_summary" PROVE SummaryWritten(new, list)
  <2>1. WholeIn(d, SummaryFile) /\ d[SummaryFile].value = list
    BY <1>4 DEF Proves, SummaryWritten
  <2>2. WholeIn(new, SummaryFile) /\ new[SummaryFile] = d[SummaryFile]
    BY <2>1, WholeStays
  <2>3. QED
    BY <2>1, <2>2 DEF SummaryWritten
<1>5. DOMAIN new = DOMAIN d \cup {file}
  BY DEF PutIn
<1>6. QED
  BY <1>2, <1>3, <1>4, <1>5

(* The summary is created in an empty directory.                            *)
LEMMA SummaryIsFirst ==
  ASSUME NEW d, DOMAIN d = {}, NEW new, NEW c, PutIn(d, new, SummaryFile, Opened(c)),
         NEW m \in Matrices, NEW list
  PROVE  Proves(new, "write_summary", list, 1, <<>>)
<1>1. DOMAIN new = {SummaryFile}
  BY DEF PutIn
<1>2. ~WholeIn(new, ManifestFile)
  BY <1>1, FileNames DEF WholeIn
<1>3. ToSet(<<>>) = {} /\ IsSequence(<<>>)
  BY DEF ToSet, IsSequence
<1>4. Len(SampleIds) \in Nat /\ DOMAIN SampleIds = 1..Len(SampleIds)
  BY Lengths
<1>5. \A j \in DOMAIN SampleIds : ~(j < 1)
  BY <1>4
<1>6. ToSample(list, 1) = {}
  BY <1>5 DEF ToSample
<1>7. Firsts({}) = {} /\ Pairs(<<>>) = {} /\ FilesOf(<<>>) = {}
  BY <1>3 DEF Firsts, Pairs, FilesOf
<1>8. EntriesProven(new, list, 1, <<>>)
  BY <1>3, <1>6, <1>7 DEF EntriesProven
<1>9. RecordsListed(new, "write_summary", 1, <<>>)
  BY <1>1, <1>7, FileNames DEF RecordsListed
<1>10. QED
  BY <1>2, <1>8, <1>9 DEF Proves

(* The summary is written.                                                  *)
LEMMA SummaryIsWritten ==
  ASSUME NEW d, NEW new, NEW c, NEW list, NEW n, NEW entries,
         PutIn(d, new, SummaryFile, Written(c, list)), ~WholeIn(d, SummaryFile),
         Proves(d, "write_summary", list, n, entries)
  PROVE  Proves(new, "fetch", list, n, entries) /\ ~WholeIn(new, ManifestFile)
<1>1. "write_summary" \in Active
  BY DEF Active, Past
<1>2. /\ ~WholeIn(new, ManifestFile)
      /\ EntriesProven(new, list, n, entries)
      /\ DOMAIN new \cap RecordFiles =
           (DOMAIN d \cap RecordFiles) \cup ({SummaryFile} \cap RecordFiles)
  BY <1>1, FileNames, PutStays
<1>3. RecordsListed(d, "write_summary", n, entries)
  BY <1>1 DEF Proves
<1>4. RecordsListed(new, "fetch", n, entries)
  BY <1>2, <1>3, FileNames DEF RecordsListed
<1>5. SummaryWritten(new, list)
  <2>1. new[SummaryFile] = Written(c, list) /\ SummaryFile \in DOMAIN new
    BY DEF PutIn
  <2>2. QED
    BY <2>1 DEF SummaryWritten, WholeIn, Written
<1>6. QED
  BY <1>2, <1>4, <1>5 DEF Proves

(* A query without samples is passed over.                                  *)
LEMMA SampleIsPassed ==
  ASSUME NEW m \in Matrices, ValidMatrix(m), NEW list, Summarized(m, list),
         NEW n \in 1..Len(SampleIds), NEW s \in ToSet(list),
         s.query_id = SampleIds[n], s.sampled_records = <<>>,
         NEW d, NEW entries, Proves(d, "fetch", list, n, entries),
         NEW label \in {"fetch", "open_manifest"}
  PROVE  Proves(d, label, list, n + 1, entries)
<1>1. Len(SampleIds) \in Nat /\ DOMAIN SampleIds = 1..Len(SampleIds)
  BY Lengths
<1>2. n \in DOMAIN SampleIds /\ n \in Nat /\ \A j \in DOMAIN SampleIds : j \in Nat
  BY <1>1
<1>3. {t \in ToSet(list) : t.query_id = SampleIds[n] /\ t.sampled_records # <<>>} = {}
  BY OneSummary
<1>4. ToSample(list, n + 1) = ToSample(list, n)
  BY <1>2, <1>3, OneMoreSample
<1>5. "fetch" \in Active /\ label \in Active
  BY DEF Active, Past
<1>6. /\ ~WholeIn(d, ManifestFile)
      /\ EntriesProven(d, list, n, entries)
      /\ RecordsListed(d, "fetch", n, entries)
      /\ SummaryWritten(d, list)
  BY <1>5 DEF Proves
<1>7. EntriesProven(d, list, n + 1, entries)
  BY <1>4, <1>6 DEF EntriesProven
<1>8. RecordsListed(d, label, n + 1, entries)
  BY <1>6 DEF RecordsListed
<1>9. QED
  BY <1>6, <1>7, <1>8 DEF Proves

(* A record is fetched for a query that lists one.                          *)
LEMMA SampleIsFetched ==
  ASSUME NEW m \in Matrices, ValidMatrix(m), NEW list, Summarized(m, list),
         NEW n, NEW s \in ToSet(list), s.query_id = SampleIds[n], s.sampled_records # <<>>,
         NEW d, NEW entries, Proves(d, "fetch", list, n, entries)
  PROVE  Proves(d, "open_record", list, n, entries)
<1>1. "fetch" \in Active
  BY DEF Active, Past
<1>2. /\ ~WholeIn(d, ManifestFile)
      /\ EntriesProven(d, list, n, entries)
      /\ RecordsListed(d, "fetch", n, entries)
      /\ SummaryWritten(d, list)
  BY <1>1 DEF Proves
<1>3. RecordsListed(d, "open_record", n, entries)
  BY <1>2 DEF RecordsListed
<1>4. SampleListed(list, n)
  BY OneSummary DEF SampleListed
<1>5. QED
  BY <1>2, <1>3, <1>4 DEF Proves

(* The record's file is created.                                            *)
LEMMA RecordIsCreated ==
  ASSUME NEW d, NEW new, NEW c, NEW list, NEW n \in DOMAIN SampleIds, NEW entries,
         PutIn(d, new, RecordFile(n), Opened(c)), ~WholeIn(d, RecordFile(n)),
         Proves(d, "open_record", list, n, entries)
  PROVE  Proves(new, "write_record", list, n, entries) /\ ~WholeIn(new, ManifestFile)
<1>1. "open_record" \in Active
  BY DEF Active, Past
<1>2. ~Opened(c).whole
  BY DEF Opened
<1>3. /\ ~WholeIn(new, ManifestFile)
      /\ EntriesProven(new, list, n, entries)
      /\ SummaryWritten(new, list)
      /\ DOMAIN new \cap RecordFiles =
           (DOMAIN d \cap RecordFiles) \cup ({RecordFile(n)} \cap RecordFiles)
  BY <1>1, <1>2, PutStays
<1>4. RecordsListed(d, "open_record", n, entries) /\ SampleListed(list, n)
  BY <1>1 DEF Proves
<1>5. RecordFile(n) \in RecordFiles
  BY DEF RecordFiles
<1>6. RecordsListed(new, "write_record", n, entries)
  BY <1>3, <1>4, <1>5 DEF RecordsListed
<1>7. QED
  BY <1>3, <1>4, <1>6 DEF Proves

(* The record is written and listed.                                        *)
LEMMA RecordIsWritten ==
  ASSUME NEW m \in Matrices, ValidMatrix(m), NEW list, Summarized(m, list),
         NEW n \in 1..Len(SampleIds), NEW s \in ToSet(list), s.query_id = SampleIds[n],
         NEW d, NEW new, NEW c, NEW entries,
         PutIn(d, new, RecordFile(n), Written(c, s.sampled_records[1])),
         ~WholeIn(d, RecordFile(n)), Proves(d, "write_record", list, n, entries),
         NEW label \in {"fetch", "open_manifest"}
  PROVE  /\ Proves(new, label, list, n + 1,
              Append(entries, [query_id  |-> s.query_id,
                               record_id |-> s.sampled_records[1],
                               file      |-> RecordFile(n)]))
         /\ ~WholeIn(new, ManifestFile)
<1> DEFINE entry == [query_id |-> s.query_id, record_id |-> s.sampled_records[1],
                     file |-> RecordFile(n)]
           longer == Append(entries, entry)
<1>1. "write_record" \in Active /\ label \in Active
  BY DEF Active, Past
<1>2. RecordFile(n) # ManifestFile
  BY DEF RecordFile, ManifestFile
<1>3. /\ ~WholeIn(new, ManifestFile)
      /\ SummaryWritten(new, list)
      /\ DOMAIN new \cap RecordFiles =
           (DOMAIN d \cap RecordFiles) \cup ({RecordFile(n)} \cap RecordFiles)
  BY <1>1, <1>2, PutStays
<1>4. /\ EntriesProven(d, list, n, entries)
      /\ RecordsListed(d, "write_record", n, entries)
      /\ SampleListed(list, n)
  BY <1>1 DEF Proves
<1>5. n \in DOMAIN SampleIds /\ n \in Nat /\ \A j \in DOMAIN SampleIds : j \in Nat
  <2>1. Len(SampleIds) \in Nat /\ DOMAIN SampleIds = 1..Len(SampleIds)
    BY Lengths
  <2>2. QED
    BY <2>1
<1>6. s.sampled_records # <<>>
  BY <1>4 DEF SampleListed
<1>7. EntriesProven(new, list, n + 1, longer)
  BY <1>4, <1>5, <1>6, RecordProven
<1>8. FilesOf(longer) = FilesOf(entries) \cup {RecordFile(n)}
  <2>1. entry.file = RecordFile(n)
    OBVIOUS
  <2> HIDE DEF entry
  <2>2. ToSet(longer) = ToSet(entries) \cup {entry}
    BY <1>4, AppendTo DEF EntriesProven
  <2>3. QED
    BY <2>1, <2>2 DEF FilesOf
<1> HIDE DEF longer
<1>9. RecordsListed(new, label, n + 1, longer)
  BY <1>3, <1>4, <1>8 DEF RecordsListed
<1>10. Proves(new, label, list, n + 1, longer)
  BY <1>3, <1>7, <1>9 DEF Proves
<1>11. QED
  BY <1>3, <1>10 DEF longer, entry

(* The manifest's file is created.                                          *)
LEMMA ManifestIsCreated ==
  ASSUME NEW d, NEW new, NEW c, NEW list, NEW n, NEW entries,
         PutIn(d, new, ManifestFile, Opened(c)),
         Proves(d, "open_manifest", list, n, entries)
  PROVE  Proves(new, "write_manifest", list, n, entries) /\ ~WholeIn(new, ManifestFile)
<1>1. "open_manifest" \in Active
  BY DEF Active, Past
<1>2. ~WholeIn(d, ManifestFile) /\ RecordsListed(d, "open_manifest", n, entries)
  BY <1>1 DEF Proves
<1>3. ~Opened(c).whole
  BY DEF Opened
<1>4. /\ ~WholeIn(new, ManifestFile)
      /\ EntriesProven(new, list, n, entries)
      /\ SummaryWritten(new, list)
      /\ DOMAIN new \cap RecordFiles =
           (DOMAIN d \cap RecordFiles) \cup ({ManifestFile} \cap RecordFiles)
  BY <1>1, <1>2, <1>3, PutStays
<1>5. RecordsListed(new, "write_manifest", n, entries)
  BY <1>2, <1>4, FileNames DEF RecordsListed
<1>6. QED
  BY <1>4, <1>5 DEF Proves

(* What a summary says of its query.                                        *)
LEMMA SummaryFits ==
  ASSUME NEW query, ValidQuery(query), NEW t, SummaryOf(t, query)
  PROVE  /\ t.query_id = query.query_id
         /\ Len(t.sampled_records) <= query.sample_limit
         /\ IsInjective(t.sampled_records)
         /\ t.items_count <= t.total_results
<1>1. PICK r \in Responses : t = Summary(query, r) /\ Summarizable(query, r)
  BY Zenon DEF SummaryOf
<1>2. r.items \in Seq(ToSet(r.items))
  BY ResponsesAssumption
<1>3. query.sample_limit \in Nat
  BY PageSizeAssumption DEF ValidQuery
<1>4. Len(Sampled(query, r)) <= query.sample_limit
  <2> DEFINE k == IF query.sample_limit < Len(r.items)
                  THEN query.sample_limit ELSE Len(r.items)
  <2>1. k \in Nat /\ k <= query.sample_limit /\ k <= Len(r.items)
    BY <1>2, <1>3
  <2>2. Sampled(query, r) = SubSeq(r.items, 1, k)
    BY Zenon DEF Sampled
  <2> HIDE DEF k
  <2>3. Len(SubSeq(r.items, 1, k)) = k
    BY <1>2, <2>1
  <2>4. QED
    BY <2>1, <2>2, <2>3
<1>5. QED
  BY <1>1, <1>4 DEF Summary, Summarizable

(* When the last sample has been taken, the manifest that is written        *)
(* completes the snapshot.                                                  *)
LEMMA ManifestIsWritten ==
  ASSUME NEW m \in Matrices, ValidMatrix(m), NEW list, Summarized(m, list),
         Len(list) = Len(m.queries), NEW n, n = Len(SampleIds) + 1,
         NEW d, NEW new, NEW c, NEW entries,
         PutIn(d, new, ManifestFile, Written(c, entries)),
         Proves(d, "write_manifest", list, n, entries)
  PROVE  Complete(m, new) /\ new[ManifestFile].by = c
<1>1. "write_manifest" \in Active
  BY DEF Active, Past
<1>2. /\ ~WholeIn(d, ManifestFile)
      /\ EntriesProven(d, list, n, entries)
      /\ RecordsListed(d, "write_manifest", n, entries)
      /\ WholeIn(d, SummaryFile) /\ d[SummaryFile].value = list
  BY <1>1 DEF Proves, SummaryWritten
<1>3. EntriesProven(new, list, n, entries)
  BY <1>2, EntriesStay
<1>4. WholeIn(new, SummaryFile) /\ new[SummaryFile].value = list
  BY <1>2, WholeStays
<1>5. new[ManifestFile].value = entries /\ new[ManifestFile].by = c
  BY DEF PutIn, Written
<1>6. DOMAIN new \cap RecordFiles = FilesOf(entries)
  <2>1. DOMAIN new = DOMAIN d \cup {ManifestFile}
    BY DEF PutIn
  <2>2. QED
    BY <1>2, <2>1, FileNames DEF RecordsListed
<1>7. /\ Len(m.queries) \in Nat /\ DOMAIN m.queries = 1..Len(m.queries)
      /\ Len(SampleIds) \in Nat /\ DOMAIN SampleIds = 1..Len(SampleIds)
  BY Lengths
<1>8. DOMAIN list = 1..Len(list)
  BY DEF Summarized, IsSequence
<1>9. ASSUME NEW k \in DOMAIN list
      PROVE  /\ list[k].query_id = m.queries[k].query_id
             /\ Len(list[k].sampled_records) <= m.queries[k].sample_limit
             /\ IsInjective(list[k].sampled_records)
             /\ list[k].items_count <= list[k].total_results
  <2>1. SummaryOf(list[k], m.queries[k])
    BY <1>8 DEF Summarized
  <2>2. m.queries[k] \in ToSet(m.queries)
    BY <1>7, <1>8 DEF ToSet
  <2>3. ValidQuery(m.queries[k])
    BY <2>2, Zenon DEF ValidMatrix
  <2>4. QED
    BY <2>1, <2>3, SummaryFits
<1>10. QueryIds(list) = QueryIds(m.queries)
  BY <1>7, <1>8, <1>9 DEF QueryIds
<1>11. \A t : Contains(SampleIds, t) <=> \E j \in DOMAIN SampleIds : j < n /\ t = SampleIds[j]
  BY <1>7 DEF Contains
<1>12. ToSample(list, n) =
         {s \in ToSet(list) : Contains(SampleIds, s.query_id) /\ s.sampled_records # <<>>}
  BY <1>11 DEF ToSample
<1>13. Pairs(entries) =
         Firsts({s \in ToSet(list) :
                   Contains(SampleIds, s.query_id) /\ s.sampled_records # <<>>})
  BY <1>3, <1>12, Zenon DEF EntriesProven
<1>14. \A e \in ToSet(entries) : WholeIn(new, e.file) /\ new[e.file].value = e.record_id
  BY <1>3, Zenon DEF EntriesProven
<1>15. QED
  BY <1>4, <1>5, <1>6, <1>9, <1>10, <1>13, <1>14, Zenon DEF Complete

-----------------------------------------------------------------------------
(* The files of all commands                                               *)

(* A step of one command: another one is at work only if the directory is   *)
(* as it was.                                                               *)
LEMMA ProofSteps ==
  ASSUME IInv, IInv', AskInv, FileInv,
         NEW c \in Commands, NEW label \in Labels, Goto(c, label), UNCHANGED matrix,
         ChangesAt(summaries, summaries', c), ChangesAt(sample, sample', c),
         ChangesAt(manifest, manifest', c),
         UNCHANGED dir \/ label \in Past,
         Proves(dir', label, summaries'[c], sample'[c], manifest'[c]),
         CompleteOf(matrix, dir')
  PROVE  FileInv'
<1>1. pc'[c] = label /\ \A d \in Commands : d # c => pc'[d] = pc[d]
  BY OneMoves
<1>2. ASSUME NEW d \in Commands PROVE ProvesOf(d)'
  <2>1. CASE d = c
    BY <1>1, <2>1, Zenon DEF ProvesOf
  <2>2. CASE d # c
    <3>1. /\ pc'[d] = pc[d] /\ summaries'[d] = summaries[d]
          /\ sample'[d] = sample[d] /\ manifest'[d] = manifest[d]
      BY <1>1, <2>2, Zenon DEF ChangesAt, AskInv
    <3>2. ProvesOf(d)
      BY Zenon DEF FileInv
    <3>3. CASE UNCHANGED dir
      BY <3>1, <3>2, <3>3, Zenon DEF ProvesOf
    <3>4. CASE label \in Past
      <4>1. pc'[d] \notin Past
        BY <1>1, <2>2, <3>4, Zenon DEF IInv, PastOwnsSummary
      <4>2. pc'[d] \notin Active
        BY <4>1 DEF Active
      <4>3. QED
        BY <4>2, InactiveProves, Zenon DEF ProvesOf
    <3>5. QED
      BY <3>3, <3>4
  <2>3. QED
    BY <2>1, <2>2
<1>3. CompleteOf(matrix', dir')
  BY Zenon
<1>4. QED
  BY <1>2, <1>3, Zenon DEF FileInv

(* A step after which the command is not at work, and no file is touched.   *)
LEMMA ProofEnds ==
  ASSUME IInv, IInv', AskInv, FileInv,
         NEW c \in Commands, NEW label \in Labels, Goto(c, label),
         label \notin Active, UNCHANGED <<matrix, dir>>,
         ChangesAt(summaries, summaries', c), ChangesAt(sample, sample', c),
         ChangesAt(manifest, manifest', c)
  PROVE  FileInv'
<1>1. Proves(dir', label, summaries'[c], sample'[c], manifest'[c])
  BY InactiveProves, Zenon
<1>2. CompleteOf(matrix, dir')
  BY Zenon DEF FileInv
<1>3. QED
  BY <1>1, <1>2, ProofSteps, Zenon

(* A step that puts a file into the directory and leaves no whole manifest. *)
LEMMA ProofGrows ==
  ASSUME IInv, IInv', AskInv, FileInv,
         NEW c \in Commands, NEW label \in Past, Goto(c, label), UNCHANGED matrix,
         ChangesAt(summaries, summaries', c), ChangesAt(sample, sample', c),
         ChangesAt(manifest, manifest', c),
         Proves(dir', label, summaries'[c], sample'[c], manifest'[c]),
         ~WholeIn(dir', ManifestFile)
  PROVE  FileInv'
<1>1. label \in Labels
  BY DEF Labels
<1>2. CompleteOf(matrix, dir')
  BY NoManifest, Zenon
<1>3. QED
  BY <1>1, <1>2, ProofSteps, Zenon

(* What Put does, of the directory before and after.                        *)
LEMMA PutsIn ==
  ASSUME NEW file, NEW content, Put(file, content)
  PROVE  PutIn(dir, dir', file, content)
BY PutOne, Zenon DEF PutIn

(* Where a command has its whole list of summaries.                         *)
LEMMA AtWork ==
  ASSUME AskInv, NEW c \in Commands,
         pc[c] \in {"open_summary", "write_summary"} \cup AtSample \cup AfterFetch
  PROVE  /\ matrix[c] \in Matrices
         /\ ValidMatrix(matrix[c])
         /\ Summarized(matrix[c], summaries[c])
         /\ Len(summaries[c]) = Len(matrix[c].queries)
         /\ pc[c] \in BeforeFetch => sample[c] = 1 /\ manifest[c] = <<>>
         /\ pc[c] \in AtSample => sample[c] \in 1..Len(SampleIds)
         /\ pc[c] \in AfterFetch => sample[c] = Len(SampleIds) + 1
BY Zenon DEF AskInv, PhaseOf, Phase, Sampling

(* At the start there is no file.                                           *)
LEMMA FilesInitially == Init => FileInv
<1> SUFFICES ASSUME Init PROVE FileInv
  OBVIOUS
<1>1. \A c \in Commands : pc[c] = "load"
  BY DEF Init
<1>2. "load" \notin Active
  BY DEF Active, Past
<1>3. \A c \in Commands : ProvesOf(c)
  BY <1>1, <1>2, InactiveProves, Zenon DEF ProvesOf
<1>4. DOMAIN dir = {}
  BY DEF Init
<1>5. ~WholeIn(dir, ManifestFile)
  BY <1>4 DEF WholeIn
<1>6. QED
  BY <1>3, <1>5, NoManifest, Zenon DEF FileInv

(* The steps that touch no file, and those that are refused theirs.         *)
LEMMA QuietStepProves ==
  ASSUME IInv, IInv', AskInv, FileInv, NEW c \in Commands, UNCHANGED dir,
         \/ Load(c) \/ RequestRefused(c) \/ SearchFails(c) \/ SearchNext(c)
         \/ NoSuchQuery(c) \/ SystemCallFails(c) \/ Kill(c)
         \/ CreateSummary(c) /\ Goto(c, "failed")
         \/ CreateRecord(c) /\ Goto(c, "failed")
         \/ CreateManifest(c) /\ Goto(c, "failed")
  PROVE  FileInv'
<1>1. PICK label \in {"search", "open_summary", "failed", "killed"} : Goto(c, label)
  BY DEF Load, RequestRefused, SearchFails, SearchNext, NoSuchQuery, SystemCallFails, Kill
<1>2. label \in Labels /\ label \notin Active
  BY DEF Labels, Ended, Active, Past
<1>3. UNCHANGED <<matrix, sample, manifest>>
  BY Zenon DEF Load, RequestRefused, SearchFails, SearchNext, NoSuchQuery, SystemCallFails,
    Kill, CreateSummary, CreateRecord, CreateManifest
<1>4. ChangesAt(summaries, summaries', c)
  <2>1. CASE UNCHANGED summaries
    BY <2>1, NoChange, Zenon
  <2>2. CASE \E list : summaries' = [summaries EXCEPT ![c] = list]
    <3>1. c \in DOMAIN summaries
      BY DEF AskInv
    <3>2. QED
      BY <2>2, <3>1, OneChange, Zenon
  <2>3. UNCHANGED summaries \/ \E list : summaries' = [summaries EXCEPT ![c] = list]
    BY Zenon DEF Load, RequestRefused, SearchFails, SearchNext, NoSuchQuery,
      SystemCallFails, Kill, CreateSummary, CreateRecord, CreateManifest
  <2>4. QED
    BY <2>1, <2>2, <2>3
<1>5. ChangesAt(sample, sample', c) /\ ChangesAt(manifest, manifest', c)
  BY <1>3, NoChange, Zenon
<1>6. QED
  BY <1>1, <1>2, <1>3, <1>4, <1>5, ProofEnds, Zenon

(* Every step of a command keeps the files in order.                        *)
LEMMA StepProves ==
  ASSUME IInv, IInv', AskInv, FileInv, NEW c \in Commands, Step(c) \/ Kill(c)
  PROVE  FileInv'
<1> DEFINE list == summaries[c]
           n == sample[c]
           entries == manifest[c]
<1>0. Proves(dir, pc[c], list, n, entries)
  BY Zenon DEF FileInv, ProvesOf
<1>1. CASE Load(c) \/ RequestRefused(c) \/ SearchFails(c) \/ SearchNext(c)
           \/ NoSuchQuery(c) \/ SystemCallFails(c) \/ Kill(c)
  <2>1. UNCHANGED dir
    BY <1>1, Zenon DEF Load, RequestRefused, SearchFails, SearchNext, NoSuchQuery,
      SystemCallFails, Kill
  <2>2. QED
    BY <1>1, <2>1, QuietStepProves, Zenon
<1>2. CASE NothingSampled(c)
  <2>1. /\ pc[c] = "fetch" /\ Goto(c, AfterSample(c))
        /\ sample' = [sample EXCEPT ![c] = sample[c] + 1]
        /\ UNCHANGED <<matrix, summaries, manifest, dir>>
    BY <1>2, Zenon DEF NothingSampled
  <2>2. PICK s \in SummariesOf(c, SampleIds[n]) : s.sampled_records = <<>>
    BY <1>2, Zenon DEF NothingSampled
  <2>3. s \in ToSet(list) /\ s.query_id = SampleIds[n]
    BY <2>2 DEF SummariesOf
  <2>4. pc[c] \in AtSample
    BY <2>1 DEF AtSample
  <2>5. matrix[c] \in Matrices /\ ValidMatrix(matrix[c]) /\ Summarized(matrix[c], list)
        /\ n \in 1..Len(SampleIds)
    BY <2>4, AtWork, Zenon
  <2>6. AfterSample(c) \in {"fetch", "open_manifest"} /\ AfterSample(c) \in Labels
        /\ AfterSample(c) \in Past
    BY DEF AfterSample, Labels, Past
  <2>7. Proves(dir, AfterSample(c), list, n + 1, entries)
    BY <1>0, <2>1, <2>2, <2>3, <2>5, <2>6, SampleIsPassed, Zenon
  <2>8. ChangesAt(sample, sample', c) /\ sample'[c] = n + 1
    <3>1. c \in DOMAIN sample
      BY DEF AskInv
    <3>2. QED
      BY <2>1, <3>1, OneChange, Zenon
  <2>9. ChangesAt(summaries, summaries', c) /\ ChangesAt(manifest, manifest', c)
    BY <2>1, NoChange, Zenon
  <2>10. Proves(dir', AfterSample(c), summaries'[c], sample'[c], manifest'[c])
    BY <2>1, <2>7, <2>8, Zenon
  <2>11. CompleteOf(matrix, dir')
    BY <2>1, Zenon DEF FileInv
  <2>12. QED
    BY <2>1, <2>6, <2>8, <2>9, <2>10, <2>11, ProofSteps, Zenon
<1>3. CASE Fetch(c)
  <2>1. pc[c] = "fetch" /\ UNCHANGED <<matrix, summaries, sample, manifest, dir>>
    BY <1>3, Zenon DEF Fetch
  <2>2. PICK s \in SummariesOf(c, SampleIds[n]) : s.sampled_records # <<>>
    BY <1>3, Zenon DEF Fetch
  <2>3. s \in ToSet(list) /\ s.query_id = SampleIds[n]
    BY <2>2 DEF SummariesOf
  <2>4. pc[c] \in AtSample
    BY <2>1 DEF AtSample
  <2>5. matrix[c] \in Matrices /\ ValidMatrix(matrix[c]) /\ Summarized(matrix[c], list)
    BY <2>4, AtWork, Zenon
  <2>6. PICK label \in {"open_record", "failed"} : Goto(c, label)
    BY <1>3, Zenon DEF Fetch
  <2>7. Proves(dir, "open_record", list, n, entries)
    BY <1>0, <2>1, <2>2, <2>3, <2>5, SampleIsFetched, Zenon
  <2>8. Proves(dir, "failed", list, n, entries)
    BY InactiveProves DEF Active, Past
  <2>9. Proves(dir', label, summaries'[c], sample'[c], manifest'[c])
    BY <2>1, <2>6, <2>7, <2>8, Zenon
  <2>10. /\ ChangesAt(summaries, summaries', c) /\ ChangesAt(sample, sample', c)
         /\ ChangesAt(manifest, manifest', c)
    BY <2>1, NoChange, Zenon
  <2>11. CompleteOf(matrix, dir') /\ label \in Labels
    BY <2>1 DEF FileInv, Labels, Ended, Past
  <2>12. QED
    BY <2>1, <2>6, <2>9, <2>10, <2>11, ProofSteps, Zenon
<1>4. CASE CreateSummary(c) \/ CreateRecord(c) \/ CreateManifest(c)
  <2>1. UNCHANGED <<matrix, summaries, sample, manifest>>
    BY <1>4, Zenon DEF CreateSummary, CreateRecord, CreateManifest
  <2>2. /\ ChangesAt(summaries, summaries', c) /\ ChangesAt(sample, sample', c)
        /\ ChangesAt(manifest, manifest', c)
    BY <2>1, NoChange, Zenon
  <2>3. CASE UNCHANGED dir /\ Goto(c, "failed")
    BY <1>4, <2>3, QuietStepProves, Zenon
  <2>4. ASSUME NEW label \in Past, Goto(c, label),
               Proves(dir', label, list, n, entries), ~WholeIn(dir', ManifestFile)
        PROVE  FileInv'
    <3>1. Proves(dir', label, summaries'[c], sample'[c], manifest'[c])
      BY <2>1, <2>4, Zenon
    <3>2. QED
      BY <2>1, <2>2, <2>4, <3>1, ProofGrows, Zenon
  <2>5. CASE CreateSummary(c) /\ ~(UNCHANGED dir /\ Goto(c, "failed"))
    <3>1. /\ pc[c] = "open_summary" /\ SummaryFile \notin DOMAIN dir
          /\ Put(SummaryFile, Opened(c)) /\ Goto(c, "write_summary")
      BY <2>5, Zenon DEF CreateSummary, Create
    <3>2. DOMAIN dir = {}
      BY <3>1, Zenon DEF IInv, FilesFollowSummary
    <3>3. n = 1 /\ entries = <<>> /\ matrix[c] \in Matrices
      BY <3>1, AtWork DEF BeforeFetch
    <3>4. PutIn(dir, dir', SummaryFile, Opened(c))
      BY <3>1, PutsIn, Zenon
    <3>5. Proves(dir', "write_summary", list, n, entries)
      BY <3>2, <3>3, <3>4, SummaryIsFirst, Zenon
    <3>6. ~WholeIn(dir', ManifestFile) /\ "write_summary" \in Past
      BY <3>5 DEF Proves, Active, Past
    <3>7. QED
      BY <2>4, <3>1, <3>5, <3>6, Zenon
  <2>6. CASE CreateRecord(c) /\ ~(UNCHANGED dir /\ Goto(c, "failed"))
    <3>1. /\ pc[c] = "open_record" /\ RecordFile(n) \notin DOMAIN dir
          /\ Put(RecordFile(n), Opened(c)) /\ Goto(c, "write_record")
      BY <2>6, Zenon DEF CreateRecord, Create
    <3>2. matrix[c] \in Matrices /\ n \in 1..Len(SampleIds)
      BY <3>1, AtWork DEF AtSample
    <3>3. n \in DOMAIN SampleIds
      BY <3>2, Lengths
    <3>4. PutIn(dir, dir', RecordFile(n), Opened(c)) /\ ~WholeIn(dir, RecordFile(n))
      BY <3>1, PutsIn, Zenon DEF WholeIn
    <3>5. Proves(dir', "write_record", list, n, entries) /\ ~WholeIn(dir', ManifestFile)
      BY <1>0, <3>1, <3>3, <3>4, RecordIsCreated, Zenon
    <3>6. "write_record" \in Past
      BY DEF Past
    <3>7. QED
      BY <2>4, <3>1, <3>5, <3>6, Zenon
  <2>7. CASE CreateManifest(c) /\ ~(UNCHANGED dir /\ Goto(c, "failed"))
    <3>1. /\ pc[c] = "open_manifest"
          /\ Put(ManifestFile, Opened(c)) /\ Goto(c, "write_manifest")
      BY <2>7, Zenon DEF CreateManifest, Create
    <3>2. PutIn(dir, dir', ManifestFile, Opened(c))
      BY <3>1, PutsIn, Zenon
    <3>3. Proves(dir', "write_manifest", list, n, entries) /\ ~WholeIn(dir', ManifestFile)
      BY <1>0, <3>1, <3>2, ManifestIsCreated, Zenon
    <3>4. "write_manifest" \in Past
      BY DEF Past
    <3>5. QED
      BY <2>4, <3>1, <3>3, <3>4, Zenon
  <2>8. QED
    BY <1>4, <2>3, <2>5, <2>6, <2>7
<1>5. CASE WriteSummary(c)
  <2>1. /\ pc[c] = "write_summary" /\ Put(SummaryFile, Written(c, list))
        /\ Goto(c, "fetch") /\ UNCHANGED <<matrix, summaries, sample, manifest>>
    BY <1>5, Zenon DEF WriteSummary, Write
  <2>2. FileOf(c) = SummaryFile /\ pc[c] \in Writing
    BY <2>1 DEF FileOf, Writing
  <2>3. ~WholeIn(dir, SummaryFile)
    <3>1. SummaryFile \in DOMAIN dir /\ dir[SummaryFile] = Opened(c)
      BY <2>2, Zenon DEF IInv, OpenFilesAreOwned
    <3>2. QED
      BY <3>1 DEF Opened, WholeIn
  <2>4. PutIn(dir, dir', SummaryFile, Written(c, list))
    BY <2>1, PutsIn, Zenon
  <2>5. Proves(dir', "fetch", list, n, entries) /\ ~WholeIn(dir', ManifestFile)
    BY <1>0, <2>1, <2>3, <2>4, SummaryIsWritten, Zenon
  <2>6. /\ ChangesAt(summaries, summaries', c) /\ ChangesAt(sample, sample', c)
        /\ ChangesAt(manifest, manifest', c)
    BY <2>1, NoChange, Zenon
  <2>7. Proves(dir', "fetch", summaries'[c], sample'[c], manifest'[c])
    BY <2>1, <2>5, Zenon
  <2>8. "fetch" \in Past
    BY DEF Past
  <2>9. QED
    BY <2>1, <2>5, <2>6, <2>7, <2>8, ProofGrows, Zenon
<1>6. CASE WriteRecord(c)
  <2>1. PICK s \in SummariesOf(c, SampleIds[n]) :
          /\ Write(c, RecordFile(n), s.sampled_records[1], AfterSample(c))
          /\ manifest' = [manifest EXCEPT ![c] =
                            Append(@, [query_id  |-> s.query_id,
                                       record_id |-> s.sampled_records[1],
                                       file      |-> RecordFile(n)])]
    BY <1>6, Zenon DEF WriteRecord
  <2> DEFINE longer == Append(entries, [query_id  |-> s.query_id,
                                        record_id |-> s.sampled_records[1],
                                        file      |-> RecordFile(n)])
  <2>2. s \in ToSet(list) /\ s.query_id = SampleIds[n]
    BY <2>1 DEF SummariesOf
  <2>3. /\ pc[c] = "write_record" /\ Put(RecordFile(n), Written(c, s.sampled_records[1]))
        /\ Goto(c, AfterSample(c))
        /\ sample' = [sample EXCEPT ![c] = sample[c] + 1]
        /\ UNCHANGED <<matrix, summaries>>
    BY <1>6, <2>1, Zenon DEF WriteRecord, Write
  <2>4. FileOf(c) = RecordFile(n) /\ pc[c] \in Writing
    BY <2>3 DEF FileOf, Writing
  <2>5. ~WholeIn(dir, RecordFile(n))
    <3>1. RecordFile(n) \in DOMAIN dir /\ dir[RecordFile(n)] = Opened(c)
      BY <2>4, Zenon DEF IInv, OpenFilesAreOwned
    <3>2. QED
      BY <3>1 DEF Opened, WholeIn
  <2>6. PutIn(dir, dir', RecordFile(n), Written(c, s.sampled_records[1]))
    BY <2>3, PutsIn, Zenon
  <2>7. matrix[c] \in Matrices /\ ValidMatrix(matrix[c]) /\ Summarized(matrix[c], list)
        /\ n \in 1..Len(SampleIds)
    <3>1. pc[c] \in AtSample
      BY <2>3 DEF AtSample
    <3>2. QED
      BY <3>1, AtWork, Zenon
  <2>8. AfterSample(c) \in {"fetch", "open_manifest"} /\ AfterSample(c) \in Past
    BY DEF AfterSample, Past
  <2>9. Proves(dir', AfterSample(c), list, n + 1, longer) /\ ~WholeIn(dir', ManifestFile)
    BY <1>0, <2>2, <2>3, <2>5, <2>6, <2>7, <2>8, RecordIsWritten, Zenon
  <2>10. ChangesAt(sample, sample', c) /\ sample'[c] = n + 1
    <3>1. c \in DOMAIN sample
      BY DEF AskInv
    <3>2. QED
      BY <2>3, <3>1, OneChange, Zenon
  <2>11. ChangesAt(manifest, manifest', c) /\ manifest'[c] = longer
    <3>1. c \in DOMAIN manifest
      BY DEF AskInv
    <3>2. manifest' = [manifest EXCEPT ![c] = longer]
      BY <2>1, Zenon
    <3> HIDE DEF longer
    <3>3. QED
      BY <3>1, <3>2, OneChange, Zenon
  <2>12. ChangesAt(summaries, summaries', c)
    BY <2>3, NoChange, Zenon
  <2> HIDE DEF longer
  <2>13. Proves(dir', AfterSample(c), summaries'[c], sample'[c], manifest'[c])
    BY <2>3, <2>9, <2>10, <2>11, Zenon
  <2>14. QED
    BY <2>3, <2>8, <2>9, <2>10, <2>11, <2>12, <2>13, ProofGrows, Zenon
<1>7. CASE WriteManifest(c)
  <2>1. /\ pc[c] = "write_manifest" /\ Put(ManifestFile, Written(c, entries))
        /\ Goto(c, "finished") /\ UNCHANGED <<matrix, summaries, sample, manifest>>
    BY <1>7, Zenon DEF WriteManifest, Write
  <2>2. PutIn(dir, dir', ManifestFile, Written(c, entries))
    BY <2>1, PutsIn, Zenon
  <2>3. pc[c] \in AfterFetch
    BY <2>1 DEF AfterFetch
  <2>4. /\ matrix[c] \in Matrices /\ ValidMatrix(matrix[c]) /\ Summarized(matrix[c], list)
        /\ Len(list) = Len(matrix[c].queries) /\ n = Len(SampleIds) + 1
    BY <2>3, AtWork, Zenon
  <2>5. Complete(matrix[c], dir') /\ dir'[ManifestFile].by = c
    <3> DEFINE m == matrix[c]
    <3>1. /\ m \in Matrices /\ ValidMatrix(m) /\ Summarized(m, list)
          /\ Len(list) = Len(m.queries) /\ n = Len(SampleIds) + 1
      BY <2>4
    <3>2. Proves(dir, "write_manifest", list, n, entries)
      BY <1>0, <2>1, Zenon
    <3> HIDE DEF m, list, n, entries
    <3>3. Complete(m, dir') /\ dir'[ManifestFile].by = c
      BY <2>2, <3>1, <3>2, ManifestIsWritten, Zenon
    <3>4. QED
      BY <3>3 DEF m
  <2>6. CompleteOf(matrix, dir')
    BY <2>5, Zenon DEF CompleteOf
  <2>7. "finished" \notin Active /\ "finished" \in Past /\ "finished" \in Labels
    BY DEF Active, Labels, Past
  <2>8. Proves(dir', "finished", summaries'[c], sample'[c], manifest'[c])
    BY <2>7, InactiveProves, Zenon
  <2>9. /\ ChangesAt(summaries, summaries', c) /\ ChangesAt(sample, sample', c)
        /\ ChangesAt(manifest, manifest', c)
    BY <2>1, NoChange, Zenon
  <2>10. QED
    BY <2>1, <2>7, <2>8, <2>9, <2>6, ProofSteps, Zenon
<1>8. QED
  BY <1>1, <1>2, <1>3, <1>4, <1>5, <1>6, <1>7, Zenon DEF Step

(* The three invariants hold together throughout.                           *)
LEMMA FilesAndRequests == Spec => [](IInv /\ AskInv /\ FileInv)
<1>1. Init => IInv /\ AskInv /\ FileInv
  BY Initially, AskInitially, FilesInitially, Zenon
<1>2. IInv /\ AskInv /\ FileInv /\ [Next]_vars => (IInv /\ AskInv /\ FileInv)'
  <2> SUFFICES ASSUME IInv, AskInv, FileInv, [Next]_vars
               PROVE  (IInv /\ AskInv /\ FileInv)'
    OBVIOUS
  <2>1. IInv'
    BY StepKeeps
  <2>2. CASE Next
    <3>1. PICK c \in Commands : Step(c) \/ Kill(c)
      BY <2>2, Zenon DEF Next
    <3>2. AskInv'
      BY <3>1, StepAsks
    <3>3. FileInv'
      BY <2>1, <3>1, StepProves
    <3>4. QED
      BY <2>1, <3>2, <3>3
  <2>3. CASE UNCHANGED vars
    <3>1. UNCHANGED <<matrix, pc, asked, summaries, sample, manifest, dir>>
      BY <2>3 DEF vars
    <3>2. AskInv'
      BY <3>1, Zenon DEF AskInv, PhaseOf
    <3>3. FileInv'
      BY <3>1, Zenon DEF FileInv, ProvesOf
    <3>4. QED
      BY <2>1, <3>2, <3>3
  <2>4. QED
    BY <2>2, <2>3
<1>3. QED
  BY <1>1, <1>2, PTL DEF Spec

(* However a command ends, it made no request twice, it asked for its       *)
(* samples after all the queries, and for nothing at all of a matrix that   *)
(* does not load (main of run_live.py).                                     *)
THEOREM EachRequestOnce == Spec => []RequestsAreNotRepeated
<1>1. AskInv => RequestsAreNotRepeated
  BY Zenon DEF AskInv, PhaseOf, Phase, AskedOnce, RequestsAreNotRepeated
<1>2. QED
  BY <1>1, FilesAndRequests, PTL

(* A manifest that is wholly written is of a snapshot that is all there:    *)
(* its summary, and the one record of every query to sample that found any, *)
(* whatever other commands were started for the directory (main and         *)
(* _write_new_json of run_live.py).                                         *)
THEOREM ManifestProvesTheSnapshot == Spec => []ManifestIsComplete
<1>1. FileInv => ManifestIsComplete
  BY DEF FileInv, CompleteOf, Complete, WholeIn, Whole, Pairs, Firsts, FilesOf, ManifestIsComplete
<1>2. QED
  BY <1>1, FilesAndRequests, PTL

-----------------------------------------------------------------------------
(* Types                                                                   *)

(* What TypeOK says of the samples and the files; of the matrix and of      *)
(* where the commands are, the invariants above say it.                     *)
FilesTyped ==
  /\ DOMAIN dir \subseteq Files
  /\ \A f \in DOMAIN dir : dir[f].by \in Commands /\ dir[f].whole \in BOOLEAN

Typed == sample \in [Commands -> 1..Len(SampleIds) + 1] /\ FilesTyped

LEMMA PutTyped ==
  ASSUME FilesTyped, NEW c \in Commands, NEW file \in Files, NEW content,
         content.by = c, content.whole \in BOOLEAN, Put(file, content)
  PROVE  FilesTyped'
<1>1. /\ DOMAIN dir' = DOMAIN dir \cup {file}
      /\ dir'[file] = content
      /\ \A f \in DOMAIN dir : f # file => dir'[f] = dir[f]
  BY PutOne, Zenon
<1>2. QED
  BY <1>1 DEF FilesTyped

(* A file of a sample, the summary and the manifest are files.              *)
LEMMA FilesAre ==
  /\ SummaryFile \in Files /\ ManifestFile \in Files
  /\ \A n \in DOMAIN SampleIds : RecordFile(n) \in Files
BY DEF Files, RecordFiles

LEMMA StepTyped ==
  ASSUME IInv, AskInv, Typed, NEW c \in Commands, Step(c) \/ Kill(c)
  PROVE  Typed'
<1>1. matrix[c] \in Matrices /\ Len(SampleIds) \in Nat \ {0}
      /\ DOMAIN SampleIds = 1..Len(SampleIds)
  BY Lengths DEF AskInv
<1>2. FilesTyped'
  <2>1. CASE UNCHANGED dir
    BY <2>1, Zenon DEF Typed, FilesTyped
  <2>2. ASSUME NEW file \in Files, Put(file, Opened(c)) PROVE FilesTyped'
    BY <2>2, PutTyped DEF Opened, Typed
  <2>3. ASSUME NEW file \in Files, NEW value, Put(file, Written(c, value))
        PROVE  FilesTyped'
    BY <2>3, PutTyped DEF Written, Typed
  <2>4. CASE CreateSummary(c) \/ CreateManifest(c) \/ WriteSummary(c) \/ WriteManifest(c)
    BY <2>1, <2>2, <2>3, <2>4, FilesAre, Zenon
      DEF CreateSummary, CreateManifest, WriteSummary, WriteManifest, Create, Write
  <2>5. CASE CreateRecord(c) \/ WriteRecord(c)
    <3>1. pc[c] \in AtSample
      BY <2>5 DEF CreateRecord, WriteRecord, AtSample
    <3>2. RecordFile(sample[c]) \in Files
      BY <1>1, <3>1, AtWork, FilesAre
    <3>3. QED
      BY <2>1, <2>2, <2>3, <2>5, <3>2, Zenon DEF CreateRecord, WriteRecord, Create, Write
  <2>6. QED
    BY <2>1, <2>4, <2>5, Zenon DEF Step, Load, RequestRefused, SearchFails, SearchNext,
      NoSuchQuery, NothingSampled, Fetch, SystemCallFails, Kill
<1>3. sample' \in [Commands -> 1..Len(SampleIds) + 1]
  <2>1. CASE UNCHANGED sample
    BY <2>1, Zenon DEF Typed
  <2>2. CASE NothingSampled(c) \/ WriteRecord(c)
    <3>1. pc[c] \in AtSample /\ sample' = [sample EXCEPT ![c] = sample[c] + 1]
      BY <2>2 DEF NothingSampled, WriteRecord, AtSample
    <3>2. sample[c] + 1 \in 1..Len(SampleIds) + 1
      BY <1>1, <3>1, AtWork
    <3>3. QED
      BY <3>1, <3>2 DEF Typed
  <2>3. QED
    BY <2>1, <2>2, Zenon DEF Step, Load, RequestRefused, SearchFails, SearchNext,
      CreateSummary, WriteSummary, NoSuchQuery, Fetch, CreateRecord, CreateManifest,
      WriteManifest, SystemCallFails, Kill
<1>4. QED
  BY <1>2, <1>3 DEF Typed

(* Commands are where the code can be, samples are numbered within the      *)
(* constant of run_live.py, and the directory holds its files only.         *)
THEOREM TypeCorrect == Spec => []TypeOK
<1>1. Init => Typed
  <2> SUFFICES ASSUME Init PROVE Typed
    OBVIOUS
  <2>1. Len(SampleIds) \in Nat
    BY SampleIdsAssumption
  <2>2. 1 \in 1..Len(SampleIds) + 1
    BY <2>1
  <2>3. DOMAIN dir = {}
    BY DEF Init
  <2>4. QED
    BY <2>2, <2>3 DEF Init, Typed, FilesTyped
<1>2. IInv /\ AskInv /\ Typed /\ [Next]_vars => Typed'
  <2> SUFFICES ASSUME IInv, AskInv, Typed, [Next]_vars PROVE Typed'
    OBVIOUS
  <2>1. CASE Next
    BY <2>1, StepTyped, Zenon DEF Next
  <2>2. CASE UNCHANGED vars
    BY <2>2, Zenon DEF vars, Typed, FilesTyped
  <2>3. QED
    BY <2>1, <2>2
<1>3. IInv /\ AskInv /\ Typed => TypeOK
  <2>1. Labels = Ended \cup {"load", "search", "open_summary", "write_summary", "fetch",
                             "open_record", "write_record", "open_manifest",
                             "write_manifest"}
    BY DEF Labels, Past, Ended
  <2>2. QED
    BY <2>1, Zenon DEF IInv, AskInv, Typed, FilesTyped, TypeOK
<1>4. QED
  BY <1>1, <1>2, <1>3, FilesAndRequests, PTL DEF Spec

=============================================================================
