---------------------------- MODULE Orchestrator ----------------------------
(***************************************************************************)
(* IngestionOrchestrator (ingestion/orchestrator.py): one process runs one *)
(* ingestion run at a time against the durable documents of all runs.      *)
(*                                                                         *)
(* Every value of pc is a point just before one durable write or one       *)
(* source call, so that a crash, an interrupt or an exception can fall     *)
(* between any two of them.  A durable write is one atomic step: the       *)
(* document is replaced whole or not at all (ingestion/filesystem.py).     *)
(***************************************************************************)
EXTENDS Pagination

CONSTANTS
  MaxAttempts,  \* max_attempts of the retry policy
  MaxItems      \* the most items a provider page carries

ASSUME AttemptsAssumption == MaxAttempts \in Nat \ {0}

VARIABLES
  manifestFile,    \* [RunIds -> Manifest or NoFile], runs/<id>/manifest.json
  checkpointFile,  \* [RunIds -> Checkpoint or NoFile], runs/<id>/checkpoint.json
  quarantineFile,  \* [RunIds -> positions with a file in runs/<id>/quarantine]
  objects,         \* <<record, version>> pairs published under bronze/
  pc,              \* where the process is
  run,             \* the run it executes
  manifest,        \* its copy of the manifest
  checkpoint,      \* its copy of the checkpoint
  attempt,         \* attempts made so far at the current operation
  held,            \* what the last call handed it: a page, a document, ...
  searchCalls,     \* history variable: Search calls made for each run
  recordCalls,     \* history variable: Record calls made for each run
  offered          \* history variable: the cursor that the last page the
                   \* provider answered each run with named as its successor

disk    == <<manifestFile, checkpointFile, quarantineFile, objects>>
memory  == <<run, manifest, checkpoint, attempt, held>>
calls   == <<searchCalls, recordCalls, offered>>
vars    == <<disk, pc, memory, calls>>

Nothing == [kind |-> "nothing"]

HeldPage ==
  [kind : {"page"}, checkpoint : Checkpoint, new_candidate_ids : Seq(Records)]
HeldDocument == [kind : {"document"}, version : Versions]
HeldFailure == [kind : {"failure"}, retryable : BOOLEAN]
HeldStored == [kind : {"stored"}, outcome : StoredOutcomes, version : Versions]

Held == {Nothing} \cup HeldPage \cup HeldDocument \cup HeldFailure \cup HeldStored

(* Points inside the try block of execute and execute_recovery.             *)
InTry ==
  {"collect", "call_search", "backoff_search", "save_page",
   "save_page_checkpoint", "capture", "call_record", "backoff_record",
   "store_object", "save_record", "store_quarantine", "save_quarantine",
   "save_record_checkpoint", "finish", "returning"}

(* Points just before or just after a write of a state document, a sleep or *)
(* a look at the clock: an exception there leaves the try block, and a save *)
(* may raise although it took effect (see Filesystem).  Exceptions of the   *)
(* object store are caught where they arise.                                *)
MayRaise == InTry \ {"store_object"}

Points ==
  InTry \cup {"idle", "create_checkpoint", "mark_running", "mark_recovering",
              "save_selection", "failing", "rejected", "interrupting",
              "unhandled"}

Init ==
  /\ manifestFile = [r \in RunIds |-> NoFile]
  /\ checkpointFile = [r \in RunIds |-> NoFile]
  /\ quarantineFile = [r \in RunIds |-> {}]
  /\ objects = {}
  /\ pc = "idle"
  /\ run = NoRun
  /\ manifest = NoFile
  /\ checkpoint = NoFile
  /\ attempt = 0
  /\ held = Nothing
  /\ searchCalls = [r \in RunIds |-> 0]
  /\ recordCalls = [r \in RunIds |-> 0]
  /\ offered = [r \in RunIds |-> NoCursor]

-----------------------------------------------------------------------------
(* Durable writes                                                          *)

(* An internal check raised: an exception like any other for the handler,   *)
(* kept apart so that one can ask whether it ever happens.  Outside the try *)
(* block nothing handles it.                                                *)
Reject ==
  /\ pc' = IF pc \in InTry THEN "rejected" ELSE "unhandled"
  /\ UNCHANGED <<manifest, manifestFile, checkpoint, checkpointFile>>

(* _replace_manifest validates the new manifest, then save replaces the     *)
(* file with it.                                                            *)
SaveManifest(m, then) ==
  IF ValidManifest(m)
  THEN /\ manifest' = m
       /\ manifestFile' = [manifestFile EXCEPT ![run] = m]
       /\ pc' = then
       /\ UNCHANGED <<checkpoint, checkpointFile>>
  ELSE Reject

SaveCheckpoint(c, then) ==
  IF ValidCheckpoint(c)
  THEN /\ checkpoint' = c
       /\ checkpointFile' = [checkpointFile EXCEPT ![run] = c]
       /\ pc' = then
       /\ UNCHANGED <<manifest, manifestFile>>
  ELSE Reject

(* The process ends, or the call returns: only the disk is left.            *)
Exit ==
  /\ pc' = "idle"
  /\ run' = NoRun
  /\ manifest' = NoFile
  /\ checkpoint' = NoFile
  /\ attempt' = 0
  /\ held' = Nothing

-----------------------------------------------------------------------------
(* Starting a run                                                          *)

(* _create_run, first half: create refuses a run whose manifest exists.     *)
CreateRun(r, configuration) ==
  /\ pc = "idle"
  /\ manifestFile[r] = NoFile
  /\ manifestFile' = [manifestFile EXCEPT ![r] = NewManifest(configuration)]
  /\ manifest' = NewManifest(configuration)
  /\ run' = r
  /\ pc' = "create_checkpoint"
  /\ UNCHANGED <<checkpointFile, quarantineFile, objects, checkpoint,
                 attempt, held, calls>>

StartRun(r) == CreateRun(r, [recoveryOf |-> NoRun, selected |-> <<>>])

(* execute_recovery: only retryable quarantined failures of the source run, *)
(* whose manifest must load, may be selected.                               *)
EligibleEvenIfPermanent(source, i) ==
  /\ source.records[i] # NoEntry
  /\ source.records[i].outcome = "quarantined"

Eligible(source, i) ==
  /\ source.records[i] # NoEntry
  /\ source.records[i].outcome = "quarantined"
  /\ source.records[i].retryable

StartRecovery(r, source, selected) ==
  LET configuration == [recoveryOf |-> source, selected |-> selected]
  IN /\ manifestFile[source] # NoFile
     /\ ValidConfiguration(r, configuration)
     /\ \A k \in DOMAIN selected : Eligible(manifestFile[source], selected[k])
     /\ Len(selected) <= CandidateLimit
     /\ ValidManifest(manifestFile[source])
     /\ CreateRun(r, configuration)

(* _create_run, second half.                                                *)
CreateCheckpoint ==
  /\ pc = "create_checkpoint"
  /\ checkpointFile[run] = NoFile
  /\ checkpointFile' = [checkpointFile EXCEPT ![run] = NewCheckpoint]
  /\ checkpoint' = NewCheckpoint
  /\ pc' = IF manifest.configuration.recoveryOf = NoRun
           THEN "mark_running"
           ELSE "mark_recovering"
  /\ UNCHANGED <<manifestFile, quarantineFile, objects, run, manifest,
                 attempt, held, calls>>

ResumeRunUnlessFailed(r) ==
  /\ pc = "idle"
  /\ manifestFile[r] # NoFile
  /\ checkpointFile[r] # NoFile
  /\ manifestFile[r].status \notin {"completed", "failed"}
  /\ run' = r
  /\ manifest' = manifestFile[r]
  /\ checkpoint' = checkpointFile[r]
  /\ pc' = "mark_running"
  /\ UNCHANGED <<disk, attempt, held, calls>>

ResumeAnyRun(r) ==
  /\ pc = "idle"
  /\ manifestFile[r] # NoFile
  /\ checkpointFile[r] # NoFile
  /\ run' = r
  /\ manifest' = manifestFile[r]
  /\ checkpoint' = checkpointFile[r]
  /\ pc' = "mark_running"
  /\ UNCHANGED <<disk, attempt, held, calls>>

(* Both files are there and pass the checks that loading makes of them.     *)
Loads(r) ==
  /\ manifestFile[r] # NoFile
  /\ checkpointFile[r] # NoFile
  /\ ValidManifest(manifestFile[r])
  /\ ValidCheckpoint(checkpointFile[r])

(* _load_for_resume, called with the persisted configuration: both files    *)
(* must load and the run must not be completed.                             *)
ResumeRun(r) ==
  /\ pc = "idle"
  /\ Loads(r)
  /\ manifestFile[r].status # "completed"
  /\ run' = r
  /\ manifest' = manifestFile[r]
  /\ checkpoint' = checkpointFile[r]
  /\ pc' = "mark_running"
  /\ UNCHANGED <<disk, attempt, held, calls>>

MarkRunningStillFinished ==
  /\ pc = "mark_running"
  /\ SaveManifest([manifest EXCEPT !.status = "running"], "collect")
  /\ UNCHANGED <<quarantineFile, objects, run, attempt, held, calls>>

MarkRunning ==
  /\ pc = "mark_running"
  /\ SaveManifest([manifest EXCEPT !.status = "running", !.finished = FALSE],
                  "collect")
  /\ UNCHANGED <<quarantineFile, objects, run, attempt, held, calls>>

(* execute_recovery skips Search: the candidates are the records of the     *)
(* selected failures.                                                       *)
MarkRecovering ==
  /\ pc = "mark_recovering"
  /\ SaveManifest([manifest EXCEPT
                     !.status = "running",
                     !.candidate_count = Len(manifest.configuration.selected)],
                  "save_selection")
  /\ UNCHANGED <<quarantineFile, objects, run, attempt, held, calls>>

FirstRecords(configuration) ==
  [k \in DOMAIN configuration.selected |->
     manifestFile[configuration.recoveryOf].records[k].record_id]

SelectedRecords(configuration) ==
  LET source == manifestFile[configuration.recoveryOf]
  IN [k \in DOMAIN configuration.selected |->
        source.records[configuration.selected[k]].record_id]

SaveSelection ==
  /\ pc = "save_selection"
  /\ SaveCheckpoint([checkpoint EXCEPT
                       !.candidates = SelectedRecords(manifest.configuration),
                       !.next_cursor = NoCursor,
                       !.search_complete = TRUE],
                    "capture")
  /\ UNCHANGED <<quarantineFile, objects, run, attempt, held, calls>>

-----------------------------------------------------------------------------
(* _collect_candidates                                                     *)

(* Search pages are numbered by the cursors seen so far.                    *)
PageNumber == Len(checkpoint.seen_cursors) + 1

PageIsCaptured ==
  /\ PageNumber <= PageLimit
  /\ manifest.pages[PageNumber] # NoEntry

SearchIsComplete ==
  /\ pc = "collect"
  /\ checkpoint.search_complete
  /\ pc' = "capture"
  /\ UNCHANGED <<disk, memory, calls>>

(* The manifest already has this page: the checkpoint catches up.           *)
ReplayPage ==
  /\ pc = "collect"
  /\ ~checkpoint.search_complete
  /\ PageIsCaptured
  /\ LET entry == manifest.pages[PageNumber]
     IN IF entry.cursor = checkpoint.next_cursor
        THEN SaveCheckpoint(ReconcileEntry(checkpoint, entry,
                                           manifest.search_request_count),
                            "collect")
        ELSE Reject
  /\ UNCHANGED <<quarantineFile, objects, run, attempt, held, calls>>

InMemoryOnly(m, then) ==
  /\ manifest' = m
  /\ pc' = then
  /\ UNCHANGED <<manifestFile, checkpoint, checkpointFile>>

(* The count is on disk before the call is made.                            *)
Reserve(m, then) == SaveManifest(m, then)

(* reserve_search_attempt: when the ceiling is reached, Search ends with     *)
(* what it has.                                                             *)
ReserveSearch(n) ==
  \/ /\ manifest.search_request_count < PageLimit
     /\ Reserve([manifest EXCEPT !.search_request_count = @ + 1], "call_search")
     /\ attempt' = n
  \/ /\ manifest.search_request_count >= PageLimit
     /\ SaveCheckpoint([checkpoint EXCEPT !.search_complete = TRUE,
                                          !.next_cursor = NoCursor],
                       "capture")
     /\ attempt' = 0

(* build_cursor_request refuses to ask once the candidate limit is met.     *)
BeginSearch ==
  /\ pc = "collect"
  /\ ~checkpoint.search_complete
  /\ ~PageIsCaptured
  /\ IF Len(checkpoint.candidates) < CandidateLimit
     THEN ReserveSearch(1)
     ELSE Reject /\ attempt' = 0
  /\ UNCHANGED <<quarantineFile, objects, run, held, calls>>

SearchPages ==
  [items : SeqOf(Records, MaxItems), next_cursor : Cursors \cup {NoCursor}]

(* A page arrives; advance_cursor works out the next checkpoint in memory.  *)
SearchAnswers ==
  /\ pc = "call_search"
  /\ searchCalls' = [searchCalls EXCEPT ![run] = @ + 1]
  /\ \E page \in SearchPages :
       LET advance == AdvanceCursor(checkpoint, page,
                                    manifest.search_request_count)
       IN /\ offered' = [offered EXCEPT ![run] = page.next_cursor]
          /\ IF /\ MayAdvance(checkpoint, manifest.search_request_count)
                /\ ValidAdvance(advance)
             THEN /\ held' = [kind |-> "page",
                              checkpoint |-> advance.checkpoint,
                              new_candidate_ids |-> advance.new_candidate_ids]
                  /\ pc' = "save_page"
             ELSE /\ held' = Nothing
                  /\ pc' = "rejected"
  /\ attempt' = 0
  /\ UNCHANGED <<disk, run, manifest, checkpoint, recordCalls>>

(* A permanent failure ends the run; a transient one may be retried.        *)
SearchFails ==
  /\ pc = "call_search"
  /\ searchCalls' = [searchCalls EXCEPT ![run] = @ + 1]
  /\ \E retryable \in BOOLEAN :
       pc' = IF retryable THEN "backoff_search" ELSE "failing"
  /\ UNCHANGED <<disk, memory, recordCalls, offered>>

RetrySearch ==
  /\ pc = "backoff_search"
  /\ attempt < MaxAttempts
  /\ ReserveSearch(attempt + 1)
  /\ UNCHANGED <<quarantineFile, objects, run, held, calls>>

(* The attempts, or the total delay, are used up: at any attempt, because a *)
(* Retry-After alone can exceed the delay budget.                           *)
GiveUpSearch ==
  /\ pc = "backoff_search"
  /\ pc' = "failing"
  /\ UNCHANGED <<disk, memory, calls>>

(* _append_entry refuses a request identity the manifest already has, and   *)
(* the entry's own contract a page without a request cursor.                *)
SavePage ==
  /\ pc = "save_page"
  /\ LET entry == [cursor        |-> checkpoint.next_cursor,
                   next_cursor   |-> held.checkpoint.next_cursor,
                   candidate_ids |-> held.new_candidate_ids]
     IN IF entry \in PageEntry /\ ~PageIsCaptured
        THEN SaveManifest(
               [manifest EXCEPT
                  !.pages[PageNumber] = entry,
                  !.candidate_count = Len(held.checkpoint.candidates)],
               "save_page_checkpoint")
        ELSE Reject
  /\ UNCHANGED <<quarantineFile, objects, run, attempt, held, calls>>

SavePageCheckpoint ==
  /\ pc = "save_page_checkpoint"
  /\ SaveCheckpoint(held.checkpoint, "collect")
  /\ held' = Nothing
  /\ UNCHANGED <<quarantineFile, objects, run, attempt, calls>>

Collect ==
  \/ SearchIsComplete
  \/ ReplayPage
  \/ BeginSearch
  \/ SearchAnswers
  \/ SearchFails
  \/ RetrySearch
  \/ GiveUpSearch
  \/ SavePage
  \/ SavePageCheckpoint

-----------------------------------------------------------------------------
(* _capture_records                                                        *)

(* The candidate to process next, and whether the manifest settles it.      *)
Position == checkpoint.next_record_index + 1
RecordId == checkpoint.candidates[Position]
MoreCandidates == checkpoint.next_record_index < Len(checkpoint.candidates)

NeverSettled == FALSE
IsSettled == manifest.records[Position] # NoEntry

CaptureIsDone ==
  /\ pc = "capture"
  /\ ~MoreCandidates
  /\ pc' = "finish"
  /\ UNCHANGED <<disk, memory, calls>>

SamePlace == checkpoint
PastThisRecord == [checkpoint EXCEPT !.next_record_index = @ + 1]

(* The manifest already settles this record: the checkpoint catches up.     *)
SkipSettled ==
  /\ pc = "capture"
  /\ MoreCandidates
  /\ IsSettled
  /\ SaveCheckpoint(PastThisRecord, "capture")
  /\ UNCHANGED <<quarantineFile, objects, run, attempt, held, calls>>

ReserveRecordOnce(n) ==
  \/ /\ manifest.record_request_count < RecordLimit
     /\ Reserve([manifest EXCEPT !.record_request_count =
                                    IF n = 1 THEN @ + 1 ELSE @],
                "call_record")
     /\ attempt' = n
  \/ /\ manifest.record_request_count >= RecordLimit
     /\ pc' = "finish"
     /\ attempt' = 0
     /\ UNCHANGED <<manifest, manifestFile, checkpoint, checkpointFile>>

(* reserve_record_attempt.  When the ceiling is reached, capture ends where *)
(* it is: the loop breaks before a first call and after a failed one alike. *)
ReserveRecord(n) ==
  \/ /\ manifest.record_request_count < RecordLimit
     /\ Reserve([manifest EXCEPT !.record_request_count = @ + 1], "call_record")
     /\ attempt' = n
  \/ /\ manifest.record_request_count >= RecordLimit
     /\ pc' = "finish"
     /\ attempt' = 0
     /\ UNCHANGED <<manifest, manifestFile, checkpoint, checkpointFile>>

BeginRecord ==
  /\ pc = "capture"
  /\ MoreCandidates
  /\ ~IsSettled
  /\ ReserveRecord(1)
  /\ UNCHANGED <<quarantineFile, objects, run, held, calls>>

RecordAnswers ==
  /\ pc = "call_record"
  /\ recordCalls' = [recordCalls EXCEPT ![run] = @ + 1]
  /\ \E v \in Versions : held' = [kind |-> "document", version |-> v]
  /\ pc' = "store_object"
  /\ attempt' = 0
  /\ UNCHANGED <<disk, run, manifest, checkpoint, searchCalls, offered>>

RecordFails ==
  /\ pc = "call_record"
  /\ recordCalls' = [recordCalls EXCEPT ![run] = @ + 1]
  /\ \/ /\ pc' = "backoff_record"
        /\ UNCHANGED <<attempt, held>>
     \/ /\ pc' = "store_quarantine"
        /\ held' = [kind |-> "failure", retryable |-> FALSE]
        /\ attempt' = 0
  /\ UNCHANGED <<disk, run, manifest, checkpoint, searchCalls, offered>>

RetryRecordOnceTooOften ==
  /\ pc = "backoff_record"
  /\ attempt <= MaxAttempts
  /\ ReserveRecord(attempt + 1)
  /\ UNCHANGED <<quarantineFile, objects, run, held, calls>>

RetryRecord ==
  /\ pc = "backoff_record"
  /\ attempt < MaxAttempts
  /\ ReserveRecord(attempt + 1)
  /\ UNCHANGED <<quarantineFile, objects, run, held, calls>>

GiveUpRecordAndLoop ==
  /\ pc = "backoff_record"
  /\ pc' = "finish"
  /\ attempt' = 0
  /\ UNCHANGED <<disk, run, manifest, checkpoint, held, calls>>

(* _retry_exhausted: the one failure kept as retryable.                     *)
GiveUpRecord ==
  /\ pc = "backoff_record"
  /\ pc' = "store_quarantine"
  /\ held' = [kind |-> "failure", retryable |-> TRUE]
  /\ attempt' = 0
  /\ UNCHANGED <<disk, run, manifest, checkpoint, calls>>

StoreObjectLater ==
  /\ pc = "store_object"
  /\ held' = [kind |-> "stored", outcome |-> "created",
              version |-> held.version]
  /\ pc' = "save_record"
  /\ UNCHANGED <<disk, run, manifest, checkpoint, attempt, calls>>

(* object_store.store: content-addressed, written once.                     *)
StoreObject ==
  /\ pc = "store_object"
  /\ LET object == <<RecordId, held.version>>
     IN /\ held' = [kind    |-> "stored",
                    outcome |-> IF object \in objects
                                THEN "already_present" ELSE "created",
                    version |-> held.version]
        /\ objects' = objects \cup {object}
  /\ pc' = "save_record"
  /\ UNCHANGED <<manifestFile, checkpointFile, quarantineFile, run, manifest,
                 checkpoint, attempt, calls>>

(* Any exception of the store quarantines the record, as not retryable: an  *)
(* I/O error, or existing evidence that fails its integrity check.  The     *)
(* object may have been published all the same.                             *)
StoreFails ==
  /\ pc = "store_object"
  /\ objects' \in {objects, objects \cup {<<RecordId, held.version>>}}
  /\ held' = [kind |-> "failure", retryable |-> FALSE]
  /\ pc' = "store_quarantine"
  /\ UNCHANGED <<manifestFile, checkpointFile, quarantineFile, run, manifest,
                 checkpoint, attempt, calls>>

(* One terminal entry, its outcome count, and the uniqueness check.         *)
Tally(entry, outcome) == IF entry.outcome = outcome THEN 1 ELSE 0

EntryAppended(entry) ==
  [manifest EXCEPT
     !.records[Position] = entry,
     !.created_count = @ + Tally(entry, "created"),
     !.existing_count = @ + Tally(entry, "already_present"),
     !.quarantined_count = @ + Tally(entry, "quarantined")]

SaveEntryInMemoryOnly(entry) ==
  InMemoryOnly(EntryAppended(entry), "save_record_checkpoint")

SaveEntry(entry) ==
  IF IsSettled
  THEN Reject
  ELSE SaveManifest(EntryAppended(entry), "save_record_checkpoint")

SaveRecord ==
  /\ pc = "save_record"
  /\ SaveEntry([record_id |-> RecordId, outcome |-> held.outcome,
                version |-> held.version])
  /\ held' = Nothing
  /\ UNCHANGED <<quarantineFile, objects, run, attempt, calls>>

(* quarantine_store.store: a file of an earlier attempt carries an earlier  *)
(* occurred_at, so its content always differs and the store refuses.        *)
StoreQuarantine ==
  /\ pc = "store_quarantine"
  /\ \/ /\ Position \notin quarantineFile[run]
        /\ quarantineFile' = [quarantineFile EXCEPT ![run] = @ \cup {Position}]
        /\ pc' = "save_quarantine"
     \/ /\ Position \in quarantineFile[run]
        /\ pc' = "failing"
        /\ UNCHANGED quarantineFile
  /\ UNCHANGED <<manifestFile, checkpointFile, objects, memory, calls>>

SaveQuarantine ==
  /\ pc = "save_quarantine"
  /\ SaveEntry([record_id |-> RecordId, outcome |-> "quarantined",
                retryable |-> held.retryable])
  /\ held' = Nothing
  /\ UNCHANGED <<quarantineFile, objects, run, attempt, calls>>

SaveRecordCheckpoint ==
  /\ pc = "save_record_checkpoint"
  /\ SaveCheckpoint(PastThisRecord, "capture")
  /\ UNCHANGED <<quarantineFile, objects, run, attempt, held, calls>>

Capture ==
  \/ CaptureIsDone
  \/ SkipSettled
  \/ BeginRecord
  \/ RecordAnswers
  \/ RecordFails
  \/ RetryRecord
  \/ GiveUpRecord
  \/ StoreObject
  \/ StoreFails
  \/ SaveRecord
  \/ StoreQuarantine
  \/ SaveQuarantine
  \/ SaveRecordCheckpoint

-----------------------------------------------------------------------------
(* How a run ends                                                          *)

Complete ==
  /\ pc = "finish"
  /\ SaveManifest([manifest EXCEPT !.status = "completed", !.finished = TRUE],
                  "returning")
  /\ UNCHANGED <<quarantineFile, objects, run, attempt, held, calls>>

Return ==
  /\ pc \in {"returning", "unhandled"}
  /\ Exit
  /\ UNCHANGED <<disk, calls>>

(* The except blocks do not use their stale copy of the manifest: they load *)
(* it again and change its status and finished_at, both with the checks of  *)
(* the contract.  A save that fails here leaves the disk as it is, which is *)
(* what Crash does.                                                         *)
EndRunFromFirstManifest(status) ==
  /\ manifestFile' = [manifestFile EXCEPT
       ![run] = [NewManifest(@.configuration) EXCEPT !.status = status,
                                                     !.finished = TRUE]]
  /\ Exit

EndedManifest(m, status) == [m EXCEPT !.status = status, !.finished = TRUE]

EndRun(status) ==
  LET current == manifestFile[run]
      ended   == EndedManifest(current, status)
  IN IF ValidManifest(current) /\ ValidManifest(ended)
     THEN manifestFile' = [manifestFile EXCEPT ![run] = ended] /\ Exit
     ELSE pc' = "unhandled" /\ UNCHANGED <<manifestFile, memory>>

FailRun ==
  /\ pc \in {"failing", "rejected"}
  /\ EndRun("failed")
  /\ UNCHANGED <<checkpointFile, quarantineFile, objects, calls>>

InterruptRun ==
  /\ pc = "interrupting"
  /\ EndRun("interrupted")
  /\ UNCHANGED <<checkpointFile, quarantineFile, objects, calls>>

Finish == Complete \/ Return \/ FailRun \/ InterruptRun

-----------------------------------------------------------------------------
(* What the environment may do at any point                                *)

(* The process dies: power loss, kill, or an exception outside the try.     *)
(* After the last write of a run, dying and returning are the same.         *)
Crash ==
  /\ pc \notin {"idle", "returning"}
  /\ Exit
  /\ UNCHANGED <<disk, calls>>

(* KeyboardInterrupt inside the try block.                                  *)
Interrupt ==
  /\ pc \in InTry
  /\ pc' = "interrupting"
  /\ UNCHANGED <<disk, memory, calls>>

(* A state write, the clock or the sleeper raises inside the try block.     *)
Raise ==
  /\ pc \in MayRaise
  /\ pc' = "failing"
  /\ UNCHANGED <<disk, memory, calls>>

Disruption == Crash \/ Interrupt \/ Raise

Selections == SeqOf(1..CandidateLimit, CandidateLimit)

Operator ==
  \E r \in RunIds :
    \/ StartRun(r)
    \/ ResumeRun(r)
    \/ \E source \in RunIds, selected \in Selections :
         StartRecovery(r, source, selected)

Prologue == CreateCheckpoint \/ MarkRunning \/ MarkRecovering \/ SaveSelection

Process == Prologue \/ Collect \/ Capture \/ Finish

Next == Operator \/ Process \/ Disruption

Spec == Init /\ [][Next]_vars

(* The process runs as long as it can; nobody owes a run a start or resume. *)
RunningSpec == Spec /\ WF_vars(Process)

(* In addition the operator resumes a run that has not completed.           *)
ResumingSpec ==
  RunningSpec /\ \A r \in RunIds : WF_vars(ResumeRun(r))

-----------------------------------------------------------------------------
(* Types                                                                   *)

(* Files and the process's copies hold documents of the contracts' shape.   *)
TypeOK ==
  /\ manifestFile \in [RunIds -> Manifest \cup {NoFile}]
  /\ checkpointFile \in [RunIds -> Checkpoint \cup {NoFile}]
  /\ quarantineFile \in [RunIds -> SUBSET (Nat \ {0})]
  /\ objects \subseteq Records \X Versions
  /\ pc \in Points
  /\ run \in RunIds \cup {NoRun}
  /\ manifest \in Manifest \cup {NoFile}
  /\ checkpoint \in Checkpoint \cup {NoFile}
  /\ attempt \in 0..MaxAttempts
  /\ held \in Held
  /\ searchCalls \in [RunIds -> Nat]
  /\ recordCalls \in [RunIds -> Nat]
  /\ offered \in [RunIds -> Cursors \cup {NoCursor}]

-----------------------------------------------------------------------------
(* Safety                                                                  *)

Exists(r) == manifestFile[r] # NoFile
HasCheckpoint(r) == checkpointFile[r] # NoFile
IsRecovery(r) == manifestFile[r].configuration.recoveryOf # NoRun
IsCompleted(r) == Exists(r) /\ manifestFile[r].status = "completed"

(* However often a run crashes and resumes, the provider never receives     *)
(* more calls than the manifest on disk has reserved, nor than the limits   *)
(* allow (reserve_search_attempt, reserve_record_attempt).                  *)
CallsAreReserved ==
  \A r \in RunIds :
    IF Exists(r)
    THEN /\ searchCalls[r] <= manifestFile[r].search_request_count
         /\ manifestFile[r].search_request_count <= PageLimit
         /\ recordCalls[r] <= manifestFile[r].record_request_count
         /\ manifestFile[r].record_request_count <= RecordLimit
    ELSE searchCalls[r] = 0 /\ recordCalls[r] = 0

(* The checkpoint never gets ahead of the manifest: whatever it counts as   *)
(* done has its manifest entry on disk (manifest save before checkpoint     *)
(* save, in _collect_candidates, _capture_records and _quarantine).         *)
CheckpointBehindManifest ==
  \A r \in RunIds : HasCheckpoint(r) =>
    /\ \A n \in 1..PageLimit :
         n <= Len(checkpointFile[r].seen_cursors) =>
           manifestFile[r].pages[n] # NoEntry
    /\ \A i \in 1..CandidateLimit :
         i <= checkpointFile[r].next_record_index =>
           manifestFile[r].records[i] # NoEntry

(* Nor the manifest of the evidence it names: a stored entry's object and a *)
(* quarantined entry's file are on disk before the entry is.                *)
EvidenceBehindManifest ==
  \A r \in RunIds : Exists(r) =>
    \A i \in Settled(manifestFile[r]) :
      LET entry == manifestFile[r].records[i]
      IN IF entry.outcome = "quarantined"
         THEN i \in quarantineFile[r]
         ELSE <<entry.record_id, entry.version>> \in objects

(* The identifiers the run's captured pages contributed, in page order.     *)
PageIds(m, count) == FlattenSeq([n \in 1..count |-> m.pages[n].candidate_ids])

(* A lagging checkpoint replays to what it would have been: it is always a  *)
(* function of the pages on disk that it has seen, and a page ahead of it   *)
(* is the one its cursor asks for (advance_cursor and                       *)
(* _reconcile_search_entry agree, so no crash changes the candidate list).  *)
CheckpointReflectsHistory ==
  \A r \in RunIds : HasCheckpoint(r) /\ ~IsRecovery(r) =>
    LET c    == checkpointFile[r]
        m    == manifestFile[r]
        seen == Len(c.seen_cursors)
        next == IF seen = 0 THEN StartCursor ELSE m.pages[seen].next_cursor
    IN /\ c.candidates = PageIds(m, seen)
       /\ \A n \in 1..seen : c.seen_cursors[n] = m.pages[n].cursor
       /\ \A n \in Captured(m) : n <= seen + 1
       /\ seen + 1 \in Captured(m) => m.pages[seen + 1].cursor = next
       /\ ~c.search_complete => c.next_cursor = next

(* Every record entry answers the candidate of its own position: what the   *)
(* run's pages listed, or in a recovery what the source run failed on       *)
(* (request_id is derived from next_record_index in _capture_records).      *)
RecordsAreTraceable ==
  \A r \in RunIds : Exists(r) =>
    LET m        == manifestFile[r]
        listed   == PageIds(m, Cardinality(Captured(m)))
        selected == m.configuration.selected
        failed(i) == manifestFile[m.configuration.recoveryOf].records[selected[i]]
    IN \A i \in Settled(m) :
         IF IsRecovery(r) /\ Captured(m) = {}
         THEN /\ i <= Len(selected)
              /\ m.records[i].record_id = failed(i).record_id
         ELSE /\ i <= Len(listed)
              /\ m.records[i].record_id = listed[i]

(* A completed run has finished Search and left no candidate unprocessed,   *)
(* unless it has spent its whole Record budget.                             *)
CompletedRunsAreAccountedFor ==
  \A r \in RunIds : IsCompleted(r) =>
    /\ checkpointFile[r].search_complete
    /\ \/ Len(checkpointFile[r].candidates) = Cardinality(Settled(manifestFile[r]))
       \/ manifestFile[r].record_request_count = RecordLimit

(* However its pages were collected, lost and replayed, a run's Search is    *)
(* declared complete only when it has enough candidates, has spent its       *)
(* budget, or the provider has nothing more: the page it answered last named *)
(* no successor, or one the run has already used (ceiling branch of          *)
(* _collect_candidates, stop decision of advance_cursor and of the replay).  *)
SearchEndsForAReason ==
  \A r \in RunIds :
    HasCheckpoint(r) /\ ~IsRecovery(r) /\ checkpointFile[r].search_complete =>
      LET c == checkpointFile[r]
      IN \/ Len(c.candidates) = CandidateLimit
         \/ manifestFile[r].search_request_count = PageLimit
         \/ /\ c.seen_cursors # <<>>
            /\ offered[r] \in {NoCursor} \cup ToSet(c.seen_cursors)

(* The internal consistency checks (the validators of manifest and          *)
(* checkpoint, counts and finished_at included, _append_entry, the cursor   *)
(* comparison of _reconcile_search_entry, the guards of build_cursor_request*)
(* and advance_cursor) never fire on documents the program itself wrote:    *)
(* not in the try block, nor before it, nor in its handlers.                *)
InternalChecksNeverTrip == pc \notin {"rejected", "unhandled"}

(* Manifest history is append-only: no step of any run, replay or handler   *)
(* alters or drops an entry, or takes a counter back.                       *)
HistoryIsKept ==
  [][\A r \in RunIds : Exists(r) =>
       LET old == manifestFile[r]
           new == manifestFile'[r]
       IN /\ new # NoFile
          /\ new.configuration = old.configuration
          /\ \A n \in Captured(old) : new.pages[n] = old.pages[n]
          /\ \A i \in Settled(old) : new.records[i] = old.records[i]
          /\ new.search_request_count >= old.search_request_count
          /\ new.record_request_count >= old.record_request_count]_vars

(* Nothing works on a completed run any more: no step alters its manifest,   *)
(* checkpoint or quarantine files or calls the provider for it.  Only the    *)
(* except blocks may still change its status, between the last save and the  *)
(* return, and never back to running (_load_for_resume, _create_run).        *)
CompletedRunsAreLeftAlone ==
  [][\A r \in RunIds : IsCompleted(r) =>
       /\ manifestFile'[r].status \in {"completed", "failed", "interrupted"}
       /\ manifestFile'[r] =
            [manifestFile[r] EXCEPT !.status = manifestFile'[r].status]
       /\ checkpointFile'[r] = checkpointFile[r]
       /\ quarantineFile'[r] = quarantineFile[r]
       /\ searchCalls'[r] = searchCalls[r]
       /\ recordCalls'[r] = recordCalls[r]]_vars

(* What the manifest settles is never asked for again, by any resume: no    *)
(* Record call for a candidate with an entry, no Search call for a cursor   *)
(* whose page is captured.                                                  *)
SettledIsNotAskedAgain ==
  [][\A r \in RunIds :
       /\ recordCalls'[r] > recordCalls[r] =>
            \A i \in Settled(manifestFile[r]) :
              manifestFile[r].records[i].record_id # RecordId
       /\ searchCalls'[r] > searchCalls[r] =>
            \A n \in Captured(manifestFile[r]) :
              manifestFile[r].pages[n].cursor # checkpoint.next_cursor]_vars

(* A recovery run only ever retries failures that the source run recorded   *)
(* as retryable, and these stay so although the source run may itself be    *)
(* resumed meanwhile (eligibility test of execute_recovery).                *)
RecoverySelectsRetryable ==
  \A r \in RunIds : Exists(r) /\ IsRecovery(r) =>
    LET c      == manifestFile[r].configuration
        source == manifestFile[c.recoveryOf]
    IN \A k \in DOMAIN c.selected :
         /\ c.selected[k] \in WithOutcome(source, "quarantined")
         /\ source.records[c.selected[k]].retryable

-----------------------------------------------------------------------------
(* Refinement                                                              *)

Kinds == {"search", "record"}

(* The points at which the process holds an answer that it has not entered  *)
(* in the manifest: a page, or a document or failure of a record.           *)
WithPage == {"save_page"}
WithRecord ==
  {"backoff_record", "store_object", "save_record", "store_quarantine",
   "save_quarantine"}

Nobody == <<"nobody", NoRun>>

Holding ==
  IF pc \in WithPage THEN <<"search", run>>
  ELSE IF pc \in WithRecord THEN <<"record", run>>
  ELSE Nobody

(* Of the documents, the ledger keeps the entries and the two counts.       *)
LimitOf(k) == IF k = "search" THEN PageLimit ELSE RecordLimit

BlankOf(k) ==
  IF k = "search"
  THEN [n \in 1..PageLimit |-> NoEntry]
  ELSE [i \in 1..CandidateLimit |-> NoEntry]

EntriesOf(k, r) ==
  IF ~Exists(r) THEN BlankOf(k)
  ELSE IF k = "search" THEN manifestFile[r].pages ELSE manifestFile[r].records

BookedFor(k, r) ==
  IF ~Exists(r) THEN 0
  ELSE IF k = "search" THEN manifestFile[r].search_request_count
  ELSE manifestFile[r].record_request_count

Opened  == {r \in RunIds : Exists(r)}
Entries == [k \in Kinds |-> [r \in RunIds |-> EntriesOf(k, r)]]
Booked  == [k \in Kinds |-> [r \in RunIds |-> BookedFor(k, r)]]
Made    == [k \in Kinds |-> IF k = "search" THEN searchCalls ELSE recordCalls]

Ledgers == INSTANCE Ledger WITH
  Limit   <- [k \in Kinds |-> LimitOf(k)],
  Blank   <- [k \in Kinds |-> BlankOf(k)],
  opened  <- Opened,
  entries <- Entries,
  booked  <- Booked,
  made    <- Made,
  in_hand <- Holding

(* Through crashes, retries, replays, recoveries and error handlers of any  *)
(* number of runs, the manifests on disk stay a ledger: a call is booked    *)
(* before it is made and brings at most one entry, entries are only added   *)
(* (what reservation, _append_entry and the except blocks amount to).       *)
ImplementsLedger == Ledgers!Spec

-----------------------------------------------------------------------------
(* Liveness                                                                *)

Collecting ==
  {"collect", "call_search", "backoff_search", "save_page",
   "save_page_checkpoint"}

Capturing ==
  {"capture", "call_record", "backoff_record", "store_object", "save_record",
   "store_quarantine", "save_quarantine", "save_record_checkpoint"}

(* How many stages of a run follow the one that a point belongs to, and how *)
(* many points of an iteration may follow it.                               *)
StagesAfter(point) ==
  CASE point \in {"idle", "unhandled"} -> 0
    [] point \in {"failing", "rejected", "interrupting"} -> 1
    [] point = "returning" -> 2
    [] point = "finish" -> 3
    [] point \in Capturing -> 4
    [] point \in Collecting -> 5
    [] point = "save_selection" -> 6
    [] point \in {"mark_running", "mark_recovering"} -> 7
    [] point = "create_checkpoint" -> 8

PointsAfter(point) ==
  CASE point \in {"save_page_checkpoint", "save_record_checkpoint",
                  "unhandled"} -> 1
    [] point \in {"save_page", "backoff_search", "save_record",
                  "save_quarantine"} -> 2
    [] point \in {"call_search", "store_quarantine"} -> 3
    [] point \in {"store_object", "backoff_record"} -> 4
    [] point = "call_record" -> 5
    [] OTHER -> 0

(* The pages or candidates left to the stage under way, and the calls.      *)
ItemsLeft ==
  CASE pc \in Collecting -> PageLimit - Len(checkpoint.seen_cursors)
    [] pc \in Capturing ->
         Len(checkpoint.candidates) - checkpoint.next_record_index
    [] OTHER -> 0

CallsLeft ==
  CASE pc \in Collecting -> PageLimit - manifest.search_request_count
    [] pc \in Capturing -> RecordLimit - manifest.record_request_count
    [] OTHER -> 0

WorkLeft == <<StagesAfter(pc), ItemsLeft, CallsLeft, PointsAfter(pc)>>

(* The first of the four numbers that differs is smaller in a, and not      *)
(* negative: no chain of such steps goes on for ever.                       *)
LessWork(a, b) ==
  \E k \in 1..4 :
    /\ a[k] \in 0..(b[k] - 1)
    /\ \A j \in 1..(k - 1) : a[j] = b[j]

(* Whatever the provider answers and whatever fails, each step of a started *)
(* run leaves less of it: every iteration of _collect_candidates and of     *)
(* _capture_records consumes a page, a candidate or a reservation, retries  *)
(* and replays included, and no handler returns to a loop.                  *)
EveryStepIsProgress == [][pc # "idle" => LessWork(WorkLeft', WorkLeft)]_vars

(* A started run does not loop for ever: it returns, raises or dies, for    *)
(* every answer the provider may give (all loops consume a page, a          *)
(* candidate or a budget).                                                  *)
RunEnds == pc # "idle" ~> pc = "idle"

(* Once crashes, interrupts and storage errors cease, an operator who keeps *)
(* resuming gets every run with a checkpoint to COMPLETED, whatever the     *)
(* provider answers.                                                        *)
EventuallyCompleted ==
  <>[][~Disruption]_vars =>
    \A r \in RunIds : HasCheckpoint(r) ~> IsCompleted(r)

-----------------------------------------------------------------------------
(* What documents say and the code does not do                             *)

(* "Completed runs are not resumed or mutated" (ADR 0004).                  *)
CompletedIsFinal ==
  [][\A r \in RunIds : IsCompleted(r) => IsCompleted(r)']_vars

(* "Exhausting the run ceiling produces a terminal sanitized outcome"       *)
(* (ADR 0004): the record under way when retries exhaust the Record ceiling *)
(* gets an entry.                                                           *)
ExhaustionIsRecorded ==
  [][pc = "backoff_record" /\ pc' = "finish" => IsSettled]_vars

(* "A planned or running state left by a process crash ... may be resumed"  *)
(* (ADR 0004): resuming needs both files.                                   *)
UnfinishedRunsCanResume ==
  \A r \in RunIds :
    pc = "idle" /\ Exists(r) /\ ~IsCompleted(r) => HasCheckpoint(r)

(* "Crash points between storage, manifests, and checkpoints are safe to    *)
(* replay" (ADR 0004): the quarantine store never refuses a replayed        *)
(* failure of the same run.                                                 *)
QuarantineCanBeReplayed ==
  pc = "store_quarantine" => Position \notin quarantineFile[run]

(* "Every raw record is traceable to a request and run" (implementation     *)
(* phases): once every run is completed, a manifest entry names each object.*)
ObjectsAreReferenced ==
  (\A r \in RunIds : IsCompleted(r)) =>
    \A object \in objects :
      \E r \in RunIds : \E i \in Settled(manifestFile[r]) :
        LET entry == manifestFile[r].records[i]
        IN /\ entry.outcome \in StoredOutcomes
           /\ <<entry.record_id, entry.version>> = object

(* "Search pages and retry attempts have independent explicit limits" (ADR  *)
(* 0004): retries do not use up pages, so Search stops only at the page     *)
(* limit, at the candidate limit, or when the provider has no more.         *)
RetriesSparePages ==
  \A r \in RunIds :
    HasCheckpoint(r) /\ ~IsRecovery(r) /\ checkpointFile[r].search_complete =>
      LET c     == checkpointFile[r]
          pages == Len(c.seen_cursors)
      IN \/ pages = PageLimit
         \/ Len(c.candidates) >= CandidateLimit
         \/ pages > 0 /\ manifestFile[r].pages[pages].next_cursor = NoCursor

(* "Recovery does not execute Search" (Phase 4 notes).                      *)
RecoveryNeverSearches ==
  \A r \in RunIds : Exists(r) /\ IsRecovery(r) => searchCalls[r] = 0
=============================================================================
