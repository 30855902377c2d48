------------------------- MODULE OrchestratorProofs -------------------------
(***************************************************************************)
(* Proofs about Orchestrator for every value of its constants: types, the  *)
(* history that a run keeps in its manifest, the ledger it amounts to, the *)
(* order of its durable writes, and what its documents say of each other.  *)
(*                                                                         *)
(* What the process holds has the right type (TypeOK, Loaded, InHand), and *)
(* that invariant carries every other argument.  The manifests are touched *)
(* in few ways: every step of the system is one of the seven kinds of      *)
(* HistoryStep (StepsOfTheHistory).  From that follow append-only history, *)
(* the call budgets, and that every step is a step of Ledger or changes    *)
(* nothing in it.                                                          *)
(*                                                                         *)
(* The checkpoint stays behind the manifest, the manifest behind the       *)
(* evidence it names, and a recovery behind the failures it selects;       *)
(* nothing works on a run after its last write.  Each needs what holds     *)
(* between the write that must come first and the one that may follow it   *)
(* (PagesInHand, RecordInHand, EvidenceInHand, Unfinished).                *)
(*                                                                         *)
(* The checkpoint is what the manifest's pages make it, the entries answer *)
(* its candidates in turn, and neither is more than one entry away from    *)
(* the other.  With what the process holds between two writes this is one  *)
(* inductive invariant (Replayable); from it follow that a replay          *)
(* reproduces the candidates, that every entry is traceable, why Search    *)
(* ends and what a completed run accounts for, that nothing settled is     *)
(* asked for again, that no internal check ever fires, and that every step *)
(* of a run leaves less of it to do.                                       *)
(***************************************************************************)
EXTENDS Orchestrator, SequenceProofs

-----------------------------------------------------------------------------
(* The documents a step builds have the contracts' shape                   *)

(* The manifest and checkpoint of a new run, as _create_run builds them,    *)
(* are documents of the contracts.                                          *)
LEMMA NewDocuments ==
  /\ \A c \in Configuration : NewManifest(c) \in Manifest
  /\ NewCheckpoint \in Checkpoint
<1>1. ASSUME NEW c \in Configuration PROVE NewManifest(c) \in Manifest
  BY <1>1 DEF NewManifest, Manifest, Statuses
<1>2. NewCheckpoint \in Checkpoint
  BY CursorsAssumption DEF NewCheckpoint, Checkpoint
<1>3. QED
  BY <1>1, <1>2

(* The selections an operator may pass are sequences of request positions.  *)
LEMMA SelectionsAreSequences == Selections \subseteq Seq(1..CandidateLimit)
<1> SUFFICES ASSUME NEW s \in Selections
             PROVE  s \in Seq(1..CandidateLimit)
  OBVIOUS
<1>1. PICK n \in 0..CandidateLimit : s \in [1..n -> 1..CandidateLimit]
  BY DEF Selections, SeqOf
<1>2. QED
  BY <1>1, LimitsAssumption

(* The updates that _replace_manifest applies keep the manifest's shape.    *)
LEMMA ManifestUpdates ==
  ASSUME NEW m \in Manifest
  PROVE  /\ \A s \in Statuses, b \in BOOLEAN :
              [m EXCEPT !.status = s, !.finished = b] \in Manifest
         /\ [m EXCEPT !.search_request_count = @ + 1] \in Manifest
         /\ [m EXCEPT !.record_request_count = @ + 1] \in Manifest
         /\ \A k \in Nat : [m EXCEPT !.status = "running",
                                     !.candidate_count = k] \in Manifest
<1>1. ASSUME NEW s \in Statuses, NEW b \in BOOLEAN
      PROVE  [m EXCEPT !.status = s, !.finished = b] \in Manifest
  BY <1>1 DEF Manifest
<1>2. [m EXCEPT !.search_request_count = @ + 1] \in Manifest
  BY DEF Manifest
<1>3. [m EXCEPT !.record_request_count = @ + 1] \in Manifest
  BY DEF Manifest
<1>4. ASSUME NEW k \in Nat
      PROVE  [m EXCEPT !.status = "running", !.candidate_count = k] \in Manifest
  BY <1>4 DEF Manifest, Statuses
<1>5. QED
  BY <1>1, <1>2, <1>3, <1>4

(* So do the two that append an entry.                                      *)
LEMMA PageAppended ==
  ASSUME NEW m \in Manifest, NEW n \in Nat, NEW k \in Nat, NEW e \in PageEntry
  PROVE  [m EXCEPT !.pages[n] = e, !.candidate_count = k] \in Manifest
<1>1. [m.pages EXCEPT ![n] = e] \in [1..PageLimit -> PageEntry \cup {NoEntry}]
  BY DEF Manifest
<1>2. QED
  BY <1>1 DEF Manifest

(* Appending a record's entry and counting its outcome.                     *)
LEMMA RecordAppended ==
  ASSUME NEW m \in Manifest, NEW i \in Nat, NEW e \in RecordEntry,
         NEW j \in Nat, NEW k \in Nat, NEW l \in Nat
  PROVE  [m EXCEPT !.records[i] = e,
                   !.created_count = @ + j,
                   !.existing_count = @ + k,
                   !.quarantined_count = @ + l] \in Manifest
<1>1. [m.records EXCEPT ![i] = e]
        \in [1..CandidateLimit -> RecordEntry \cup {NoEntry}]
  BY DEF Manifest
<1>2. /\ m.created_count + j \in Nat
      /\ m.existing_count + k \in Nat
      /\ m.quarantined_count + l \in Nat
  BY DEF Manifest
<1>3. QED
  BY <1>1, <1>2 DEF Manifest

-----------------------------------------------------------------------------
(* What the process holds                                                  *)

Working == Points \ {"idle", "create_checkpoint"}

AtRecord ==
  {"call_record", "backoff_record", "store_object", "save_record",
   "store_quarantine", "save_quarantine", "save_record_checkpoint"}

(* The process's copies are the documents on disk, between any two writes.  *)
Loaded ==
  /\ pc # "idle" =>
       /\ run \in RunIds
       /\ manifest = manifestFile[run]
       /\ manifest \in Manifest
  /\ pc \in Working =>
       /\ checkpoint = checkpointFile[run]
       /\ checkpoint \in Checkpoint
  /\ \A r \in RunIds : HasCheckpoint(r) => Exists(r)

(* What it was handed is what the next write needs.                         *)
InHand ==
  /\ pc \in {"save_page", "save_page_checkpoint"} => held \in HeldPage
  /\ pc = "store_object" => held \in HeldDocument
  /\ pc = "save_record" => held \in HeldStored
  /\ pc \in {"store_quarantine", "save_quarantine"} => held \in HeldFailure
  /\ pc \in AtRecord => MoreCandidates

Base == TypeOK /\ Loaded /\ InHand

(* A saved manifest is the process's copy and the file alike; a rejected    *)
(* one leaves both as they were.                                            *)
LEMMA ManifestSaved ==
  ASSUME Base, pc \in Working, NEW m \in Manifest, NEW then \in Working,
         SaveManifest(m, then),
         UNCHANGED <<quarantineFile, objects, run, calls>>,
         attempt' \in 0..MaxAttempts, held' \in Held
  PROVE  /\ TypeOK' /\ Loaded'
         /\ checkpoint' = checkpoint
         /\ pc' \in {then, "rejected", "unhandled"}
<1>1. /\ checkpoint' = checkpoint
      /\ checkpointFile' = checkpointFile
      /\ pc' \in {then, "rejected", "unhandled"}
      /\ pc' \in Working
  BY DEF SaveManifest, Reject, Working, Points
<1>2. /\ manifestFile' \in [RunIds -> Manifest \cup {NoFile}]
      /\ manifest' = manifestFile'[run]
      /\ manifest' \in Manifest
      /\ \A r \in RunIds : Exists(r) => Exists(r)'
  BY AbsenceAssumption
     DEF SaveManifest, Reject, Base, TypeOK, Loaded, Working, Exists
<1>3. TypeOK'
  BY <1>1, <1>2 DEF Base, TypeOK, calls, Working
<1>4. Loaded'
  BY <1>1, <1>2 DEF Base, Loaded, calls, Working, HasCheckpoint
<1>5. QED
  BY <1>1, <1>3, <1>4

(* Likewise for a saved checkpoint: validation makes it one.                *)
LEMMA CheckpointSaved ==
  ASSUME Base, pc \in Working, NEW c, NEW then \in Working,
         SaveCheckpoint(c, then),
         UNCHANGED <<quarantineFile, objects, run, calls>>,
         attempt' \in 0..MaxAttempts, held' \in Held
  PROVE  /\ TypeOK' /\ Loaded'
         /\ pc' \in {then, "rejected", "unhandled"}
<1>1. /\ manifest' = manifest
      /\ manifestFile' = manifestFile
      /\ pc' \in {then, "rejected", "unhandled"}
      /\ pc' \in Working
  BY DEF SaveCheckpoint, Reject, Working, Points
<1>2. /\ checkpointFile' \in [RunIds -> Checkpoint \cup {NoFile}]
      /\ checkpoint' = checkpointFile'[run]
      /\ checkpoint' \in Checkpoint
      /\ \A r \in RunIds : HasCheckpoint(r)' => Exists(r)
  BY AbsenceAssumption
     DEF SaveCheckpoint, ValidCheckpoint, Reject, Base, TypeOK, Loaded,
         Working, HasCheckpoint, Exists
<1>3. TypeOK'
  BY <1>1, <1>2 DEF Base, TypeOK, calls, Working
<1>4. Loaded'
  BY <1>1, <1>2 DEF Base, Loaded, calls, Working, Exists
<1>5. QED
  BY <1>1, <1>3, <1>4

(* Steps that write no document keep the copies they have.                  *)
LEMMA NothingSaved ==
  ASSUME Base, pc \in Working, pc' \in Working,
         UNCHANGED <<manifestFile, checkpointFile, run, manifest, checkpoint>>,
         quarantineFile' \in [RunIds -> SUBSET (Nat \ {0})],
         objects' \subseteq Records \X Versions,
         attempt' \in 0..MaxAttempts, held' \in Held,
         searchCalls' \in [RunIds -> Nat], recordCalls' \in [RunIds -> Nat],
         offered' \in [RunIds -> Cursors \cup {NoCursor}]
  PROVE  TypeOK' /\ Loaded'
<1>1. TypeOK'
  BY DEF Base, TypeOK, Working
<1>2. Loaded'
  BY DEF Base, Loaded, Working, Exists, HasCheckpoint
<1>3. QED
  BY <1>1, <1>2

-----------------------------------------------------------------------------
(* Base is inductive                                                       *)

(* A run is created with a new manifest on disk and in the process.         *)
LEMMA CreateKeepsBase ==
  ASSUME Base, NEW r \in RunIds, NEW c \in Configuration, CreateRun(r, c)
  PROVE  Base'
<1>1. NewManifest(c) \in Manifest
  BY NewDocuments
<1>2. TypeOK'
  BY <1>1 DEF Base, TypeOK, CreateRun, calls, Points
<1>3. Loaded'
  BY <1>1, AbsenceAssumption
     DEF Base, TypeOK, Loaded, CreateRun, Working, Points, HasCheckpoint, Exists
<1>4. InHand'
  BY DEF InHand, CreateRun, AtRecord
<1>5. QED
  BY <1>2, <1>3, <1>4 DEF Base

(* Starting, resuming or recovering loads what the disk holds.              *)
LEMMA OperatorKeepsBase ==
  ASSUME Base, Operator
  PROVE  Base'
<1>1. ASSUME NEW r \in RunIds, StartRun(r) PROVE Base'
  <2>1. [recoveryOf |-> NoRun, selected |-> <<>>] \in Configuration
    BY DEF Configuration
  <2>2. QED
    BY <1>1, <2>1, CreateKeepsBase DEF StartRun
<1>2. ASSUME NEW r \in RunIds, ResumeRun(r) PROVE Base'
  <2>1. /\ manifestFile[r] \in Manifest
        /\ checkpointFile[r] \in Checkpoint
    BY <1>2 DEF ResumeRun, Loads, Base, TypeOK
  <2>2. TypeOK'
    BY <1>2, <2>1 DEF Base, TypeOK, ResumeRun, disk, calls, Points
  <2>3. Loaded'
    BY <1>2, <2>1
       DEF Base, Loaded, ResumeRun, Loads, disk, Working, HasCheckpoint, Exists
  <2>4. InHand'
    BY <1>2 DEF InHand, ResumeRun, AtRecord
  <2>5. QED
    BY <2>2, <2>3, <2>4 DEF Base
<1>3. ASSUME NEW r \in RunIds, NEW source \in RunIds, NEW selected \in Selections,
             StartRecovery(r, source, selected)
      PROVE  Base'
  <2>1. [recoveryOf |-> source, selected |-> selected] \in Configuration
    BY SelectionsAreSequences DEF Configuration
  <2>2. QED
    BY <1>3, <2>1, CreateKeepsBase DEF StartRecovery
<1>4. QED
  BY <1>1, <1>2, <1>3 DEF Operator

(* The writes before the try block keep the copies equal to the files.      *)
LEMMA PrologueKeepsBase ==
  ASSUME Base, Prologue
  PROVE  Base'
<1>1. CASE CreateCheckpoint
  <2>1. TypeOK'
    BY <1>1, NewDocuments DEF Base, TypeOK, CreateCheckpoint, calls, Points
  <2>2. Loaded'
    BY <1>1, NewDocuments, AbsenceAssumption
       DEF Base, TypeOK, Loaded, CreateCheckpoint, Working, HasCheckpoint, Exists
  <2>3. InHand'
    BY <1>1 DEF InHand, CreateCheckpoint, AtRecord
  <2>4. QED
    BY <2>1, <2>2, <2>3 DEF Base
<1>2. CASE MarkRunning
  <2>1. [manifest EXCEPT !.status = "running", !.finished = FALSE] \in Manifest
    BY <1>2, ManifestUpdates DEF Base, Loaded, MarkRunning, Statuses
  <2>2. TypeOK' /\ Loaded' /\ pc' \in {"collect", "rejected", "unhandled"}
    BY <1>2, <2>1, ManifestSaved
       DEF MarkRunning, Base, TypeOK, calls, Working, Points, InTry
  <2>3. InHand'
    BY <2>2 DEF InHand, AtRecord
  <2>4. QED
    BY <2>2, <2>3 DEF Base
<1>3. CASE MarkRecovering
  <2> DEFINE count == Len(manifest.configuration.selected)
  <2>1. manifest \in Manifest
    BY <1>3 DEF Base, Loaded, MarkRecovering
  <2>2. count \in Nat
    BY <2>1 DEF Manifest, Configuration
  <2>3. [manifest EXCEPT !.status = "running", !.candidate_count = count]
          \in Manifest
    BY <2>1, <2>2, ManifestUpdates
  <2>4. TypeOK' /\ Loaded' /\ pc' \in {"save_selection", "rejected", "unhandled"}
    BY <1>3, <2>3, ManifestSaved
       DEF MarkRecovering, Base, TypeOK, calls, Working, Points
  <2>5. InHand'
    BY <2>4 DEF InHand, AtRecord
  <2>6. QED
    BY <2>4, <2>5 DEF Base
<1>4. CASE SaveSelection
  <2>1. TypeOK' /\ Loaded' /\ pc' \in {"capture", "rejected", "unhandled"}
    BY <1>4, CheckpointSaved
       DEF SaveSelection, Base, TypeOK, calls, Working, Points, InTry
  <2>2. InHand'
    BY <2>1 DEF InHand, AtRecord
  <2>3. QED
    BY <2>1, <2>2 DEF Base
<1>5. QED
  BY <1>1, <1>2, <1>3, <1>4 DEF Prologue

(* Whoever exits leaves the disk's documents and forgets the rest.          *)
LEMMA ExitKeepsBase ==
  ASSUME Base, Exit,
         manifestFile' \in [RunIds -> Manifest \cup {NoFile}],
         \A r \in RunIds : Exists(r) => Exists(r)',
         UNCHANGED <<checkpointFile, quarantineFile, objects, calls>>
  PROVE  Base'
<1>1. TypeOK'
  BY AttemptsAssumption DEF Base, TypeOK, Exit, calls, Points, Held
<1>2. Loaded'
  BY DEF Base, Loaded, Exit, Working, HasCheckpoint
<1>3. InHand'
  BY DEF Exit, InHand, AtRecord
<1>4. QED
  BY <1>1, <1>2, <1>3 DEF Base

(* So do the COMPLETED save and the handlers, which reload the manifest.    *)
LEMMA FinishKeepsBase ==
  ASSUME Base, Finish
  PROVE  Base'
<1>1. CASE Complete
  <2>1. [manifest EXCEPT !.status = "completed", !.finished = TRUE] \in Manifest
    BY <1>1, ManifestUpdates DEF Base, Loaded, Complete, Statuses
  <2>2. TypeOK' /\ Loaded' /\ pc' \in {"returning", "rejected", "unhandled"}
    BY <1>1, <2>1, ManifestSaved
       DEF Complete, Base, TypeOK, calls, Working, Points, InTry
  <2>3. InHand'
    BY <2>2 DEF InHand, AtRecord
  <2>4. QED
    BY <2>2, <2>3 DEF Base
<1>2. CASE Return
  BY <1>2, ExitKeepsBase DEF Return, disk, Base, TypeOK, Exists
<1>3. ASSUME NEW status \in {"failed", "interrupted"}, EndRun(status),
             pc \in {"failing", "rejected", "interrupting"},
             UNCHANGED <<checkpointFile, quarantineFile, objects, calls>>
      PROVE  Base'
  <2> DEFINE ended == EndedManifest(manifestFile[run], status)
  <2>1. ended \in Manifest
    BY <1>3, ManifestUpdates DEF EndedManifest, Base, Loaded, Statuses
  <2>2. CASE Exit /\ manifestFile' = [manifestFile EXCEPT ![run] = ended]
    <3> HIDE DEF ended
    <3>1. /\ manifestFile' \in [RunIds -> Manifest \cup {NoFile}]
          /\ \A r \in RunIds : Exists(r) => Exists(r)'
      BY <1>3, <2>1, <2>2, AbsenceAssumption DEF Base, TypeOK, Loaded, Exists
    <3>2. QED
      BY <1>3, <2>2, <3>1, ExitKeepsBase
  <2>3. CASE pc' = "unhandled" /\ UNCHANGED <<manifestFile, memory>>
    <3>1. pc' \in Working
      BY <2>3 DEF Working, Points
    <3>2. pc \in Working
      BY <1>3 DEF Working, Points
    <3>3. TypeOK' /\ Loaded'
      BY <1>3, <2>3, <3>1, <3>2, NothingSaved DEF memory, calls, Base, TypeOK
    <3>4. InHand'
      BY <2>3 DEF InHand, AtRecord
    <3>5. QED
      BY <3>3, <3>4 DEF Base
  <2>4. QED
    BY <1>3, <2>2, <2>3 DEF EndRun
<1>4. QED
  BY <1>1, <1>2, <1>3 DEF Finish, FailRun, InterruptRun

(* A crash, an interrupt or an exception writes nothing.                    *)
LEMMA DisruptionKeepsBase ==
  ASSUME Base, Disruption
  PROVE  Base'
<1>1. CASE Crash
  BY <1>1, ExitKeepsBase DEF Crash, disk, Base, TypeOK, Exists
<1>2. CASE Interrupt \/ Raise
  <2>1. pc \in Working /\ pc' \in {"interrupting", "failing"}
    BY <1>2 DEF Interrupt, Raise, MayRaise, InTry, Working, Points
  <2>2. TypeOK' /\ Loaded'
    BY <1>2, <2>1, NothingSaved
       DEF Interrupt, Raise, disk, memory, calls, Base, TypeOK, Working, Points
  <2>3. InHand'
    BY <2>1 DEF InHand, AtRecord
  <2>4. QED
    BY <2>2, <2>3 DEF Base
<1>3. QED
  BY <1>1, <1>2 DEF Disruption

(* A reservation saves the manifest, or ends Search or the capture.         *)
LEMMA ReserveSearchSaves ==
  ASSUME Base, pc \in Working, NEW n \in 0..MaxAttempts, ReserveSearch(n),
         UNCHANGED <<quarantineFile, objects, run, held, calls>>
  PROVE  /\ TypeOK' /\ Loaded'
         /\ pc' \in {"call_search", "capture", "rejected", "unhandled"}
<1>1. held' \in Held /\ 0 \in 0..MaxAttempts
  BY AttemptsAssumption DEF Base, TypeOK
<1>2. CASE /\ Reserve([manifest EXCEPT !.search_request_count = @ + 1],
                      "call_search")
           /\ attempt' = n
  <2>1. [manifest EXCEPT !.search_request_count = @ + 1] \in Manifest
    BY ManifestUpdates DEF Base, Loaded, Working
  <2>2. "call_search" \in Working
    BY DEF Working, Points, InTry
  <2>3. QED
    BY <1>1, <1>2, <2>1, <2>2, ManifestSaved DEF Reserve
<1>3. CASE /\ SaveCheckpoint([checkpoint EXCEPT !.search_complete = TRUE,
                                               !.next_cursor = NoCursor],
                             "capture")
           /\ attempt' = 0
  <2>1. "capture" \in Working
    BY DEF Working, Points, InTry
  <2>2. QED
    BY <1>1, <1>3, <2>1, CheckpointSaved
<1>4. QED
  BY <1>2, <1>3 DEF ReserveSearch

(* Each step of _collect_candidates keeps the copies and the page in hand.  *)
LEMMA CollectKeepsBase ==
  ASSUME Base, Collect
  PROVE  Base'
<1> USE DEF Working, Points, InTry
<1>1. CASE SearchIsComplete
  <2>1. TypeOK' /\ Loaded'
    BY <1>1, NothingSaved DEF SearchIsComplete, disk, memory, calls, Base, TypeOK
  <2>2. InHand'
    BY <1>1 DEF SearchIsComplete, InHand, AtRecord
  <2>3. QED
    BY <2>1, <2>2 DEF Base
<1>2. CASE ReplayPage
  <2> DEFINE c == ReconcileEntry(checkpoint, manifest.pages[PageNumber],
                                 manifest.search_request_count)
  <2>1. CASE SaveCheckpoint(c, "collect")
    <3> HIDE DEF c
    <3>1. TypeOK' /\ Loaded' /\ pc' \in {"collect", "rejected", "unhandled"}
      BY <1>2, <2>1, CheckpointSaved DEF ReplayPage, Base, TypeOK, calls
    <3>2. InHand'
      BY <3>1 DEF InHand, AtRecord
    <3>3. QED
      BY <3>1, <3>2 DEF Base
  <2>2. CASE Reject
    <3>1. TypeOK' /\ Loaded' /\ pc' = "rejected"
      BY <1>2, <2>2, NothingSaved DEF ReplayPage, Reject, Base, TypeOK, calls
    <3>2. InHand'
      BY <3>1 DEF InHand, AtRecord
    <3>3. QED
      BY <3>1, <3>2 DEF Base
  <2>3. QED
    BY <1>2, <2>1, <2>2 DEF ReplayPage
<1>3. CASE BeginSearch
  <2>1. 1 \in 0..MaxAttempts /\ 0 \in 0..MaxAttempts
    BY AttemptsAssumption
  <2>2. CASE ReserveSearch(1)
    <3>1. TypeOK' /\ Loaded' /\ pc' \in {"call_search", "capture", "rejected", "unhandled"}
      BY <1>3, <2>1, <2>2, ReserveSearchSaves DEF BeginSearch
    <3>2. InHand'
      BY <3>1 DEF InHand, AtRecord
    <3>3. QED
      BY <3>1, <3>2 DEF Base
  <2>3. CASE Reject /\ attempt' = 0
    <3>1. TypeOK' /\ Loaded' /\ pc' = "rejected"
      BY <1>3, <2>1, <2>3, NothingSaved
         DEF BeginSearch, Reject, Base, TypeOK, calls
    <3>2. InHand'
      BY <3>1 DEF InHand, AtRecord
    <3>3. QED
      BY <3>1, <3>2 DEF Base
  <2>4. QED
    BY <1>3, <2>2, <2>3 DEF BeginSearch
<1>4. CASE SearchAnswers
  <2>1. PICK page \in SearchPages :
          LET advance == AdvanceCursor(checkpoint, page,
                                       manifest.search_request_count)
          IN
          /\ offered' = [offered EXCEPT ![run] = page.next_cursor]
          /\ \/ /\ ValidAdvance(advance)
                /\ held' = [kind |-> "page",
                            checkpoint |-> advance.checkpoint,
                            new_candidate_ids |-> advance.new_candidate_ids]
                /\ pc' = "save_page"
             \/ held' = Nothing /\ pc' = "rejected"
    BY <1>4 DEF SearchAnswers
  <2> DEFINE advance == AdvanceCursor(checkpoint, page,
                                      manifest.search_request_count)
  <2>2. \/ held' \in HeldPage /\ pc' = "save_page"
        \/ held' = Nothing /\ pc' = "rejected"
    <3>1. ValidAdvance(advance) =>
            /\ advance.checkpoint \in Checkpoint
            /\ advance.new_candidate_ids \in Seq(Records)
      BY DEF ValidAdvance, ValidCheckpoint
    <3> HIDE DEF advance
    <3>2. QED
      BY <2>1, <3>1 DEF HeldPage, advance
  <2>3. /\ run \in RunIds
        /\ searchCalls' \in [RunIds -> Nat]
        /\ offered' \in [RunIds -> Cursors \cup {NoCursor}]
    <3>1. page.next_cursor \in Cursors \cup {NoCursor}
      BY DEF SearchPages
    <3>2. QED
      BY <1>4, <2>1, <3>1 DEF SearchAnswers, Base, TypeOK, Loaded
  <2>4. TypeOK' /\ Loaded'
    BY <1>4, <2>2, <2>3, NothingSaved, AttemptsAssumption
       DEF SearchAnswers, disk, Base, TypeOK, Held
  <2>5. InHand'
    BY <2>2 DEF InHand, AtRecord
  <2>6. QED
    BY <2>4, <2>5 DEF Base
<1>5. CASE SearchFails
  <2>1. pc' \in {"backoff_search", "failing"}
    BY <1>5 DEF SearchFails
  <2>2. searchCalls' \in [RunIds -> Nat]
    BY <1>5 DEF SearchFails, Base, TypeOK, Loaded
  <2>3. TypeOK' /\ Loaded'
    BY <1>5, <2>1, <2>2, NothingSaved DEF SearchFails, disk, memory, Base, TypeOK
  <2>4. InHand'
    BY <2>1 DEF InHand, AtRecord
  <2>5. QED
    BY <2>3, <2>4 DEF Base
<1>6. CASE RetrySearch
  <2>1. attempt + 1 \in 0..MaxAttempts
    BY <1>6, AttemptsAssumption DEF RetrySearch, Base, TypeOK
  <2>2. TypeOK' /\ Loaded' /\ pc' \in {"call_search", "capture", "rejected", "unhandled"}
    BY <1>6, <2>1, ReserveSearchSaves DEF RetrySearch
  <2>3. InHand'
    BY <2>2 DEF InHand, AtRecord
  <2>4. QED
    BY <2>2, <2>3 DEF Base
<1>7. CASE GiveUpSearch
  <2>1. TypeOK' /\ Loaded'
    BY <1>7, NothingSaved DEF GiveUpSearch, disk, memory, calls, Base, TypeOK
  <2>2. InHand'
    BY <1>7 DEF GiveUpSearch, InHand, AtRecord
  <2>3. QED
    BY <2>1, <2>2 DEF Base
<1>8. CASE SavePage
  <2> DEFINE entry == [cursor        |-> checkpoint.next_cursor,
                       next_cursor   |-> held.checkpoint.next_cursor,
                       candidate_ids |-> held.new_candidate_ids]
             m == [manifest EXCEPT
                     !.pages[PageNumber] = entry,
                     !.candidate_count = Len(held.checkpoint.candidates)]
  <2>1. held \in HeldPage
    BY <1>8 DEF SavePage, Base, InHand
  <2>2. /\ Len(held.checkpoint.candidates) \in Nat
        /\ PageNumber \in Nat
    BY <1>8, <2>1 DEF SavePage, HeldPage, Checkpoint, PageNumber, Base, Loaded
  <2>3. entry \in PageEntry => m \in Manifest
    BY <1>8, <2>2, PageAppended DEF SavePage, Base, Loaded
  <2>4. \/ entry \in PageEntry /\ SaveManifest(m, "save_page_checkpoint")
        \/ Reject
    BY <1>8 DEF SavePage
  <2>5. UNCHANGED <<quarantineFile, objects, run, attempt, held, calls>>
    BY <1>8 DEF SavePage
  <2>6. pc = "save_page"
    BY <1>8 DEF SavePage
  <2> HIDE DEF entry, m
  <2>7. TypeOK' /\ Loaded' /\ pc' \in {"save_page_checkpoint", "rejected", "unhandled"}
    <3>1. CASE m \in Manifest /\ SaveManifest(m, "save_page_checkpoint")
      BY <2>5, <2>6, <3>1, ManifestSaved DEF Base, TypeOK
    <3>2. CASE Reject
      BY <2>5, <2>6, <3>2, NothingSaved DEF Reject, Base, TypeOK, calls
    <3>3. QED
      BY <2>3, <2>4, <3>1, <3>2
  <2>8. InHand'
    BY <2>1, <2>5, <2>7 DEF InHand, AtRecord
  <2>9. QED
    BY <2>7, <2>8 DEF Base
<1>9. CASE SavePageCheckpoint
  <2>1. TypeOK' /\ Loaded' /\ pc' \in {"collect", "rejected", "unhandled"}
    BY <1>9, CheckpointSaved DEF SavePageCheckpoint, Base, TypeOK, calls, Held
  <2>2. InHand'
    BY <2>1 DEF InHand, AtRecord
  <2>3. QED
    BY <2>1, <2>2 DEF Base
<1>10. QED
  BY <1>1, <1>2, <1>3, <1>4, <1>5, <1>6, <1>7, <1>8, <1>9 DEF Collect

(* Likewise a reservation of the Record budget, which may end the capture.  *)
LEMMA ReserveRecordSaves ==
  ASSUME Base, pc \in Working, NEW n \in 0..MaxAttempts, ReserveRecord(n),
         UNCHANGED <<quarantineFile, objects, run, held, calls>>
  PROVE  /\ TypeOK' /\ Loaded'
         /\ checkpoint' = checkpoint
         /\ pc' \in {"call_record", "finish", "rejected", "unhandled"}
<1>1. held' \in Held /\ 0 \in 0..MaxAttempts
  BY AttemptsAssumption DEF Base, TypeOK
<1>2. CASE /\ Reserve([manifest EXCEPT !.record_request_count = @ + 1],
                      "call_record")
           /\ attempt' = n
  <2>1. [manifest EXCEPT !.record_request_count = @ + 1] \in Manifest
    BY ManifestUpdates DEF Base, Loaded, Working
  <2>2. "call_record" \in Working
    BY DEF Working, Points, InTry
  <2>3. QED
    BY <1>1, <1>2, <2>1, <2>2, ManifestSaved DEF Reserve
<1>3. CASE /\ pc' = "finish"
           /\ attempt' = 0
           /\ UNCHANGED <<manifest, manifestFile, checkpoint, checkpointFile>>
  BY <1>1, <1>3, NothingSaved DEF Working, Points, InTry, Base, TypeOK, calls
<1>4. QED
  BY <1>2, <1>3 DEF ReserveRecord

(* The candidate in turn is a record.                                       *)
LEMMA CandidateInTurn ==
  ASSUME Base, pc \in Working, MoreCandidates
  PROVE  Position \in Nat \ {0} /\ RecordId \in Records
<1>1. checkpoint \in Checkpoint
  BY DEF Base, Loaded
<1>2. Position \in DOMAIN checkpoint.candidates /\ Position \in Nat \ {0}
  BY <1>1 DEF Position, MoreCandidates, Checkpoint
<1>3. QED
  BY <1>1, <1>2 DEF RecordId, Checkpoint

(* Saving the entry of the candidate in turn, whatever its outcome.         *)
LEMMA EntrySaved ==
  ASSUME Base, pc \in Working, MoreCandidates, NEW e \in RecordEntry,
         SaveEntry(e), held' = Nothing,
         UNCHANGED <<quarantineFile, objects, run, attempt, calls>>
  PROVE  /\ TypeOK' /\ Loaded'
         /\ checkpoint' = checkpoint
         /\ pc' \in {"save_record_checkpoint", "rejected", "unhandled"}
<1>1. /\ Tally(e, "created") \in Nat
      /\ Tally(e, "already_present") \in Nat
      /\ Tally(e, "quarantined") \in Nat
  BY DEF Tally
<1>2. EntryAppended(e) \in Manifest
  BY <1>1, CandidateInTurn, RecordAppended
     DEF EntryAppended, Base, Loaded, Working
<1>3. held' \in Held /\ attempt' \in 0..MaxAttempts
  BY DEF Held, Base, TypeOK
<1>4. CASE SaveManifest(EntryAppended(e), "save_record_checkpoint")
  BY <1>2, <1>3, <1>4, ManifestSaved DEF Working, Points, InTry
<1>5. CASE Reject
  BY <1>3, <1>5, NothingSaved
     DEF Reject, Working, Points, Base, TypeOK, calls
<1>6. QED
  BY <1>4, <1>5 DEF SaveEntry

(* Each step of _capture_records keeps the copies and what is in hand.      *)
LEMMA CaptureKeepsBase ==
  ASSUME Base, Capture
  PROVE  Base'
<1> USE DEF Working, Points, InTry
<1>1. CASE CaptureIsDone
  <2>1. TypeOK' /\ Loaded'
    BY <1>1, NothingSaved DEF CaptureIsDone, disk, memory, calls, Base, TypeOK
  <2>2. InHand'
    BY <1>1 DEF CaptureIsDone, InHand, AtRecord
  <2>3. QED
    BY <2>1, <2>2 DEF Base
<1>2. CASE SkipSettled \/ SaveRecordCheckpoint
  <2>1. TypeOK' /\ Loaded' /\ pc' \in {"capture", "rejected", "unhandled"}
    BY <1>2, CheckpointSaved
       DEF SkipSettled, SaveRecordCheckpoint, Base, TypeOK, calls
  <2>2. InHand'
    BY <2>1 DEF InHand, AtRecord
  <2>3. QED
    BY <2>1, <2>2 DEF Base
<1>3. CASE BeginRecord \/ RetryRecord
  <2>1. PICK n \in 0..MaxAttempts : ReserveRecord(n)
    BY <1>3, AttemptsAssumption DEF BeginRecord, RetryRecord, Base, TypeOK
  <2>2. /\ UNCHANGED <<quarantineFile, objects, run, held, calls>>
        /\ pc \in Working
        /\ MoreCandidates
    BY <1>3 DEF BeginRecord, RetryRecord, Base, InHand, AtRecord
  <2>3. /\ TypeOK' /\ Loaded'
        /\ checkpoint' = checkpoint
        /\ pc' \in {"call_record", "finish", "rejected", "unhandled"}
    BY <2>1, <2>2, ReserveRecordSaves
  <2>4. InHand'
    BY <2>2, <2>3 DEF InHand, AtRecord, MoreCandidates
  <2>5. QED
    BY <2>3, <2>4 DEF Base
<1>4. CASE RecordAnswers
  <2>1. recordCalls' \in [RunIds -> Nat]
    BY <1>4 DEF RecordAnswers, Base, TypeOK, Loaded
  <2>2. held' \in HeldDocument
    BY <1>4 DEF RecordAnswers, HeldDocument
  <2>3. TypeOK' /\ Loaded'
    BY <1>4, <2>1, <2>2, NothingSaved, AttemptsAssumption
       DEF RecordAnswers, disk, Base, TypeOK, Held
  <2>4. InHand'
    BY <1>4, <2>2
       DEF RecordAnswers, Base, InHand, AtRecord, MoreCandidates
  <2>5. QED
    BY <2>3, <2>4 DEF Base
<1>5. CASE RecordFails
  <2>1. recordCalls' \in [RunIds -> Nat]
    BY <1>5 DEF RecordFails, Base, TypeOK, Loaded
  <2>2. \/ pc' = "backoff_record" /\ held' = held /\ attempt' = attempt
        \/ pc' = "store_quarantine" /\ held' \in HeldFailure /\ attempt' = 0
    <3>1. [kind |-> "failure", retryable |-> FALSE] \in HeldFailure
      BY DEF HeldFailure
    <3>2. QED
      BY <1>5, <3>1 DEF RecordFails
  <2>3. TypeOK' /\ Loaded'
    BY <1>5, <2>1, <2>2, NothingSaved, AttemptsAssumption
       DEF RecordFails, disk, Base, TypeOK, Held
  <2>4. InHand'
    BY <1>5, <2>2 DEF RecordFails, Base, InHand, AtRecord, MoreCandidates
  <2>5. QED
    BY <2>3, <2>4 DEF Base
<1>6. CASE GiveUpRecord
  <2>1. held' \in HeldFailure
    BY <1>6 DEF GiveUpRecord, HeldFailure
  <2>2. TypeOK' /\ Loaded'
    BY <1>6, <2>1, NothingSaved, AttemptsAssumption
       DEF GiveUpRecord, disk, calls, Base, TypeOK, Held
  <2>3. InHand'
    BY <1>6, <2>1 DEF GiveUpRecord, Base, InHand, AtRecord, MoreCandidates
  <2>4. QED
    BY <2>2, <2>3 DEF Base
<1>7. CASE StoreObject
  <2>1. /\ held.version \in Versions
        /\ RecordId \in Records
    BY <1>7, CandidateInTurn
       DEF StoreObject, Base, InHand, AtRecord, HeldDocument
  <2>2. /\ held' \in HeldStored
        /\ objects' \subseteq Records \X Versions
    BY <1>7, <2>1 DEF StoreObject, HeldStored, StoredOutcomes, Base, TypeOK
  <2>3. TypeOK' /\ Loaded'
    BY <1>7, <2>2, NothingSaved DEF StoreObject, calls, Base, TypeOK, Held
  <2>4. InHand'
    BY <1>7, <2>2 DEF StoreObject, Base, InHand, AtRecord, MoreCandidates
  <2>5. QED
    BY <2>3, <2>4 DEF Base
<1>8. CASE StoreFails
  <2>1. held' \in HeldFailure
    BY <1>8 DEF StoreFails, HeldFailure
  <2>a. objects' \subseteq Records \X Versions
    BY <1>8, CandidateInTurn
       DEF StoreFails, Base, TypeOK, InHand, AtRecord, HeldDocument
  <2>2. TypeOK' /\ Loaded'
    BY <1>8, <2>1, <2>a, NothingSaved
       DEF StoreFails, calls, Base, TypeOK, Held
  <2>3. InHand'
    BY <1>8, <2>1 DEF StoreFails, Base, InHand, AtRecord, MoreCandidates
  <2>4. QED
    BY <2>2, <2>3 DEF Base
<1>9. CASE StoreQuarantine
  <2>1. Position \in Nat \ {0}
    BY <1>9, CandidateInTurn DEF StoreQuarantine, Base, InHand, AtRecord
  <2>2. /\ quarantineFile' \in [RunIds -> SUBSET (Nat \ {0})]
        /\ pc' \in {"save_quarantine", "failing"}
    BY <1>9, <2>1 DEF StoreQuarantine, Base, TypeOK, Loaded
  <2>3. TypeOK' /\ Loaded'
    BY <1>9, <2>2, NothingSaved
       DEF StoreQuarantine, memory, calls, Base, TypeOK
  <2>4. InHand'
    BY <1>9, <2>2
       DEF StoreQuarantine, memory, Base, InHand, AtRecord, MoreCandidates
  <2>5. QED
    BY <2>3, <2>4 DEF Base
<1>10. CASE SaveRecord \/ SaveQuarantine
  <2>1. MoreCandidates
    BY <1>10 DEF SaveRecord, SaveQuarantine, Base, InHand, AtRecord
  <2>2. RecordId \in Records
    BY <1>10, <2>1, CandidateInTurn DEF SaveRecord, SaveQuarantine
  <2>3. PICK e \in RecordEntry : SaveEntry(e)
    BY <1>10, <2>2 DEF SaveRecord, SaveQuarantine, RecordEntry, Base, InHand,
                       HeldStored, HeldFailure
  <2>4. /\ held' = Nothing
        /\ UNCHANGED <<quarantineFile, objects, run, attempt, calls>>
        /\ pc \in Working
    BY <1>10 DEF SaveRecord, SaveQuarantine
  <2>5. /\ TypeOK' /\ Loaded'
        /\ checkpoint' = checkpoint
        /\ pc' \in {"save_record_checkpoint", "rejected", "unhandled"}
    BY <2>1, <2>3, <2>4, EntrySaved
  <2>6. InHand'
    BY <2>1, <2>5 DEF InHand, AtRecord, MoreCandidates
  <2>7. QED
    BY <2>5, <2>6 DEF Base
<1>11. QED
  BY <1>1, <1>2, <1>3, <1>4, <1>5, <1>6, <1>7, <1>8, <1>9, <1>10 DEF Capture

-----------------------------------------------------------------------------
(* Types                                                                   *)

(* What the process holds agrees with the disk in every behaviour.          *)
LEMMA BaseInvariant == Spec => []Base
<1>1. Init => Base
  BY CursorsAssumption, AttemptsAssumption
     DEF Init, Base, TypeOK, Loaded, InHand, Held, Points, Working, AtRecord,
         HasCheckpoint, Exists
<1>2. Base /\ [Next]_vars => Base'
  <2> SUFFICES ASSUME Base, [Next]_vars
               PROVE  Base'
    OBVIOUS
  <2>1. CASE UNCHANGED vars
    BY <2>1 DEF vars, disk, memory, calls, Base, TypeOK, Loaded, InHand,
                MoreCandidates, HasCheckpoint, Exists
  <2>2. CASE Next
    BY <2>2, OperatorKeepsBase, PrologueKeepsBase, CollectKeepsBase,
       CaptureKeepsBase, FinishKeepsBase, DisruptionKeepsBase
       DEF Next, Process
  <2>3. QED
    BY <2>1, <2>2
<1>3. QED
  BY <1>1, <1>2, PTL DEF Spec

(* Files, copies and what is in hand always have the contracts' shape, so   *)
(* every document _load_for_resume reads is one the contracts accept.       *)
THEOREM TypeCorrect == Spec => []TypeOK
<1>1. Base => TypeOK
  BY DEF Base
<1>2. QED
  BY <1>1, BaseInvariant, PTL

-----------------------------------------------------------------------------
(* The steps of the history                                                *)

(* What a manifest may become while its run is under way.                   *)
Kept(old, new) ==
  /\ new \in Manifest
  /\ new.configuration = old.configuration
  /\ \A n \in Captured(old) : new.pages[n] = old.pages[n]
  /\ \A i \in Settled(old) : new.records[i] = old.records[i]

SameCounts(old, new) ==
  /\ new.search_request_count = old.search_request_count
  /\ new.record_request_count = old.record_request_count

(* One position that was free is filled.                                    *)
Fills(old, new) ==
  \E i \in DOMAIN old :
    /\ old[i] = NoEntry
    /\ new[i] # NoEntry
    /\ new = [old EXCEPT ![i] = new[i]]

Calling == {"call_search", "call_record"}
Appending == {"save_record", "save_quarantine"}

SameEntries(old, new) == new.pages = old.pages /\ new.records = old.records

NothingButOneRecord(old, new) ==
  /\ new.pages = old.pages
  /\ new.records = old.records \/ Fills(old.records, new.records)

(* The page, or the record's outcome, in hand is all that a save may enter. *)
EntersAtMostOne(old, new) ==
  /\ \/ new.pages = old.pages
     \/ pc = "save_page" /\ Fills(old.pages, new.pages)
  /\ \/ new.records = old.records
     \/ pc \in Appending /\ Fills(old.records, new.records)

Quiet ==
  /\ pc' \notin Calling
  /\ UNCHANGED <<manifestFile, calls>>

Selectable(c, files) ==
  /\ c.recoveryOf \in RunIds
  /\ files[c.recoveryOf] # NoFile
  /\ \A k \in DOMAIN c.selected : Eligible(files[c.recoveryOf], c.selected[k])

Creates ==
  \E r \in RunIds, c \in Configuration :
    /\ CreateRun(r, c)
    /\ c.recoveryOf # NoRun => Selectable(c, manifestFile)
    /\ pc' \notin Calling

(* The running manifest is saved with a new status, entry or outcome count. *)
Updates ==
  /\ run \in RunIds
  /\ manifestFile[run] \in Manifest
  /\ \E m \in Manifest :
       /\ Kept(manifestFile[run], m)
       /\ SameCounts(manifestFile[run], m)
       /\ EntersAtMostOne(manifestFile[run], m)
       /\ manifestFile' = [manifestFile EXCEPT ![run] = m]
  /\ pc' \notin Calling
  /\ UNCHANGED calls

Reserves(m) ==
  /\ run \in RunIds
  /\ manifestFile[run] \in Manifest
  /\ m \in Manifest
  /\ ValidManifest(m)
  /\ Kept(manifestFile[run], m)
  /\ SameEntries(manifestFile[run], m)
  /\ manifestFile' = [manifestFile EXCEPT ![run] = m]
  /\ pc \notin Calling
  /\ run' = run
  /\ UNCHANGED calls

ReservesSearch ==
  /\ pc' = "call_search"
  /\ \E m \in Manifest :
       /\ Reserves(m)
       /\ m.search_request_count = manifestFile[run].search_request_count + 1
       /\ m.record_request_count = manifestFile[run].record_request_count

ReservesRecord ==
  /\ pc' = "call_record"
  /\ \E m \in Manifest :
       /\ Reserves(m)
       /\ m.record_request_count = manifestFile[run].record_request_count + 1
       /\ m.search_request_count = manifestFile[run].search_request_count

CallsSearch ==
  /\ pc = "call_search" /\ pc' \notin Calling
  /\ run \in RunIds
  /\ searchCalls' = [searchCalls EXCEPT ![run] = @ + 1]
  /\ UNCHANGED <<manifestFile, recordCalls>>

CallsRecord ==
  /\ pc = "call_record" /\ pc' \notin Calling
  /\ run \in RunIds
  /\ recordCalls' = [recordCalls EXCEPT ![run] = @ + 1]
  /\ UNCHANGED <<manifestFile, searchCalls>>

HistoryStep ==
  \/ Quiet
  \/ Creates
  \/ Updates
  \/ ReservesSearch
  \/ ReservesRecord
  \/ CallsSearch
  \/ CallsRecord

-----------------------------------------------------------------------------
(* What a saved manifest keeps                                             *)

(* A new status, candidate count or request count touches no entry.         *)
LEMMA FieldsKeepEntries ==
  ASSUME NEW m \in Manifest
  PROVE  /\ \A s \in Statuses, b \in BOOLEAN :
              LET n == [m EXCEPT !.status = s, !.finished = b]
              IN Kept(m, n) /\ SameCounts(m, n) /\ SameEntries(m, n)
         /\ \A k \in Nat :
              LET n == [m EXCEPT !.status = "running", !.candidate_count = k]
              IN Kept(m, n) /\ SameCounts(m, n) /\ SameEntries(m, n)
         /\ Kept(m, [m EXCEPT !.search_request_count = @ + 1])
         /\ Kept(m, [m EXCEPT !.record_request_count = @ + 1])
<1>1. \A n \in Manifest :
        /\ n.configuration = m.configuration
        /\ SameEntries(m, n)
        => Kept(m, n)
  BY DEF Kept, SameEntries
<1>2. ASSUME NEW s \in Statuses, NEW b \in BOOLEAN
      PROVE  LET n == [m EXCEPT !.status = s, !.finished = b]
             IN Kept(m, n) /\ SameCounts(m, n) /\ SameEntries(m, n)
  <2> DEFINE n == [m EXCEPT !.status = s, !.finished = b]
  <2>1. n \in Manifest
    BY ManifestUpdates
  <2>2. /\ n.configuration = m.configuration
        /\ SameEntries(m, n)
        /\ n.search_request_count = m.search_request_count
        /\ n.record_request_count = m.record_request_count
    BY DEF Manifest, SameEntries
  <2>3. QED
    BY <2>1, <2>2, <1>1 DEF SameCounts
<1>3. ASSUME NEW k \in Nat
      PROVE  LET n == [m EXCEPT !.status = "running", !.candidate_count = k]
             IN Kept(m, n) /\ SameCounts(m, n) /\ SameEntries(m, n)
  <2> DEFINE n == [m EXCEPT !.status = "running", !.candidate_count = k]
  <2>1. n \in Manifest
    BY ManifestUpdates
  <2>2. /\ n.configuration = m.configuration
        /\ SameEntries(m, n)
        /\ n.search_request_count = m.search_request_count
        /\ n.record_request_count = m.record_request_count
    BY DEF Manifest, SameEntries
  <2>3. QED
    BY <2>1, <2>2, <1>1 DEF SameCounts
<1>4. Kept(m, [m EXCEPT !.search_request_count = @ + 1])
  <2> DEFINE n == [m EXCEPT !.search_request_count = @ + 1]
  <2>1. n \in Manifest
    BY ManifestUpdates
  <2>2. /\ n.configuration = m.configuration
        /\ SameEntries(m, n)
    BY DEF Manifest, SameEntries
  <2>3. QED
    BY <2>1, <2>2, <1>1
<1>5. Kept(m, [m EXCEPT !.record_request_count = @ + 1])
  <2> DEFINE n == [m EXCEPT !.record_request_count = @ + 1]
  <2>1. n \in Manifest
    BY ManifestUpdates
  <2>2. /\ n.configuration = m.configuration
        /\ SameEntries(m, n)
    BY DEF Manifest, SameEntries
  <2>3. QED
    BY <2>1, <2>2, <1>1
<1>6. QED
  BY <1>2, <1>3, <1>4, <1>5

(* An update at a free position fills it; one beyond the domain does nothing.*)
LEMMA FillsOneOrNone ==
  ASSUME NEW S, NEW T, NEW f \in [S -> T], NEW i, NEW e, NEW g,
         g = [f EXCEPT ![i] = e], e # NoEntry, i \in S => f[i] = NoEntry
  PROVE  g = f \/ Fills(f, g)
<1>1. CASE i \in S
  BY <1>1 DEF Fills
<1>2. CASE i \notin S
  BY <1>2
<1>3. QED
  BY <1>1, <1>2

(* _append_entry adds where nothing was: a page not yet captured.           *)
LEMMA NewPageKeepsEntries ==
  ASSUME NEW m \in Manifest, NEW new \in Manifest, NEW n \in Nat, NEW e,
         ~(n <= PageLimit /\ m.pages[n] # NoEntry),
         new.pages = [m.pages EXCEPT ![n] = e],
         new.configuration = m.configuration,
         new.records = m.records
  PROVE  Kept(m, new)
<1>1. ASSUME NEW j \in Captured(m) PROVE new.pages[j] = m.pages[j]
  <2>1. j \in 1..PageLimit /\ m.pages[j] # NoEntry
    BY DEF Captured
  <2>2. j # n
    BY <2>1, LimitsAssumption
  <2>3. QED
    BY <2>1, <2>2 DEF Manifest
<1>2. QED
  BY <1>1 DEF Kept

(* A record not yet settled.                                                *)
LEMMA NewRecordKeepsEntries ==
  ASSUME NEW m \in Manifest, NEW i \in Nat, NEW e \in RecordEntry,
         NEW j \in Nat, NEW k \in Nat, NEW l \in Nat, m.records[i] = NoEntry
  PROVE  LET new == [m EXCEPT !.records[i] = e,
                              !.created_count = @ + j,
                              !.existing_count = @ + k,
                              !.quarantined_count = @ + l]
         IN /\ Kept(m, new)
            /\ SameCounts(m, new)
            /\ NothingButOneRecord(m, new)
<1> DEFINE new == [m EXCEPT !.records[i] = e,
                            !.created_count = @ + j,
                            !.existing_count = @ + k,
                            !.quarantined_count = @ + l]
<1>1. new \in Manifest
  BY RecordAppended
<1>2. /\ new.configuration = m.configuration
      /\ new.pages = m.pages
      /\ new.records = [m.records EXCEPT ![i] = e]
      /\ new.search_request_count = m.search_request_count
      /\ new.record_request_count = m.record_request_count
  BY DEF Manifest
<1> HIDE DEF new
<1>3. ASSUME NEW h \in Settled(m) PROVE new.records[h] = m.records[h]
  <2>1. h \in 1..CandidateLimit /\ m.records[h] # NoEntry
    BY DEF Settled
  <2>2. QED
    BY <1>2, <2>1 DEF Manifest
<1>4. new.records = m.records \/ Fills(m.records, new.records)
  <2>1. m.records \in [1..CandidateLimit -> RecordEntry \cup {NoEntry}]
    BY DEF Manifest
  <2>2. e # NoEntry
    BY AbsenceAssumption
  <2>3. QED
    BY <1>2, <2>1, <2>2, FillsOneOrNone
<1>5. QED
  BY <1>1, <1>2, <1>3, <1>4 DEF Kept, SameCounts, NothingButOneRecord, new

-----------------------------------------------------------------------------
(* Every step is one of the history's                                      *)

(* Saving a manifest that keeps the entries and the counts is an update.    *)
LEMMA SavedIsUpdate ==
  ASSUME Base, pc \in Working, NEW m \in Manifest, NEW then,
         then \notin Calling,
         SaveManifest(m, then), UNCHANGED calls,
         Kept(manifest, m), SameCounts(manifest, m),
         EntersAtMostOne(manifest, m)
  PROVE  HistoryStep
<1>1. /\ run \in RunIds
      /\ manifest = manifestFile[run]
      /\ manifestFile[run] \in Manifest
  BY DEF Base, Loaded, Working
<1>2. CASE pc' \in {"rejected", "unhandled"} /\ manifestFile' = manifestFile
  BY <1>2 DEF HistoryStep, Quiet, Calling
<1>3. CASE pc' = then /\ manifestFile' = [manifestFile EXCEPT ![run] = m]
  BY <1>1, <1>3 DEF HistoryStep, Updates
<1>4. QED
  BY <1>2, <1>3 DEF SaveManifest, Reject

(* Steps that leave the manifests and the calls alone, and call nobody.     *)
LEMMA SavedCheckpointIsQuiet ==
  ASSUME NEW c, NEW then, then \notin Calling, UNCHANGED calls,
         SaveCheckpoint(c, then) \/ Reject
  PROVE  HistoryStep
BY DEF SaveCheckpoint, Reject, HistoryStep, Quiet, Calling

(* A reservation counts the call it is about to make, or makes none.        *)
LEMMA SearchReservation ==
  ASSUME Base, pc \in Working, pc \notin Calling, NEW n, ReserveSearch(n),
         UNCHANGED <<run, calls>>
  PROVE  HistoryStep
<1> DEFINE m == [manifest EXCEPT !.search_request_count = @ + 1]
<1>1. /\ run \in RunIds
      /\ manifest = manifestFile[run]
      /\ manifest \in Manifest
  BY DEF Base, Loaded, Working
<1>2. /\ m \in Manifest
      /\ Kept(manifest, m)
  BY <1>1, FieldsKeepEntries, ManifestUpdates
<1>3. /\ m.search_request_count = manifest.search_request_count + 1
      /\ m.record_request_count = manifest.record_request_count
      /\ SameEntries(manifest, m)
  BY <1>1 DEF Manifest, SameEntries
<1>4. CASE SaveManifest(m, "call_search")
  <2> HIDE DEF m
  <2>1. CASE /\ ValidManifest(m)
             /\ manifestFile' = [manifestFile EXCEPT ![run] = m]
             /\ pc' = "call_search"
    <3>1. Reserves(m)
      BY <1>1, <1>2, <1>3, <2>1 DEF Reserves
    <3>2. QED
      BY <1>1, <1>2, <1>3, <2>1, <3>1 DEF HistoryStep, ReservesSearch
  <2>2. CASE Reject
    BY <2>2 DEF Reject, HistoryStep, Quiet, Calling
  <2>3. QED
    BY <1>4, <2>1, <2>2 DEF SaveManifest
<1>5. CASE SaveCheckpoint([checkpoint EXCEPT !.search_complete = TRUE,
                                             !.next_cursor = NoCursor],
                          "capture")
  BY <1>5, SavedCheckpointIsQuiet DEF Calling
<1>6. QED
  BY <1>4, <1>5 DEF ReserveSearch, Reserve

(* The same for the Record budget.                                          *)
LEMMA RecordReservation ==
  ASSUME Base, pc \in Working, pc \notin Calling, NEW n, ReserveRecord(n),
         UNCHANGED <<run, calls>>
  PROVE  HistoryStep
<1> DEFINE m == [manifest EXCEPT !.record_request_count = @ + 1]
<1>1. /\ run \in RunIds
      /\ manifest = manifestFile[run]
      /\ manifest \in Manifest
  BY DEF Base, Loaded, Working
<1>2. /\ m \in Manifest
      /\ Kept(manifest, m)
  BY <1>1, FieldsKeepEntries, ManifestUpdates
<1>3. /\ m.record_request_count = manifest.record_request_count + 1
      /\ m.search_request_count = manifest.search_request_count
      /\ SameEntries(manifest, m)
  BY <1>1 DEF Manifest, SameEntries
<1>4. CASE SaveManifest(m, "call_record")
  <2> HIDE DEF m
  <2>1. CASE /\ ValidManifest(m)
             /\ manifestFile' = [manifestFile EXCEPT ![run] = m]
             /\ pc' = "call_record"
    <3>1. Reserves(m)
      BY <1>1, <1>2, <1>3, <2>1 DEF Reserves
    <3>2. QED
      BY <1>1, <1>2, <1>3, <2>1, <3>1 DEF HistoryStep, ReservesRecord
  <2>2. CASE Reject
    BY <2>2 DEF Reject, HistoryStep, Quiet, Calling
  <2>3. QED
    BY <1>4, <2>1, <2>2 DEF SaveManifest
<1>5. CASE pc' = "finish" /\ manifestFile' = manifestFile
  BY <1>5 DEF HistoryStep, Quiet, Calling
<1>6. QED
  BY <1>4, <1>5 DEF ReserveRecord, Reserve

(* Operators create runs or load them.                                      *)
LEMMA OperatorSteps ==
  ASSUME Base, Operator
  PROVE  HistoryStep
<1>1. ASSUME NEW r \in RunIds, NEW c \in Configuration, CreateRun(r, c),
             c.recoveryOf # NoRun => Selectable(c, manifestFile)
      PROVE  HistoryStep
  BY <1>1 DEF HistoryStep, Creates, CreateRun, Calling
<1>2. ASSUME NEW r \in RunIds, StartRun(r) PROVE HistoryStep
  <2>1. [recoveryOf |-> NoRun, selected |-> <<>>] \in Configuration
    BY DEF Configuration
  <2>2. QED
    BY <1>1, <1>2, <2>1 DEF StartRun
<1>3. ASSUME NEW r \in RunIds, ResumeRun(r) PROVE HistoryStep
  BY <1>3 DEF ResumeRun, HistoryStep, Quiet, disk, Calling
<1>4. ASSUME NEW r \in RunIds, NEW source \in RunIds,
             NEW selected \in Selections, StartRecovery(r, source, selected)
      PROVE  HistoryStep
  <2> DEFINE c == [recoveryOf |-> source, selected |-> selected]
  <2>1. c \in Configuration
    BY SelectionsAreSequences DEF Configuration
  <2>2. Selectable(c, manifestFile)
    BY <1>4 DEF StartRecovery, Selectable
  <2>3. QED
    BY <1>1, <1>4, <2>1, <2>2 DEF StartRecovery
<1>5. QED
  BY <1>2, <1>3, <1>4 DEF Operator

(* The writes before the try block change the status at most.               *)
LEMMA PrologueSteps ==
  ASSUME Base, Prologue
  PROVE  HistoryStep
<1> USE DEF Calling
<1>1. CASE CreateCheckpoint
  BY <1>1 DEF CreateCheckpoint, HistoryStep, Quiet
<1>2. CASE MarkRunning
  <2> DEFINE m == [manifest EXCEPT !.status = "running", !.finished = FALSE]
  <2>1. manifest \in Manifest /\ "running" \in Statuses
    BY <1>2 DEF MarkRunning, Base, Loaded, Statuses
  <2>2. /\ m \in Manifest /\ Kept(manifest, m) /\ SameCounts(manifest, m)
        /\ EntersAtMostOne(manifest, m)
    BY <2>1, ManifestUpdates, FieldsKeepEntries
       DEF SameEntries, EntersAtMostOne
  <2>3. SaveManifest(m, "collect") /\ UNCHANGED calls /\ pc \in Working
    BY <1>2 DEF MarkRunning, Working, Points
  <2> HIDE DEF m
  <2>4. QED
    BY <2>2, <2>3, SavedIsUpdate
<1>3. CASE MarkRecovering
  <2> DEFINE count == Len(manifest.configuration.selected)
             m == [manifest EXCEPT !.status = "running",
                                   !.candidate_count = count]
  <2>1. manifest \in Manifest
    BY <1>3 DEF MarkRecovering, Base, Loaded
  <2>2. count \in Nat
    BY <2>1 DEF Manifest, Configuration
  <2>3. /\ m \in Manifest /\ Kept(manifest, m) /\ SameCounts(manifest, m)
        /\ EntersAtMostOne(manifest, m)
    BY <2>1, <2>2, ManifestUpdates, FieldsKeepEntries
       DEF SameEntries, EntersAtMostOne
  <2>4. SaveManifest(m, "save_selection") /\ UNCHANGED calls /\ pc \in Working
    BY <1>3 DEF MarkRecovering, Working, Points
  <2> HIDE DEF m
  <2>5. QED
    BY <2>3, <2>4, SavedIsUpdate
<1>4. CASE SaveSelection
  BY <1>4, SavedCheckpointIsQuiet DEF SaveSelection
<1>5. QED
  BY <1>1, <1>2, <1>3, <1>4 DEF Prologue

(* _collect_candidates: reservations, calls and pages.                      *)
LEMMA CollectSteps ==
  ASSUME Base, Collect
  PROVE  HistoryStep
<1> USE DEF Calling
<1>1. CASE SearchIsComplete \/ GiveUpSearch
  BY <1>1 DEF SearchIsComplete, GiveUpSearch, HistoryStep, Quiet, disk
<1>2. CASE ReplayPage
  <2> DEFINE c == ReconcileEntry(checkpoint, manifest.pages[PageNumber],
                                 manifest.search_request_count)
  <2>1. (SaveCheckpoint(c, "collect") \/ Reject) /\ UNCHANGED calls
    BY <1>2 DEF ReplayPage
  <2> HIDE DEF c
  <2>2. QED
    BY <2>1, SavedCheckpointIsQuiet
<1>3. CASE BeginSearch
  <2>1. CASE ReserveSearch(1)
    BY <1>3, <2>1, SearchReservation DEF BeginSearch, Working, Points, InTry
  <2>2. CASE Reject
    BY <1>3, <2>2 DEF BeginSearch, Reject, HistoryStep, Quiet
  <2>3. QED
    BY <1>3, <2>1, <2>2 DEF BeginSearch
<1>4. CASE SearchAnswers
  <2>1. pc' \in {"save_page", "rejected"}
    BY <1>4 DEF SearchAnswers
  <2>2. QED
    BY <1>4, <2>1
       DEF SearchAnswers, HistoryStep, CallsSearch, disk, Base, Loaded
<1>5. CASE SearchFails
  BY <1>5 DEF SearchFails, HistoryStep, CallsSearch, disk, memory, Base, Loaded
<1>6. CASE RetrySearch
  BY <1>6, SearchReservation DEF RetrySearch, Working, Points, InTry
<1>7. CASE SavePage
  <2> DEFINE entry == [cursor        |-> checkpoint.next_cursor,
                       next_cursor   |-> held.checkpoint.next_cursor,
                       candidate_ids |-> held.new_candidate_ids]
             m == [manifest EXCEPT
                     !.pages[PageNumber] = entry,
                     !.candidate_count = Len(held.checkpoint.candidates)]
  <2>1. /\ held \in HeldPage
        /\ checkpoint \in Checkpoint
        /\ manifest \in Manifest
    BY <1>7 DEF SavePage, Base, InHand, Loaded, Working, Points, InTry
  <2>2. /\ Len(held.checkpoint.candidates) \in Nat
        /\ PageNumber \in Nat
    BY <2>1 DEF HeldPage, Checkpoint, PageNumber
  <2>3. CASE entry \in PageEntry /\ ~PageIsCaptured
             /\ SaveManifest(m, "save_page_checkpoint")
    <3> HIDE DEF entry, m
    <3>1. ~(PageNumber <= PageLimit /\ manifest.pages[PageNumber] # NoEntry)
      BY <2>3 DEF PageIsCaptured
    <3>2. m \in Manifest
      BY <2>1, <2>2, <2>3, PageAppended DEF m
    <3>3. /\ m.pages = [manifest.pages EXCEPT ![PageNumber] = entry]
          /\ m.configuration = manifest.configuration
          /\ m.records = manifest.records
          /\ SameCounts(manifest, m)
      BY <2>1 DEF m, SameCounts, Manifest
    <3>4. Kept(manifest, m)
      BY <2>1, <2>2, <3>1, <3>2, <3>3, NewPageKeepsEntries
    <3>5. UNCHANGED calls /\ pc \in Working
      BY <1>7 DEF SavePage, Working, Points, InTry
    <3>6. m.pages = manifest.pages \/ Fills(manifest.pages, m.pages)
      <4>1. manifest.pages \in [1..PageLimit -> PageEntry \cup {NoEntry}]
        BY <2>1 DEF Manifest
      <4>2. PageNumber \in 1..PageLimit => manifest.pages[PageNumber] = NoEntry
        BY <3>1
      <4>3. entry # NoEntry
        BY <2>3, AbsenceAssumption
      <4>4. QED
        BY <3>3, <4>1, <4>2, <4>3, FillsOneOrNone
    <3>7. EntersAtMostOne(manifest, m)
      BY <1>7, <3>3, <3>6 DEF SavePage, EntersAtMostOne
    <3>8. QED
      BY <2>3, <3>2, <3>3, <3>4, <3>5, <3>7, SavedIsUpdate
  <2>4. CASE Reject
    BY <1>7, <2>4 DEF SavePage, Reject, HistoryStep, Quiet
  <2>5. QED
    BY <1>7, <2>3, <2>4 DEF SavePage
<1>8. CASE SavePageCheckpoint
  BY <1>8, SavedCheckpointIsQuiet DEF SavePageCheckpoint
<1>9. QED
  BY <1>1, <1>2, <1>3, <1>4, <1>5, <1>6, <1>7, <1>8 DEF Collect

(* _capture_records: reservations, calls and entries.                       *)
LEMMA CaptureSteps ==
  ASSUME Base, Capture
  PROVE  HistoryStep
<1> USE DEF Calling
<1>1. CASE CaptureIsDone \/ GiveUpRecord \/ StoreObject \/ StoreFails
           \/ StoreQuarantine
  BY <1>1 DEF CaptureIsDone, GiveUpRecord, StoreObject, StoreFails,
              StoreQuarantine, HistoryStep, Quiet, disk
<1>2. CASE SkipSettled \/ SaveRecordCheckpoint
  BY <1>2, SavedCheckpointIsQuiet DEF SkipSettled, SaveRecordCheckpoint
<1>3. CASE BeginRecord \/ RetryRecord
  <2>1. PICK n : ReserveRecord(n)
    BY <1>3 DEF BeginRecord, RetryRecord
  <2>2. UNCHANGED <<run, calls>> /\ pc \in Working /\ pc \notin Calling
    BY <1>3 DEF BeginRecord, RetryRecord, Working, Points, InTry
  <2>3. QED
    BY <2>1, <2>2, RecordReservation
<1>4. CASE RecordAnswers
  BY <1>4 DEF RecordAnswers, HistoryStep, CallsRecord, disk, Base, Loaded
<1>5. CASE RecordFails
  <2>1. pc' \in {"backoff_record", "store_quarantine"}
    BY <1>5 DEF RecordFails
  <2>2. QED
    BY <1>5, <2>1 DEF RecordFails, HistoryStep, CallsRecord, disk, Base, Loaded
<1>6. CASE SaveRecord \/ SaveQuarantine
  <2>1. /\ MoreCandidates
        /\ manifest \in Manifest
        /\ pc \in Working /\ pc \in Appending
        /\ UNCHANGED calls
    BY <1>6 DEF SaveRecord, SaveQuarantine, Base, InHand, AtRecord, Loaded,
                Working, Points, InTry, Appending
  <2>2. Position \in Nat /\ RecordId \in Records
    BY <2>1, CandidateInTurn
  <2>3. PICK e \in RecordEntry : SaveEntry(e)
    BY <1>6, <2>2 DEF SaveRecord, SaveQuarantine, RecordEntry, Base, InHand,
                       HeldStored, HeldFailure
  <2>4. /\ Tally(e, "created") \in Nat
        /\ Tally(e, "already_present") \in Nat
        /\ Tally(e, "quarantined") \in Nat
    BY DEF Tally
  <2>5. CASE ~IsSettled /\ SaveManifest(EntryAppended(e), "save_record_checkpoint")
    <3>1. EntryAppended(e) \in Manifest
      BY <2>1, <2>2, <2>4, RecordAppended DEF EntryAppended
    <3>2. /\ Kept(manifest, EntryAppended(e))
          /\ SameCounts(manifest, EntryAppended(e))
          /\ NothingButOneRecord(manifest, EntryAppended(e))
      BY <2>1, <2>2, <2>4, <2>5, NewRecordKeepsEntries
         DEF EntryAppended, IsSettled
    <3>3. EntersAtMostOne(manifest, EntryAppended(e))
      BY <2>1, <3>2 DEF EntersAtMostOne, NothingButOneRecord
    <3>4. QED
      BY <2>1, <2>5, <3>1, <3>2, <3>3, SavedIsUpdate
  <2>6. CASE Reject
    BY <2>1, <2>6 DEF Reject, HistoryStep, Quiet
  <2>7. QED
    BY <2>3, <2>5, <2>6 DEF SaveEntry
<1>7. QED
  BY <1>1, <1>2, <1>3, <1>4, <1>5, <1>6 DEF Capture

(* How a run ends, and what may befall it.                                  *)
LEMMA EndSteps ==
  ASSUME Base, Finish \/ Disruption
  PROVE  HistoryStep
<1> USE DEF Calling
<1>1. CASE Complete
  <2> DEFINE m == [manifest EXCEPT !.status = "completed", !.finished = TRUE]
  <2>1. manifest \in Manifest /\ "completed" \in Statuses
    BY <1>1 DEF Complete, Base, Loaded, Statuses
  <2>2. /\ m \in Manifest /\ Kept(manifest, m) /\ SameCounts(manifest, m)
        /\ EntersAtMostOne(manifest, m)
    BY <2>1, ManifestUpdates, FieldsKeepEntries
       DEF SameEntries, EntersAtMostOne
  <2>3. SaveManifest(m, "returning") /\ UNCHANGED calls /\ pc \in Working
    BY <1>1 DEF Complete, Working, Points, InTry
  <2> HIDE DEF m
  <2>4. QED
    BY <2>2, <2>3, SavedIsUpdate
<1>2. CASE Return \/ Crash
  BY <1>2 DEF Return, Crash, Exit, disk, HistoryStep, Quiet
<1>3. ASSUME NEW status \in {"failed", "interrupted"}, EndRun(status),
             pc # "idle", UNCHANGED calls
      PROVE  HistoryStep
  <2> DEFINE m == EndedManifest(manifestFile[run], status)
  <2>1. /\ run \in RunIds
        /\ manifestFile[run] \in Manifest
        /\ status \in Statuses
    BY <1>3 DEF Base, Loaded, Statuses
  <2>2. /\ m \in Manifest
        /\ Kept(manifestFile[run], m)
        /\ SameCounts(manifestFile[run], m)
        /\ EntersAtMostOne(manifestFile[run], m)
    BY <2>1, ManifestUpdates, FieldsKeepEntries
       DEF SameEntries, EntersAtMostOne, EndedManifest
  <2>3. \/ manifestFile' = [manifestFile EXCEPT ![run] = m] /\ pc' = "idle"
        \/ manifestFile' = manifestFile /\ pc' = "unhandled"
    BY <1>3 DEF EndRun, Exit
  <2> HIDE DEF m
  <2>4. QED
    BY <1>3, <2>1, <2>2, <2>3 DEF HistoryStep, Updates, Quiet
<1>4. CASE FailRun \/ InterruptRun
  BY <1>3, <1>4 DEF FailRun, InterruptRun
<1>5. CASE Interrupt \/ Raise
  BY <1>5 DEF Interrupt, Raise, HistoryStep, Quiet, disk
<1>6. QED
  BY <1>1, <1>2, <1>4, <1>5 DEF Finish, Disruption

(* No step touches manifests and calls in any other way.                    *)
LEMMA StepsOfTheHistory ==
  ASSUME Base, Next
  PROVE  HistoryStep
BY OperatorSteps, PrologueSteps, CollectSteps, CaptureSteps, EndSteps
   DEF Next, Process

-----------------------------------------------------------------------------
(* Append-only history                                                     *)

(* In a step of the history, a run that has a manifest keeps what is in it. *)
LEMMA StepsKeepHistory ==
  ASSUME Base, HistoryStep, NEW r \in RunIds, Exists(r)
  PROVE  /\ Kept(manifestFile[r], manifestFile'[r])
         /\ manifestFile'[r].search_request_count
              >= manifestFile[r].search_request_count
         /\ manifestFile'[r].record_request_count
              >= manifestFile[r].record_request_count
<1>1. /\ manifestFile[r] \in Manifest
      /\ manifestFile[r].search_request_count \in Nat
      /\ manifestFile[r].record_request_count \in Nat
  BY DEF Base, TypeOK, Exists, Manifest
<1>2. CASE manifestFile'[r] = manifestFile[r]
  BY <1>1, <1>2 DEF Kept
<1>3. CASE Creates
  <2>1. manifestFile'[r] = manifestFile[r]
    BY <1>3 DEF Creates, CreateRun, Exists, Base, TypeOK
  <2>2. QED
    BY <1>2, <2>1
<1>4. ASSUME NEW m \in Manifest,
             run \in RunIds,
             Kept(manifestFile[run], m),
             m.search_request_count >= manifestFile[run].search_request_count,
             m.record_request_count >= manifestFile[run].record_request_count,
             manifestFile' = [manifestFile EXCEPT ![run] = m]
      PROVE  /\ Kept(manifestFile[r], manifestFile'[r])
             /\ manifestFile'[r].search_request_count
                  >= manifestFile[r].search_request_count
             /\ manifestFile'[r].record_request_count
                  >= manifestFile[r].record_request_count
  <2>1. CASE r = run
    BY <1>4, <2>1 DEF Base, TypeOK
  <2>2. CASE r # run
    BY <1>2, <1>4, <2>2 DEF Base, TypeOK
  <2>3. QED
    BY <2>1, <2>2
<1>5. CASE Updates
  <2>1. /\ run \in RunIds
        /\ manifestFile[run].search_request_count \in Nat
        /\ manifestFile[run].record_request_count \in Nat
    BY <1>5 DEF Updates, Manifest
  <2>2. PICK m \in Manifest :
          /\ Kept(manifestFile[run], m)
          /\ SameCounts(manifestFile[run], m)
          /\ manifestFile' = [manifestFile EXCEPT ![run] = m]
    BY <1>5 DEF Updates
  <2>3. /\ m.search_request_count >= manifestFile[run].search_request_count
        /\ m.record_request_count >= manifestFile[run].record_request_count
    BY <2>1, <2>2 DEF SameCounts
  <2>4. QED
    BY <1>4, <2>1, <2>2, <2>3
<1>6. CASE ReservesSearch \/ ReservesRecord
  <2>1. PICK m \in Manifest :
          /\ Reserves(m)
          /\ \/ /\ m.search_request_count
                    = manifestFile[run].search_request_count + 1
                /\ m.record_request_count = manifestFile[run].record_request_count
             \/ /\ m.record_request_count
                    = manifestFile[run].record_request_count + 1
                /\ m.search_request_count = manifestFile[run].search_request_count
    BY <1>6 DEF ReservesSearch, ReservesRecord
  <2>2. /\ manifestFile[run].search_request_count \in Nat
        /\ manifestFile[run].record_request_count \in Nat
    BY <2>1 DEF Reserves, Manifest
  <2>3. /\ m.search_request_count >= manifestFile[run].search_request_count
        /\ m.record_request_count >= manifestFile[run].record_request_count
    BY <2>1, <2>2
  <2>4. /\ run \in RunIds
        /\ Kept(manifestFile[run], m)
        /\ manifestFile' = [manifestFile EXCEPT ![run] = m]
    BY <2>1 DEF Reserves
  <2>5. QED
    BY <1>4, <2>3, <2>4
<1>7. CASE Quiet \/ CallsSearch \/ CallsRecord
  BY <1>2, <1>7 DEF Quiet, CallsSearch, CallsRecord
<1>8. QED
  BY <1>3, <1>5, <1>6, <1>7 DEF HistoryStep

(* No step of any run, replay or handler alters or drops a manifest entry   *)
(* or takes a request count back (_replace_manifest and _append_entry are   *)
(* only ever applied to the manifest that is on disk).                      *)
THEOREM HistoryIsAppendOnly == Spec => HistoryIsKept
<1> DEFINE Keeps ==
      \A r \in RunIds : Exists(r) =>
        LET old == manifestFile[r]
            new == manifestFile'[r]
        IN /\ new # NoFile
           /\ new.configuration = old.configuration
           /\ \A n \in Captured(old) : new.pages[n] = old.pages[n]
           /\ \A i \in Settled(old) : new.records[i] = old.records[i]
           /\ new.search_request_count >= old.search_request_count
           /\ new.record_request_count >= old.record_request_count
<1>1. Base /\ [Next]_vars => [Keeps]_vars
  <2> SUFFICES ASSUME Base, Next
               PROVE  Keeps
    OBVIOUS
  <2>1. HistoryStep
    BY StepsOfTheHistory
  <2>2. ASSUME NEW r \in RunIds, Exists(r)
        PROVE  LET old == manifestFile[r]
                   new == manifestFile'[r]
               IN /\ new # NoFile
                  /\ new.configuration = old.configuration
                  /\ \A n \in Captured(old) : new.pages[n] = old.pages[n]
                  /\ \A i \in Settled(old) : new.records[i] = old.records[i]
                  /\ new.search_request_count >= old.search_request_count
                  /\ new.record_request_count >= old.record_request_count
    BY <2>1, <2>2, StepsKeepHistory, AbsenceAssumption DEF Kept
  <2>3. QED
    BY <2>2
<1> HIDE DEF Keeps
<1>2. Spec => [][Keeps]_vars
  BY <1>1, BaseInvariant, PTL DEF Spec
<1>3. QED
  BY <1>2 DEF Keeps, HistoryIsKept

-----------------------------------------------------------------------------
(* Call budgets                                                            *)

Due(r, point) == IF run = r /\ pc = point THEN 1 ELSE 0

(* A call that is due is already counted: this is what makes the count on   *)
(* disk an upper bound at every moment at which the process may die.        *)
Budgets ==
  \A r \in RunIds :
    IF Exists(r)
    THEN /\ searchCalls[r] + Due(r, "call_search")
              <= manifestFile[r].search_request_count
         /\ manifestFile[r].search_request_count <= PageLimit
         /\ recordCalls[r] + Due(r, "call_record")
              <= manifestFile[r].record_request_count
         /\ manifestFile[r].record_request_count <= RecordLimit
    ELSE searchCalls[r] = 0 /\ recordCalls[r] = 0

(* Every kind of step keeps the budgets.                                    *)
LEMMA StepsKeepBudgets ==
  ASSUME Base, Base', Budgets, HistoryStep
  PROVE  Budgets'
<1> SUFFICES ASSUME NEW r \in RunIds
             PROVE  IF Exists(r)'
                    THEN /\ searchCalls'[r] + Due(r, "call_search")'
                              <= manifestFile'[r].search_request_count
                         /\ manifestFile'[r].search_request_count <= PageLimit
                         /\ recordCalls'[r] + Due(r, "call_record")'
                              <= manifestFile'[r].record_request_count
                         /\ manifestFile'[r].record_request_count <= RecordLimit
                    ELSE searchCalls'[r] = 0 /\ recordCalls'[r] = 0
  BY DEF Budgets
<1> USE LimitsAssumption
<1>1. /\ searchCalls[r] \in Nat /\ recordCalls[r] \in Nat
      /\ searchCalls'[r] \in Nat /\ recordCalls'[r] \in Nat
      /\ Exists(r) => /\ manifestFile[r].search_request_count \in Nat
                      /\ manifestFile[r].record_request_count \in Nat
      /\ Exists(r)' => /\ manifestFile'[r].search_request_count \in Nat
                       /\ manifestFile'[r].record_request_count \in Nat
  BY DEF Base, TypeOK, Exists, Manifest
<1>2. IF Exists(r)
      THEN /\ searchCalls[r] + Due(r, "call_search")
                <= manifestFile[r].search_request_count
           /\ manifestFile[r].search_request_count <= PageLimit
           /\ recordCalls[r] + Due(r, "call_record")
                <= manifestFile[r].record_request_count
           /\ manifestFile[r].record_request_count <= RecordLimit
      ELSE searchCalls[r] = 0 /\ recordCalls[r] = 0
  BY DEF Budgets
<1>3. CASE Quiet
  BY <1>1, <1>2, <1>3 DEF Quiet, Calling, calls, Due, Exists
<1>4. CASE Creates
  <2>1. PICK q \in RunIds, c \in Configuration : CreateRun(q, c) /\ pc' \notin Calling
    BY <1>4 DEF Creates
  <2>2. CASE r = q
    <3>1. /\ ~Exists(r)
          /\ manifestFile'[r] = NewManifest(c)
          /\ searchCalls'[r] = searchCalls[r]
          /\ recordCalls'[r] = recordCalls[r]
      BY <2>1, <2>2 DEF CreateRun, calls, Base, TypeOK, Exists
    <3>2. /\ manifestFile'[r].search_request_count = 0
          /\ manifestFile'[r].record_request_count = 0
      BY <3>1 DEF NewManifest
    <3>3. QED
      BY <1>2, <2>1, <3>1, <3>2 DEF Due, Calling
  <2>3. CASE r # q
    <3>1. /\ manifestFile'[r] = manifestFile[r]
          /\ searchCalls'[r] = searchCalls[r]
          /\ recordCalls'[r] = recordCalls[r]
      BY <2>1, <2>3 DEF CreateRun, calls, Base, TypeOK
    <3>2. QED
      BY <1>1, <1>2, <2>1, <3>1 DEF Due, Calling, Exists
  <2>4. QED
    BY <2>2, <2>3
<1>5. CASE Updates
  <2>1. /\ searchCalls'[r] = searchCalls[r]
        /\ recordCalls'[r] = recordCalls[r]
        /\ pc' \notin Calling
        /\ Exists(r) <=> Exists(r)'
        /\ Exists(r) =>
             /\ manifestFile'[r].search_request_count
                  = manifestFile[r].search_request_count
             /\ manifestFile'[r].record_request_count
                  = manifestFile[r].record_request_count
    BY <1>5, AbsenceAssumption
       DEF Updates, calls, SameCounts, Base, TypeOK, Exists
  <2>2. QED
    BY <1>1, <1>2, <2>1 DEF Due, Calling
<1>6. CASE ReservesSearch \/ ReservesRecord
  <2>1. PICK m \in Manifest :
          /\ Reserves(m)
          /\ \/ /\ pc' = "call_search"
                /\ m.search_request_count
                    = manifestFile[run].search_request_count + 1
                /\ m.record_request_count = manifestFile[run].record_request_count
             \/ /\ pc' = "call_record"
                /\ m.record_request_count
                    = manifestFile[run].record_request_count + 1
                /\ m.search_request_count = manifestFile[run].search_request_count
    BY <1>6 DEF ReservesSearch, ReservesRecord
  <2>2. /\ searchCalls'[r] = searchCalls[r]
        /\ recordCalls'[r] = recordCalls[r]
        /\ run' = run
        /\ pc \notin Calling
    BY <2>1 DEF Reserves, calls
  <2>3. CASE r = run
    <3>1. manifestFile'[r] = m /\ Exists(r) /\ Exists(r)'
      BY <2>1, <2>3, AbsenceAssumption DEF Reserves, Base, TypeOK, Exists
    <3>2. m.search_request_count <= PageLimit /\ m.record_request_count <= RecordLimit
      BY <2>1 DEF Reserves, ValidManifest
    <3>3. QED
      BY <1>1, <1>2, <2>1, <2>2, <2>3, <3>1, <3>2 DEF Due, Calling
  <2>4. CASE r # run
    <3>1. manifestFile'[r] = manifestFile[r]
      BY <2>1, <2>4 DEF Reserves, Base, TypeOK
    <3>2. QED
      BY <1>1, <1>2, <2>2, <2>4, <3>1 DEF Due, Exists
  <2>5. QED
    BY <2>3, <2>4
<1>7. CASE CallsSearch \/ CallsRecord
  <2>1. /\ run \in RunIds
        /\ pc' \notin Calling
        /\ manifestFile'[r] = manifestFile[r]
        /\ run = r => Exists(r)
    BY <1>7, AbsenceAssumption
       DEF CallsSearch, CallsRecord, Base, Loaded, Exists
  <2>2. /\ searchCalls'[r] = searchCalls[r] + Due(r, "call_search")
        /\ recordCalls'[r] = recordCalls[r] + Due(r, "call_record")
    BY <1>1, <1>7 DEF CallsSearch, CallsRecord, Due, Base, TypeOK
  <2>3. QED
    BY <1>1, <1>2, <2>1, <2>2 DEF Due, Calling, Exists
<1>8. QED
  BY <1>3, <1>4, <1>5, <1>6, <1>7 DEF HistoryStep

(* So the budgets hold throughout.                                         *)
LEMMA BudgetsInvariant == Spec => []Budgets
<1>1. Init => Budgets
  BY DEF Init, Budgets, Exists
<1>2. Base /\ Base' /\ Budgets /\ [Next]_vars => Budgets'
  <2> SUFFICES ASSUME Base, Base', Budgets, [Next]_vars
               PROVE  Budgets'
    OBVIOUS
  <2>1. CASE Next
    BY <2>1, StepsOfTheHistory, StepsKeepBudgets
  <2>2. CASE UNCHANGED vars
    BY <2>2 DEF vars, disk, memory, calls, Budgets, Due, Exists
  <2>3. QED
    BY <2>1, <2>2
<1>3. QED
  BY <1>1, <1>2, BaseInvariant, PTL DEF Spec

(* However often a run dies and is resumed, it never makes more calls than  *)
(* its manifest has reserved and its limits allow.                          *)
THEOREM BudgetsAreKept == Spec => []CallsAreReserved
<1>1. Base /\ Budgets => CallsAreReserved
  <2> SUFFICES ASSUME Base, Budgets, NEW r \in RunIds, Exists(r)
               PROVE  /\ searchCalls[r] <= manifestFile[r].search_request_count
                      /\ recordCalls[r] <= manifestFile[r].record_request_count
    BY DEF Budgets, CallsAreReserved
  <2>1. /\ searchCalls[r] \in Nat /\ recordCalls[r] \in Nat
        /\ manifestFile[r].search_request_count \in Nat
        /\ manifestFile[r].record_request_count \in Nat
    BY DEF Base, TypeOK, Exists, Manifest
  <2>2. QED
    BY <2>1 DEF Budgets, Due
<1>2. QED
  BY <1>1, BaseInvariant, BudgetsInvariant, PTL

-----------------------------------------------------------------------------
(* What the process holds                                                  *)

(* A page is held after the call that brought it, a record's answer until   *)
(* it is entered, dropped or asked for again.                               *)
LEMMA WhatIsHeld ==
  ASSUME Base, Next
  PROVE  /\ pc' \in WithPage => CallsSearch /\ run' = run
         /\ pc' \in WithRecord =>
              /\ run' = run
              /\ \/ CallsRecord
                 \/ pc \in WithRecord /\ UNCHANGED <<manifestFile, calls>>
<1> USE DEF WithPage, WithRecord
<1>1. CASE Operator
  BY <1>1 DEF Operator, StartRun, StartRecovery, CreateRun, ResumeRun
<1>2. CASE Prologue
  BY <1>2 DEF Prologue, CreateCheckpoint, MarkRunning, MarkRecovering,
              SaveSelection, SaveManifest, SaveCheckpoint, Reject
<1>3. CASE Finish \/ Disruption
  BY <1>3 DEF Finish, Complete, Return, FailRun, InterruptRun, EndRun, Exit,
              SaveManifest, Reject, Disruption, Crash, Interrupt, Raise
<1>4. CASE Collect
  <2>1. CASE SearchAnswers
    BY <1>4, <2>1 DEF SearchAnswers, CallsSearch, Calling, Base, Loaded, disk
  <2>2. CASE BeginSearch \/ RetrySearch
    BY <2>2 DEF BeginSearch, RetrySearch, ReserveSearch, Reserve, SaveManifest,
                SaveCheckpoint, Reject
  <2>3. CASE ReplayPage \/ SavePageCheckpoint
    BY <2>3 DEF ReplayPage, SavePageCheckpoint, SaveCheckpoint, Reject
  <2>4. CASE SavePage
    BY <2>4 DEF SavePage, SaveManifest, Reject
  <2>5. CASE SearchIsComplete \/ SearchFails \/ GiveUpSearch
    BY <2>5 DEF SearchIsComplete, SearchFails, GiveUpSearch
  <2>6. QED
    BY <1>4, <2>1, <2>2, <2>3, <2>4, <2>5 DEF Collect
<1>5. CASE Capture
  <2>1. CASE RecordAnswers
    BY <2>1 DEF RecordAnswers, CallsRecord, Calling, Base, Loaded, disk
  <2>2. CASE RecordFails
    BY <2>2 DEF RecordFails, CallsRecord, Calling, Base, Loaded, disk
  <2>3. CASE BeginRecord \/ RetryRecord
    BY <2>3 DEF BeginRecord, RetryRecord, ReserveRecord, Reserve, SaveManifest,
                Reject
  <2>4. CASE GiveUpRecord \/ StoreObject \/ StoreFails \/ StoreQuarantine
    BY <2>4 DEF GiveUpRecord, StoreObject, StoreFails, StoreQuarantine, disk,
                memory
  <2>5. CASE SkipSettled \/ SaveRecordCheckpoint
    BY <2>5 DEF SkipSettled, SaveRecordCheckpoint, SaveCheckpoint, Reject
  <2>6. CASE SaveRecord \/ SaveQuarantine
    BY <2>6 DEF SaveRecord, SaveQuarantine, SaveEntry, SaveManifest, Reject
  <2>7. CASE CaptureIsDone
    BY <2>7 DEF CaptureIsDone
  <2>8. QED
    BY <1>5, <2>1, <2>2, <2>3, <2>4, <2>5, <2>6, <2>7 DEF Capture
<1>6. QED
  BY <1>1, <1>2, <1>3, <1>4, <1>5 DEF Next, Process

-----------------------------------------------------------------------------
(* What the manifests on disk account for                                  *)

(* A step that leaves the manifests leaves the ledger's view of them.       *)
LEMMA SameFilesSameView ==
  ASSUME UNCHANGED manifestFile
  PROVE  UNCHANGED <<Opened, Entries, Booked>>
BY DEF Opened, Entries, EntriesOf, Booked, BookedFor, Exists

(* One that saves a manifest shows in the view of its own run only.         *)
LEMMA OneFileOneView ==
  ASSUME Base, run \in RunIds, Exists(run), NEW m \in Manifest,
         manifestFile' = [manifestFile EXCEPT ![run] = m]
  PROVE  /\ UNCHANGED Opened
         /\ \A k \in Kinds, r \in RunIds :
              /\ EntriesOf(k, r)' = IF r # run THEN EntriesOf(k, r)
                                    ELSE IF k = "search" THEN m.pages
                                    ELSE m.records
              /\ BookedFor(k, r)' = IF r # run THEN BookedFor(k, r)
                                    ELSE IF k = "search"
                                    THEN m.search_request_count
                                    ELSE m.record_request_count
<1>1. m # NoFile
  BY AbsenceAssumption
<1>2. \A r \in RunIds : manifestFile'[r] = IF r = run THEN m ELSE manifestFile[r]
  BY DEF Base, TypeOK
<1>3. \A r \in RunIds : Exists(r)' <=> Exists(r)
  BY <1>1, <1>2 DEF Exists
<1>4. QED
  BY <1>2, <1>3 DEF Opened, EntriesOf, BookedFor, Exists

-----------------------------------------------------------------------------
(* Every step is one of the ledger's                                       *)

(* Where neither manifests nor calls change, an answer is dropped at most.  *)
LEMMA QuietStutters ==
  ASSUME Base, Next, Quiet
  PROVE  [Ledgers!Next]_(Ledgers!vars)
<1>1. UNCHANGED <<Opened, Entries, Booked, Made>>
  BY SameFilesSameView DEF Quiet, calls, Made
<1>2. ~CallsSearch /\ ~CallsRecord
  <2>1. UNCHANGED <<searchCalls, recordCalls>>
    BY DEF Quiet, calls
  <2>2. /\ searchCalls \in [RunIds -> Nat]
        /\ recordCalls \in [RunIds -> Nat]
    BY DEF Base, TypeOK
  <2>3. QED
    BY <2>1, <2>2 DEF CallsSearch, CallsRecord
<1>3. Holding' = Holding \/ Holding' = Nobody
  BY <1>2, WhatIsHeld DEF Holding, WithPage, WithRecord
<1>4. QED
  BY <1>1, <1>3 DEF Ledgers!Next, Ledgers!vars, Ledgers!Forget

(* Creating a manifest opens the run, with nothing entered or booked.       *)
LEMMA CreatesOpens ==
  ASSUME Base, Creates
  PROVE  \E r \in RunIds : Ledgers!Open(r)
<1>1. PICK r \in RunIds, c \in Configuration : CreateRun(r, c)
  BY DEF Creates
<1>2. NewManifest(c) \in Manifest
  BY NewDocuments
<1>3. /\ ~Exists(r)
      /\ Exists(r)'
      /\ \A q \in RunIds : q # r => manifestFile'[q] = manifestFile[q]
      /\ manifestFile'[r] = NewManifest(c)
  BY <1>1, <1>2, AbsenceAssumption DEF CreateRun, Exists, Base, TypeOK
<1>4. r \notin Opened /\ Opened' = Opened \cup {r}
  BY <1>3 DEF Opened, Exists
<1>5. \A k \in Kinds, q \in RunIds :
        /\ EntriesOf(k, q)' = EntriesOf(k, q)
        /\ BookedFor(k, q)' = BookedFor(k, q)
  <2>1. ASSUME NEW k \in Kinds, NEW q \in RunIds, q # r
        PROVE  /\ EntriesOf(k, q)' = EntriesOf(k, q)
               /\ BookedFor(k, q)' = BookedFor(k, q)
    BY <1>3, <2>1 DEF EntriesOf, BookedFor, Exists
  <2>2. ASSUME NEW k \in Kinds
        PROVE  /\ EntriesOf(k, r)' = EntriesOf(k, r)
               /\ BookedFor(k, r)' = BookedFor(k, r)
    <3>1. EntriesOf(k, r) = BlankOf(k) /\ BookedFor(k, r) = 0
      BY <1>3 DEF EntriesOf, BookedFor
    <3>2. /\ manifestFile'[r].pages = BlankOf("search")
          /\ manifestFile'[r].records = BlankOf("record")
          /\ manifestFile'[r].search_request_count = 0
          /\ manifestFile'[r].record_request_count = 0
      BY <1>3 DEF NewManifest, BlankOf
    <3>3. EntriesOf(k, r)' = BlankOf(k) /\ BookedFor(k, r)' = 0
      BY <1>3, <3>2 DEF EntriesOf, BookedFor, Kinds, BlankOf
    <3>4. QED
      BY <3>1, <3>3
  <2>3. QED
    BY <2>1, <2>2
<1>6. UNCHANGED <<Entries, Booked>>
  BY <1>5 DEF Entries, Booked
<1>7. Made' = Made /\ Holding' = Holding
  BY <1>1 DEF CreateRun, calls, Made, Holding, WithPage, WithRecord
<1>8. QED
  BY <1>4, <1>6, <1>7 DEF Ledgers!Open

(* A reservation books one call of its kind.                                *)
LEMMA ReservesBooks ==
  ASSUME Base, ReservesSearch \/ ReservesRecord
  PROVE  \E k \in Kinds, r \in RunIds : Ledgers!Book(k, r)
<1>1. PICK m \in Manifest, k \in Kinds :
        /\ Reserves(m)
        /\ m.search_request_count = manifestFile[run].search_request_count
                                      + (IF k = "search" THEN 1 ELSE 0)
        /\ m.record_request_count = manifestFile[run].record_request_count
                                      + (IF k = "search" THEN 0 ELSE 1)
        /\ pc' \in Calling
  <2>1. CASE ReservesSearch
    <3>1. PICK m \in Manifest :
            /\ Reserves(m)
            /\ m.search_request_count = manifestFile[run].search_request_count + 1
            /\ m.record_request_count = manifestFile[run].record_request_count
      BY <2>1 DEF ReservesSearch
    <3>2. manifestFile[run].record_request_count \in Nat
      BY <3>1 DEF Reserves, Manifest
    <3>3. "search" \in Kinds /\ pc' \in Calling
      BY <2>1 DEF Kinds, Calling, ReservesSearch
    <3>4. QED
      BY <3>1, <3>2, <3>3
  <2>2. CASE ReservesRecord
    <3>1. PICK m \in Manifest :
            /\ Reserves(m)
            /\ m.record_request_count = manifestFile[run].record_request_count + 1
            /\ m.search_request_count = manifestFile[run].search_request_count
      BY <2>2 DEF ReservesRecord
    <3>2. manifestFile[run].search_request_count \in Nat
      BY <3>1 DEF Reserves, Manifest
    <3>3. "record" \in Kinds /\ pc' \in Calling
      BY <2>2 DEF Kinds, Calling, ReservesRecord
    <3>4. QED
      BY <3>1, <3>2, <3>3
  <2>3. QED
    BY <2>1, <2>2
<1>2. /\ run \in RunIds
      /\ manifestFile[run] \in Manifest
      /\ manifestFile' = [manifestFile EXCEPT ![run] = m]
      /\ SameEntries(manifestFile[run], m)
      /\ UNCHANGED calls
      /\ m.search_request_count <= PageLimit
      /\ m.record_request_count <= RecordLimit
  BY <1>1 DEF Reserves, ValidManifest
<1>3. Exists(run)
  BY <1>2, AbsenceAssumption DEF Exists
<1>4. /\ UNCHANGED Opened
      /\ \A j \in Kinds, r \in RunIds :
           /\ EntriesOf(j, r)' = IF r # run THEN EntriesOf(j, r)
                                 ELSE IF j = "search" THEN m.pages
                                 ELSE m.records
           /\ BookedFor(j, r)' = IF r # run THEN BookedFor(j, r)
                                 ELSE IF j = "search"
                                 THEN m.search_request_count
                                 ELSE m.record_request_count
  BY <1>2, <1>3, OneFileOneView
<1>5. \A j \in Kinds, r \in RunIds : EntriesOf(j, r)' = EntriesOf(j, r)
  BY <1>2, <1>3, <1>4 DEF EntriesOf, SameEntries
<1>6. /\ manifestFile[run].search_request_count \in Nat
      /\ manifestFile[run].record_request_count \in Nat
  BY <1>2 DEF Manifest
<1>0. PICK q \in RunIds : q = run
  BY <1>2
<1>7. /\ BookedFor(k, q) < LimitOf(k)
      /\ BookedFor(k, q)' = BookedFor(k, q) + 1
      /\ \A j \in Kinds, r \in RunIds :
           j # k \/ r # q => BookedFor(j, r)' = BookedFor(j, r)
  <2>1. BookedFor(k, q) = IF k = "search"
                            THEN manifestFile[run].search_request_count
                            ELSE manifestFile[run].record_request_count
    BY <1>0, <1>3 DEF BookedFor
  <2>2. BookedFor(k, q)' = BookedFor(k, q) + 1
    BY <1>0, <1>1, <1>2, <1>4, <2>1
  <2>3. BookedFor(k, q) < LimitOf(k)
    BY <1>0, <1>1, <1>2, <1>6, <2>1, LimitsAssumption DEF LimitOf
  <2>4. ASSUME NEW j \in Kinds, NEW r \in RunIds, j # k \/ r # q
        PROVE  BookedFor(j, r)' = BookedFor(j, r)
    <3>1. CASE r # q
      BY <1>0, <1>4, <3>1
    <3>2. CASE r = q
      <4>1. BookedFor(j, q) = IF j = "search"
                                THEN manifestFile[run].search_request_count
                                ELSE manifestFile[run].record_request_count
        BY <1>0, <1>3 DEF BookedFor
      <4>2. BookedFor(j, q)' = IF j = "search"
                                 THEN m.search_request_count
                                 ELSE m.record_request_count
        BY <1>0, <1>2, <1>4
      <4>3. j = "search" <=> k # "search"
        BY <2>4, <3>2 DEF Kinds
      <4>4. QED
        BY <1>0, <1>1, <1>6, <3>2, <4>1, <4>2, <4>3
    <3>3. QED
      BY <3>1, <3>2
  <2>5. QED
    BY <2>2, <2>3, <2>4
<1>8. UNCHANGED Entries
  BY <1>0, <1>5 DEF Entries
<1>9. Booked' = [Booked EXCEPT ![k][q] = @ + 1]
  <2>1. ASSUME NEW j \in Kinds
        PROVE  Booked'[j] = [Booked EXCEPT ![k][q] = @ + 1][j]
    <3>1. Booked'[j] = [r \in RunIds |-> BookedFor(j, r)']
      BY DEF Booked
    <3>2. CASE j # k
      BY <1>0, <1>7, <3>1, <3>2 DEF Booked
    <3>3. CASE j = k
      <4>1. [Booked EXCEPT ![k][q] = @ + 1][j]
              = [r \in RunIds |-> IF r = q THEN BookedFor(k, r) + 1
                                             ELSE BookedFor(k, r)]
        BY <1>0, <1>2, <3>3 DEF Booked
      <4>2. QED
        BY <1>0, <1>7, <3>1, <3>3, <4>1
    <3>4. QED
      BY <3>2, <3>3
  <2>2. Booked' = [j \in Kinds |-> Booked'[j]]
    BY DEF Booked
  <2>3. [Booked EXCEPT ![k][q] = @ + 1]
          = [j \in Kinds |-> [Booked EXCEPT ![k][q] = @ + 1][j]]
    BY DEF Booked
  <2>4. QED
    BY <2>1, <2>2, <2>3
<1>10. UNCHANGED Made /\ Holding' = Nobody
  BY <1>0, <1>1, <1>2 DEF calls, Made, Holding, Calling, WithPage, WithRecord
<1>11. q \in Opened /\ Booked[k][q] < [j \in Kinds |-> LimitOf(j)][k]
  BY <1>0, <1>2, <1>3, <1>7 DEF Opened, Booked
<1>12. QED
  BY <1>0, <1>2, <1>4, <1>8, <1>9, <1>10, <1>11 DEF Ledgers!Book

(* A call was booked: that is what Budgets says of a call that is due.      *)
LEMMA CallsAreMade ==
  ASSUME Base, Next, Budgets, CallsSearch \/ CallsRecord
  PROVE  \E k \in Kinds, r \in RunIds : Ledgers!Call(k, r)
<1>1. PICK q \in RunIds : q = run
  BY DEF CallsSearch, CallsRecord
<1>2. /\ searchCalls \in [RunIds -> Nat]
      /\ recordCalls \in [RunIds -> Nat]
  BY DEF Base, TypeOK
<1>3. UNCHANGED <<Opened, Entries, Booked>>
  BY SameFilesSameView DEF CallsSearch, CallsRecord
<1>4. CASE CallsSearch
  <2>1. "search" \in Kinds
    BY DEF Kinds
  <2>2. Made' = [Made EXCEPT !["search"][q] = @ + 1]
    BY <1>1, <1>4 DEF CallsSearch, Made, Kinds
  <2>3. Made["search"][q] < Booked["search"][q]
    <3>1. Due(q, "call_search") = 1
      BY <1>1, <1>4 DEF Due, CallsSearch
    <3>2. Exists(q) /\ searchCalls[q] + 1 <= manifestFile[q].search_request_count
      <4>1. CASE Exists(q)
        BY <1>1, <3>1, <4>1 DEF Budgets
      <4>2. CASE ~Exists(q)
        BY <1>1, <1>4, <4>2, AbsenceAssumption
           DEF CallsSearch, Base, Loaded, Exists
      <4>3. QED
        BY <4>1, <4>2
    <3>3. /\ Made["search"][q] = searchCalls[q]
          /\ Booked["search"][q] = manifestFile[q].search_request_count
      BY <1>1, <2>1, <3>2 DEF Made, Booked, BookedFor
    <3>4. searchCalls[q] \in Nat /\ manifestFile[q].search_request_count \in Nat
      BY <1>1, <1>2, <3>2 DEF Base, TypeOK, Exists, Manifest
    <3>5. QED
      BY <3>2, <3>3, <3>4
  <2>4. Holding' \in {<<"search", q>>, Nobody}
    BY <1>1, <1>2, <1>4, WhatIsHeld
       DEF Holding, CallsSearch, CallsRecord, calls, WithPage, WithRecord
  <2>5. QED
    BY <1>3, <2>1, <2>2, <2>3, <2>4 DEF Ledgers!Call
<1>5. CASE CallsRecord
  <2>1. "record" \in Kinds
    BY DEF Kinds
  <2>2. Made' = [Made EXCEPT !["record"][q] = @ + 1]
    BY <1>1, <1>5 DEF CallsRecord, Made, Kinds
  <2>3. Made["record"][q] < Booked["record"][q]
    <3>1. Due(q, "call_record") = 1
      BY <1>1, <1>5 DEF Due, CallsRecord
    <3>2. Exists(q) /\ recordCalls[q] + 1 <= manifestFile[q].record_request_count
      <4>1. CASE Exists(q)
        BY <1>1, <3>1, <4>1 DEF Budgets
      <4>2. CASE ~Exists(q)
        BY <1>1, <1>5, <4>2, AbsenceAssumption
           DEF CallsRecord, Base, Loaded, Exists
      <4>3. QED
        BY <4>1, <4>2
    <3>3. /\ Made["record"][q] = recordCalls[q]
          /\ Booked["record"][q] = manifestFile[q].record_request_count
      BY <1>1, <2>1, <3>2 DEF Made, Booked, BookedFor
    <3>4. recordCalls[q] \in Nat /\ manifestFile[q].record_request_count \in Nat
      BY <1>1, <1>2, <3>2 DEF Base, TypeOK, Exists, Manifest
    <3>5. QED
      BY <3>2, <3>3, <3>4
  <2>4. Holding' \in {<<"record", q>>, Nobody}
    BY <1>1, <1>2, <1>5, WhatIsHeld
       DEF Holding, CallsSearch, CallsRecord, calls, WithPage, WithRecord
  <2>5. QED
    BY <1>3, <2>1, <2>2, <2>3, <2>4 DEF Ledgers!Call
<1>6. QED
  BY <1>4, <1>5

(* Filling one position of one run's entries is what Enter asks for.        *)
LEMMA FillsEnters ==
  ASSUME NEW k \in Kinds, NEW q \in RunIds,
         Fills(EntriesOf(k, q), EntriesOf(k, q)'),
         \A j \in Kinds, r \in RunIds :
           j # k \/ r # q => EntriesOf(j, r)' = EntriesOf(j, r)
  PROVE  \E i \in DOMAIN Entries[k][q] :
           /\ Entries[k][q][i] = NoEntry
           /\ Entries'[k][q][i] # NoEntry
           /\ Entries' = [Entries EXCEPT ![k][q][i] = Entries'[k][q][i]]
<1> DEFINE old == EntriesOf(k, q)
           new == EntriesOf(k, q)'
<1>1. PICK i \in DOMAIN old :
        /\ old[i] = NoEntry
        /\ new[i] # NoEntry
        /\ new = [old EXCEPT ![i] = new[i]]
  BY DEF Fills
<1>2. Entries[k][q] = old /\ Entries'[k][q] = new
  BY DEF Entries
<1> HIDE DEF old, new
<1>3. [Entries EXCEPT ![k][q][i] = new[i]] = [Entries EXCEPT ![k][q] = new]
  <2>1. [Entries[k][q] EXCEPT ![i] = new[i]] = new
    BY <1>1, <1>2
  <2>2. [Entries[k] EXCEPT ![q] = [Entries[k][q] EXCEPT ![i] = new[i]]]
          = [Entries[k] EXCEPT ![q] = new]
    BY <2>1
  <2>3. QED
    BY <2>2, Zenon
<1>4. Entries' = [Entries EXCEPT ![k][q] = new]
  <2>1. ASSUME NEW j \in Kinds
        PROVE  Entries'[j] = [Entries EXCEPT ![k][q] = new][j]
    <3>1. Entries'[j] = [r \in RunIds |-> EntriesOf(j, r)']
      BY DEF Entries
    <3>2. CASE j # k
      BY <3>1, <3>2 DEF Entries
    <3>3. CASE j = k
      <4>1. [Entries EXCEPT ![k][q] = new][j]
              = [r \in RunIds |-> IF r = q THEN new ELSE EntriesOf(k, r)]
        BY <3>3 DEF Entries
      <4>2. QED
        BY <3>1, <3>3, <4>1 DEF new
    <3>4. QED
      BY <3>2, <3>3
  <2>2. Entries' = [j \in Kinds |-> Entries'[j]]
    BY DEF Entries
  <2>3. [Entries EXCEPT ![k][q] = new]
          = [j \in Kinds |-> [Entries EXCEPT ![k][q] = new][j]]
    BY DEF Entries
  <2>4. QED
    BY <2>1, <2>2, <2>3
<1>5. QED
  BY <1>1, <1>2, <1>3, <1>4

(* A saved status changes nothing here; a saved page or outcome is entered. *)
LEMMA UpdatesEnter ==
  ASSUME Base, Next, Updates
  PROVE  [Ledgers!Next]_(Ledgers!vars)
<1>1. PICK m \in Manifest :
        /\ run \in RunIds
        /\ manifestFile[run] \in Manifest
        /\ SameCounts(manifestFile[run], m)
        /\ EntersAtMostOne(manifestFile[run], m)
        /\ manifestFile' = [manifestFile EXCEPT ![run] = m]
        /\ UNCHANGED calls
  BY DEF Updates
<1>2. PICK q \in RunIds : q = run
  BY <1>1
<1>3. Exists(run)
  BY <1>1, AbsenceAssumption DEF Exists
<1>4. /\ UNCHANGED Opened
      /\ \A k \in Kinds, r \in RunIds :
           /\ EntriesOf(k, r)' = IF r # run THEN EntriesOf(k, r)
                                 ELSE IF k = "search" THEN m.pages
                                 ELSE m.records
           /\ BookedFor(k, r)' = IF r # run THEN BookedFor(k, r)
                                 ELSE IF k = "search"
                                 THEN m.search_request_count
                                 ELSE m.record_request_count
  BY <1>1, <1>3, OneFileOneView
<1>5. \A k \in Kinds :
        /\ EntriesOf(k, q) = IF k = "search" THEN manifestFile[run].pages
                             ELSE manifestFile[run].records
        /\ EntriesOf(k, q)' = IF k = "search" THEN m.pages ELSE m.records
        /\ BookedFor(k, q)' = BookedFor(k, q)
  BY <1>1, <1>2, <1>3, <1>4 DEF EntriesOf, BookedFor, SameCounts
<1>6. UNCHANGED <<Booked, Made>>
  <2>1. \A k \in Kinds, r \in RunIds : BookedFor(k, r)' = BookedFor(k, r)
    BY <1>2, <1>4, <1>5
  <2>2. QED
    BY <1>1, <2>1 DEF Booked, Made, calls
<1>7. ~CallsSearch /\ ~CallsRecord
  <2>1. UNCHANGED <<searchCalls, recordCalls>>
    BY <1>1 DEF calls
  <2>2. /\ searchCalls \in [RunIds -> Nat]
        /\ recordCalls \in [RunIds -> Nat]
    BY DEF Base, TypeOK
  <2>3. QED
    BY <2>1, <2>2 DEF CallsSearch, CallsRecord
<1>8. \/ Holding' = Nobody
      \/ UNCHANGED <<manifestFile, Holding>>
  BY <1>7, WhatIsHeld DEF Holding, WithPage, WithRecord
<1>9. CASE UNCHANGED <<manifestFile, Holding>>
  BY <1>6, <1>9, SameFilesSameView DEF Ledgers!vars
<1>10. ASSUME Holding' = Nobody,
              SameEntries(manifestFile[run], m)
       PROVE  [Ledgers!Next]_(Ledgers!vars)
  <2>1. \A k \in Kinds, r \in RunIds : EntriesOf(k, r)' = EntriesOf(k, r)
    BY <1>2, <1>4, <1>5, <1>10 DEF SameEntries
  <2>2. UNCHANGED Entries
    BY <2>1 DEF Entries
  <2>3. QED
    BY <1>4, <1>6, <1>10, <2>2
       DEF Ledgers!Next, Ledgers!vars, Ledgers!Forget
<1>11. ASSUME NEW k \in Kinds, Holding = <<k, q>>, Holding' = Nobody,
              Fills(EntriesOf(k, q), EntriesOf(k, q)'),
              \A j \in Kinds : j # k => EntriesOf(j, q)' = EntriesOf(j, q)
       PROVE  [Ledgers!Next]_(Ledgers!vars)
  <2>1. \A j \in Kinds, r \in RunIds :
          j # k \/ r # q => EntriesOf(j, r)' = EntriesOf(j, r)
    BY <1>2, <1>4, <1>11
  <2>2. \E i \in DOMAIN Entries[k][q] :
          /\ Entries[k][q][i] = NoEntry
          /\ Entries'[k][q][i] # NoEntry
          /\ Entries' = [Entries EXCEPT ![k][q][i] = Entries'[k][q][i]]
    BY <1>11, <2>1, FillsEnters
  <2>3. Ledgers!Enter(k, q)
    BY <1>4, <1>6, <1>11, <2>2 DEF Ledgers!Enter
  <2>4. QED
    BY <2>3 DEF Ledgers!Next
<1>12. CASE /\ pc = "save_page"
            /\ Fills(manifestFile[run].pages, m.pages)
            /\ m.records = manifestFile[run].records
            /\ Holding' = Nobody
  <2>1. "search" \in Kinds /\ Holding = <<"search", q>>
    BY <1>2, <1>12 DEF Kinds, Holding, WithPage
  <2>2. /\ Fills(EntriesOf("search", q), EntriesOf("search", q)')
        /\ \A j \in Kinds : j # "search" => EntriesOf(j, q)' = EntriesOf(j, q)
    BY <1>5, <1>12, <2>1
  <2>3. QED
    BY <1>11, <1>12, <2>1, <2>2
<1>13. CASE /\ pc \in Appending
            /\ Fills(manifestFile[run].records, m.records)
            /\ m.pages = manifestFile[run].pages
            /\ Holding' = Nobody
  <2>1. "record" \in Kinds /\ Holding = <<"record", q>>
    BY <1>2, <1>13 DEF Kinds, Holding, WithPage, WithRecord, Appending
  <2>2. /\ Fills(EntriesOf("record", q), EntriesOf("record", q)')
        /\ \A j \in Kinds : j # "record" => EntriesOf(j, q)' = EntriesOf(j, q)
    BY <1>5, <1>13, <2>1 DEF Kinds
  <2>3. QED
    BY <1>11, <1>13, <2>1, <2>2
<1>14. QED
  BY <1>1, <1>8, <1>9, <1>10, <1>12, <1>13
     DEF EntersAtMostOne, SameEntries, Appending

-----------------------------------------------------------------------------
(* The initial state is that of an empty ledger.                            *)
LEMMA InitMaps == Init => Ledgers!Init
<1> SUFFICES ASSUME Init PROVE Ledgers!Init
  OBVIOUS
<1>1. \A r \in RunIds : ~Exists(r)
  BY DEF Init, Exists
<1>2. Opened = {}
  BY <1>1 DEF Opened
<1>3. Entries = [k \in Kinds |-> [r \in RunIds |-> [j \in Kinds |-> BlankOf(j)][k]]]
  BY <1>1 DEF Entries, EntriesOf
<1>4. Booked = [k \in Kinds |-> [r \in RunIds |-> 0]]
  BY <1>1 DEF Booked, BookedFor
<1>5. Made = [k \in Kinds |-> [r \in RunIds |-> 0]]
  BY DEF Made, Init
<1>6. Holding = Nobody
  BY DEF Init, Holding, WithPage, WithRecord
<1>7. QED
  BY <1>2, <1>3, <1>4, <1>5, <1>6 DEF Ledgers!Init

(* The manifests stay a ledger (ImplementsLedger), for any number of runs,  *)
(* records and candidates, under any limits, retries and crashes.           *)
THEOREM ManifestsAreLedgers == Spec => ImplementsLedger
<1>1. Base /\ Budgets /\ [Next]_vars => [Ledgers!Next]_(Ledgers!vars)
  <2> SUFFICES ASSUME Base, Budgets, [Next]_vars
               PROVE  [Ledgers!Next]_(Ledgers!vars)
    OBVIOUS
  <2>1. CASE UNCHANGED vars
    BY <2>1 DEF vars, disk, memory, calls, Ledgers!vars, Opened, Entries,
                EntriesOf, Booked, BookedFor, Made, Holding, Exists
  <2>2. CASE Next
    <3>1. HistoryStep
      BY <2>2, StepsOfTheHistory
    <3>2. CASE Quiet
      BY <2>2, <3>2, QuietStutters
    <3>3. CASE Creates
      BY <3>3, CreatesOpens DEF Ledgers!Next
    <3>4. CASE Updates
      BY <2>2, <3>4, UpdatesEnter
    <3>5. CASE ReservesSearch \/ ReservesRecord
      BY <3>5, ReservesBooks DEF Ledgers!Next
    <3>6. CASE CallsSearch \/ CallsRecord
      BY <2>2, <3>6, CallsAreMade DEF Ledgers!Next
    <3>7. QED
      BY <3>1, <3>2, <3>3, <3>4, <3>5, <3>6 DEF HistoryStep
  <2>3. QED
    BY <2>1, <2>2
<1>2. Spec => []Budgets
  BY BudgetsInvariant
<1>3. QED
  BY <1>1, <1>2, InitMaps, BaseInvariant, PTL
  DEF Spec, ImplementsLedger, Ledgers!Spec

-----------------------------------------------------------------------------
(* The checkpoint behind the manifest                                      *)

(* Whatever the checkpoint c counts as done has its entry in m.             *)
Covered(c, m) ==
  /\ \A n \in 1..PageLimit : n <= Len(c.seen_cursors) => m.pages[n] # NoEntry
  /\ \A i \in 1..CandidateLimit : i <= c.next_record_index => m.records[i] # NoEntry

(* A checkpoint that is one page, or one record, further than the process's *)
(* own.                                                                     *)
OnePageOn(c) ==
  /\ Len(c.seen_cursors) = Len(checkpoint.seen_cursors) + 1
  /\ c.next_record_index = checkpoint.next_record_index

PagesInHand ==
  /\ pc \in {"save_page", "save_page_checkpoint"} => OnePageOn(held.checkpoint)
  /\ pc = "save_page_checkpoint" =>
       (PageNumber <= PageLimit => manifest.pages[PageNumber] # NoEntry)

RecordInHand ==
  pc = "save_record_checkpoint" =>
    (Position <= CandidateLimit => manifest.records[Position] # NoEntry)

Behind == CheckpointBehindManifest /\ PagesInHand /\ RecordInHand

(* What a step may do to the checkpoint files.                              *)
CheckpointStep ==
  \A r \in RunIds : HasCheckpoint(r)' =>
    /\ Exists(r)
    /\ \/ HasCheckpoint(r) /\ checkpointFile'[r] = checkpointFile[r]
       \/ Covered(checkpointFile'[r], manifestFile[r])

(* Covered is what the invariant says of each run.                          *)
LEMMA BehindIsCovered ==
  CheckpointBehindManifest <=>
    \A r \in RunIds : HasCheckpoint(r) => Covered(checkpointFile[r], manifestFile[r])
BY DEF CheckpointBehindManifest, Covered

(* A manifest that keeps its entries covers what it covered.                *)
LEMMA KeptCovers ==
  ASSUME NEW c, NEW old, NEW new, Covered(c, old), Kept(old, new)
  PROVE  Covered(c, new)
BY DEF Covered, Kept, Captured, Settled

(* So a step that only writes covered checkpoints keeps the order.          *)
LEMMA CheckpointStaysBehind ==
  ASSUME Base, CheckpointBehindManifest, HistoryStep, CheckpointStep
  PROVE  CheckpointBehindManifest'
<1> SUFFICES ASSUME NEW r \in RunIds, HasCheckpoint(r)'
             PROVE  Covered(checkpointFile'[r], manifestFile'[r])
  BY DEF CheckpointBehindManifest, Covered
<1>1. Exists(r)
  BY DEF CheckpointStep
<1>2. Covered(checkpointFile'[r], manifestFile[r])
  BY BehindIsCovered DEF CheckpointStep
<1>3. Kept(manifestFile[r], manifestFile'[r])
  BY <1>1, StepsKeepHistory
<1>4. QED
  BY <1>2, <1>3, KeptCovers

(* A checkpoint that has moved on by what the manifest already has.         *)
LEMMA MovedOnIsCovered ==
  ASSUME Base, CheckpointBehindManifest, pc \in Working, NEW c \in Checkpoint,
         \/ Len(c.seen_cursors) = Len(checkpoint.seen_cursors)
         \/ /\ Len(c.seen_cursors) = Len(checkpoint.seen_cursors) + 1
            /\ PageNumber <= PageLimit => manifest.pages[PageNumber] # NoEntry,
         \/ c.next_record_index = checkpoint.next_record_index
         \/ /\ c.next_record_index = checkpoint.next_record_index + 1
            /\ Position <= CandidateLimit => manifest.records[Position] # NoEntry
  PROVE  Covered(c, manifestFile[run])
<1>1. /\ run \in RunIds
      /\ manifest = manifestFile[run]
      /\ checkpoint = checkpointFile[run]
      /\ checkpoint \in Checkpoint
      /\ HasCheckpoint(run)
  BY AbsenceAssumption DEF Base, Loaded, HasCheckpoint, Working
<1>2. Covered(checkpoint, manifest)
  BY <1>1, BehindIsCovered
<1>3. /\ Len(c.seen_cursors) \in Nat /\ Len(checkpoint.seen_cursors) \in Nat
      /\ c.next_record_index \in Nat /\ checkpoint.next_record_index \in Nat
  BY <1>1 DEF Checkpoint
<1>4. ASSUME NEW n \in 1..PageLimit, n <= Len(c.seen_cursors)
      PROVE  manifest.pages[n] # NoEntry
  <2>1. CASE n <= Len(checkpoint.seen_cursors)
    BY <1>2, <2>1 DEF Covered
  <2>2. CASE n > Len(checkpoint.seen_cursors)
    <3>1. n = PageNumber
      BY <1>3, <1>4, <2>2, LimitsAssumption DEF PageNumber
    <3>2. QED
      BY <1>3, <1>4, <2>2, <3>1, LimitsAssumption
  <2>3. QED
    BY <1>3, <2>1, <2>2, LimitsAssumption
<1>5. ASSUME NEW i \in 1..CandidateLimit, i <= c.next_record_index
      PROVE  manifest.records[i] # NoEntry
  <2>1. CASE i <= checkpoint.next_record_index
    BY <1>2, <2>1 DEF Covered
  <2>2. CASE i > checkpoint.next_record_index
    <3>1. i = Position
      BY <1>3, <1>5, <2>2, LimitsAssumption DEF Position
    <3>2. QED
      BY <1>3, <1>5, <2>2, <3>1, LimitsAssumption
  <2>3. QED
    BY <1>3, <2>1, <2>2, LimitsAssumption
<1>6. QED
  BY <1>1, <1>4, <1>5 DEF Covered

(* Saving such a checkpoint is a step the order allows; saving none is too. *)
LEMMA SavedCheckpointStep ==
  ASSUME Base, pc \in Working, NEW c, NEW then,
         SaveCheckpoint(c, then) \/ Reject,
         c \in Checkpoint => Covered(c, manifestFile[run])
  PROVE  CheckpointStep
<1>1. CASE checkpointFile' = checkpointFile
  BY <1>1 DEF CheckpointStep, Base, Loaded, HasCheckpoint
<1>2. CASE c \in Checkpoint /\ checkpointFile' = [checkpointFile EXCEPT ![run] = c]
  <2>1. run \in RunIds /\ Exists(run) /\ Covered(c, manifestFile[run])
    BY <1>2, AbsenceAssumption DEF Base, Loaded, Working, Exists
  <2>2. QED
    BY <1>2, <2>1 DEF CheckpointStep, Base, TypeOK, Loaded, HasCheckpoint
<1>3. QED
  BY <1>1, <1>2 DEF SaveCheckpoint, ValidCheckpoint, Reject

(* Steps that leave the checkpoint files alone.                             *)
LEMMA NoCheckpointStep ==
  ASSUME Base, UNCHANGED checkpointFile
  PROVE  CheckpointStep
BY DEF CheckpointStep, Base, Loaded, HasCheckpoint

(* The page under way makes the checkpoint of the next one.                 *)
LEMMA AppliedPage ==
  ASSUME NEW c \in Checkpoint, NEW ids, NEW next, NEW count
  PROVE  /\ Len(PageApplied(c, ids, next, count).seen_cursors)
              = Len(c.seen_cursors) + 1
         /\ PageApplied(c, ids, next, count).next_record_index
              = c.next_record_index
<1>1. /\ c.seen_cursors \in Seq(Cursors \cup {NoCursor})
      /\ c.next_cursor \in Cursors \cup {NoCursor}
  BY DEF Checkpoint
<1>2. Len(Append(c.seen_cursors, c.next_cursor)) = Len(c.seen_cursors) + 1
  BY <1>1
<1>3. QED
  BY <1>2 DEF PageApplied, Checkpoint

(* Every step but those below leaves the checkpoint files alone; these save *)
(* a covered one.                                                           *)
LEMMA NextIsCheckpointStep ==
  ASSUME Base, Behind, Next
  PROVE  CheckpointStep
<1> USE DEF Working, Points, InTry
<1>1. CASE Operator \/ MarkRunning \/ MarkRecovering \/ Finish \/ Disruption
  <2>1. checkpointFile' = checkpointFile
    BY <1>1
       DEF Operator, StartRun, StartRecovery, CreateRun, ResumeRun, MarkRunning,
           MarkRecovering, Finish, Complete, Return, FailRun, InterruptRun,
           Disruption, Crash, Interrupt, Raise, SaveManifest, Reject, disk
  <2>2. QED
    BY <2>1, NoCheckpointStep
<1>2. CASE CreateCheckpoint
  <2>1. /\ run \in RunIds
        /\ Exists(run)
        /\ checkpointFile' = [checkpointFile EXCEPT ![run] = NewCheckpoint]
    BY <1>2, AbsenceAssumption DEF CreateCheckpoint, Base, Loaded, Exists
  <2>2. Covered(NewCheckpoint, manifestFile[run])
    BY LimitsAssumption DEF NewCheckpoint, Covered
  <2>3. QED
    BY <2>1, <2>2 DEF CheckpointStep, Base, TypeOK, Loaded, HasCheckpoint
<1>3. CASE SaveSelection
  <2> DEFINE c == [checkpoint EXCEPT
                     !.candidates = SelectedRecords(manifest.configuration),
                     !.next_cursor = NoCursor,
                     !.search_complete = TRUE]
  <2>1. /\ checkpoint \in Checkpoint
        /\ pc \in Working
        /\ SaveCheckpoint(c, "capture")
    BY <1>3 DEF SaveSelection, Base, Loaded
  <2>2. /\ c.seen_cursors = checkpoint.seen_cursors
        /\ c.next_record_index = checkpoint.next_record_index
    BY <2>1 DEF Checkpoint
  <2> HIDE DEF c
  <2>3. QED
    BY <2>1, <2>2, MovedOnIsCovered, SavedCheckpointStep DEF Behind
<1>4. CASE ReplayPage
  <2> DEFINE c == ReconcileEntry(checkpoint, manifest.pages[PageNumber],
                                 manifest.search_request_count)
  <2>1. /\ checkpoint \in Checkpoint
        /\ pc \in Working
        /\ SaveCheckpoint(c, "collect") \/ Reject
        /\ PageIsCaptured
    BY <1>4 DEF ReplayPage, Base, Loaded
  <2>2. OnePageOn(c)
    BY <2>1, AppliedPage DEF OnePageOn, ReconcileEntry
  <2> HIDE DEF c
  <2>3. QED
    BY <2>1, <2>2, MovedOnIsCovered, SavedCheckpointStep
       DEF Behind, OnePageOn, PageIsCaptured
<1>5. CASE BeginSearch \/ RetrySearch
  <2> DEFINE c == [checkpoint EXCEPT !.search_complete = TRUE,
                                     !.next_cursor = NoCursor]
  <2>1. checkpoint \in Checkpoint /\ pc \in Working
    BY <1>5 DEF BeginSearch, RetrySearch, Base, Loaded
  <2>2. \/ checkpointFile' = checkpointFile
        \/ SaveCheckpoint(c, "capture")
    BY <1>5 DEF BeginSearch, RetrySearch, ReserveSearch, Reserve, SaveManifest,
                Reject
  <2>3. /\ c.seen_cursors = checkpoint.seen_cursors
        /\ c.next_record_index = checkpoint.next_record_index
    BY <2>1 DEF Checkpoint
  <2> HIDE DEF c
  <2>4. QED
    BY <2>1, <2>2, <2>3, MovedOnIsCovered, SavedCheckpointStep, NoCheckpointStep
       DEF Behind
<1>6. CASE SavePageCheckpoint
  <2>1. /\ checkpoint \in Checkpoint
        /\ pc \in Working
        /\ SaveCheckpoint(held.checkpoint, "collect")
        /\ OnePageOn(held.checkpoint)
        /\ PageNumber <= PageLimit => manifest.pages[PageNumber] # NoEntry
    BY <1>6 DEF SavePageCheckpoint, Base, Loaded, Behind, PagesInHand
  <2>2. QED
    BY <2>1, MovedOnIsCovered, SavedCheckpointStep DEF Behind, OnePageOn
<1>7. CASE SkipSettled \/ SaveRecordCheckpoint
  <2>1. /\ checkpoint \in Checkpoint
        /\ pc \in Working
        /\ SaveCheckpoint(PastThisRecord, "capture")
        /\ Position <= CandidateLimit => manifest.records[Position] # NoEntry
    BY <1>7 DEF SkipSettled, SaveRecordCheckpoint, IsSettled, Base, Loaded,
                Behind, RecordInHand
  <2>2. /\ PastThisRecord.seen_cursors = checkpoint.seen_cursors
        /\ PastThisRecord.next_record_index = checkpoint.next_record_index + 1
    BY <2>1 DEF PastThisRecord, Checkpoint
  <2>3. QED
    BY <2>1, <2>2, MovedOnIsCovered, SavedCheckpointStep DEF Behind
<1>8. CASE SearchIsComplete \/ SearchAnswers \/ SearchFails \/ GiveUpSearch
           \/ SavePage
  <2>1. checkpointFile' = checkpointFile
    BY <1>8 DEF SearchIsComplete, SearchAnswers, SearchFails, GiveUpSearch,
                SavePage, SaveManifest, Reject, disk
  <2>2. QED
    BY <2>1, NoCheckpointStep
<1>9. CASE CaptureIsDone \/ BeginRecord \/ RecordAnswers \/ RecordFails
           \/ RetryRecord \/ GiveUpRecord \/ StoreObject \/ StoreFails
           \/ SaveRecord \/ StoreQuarantine \/ SaveQuarantine
  <2>1. checkpointFile' = checkpointFile
    BY <1>9 DEF CaptureIsDone, BeginRecord, RecordAnswers, RecordFails,
                RetryRecord, GiveUpRecord, StoreObject, StoreFails, SaveRecord,
                StoreQuarantine, SaveQuarantine, ReserveRecord, Reserve,
                SaveEntry, SaveManifest, Reject, disk
  <2>2. QED
    BY <2>1, NoCheckpointStep
<1>10. QED
  BY <1>1, <1>2, <1>3, <1>4, <1>5, <1>6, <1>7, <1>8, <1>9
     DEF Next, Process, Prologue, Collect, Capture

(* What is in hand before the checkpoint is saved.                          *)
LEMMA NextKeepsInHand ==
  ASSUME Base, Behind, Next
  PROVE  PagesInHand' /\ RecordInHand'
<1> DEFINE Between == {"save_page", "save_page_checkpoint", "save_record_checkpoint"}
<1>1. CASE pc' \notin Between
  BY <1>1 DEF PagesInHand, RecordInHand
<1>2. CASE SearchAnswers
  <2>1. PICK page \in SearchPages :
          \/ pc' = "rejected"
          \/ /\ pc' = "save_page"
             /\ held'.checkpoint = AdvanceCursor(checkpoint, page,
                                      manifest.search_request_count).checkpoint
    BY <1>2 DEF SearchAnswers
  <2>2. checkpoint' = checkpoint /\ checkpoint \in Checkpoint
    BY <1>2 DEF SearchAnswers, Base, Loaded, Working, Points, InTry
  <2>3. CASE pc' = "save_page"
    BY <2>1, <2>2, <2>3, AppliedPage
       DEF AdvanceCursor, PagesInHand, RecordInHand, OnePageOn
  <2>4. CASE pc' = "rejected"
    BY <1>1, <2>4
  <2>5. QED
    BY <2>1, <2>3, <2>4
<1>3. CASE SavePage
  <2> DEFINE entry == [cursor        |-> checkpoint.next_cursor,
                       next_cursor   |-> held.checkpoint.next_cursor,
                       candidate_ids |-> held.new_candidate_ids]
             m == [manifest EXCEPT
                     !.pages[PageNumber] = entry,
                     !.candidate_count = Len(held.checkpoint.candidates)]
  <2>1. /\ manifest \in Manifest
        /\ checkpoint \in Checkpoint
        /\ OnePageOn(held.checkpoint)
        /\ held' = held
    BY <1>3 DEF SavePage, Base, Loaded, Working, Points, InTry, Behind, PagesInHand
  <2>2. CASE entry \in PageEntry /\ SaveManifest(m, "save_page_checkpoint")
    <3>1. m.pages = [manifest.pages EXCEPT ![PageNumber] = entry]
      BY <2>1 DEF Manifest
    <3>2. PageNumber \in Nat \ {0} /\ entry # NoEntry
      BY <2>1, <2>2, AbsenceAssumption DEF Checkpoint, PageNumber
    <3>3. PageNumber <= PageLimit => m.pages[PageNumber] # NoEntry
      BY <2>1, <3>1, <3>2, LimitsAssumption DEF Manifest
    <3> HIDE DEF m, entry
    <3>4. \/ pc' \in {"rejected", "unhandled"}
          \/ pc' = "save_page_checkpoint" /\ manifest' = m /\ checkpoint' = checkpoint
      BY <2>2 DEF SaveManifest, Reject
    <3>5. QED
      BY <1>1, <2>1, <3>3, <3>4
         DEF PagesInHand, RecordInHand, OnePageOn, PageNumber
  <2>3. CASE Reject
    BY <1>1, <2>3 DEF Reject
  <2>4. QED
    BY <1>3, <2>2, <2>3 DEF SavePage
<1>4. CASE SaveRecord \/ SaveQuarantine
  <2>1. /\ MoreCandidates
        /\ manifest \in Manifest
        /\ pc \in Working
    BY <1>4 DEF SaveRecord, SaveQuarantine, Base, InHand, AtRecord, Loaded,
                Working, Points, InTry
  <2>2. Position \in Nat \ {0} /\ RecordId \in Records
    BY <2>1, CandidateInTurn
  <2>3. PICK e \in RecordEntry : SaveEntry(e)
    BY <1>4, <2>2 DEF SaveRecord, SaveQuarantine, RecordEntry, Base, InHand,
                       HeldStored, HeldFailure
  <2>4. EntryAppended(e).records = [manifest.records EXCEPT ![Position] = e]
    BY <2>1 DEF EntryAppended, Manifest
  <2>5. Position <= CandidateLimit => EntryAppended(e).records[Position] # NoEntry
    BY <2>1, <2>2, <2>4, LimitsAssumption, AbsenceAssumption DEF Manifest
  <2>6. \/ pc' \in {"rejected", "unhandled"}
        \/ /\ pc' = "save_record_checkpoint"
           /\ manifest' = EntryAppended(e)
           /\ checkpoint' = checkpoint
    BY <2>3 DEF SaveEntry, SaveManifest, Reject
  <2>7. QED
    BY <1>1, <2>5, <2>6 DEF PagesInHand, RecordInHand, Position
<1>5. CASE Operator \/ Prologue \/ Finish \/ Disruption
  <2>1. pc' \notin Between
    BY <1>5 DEF Operator, StartRun, StartRecovery, CreateRun, ResumeRun,
                Prologue, CreateCheckpoint, MarkRunning, MarkRecovering,
                SaveSelection, Finish, Complete, Return, FailRun, InterruptRun,
                EndRun, Disruption, Crash, Interrupt, Raise, Exit,
                SaveManifest, SaveCheckpoint, Reject
  <2>2. QED
    BY <1>1, <2>1
<1>6. CASE SearchIsComplete \/ ReplayPage \/ BeginSearch \/ SearchFails
           \/ RetrySearch \/ GiveUpSearch \/ SavePageCheckpoint
  <2>1. pc' \notin Between
    BY <1>6 DEF SearchIsComplete, ReplayPage, BeginSearch, SearchFails,
                RetrySearch, GiveUpSearch, SavePageCheckpoint, ReserveSearch,
                Reserve, SaveManifest, SaveCheckpoint, Reject
  <2>2. QED
    BY <1>1, <2>1
<1>7. CASE CaptureIsDone \/ SkipSettled \/ BeginRecord \/ RecordAnswers
           \/ RecordFails \/ RetryRecord \/ GiveUpRecord \/ StoreObject
           \/ StoreFails \/ StoreQuarantine \/ SaveRecordCheckpoint
  <2>1. pc' \notin Between
    BY <1>7 DEF CaptureIsDone, SkipSettled, BeginRecord, RecordAnswers,
                RecordFails, RetryRecord, GiveUpRecord, StoreObject, StoreFails,
                StoreQuarantine, SaveRecordCheckpoint, ReserveRecord, Reserve,
                SaveManifest, SaveCheckpoint, Reject
  <2>2. QED
    BY <1>1, <2>1
<1>8. QED
  BY <1>2, <1>3, <1>4, <1>5, <1>6, <1>7 DEF Next, Process, Collect, Capture

(* The checkpoint never gets ahead of the manifest, whatever crashes        *)
(* between the two saves and however a resume replays what lies between.    *)
THEOREM CheckpointFollowsManifest == Spec => []CheckpointBehindManifest
<1>1. Init => Behind
  BY DEF Init, Behind, CheckpointBehindManifest, HasCheckpoint, PagesInHand,
         RecordInHand
<1>2. Base /\ Behind /\ [Next]_vars => Behind'
  <2> SUFFICES ASSUME Base, Behind, [Next]_vars
               PROVE  Behind'
    OBVIOUS
  <2>1. CASE Next
    BY <2>1, StepsOfTheHistory, NextIsCheckpointStep, CheckpointStaysBehind,
       NextKeepsInHand DEF Behind
  <2>2. CASE UNCHANGED vars
    BY <2>2 DEF vars, disk, memory, Behind, CheckpointBehindManifest,
                HasCheckpoint, PagesInHand, RecordInHand, OnePageOn, PageNumber,
                Position
  <2>3. QED
    BY <2>1, <2>2
<1>3. Behind => CheckpointBehindManifest
  BY DEF Behind
<1>4. QED
  BY <1>1, <1>2, <1>3, BaseInvariant, PTL DEF Spec

-----------------------------------------------------------------------------
(* The manifest behind its evidence                                        *)

Backed(entry, i, files, stored) ==
  IF entry.outcome = "quarantined"
  THEN i \in files
  ELSE <<entry.record_id, entry.version>> \in stored

EvidenceInHand ==
  /\ pc = "save_record" => <<RecordId, held.version>> \in objects
  /\ pc = "save_quarantine" => Position \in quarantineFile[run]

Evidence == EvidenceBehindManifest /\ EvidenceInHand

(* Evidence is only ever added.                                             *)
LEMMA EvidenceGrows ==
  ASSUME Base, Next
  PROVE  /\ objects \subseteq objects'
         /\ \A r \in RunIds : quarantineFile[r] \subseteq quarantineFile'[r]
<1>1. CASE Operator \/ Prologue
  BY <1>1 DEF Operator, StartRun, StartRecovery, CreateRun, ResumeRun, Prologue,
              CreateCheckpoint, MarkRunning, MarkRecovering, SaveSelection, disk
<1>2. CASE Collect
  BY <1>2 DEF Collect, SearchIsComplete, ReplayPage, BeginSearch, SearchAnswers,
              SearchFails, RetrySearch, GiveUpSearch, SavePage,
              SavePageCheckpoint, disk
<1>3. CASE StoreObject \/ StoreQuarantine
  BY <1>3 DEF StoreObject, StoreQuarantine, Base, TypeOK
<1>4. CASE CaptureIsDone \/ SkipSettled \/ BeginRecord \/ RecordAnswers
           \/ RecordFails \/ RetryRecord \/ GiveUpRecord \/ StoreFails
           \/ SaveRecord \/ SaveQuarantine \/ SaveRecordCheckpoint
  BY <1>4 DEF CaptureIsDone, SkipSettled, BeginRecord, RecordAnswers,
              RecordFails, RetryRecord, GiveUpRecord, StoreFails, SaveRecord,
              SaveQuarantine, SaveRecordCheckpoint, disk
<1>5. CASE Finish \/ Disruption
  BY <1>5 DEF Finish, Complete, Return, FailRun, InterruptRun, Disruption,
              Crash, Interrupt, Raise, disk
<1>6. QED
  BY <1>1, <1>2, <1>3, <1>4, <1>5 DEF Next, Process, Capture

(* A step that appends no entry leaves every entry backed.                  *)
LEMMA OldEntriesStayBacked ==
  ASSUME Base, Next, EvidenceBehindManifest, HistoryStep, pc \notin Appending
  PROVE  EvidenceBehindManifest'
<1> SUFFICES ASSUME NEW r \in RunIds, Exists(r)',
                    NEW i \in Settled(manifestFile'[r])
             PROVE  Backed(manifestFile'[r].records[i], i, quarantineFile'[r], objects')
  BY DEF EvidenceBehindManifest, Backed
<1>1. CASE Exists(r) /\ manifestFile'[r].records = manifestFile[r].records
  <2>1. i \in Settled(manifestFile[r])
    BY <1>1 DEF Settled
  <2>2. Backed(manifestFile[r].records[i], i, quarantineFile[r], objects)
    BY <1>1, <2>1 DEF EvidenceBehindManifest, Backed
  <2>3. QED
    BY <1>1, <2>2, EvidenceGrows DEF Backed
<1>2. CASE Creates
  <2>1. PICK q \in RunIds, c \in Configuration : CreateRun(q, c)
    BY <1>2 DEF Creates
  <2>2. CASE r = q
    <3>1. manifestFile'[r] = NewManifest(c)
      BY <2>1, <2>2 DEF CreateRun, Base, TypeOK
    <3>2. Settled(manifestFile'[r]) = {}
      BY <3>1 DEF NewManifest, Settled
    <3>3. QED
      BY <3>2
  <2>3. CASE r # q
    BY <1>1, <2>1, <2>3 DEF CreateRun, Base, TypeOK, Exists
  <2>4. QED
    BY <2>2, <2>3
<1>3. CASE Updates \/ ReservesSearch \/ ReservesRecord
  <2>1. PICK m \in Manifest :
          /\ run \in RunIds
          /\ manifestFile[run] \in Manifest
          /\ m.records = manifestFile[run].records
          /\ manifestFile' = [manifestFile EXCEPT ![run] = m]
    BY <1>3 DEF Updates, ReservesSearch, ReservesRecord, Reserves,
           EntersAtMostOne, SameEntries
  <2>2. /\ Exists(r)
        /\ manifestFile'[r].records = manifestFile[r].records
    BY <2>1, AbsenceAssumption DEF Base, TypeOK, Exists
  <2>3. QED
    BY <1>1, <2>2
<1>4. CASE Quiet \/ CallsSearch \/ CallsRecord
  BY <1>1, <1>4 DEF Quiet, CallsSearch, CallsRecord, Exists
<1>5. QED
  BY <1>2, <1>3, <1>4 DEF HistoryStep

(* A step that appends one has what backs it in hand.                       *)
LEMMA NewEntriesAreBacked ==
  ASSUME Base, Evidence, SaveRecord \/ SaveQuarantine
  PROVE  EvidenceBehindManifest'
<1>1. /\ MoreCandidates
      /\ manifest \in Manifest
      /\ manifest = manifestFile[run]
      /\ run \in RunIds
      /\ pc \in Working
  BY DEF SaveRecord, SaveQuarantine, Base, InHand, AtRecord, Loaded, Working,
         Points, InTry
<1>2. Position \in Nat \ {0} /\ RecordId \in Records
  BY <1>1, CandidateInTurn
<1>3. PICK e \in RecordEntry : SaveEntry(e) /\ Backed(e, Position, quarantineFile[run], objects)
  BY <1>2 DEF SaveRecord, SaveQuarantine, RecordEntry, StoredOutcomes, Base,
              InHand, HeldStored, HeldFailure, Evidence, EvidenceInHand, Backed
<1>4. UNCHANGED <<quarantineFile, objects>>
  BY DEF SaveRecord, SaveQuarantine
<1>5. CASE manifestFile' = manifestFile
  BY <1>4, <1>5 DEF Evidence, EvidenceBehindManifest, Exists
<1>6. CASE manifestFile' = [manifestFile EXCEPT ![run] = EntryAppended(e)]
  <2> SUFFICES ASSUME NEW r \in RunIds, Exists(r)',
                      NEW i \in Settled(manifestFile'[r])
               PROVE  Backed(manifestFile'[r].records[i], i, quarantineFile[r], objects)
    BY <1>4 DEF EvidenceBehindManifest, Backed
  <2>1. CASE r # run
    <3>1. manifestFile'[r] = manifestFile[r]
      BY <1>1, <1>6, <2>1 DEF Base, TypeOK
    <3>2. QED
      BY <3>1 DEF Evidence, EvidenceBehindManifest, Exists, Backed
  <2>2. CASE r = run
    <3>1. manifestFile'[r].records = [manifest.records EXCEPT ![Position] = e]
      BY <1>1, <1>6, <2>2 DEF EntryAppended, Manifest, Base, TypeOK
    <3>2. i \in 1..CandidateLimit
      BY DEF Settled
    <3>3. CASE i = Position
      BY <1>1, <1>3, <2>2, <3>1, <3>2, <3>3 DEF Manifest
    <3>4. CASE i # Position
      <4>1. manifestFile'[r].records[i] = manifestFile[r].records[i]
        BY <1>1, <2>2, <3>1, <3>2, <3>4 DEF Manifest
      <4>2. i \in Settled(manifestFile[r]) /\ Exists(r)
        BY <1>1, <2>2, <3>2, <4>1, AbsenceAssumption DEF Settled, Exists
      <4>3. QED
        BY <4>1, <4>2 DEF Evidence, EvidenceBehindManifest, Backed
    <3>5. QED
      BY <3>3, <3>4
  <2>3. QED
    BY <2>1, <2>2
<1>7. QED
  BY <1>3, <1>5, <1>6 DEF SaveEntry, SaveManifest, Reject

(* The object and the quarantine file are written before their entry.       *)
LEMMA NextKeepsEvidenceInHand ==
  ASSUME Base, Next
  PROVE  EvidenceInHand'
<1>1. CASE pc' \notin Appending
  BY <1>1 DEF EvidenceInHand, Appending
<1>2. CASE StoreObject
  <2>1. pc' = "save_record" /\ <<RecordId, held'.version>> \in objects'
    BY <1>2 DEF StoreObject
  <2>2. RecordId' = RecordId
    BY <1>2 DEF StoreObject, RecordId, Position
  <2>3. QED
    BY <2>1, <2>2 DEF EvidenceInHand
<1>3. CASE StoreQuarantine
  <2>1. run \in RunIds /\ quarantineFile \in [RunIds -> SUBSET (Nat \ {0})]
    BY <1>3 DEF StoreQuarantine, Base, TypeOK, Loaded
  <2>2. /\ pc' = "save_quarantine" => Position \in quarantineFile'[run]
        /\ pc' \in {"save_quarantine", "failing"}
        /\ Position' = Position
        /\ run' = run
    BY <1>3, <2>1 DEF StoreQuarantine, Position, memory
  <2>3. QED
    BY <2>2 DEF EvidenceInHand
<1>4. CASE Operator \/ Prologue \/ Finish \/ Disruption
  <2>1. pc' \notin Appending
    BY <1>4 DEF Operator, StartRun, StartRecovery, CreateRun, ResumeRun,
                Prologue, CreateCheckpoint, MarkRunning, MarkRecovering,
                SaveSelection, Finish, Complete, Return, FailRun, InterruptRun,
                EndRun, Disruption, Crash, Interrupt, Raise, Exit,
                SaveManifest, SaveCheckpoint, Reject, Appending
  <2>2. QED
    BY <1>1, <2>1
<1>5. CASE Collect
  <2>1. pc' \notin Appending
    BY <1>5 DEF Collect, SearchIsComplete, ReplayPage, BeginSearch,
                SearchAnswers, SearchFails, RetrySearch, GiveUpSearch, SavePage,
                SavePageCheckpoint, ReserveSearch, Reserve, SaveManifest,
                SaveCheckpoint, Reject, Appending
  <2>2. QED
    BY <1>1, <2>1
<1>6. CASE CaptureIsDone \/ SkipSettled \/ BeginRecord \/ RecordAnswers
           \/ RecordFails \/ RetryRecord \/ GiveUpRecord \/ StoreFails
           \/ SaveRecord \/ SaveQuarantine \/ SaveRecordCheckpoint
  <2>1. pc' \notin Appending
    BY <1>6 DEF CaptureIsDone, SkipSettled, BeginRecord, RecordAnswers,
                RecordFails, RetryRecord, GiveUpRecord, StoreFails, SaveRecord,
                SaveQuarantine, SaveRecordCheckpoint, ReserveRecord, Reserve,
                SaveEntry, SaveManifest, SaveCheckpoint, Reject, Appending
  <2>2. QED
    BY <1>1, <2>1
<1>7. QED
  BY <1>2, <1>3, <1>4, <1>5, <1>6 DEF Next, Process, Capture

(* Every entry of every manifest has its object or quarantine file on disk, *)
(* at every moment at which the process may die.                            *)
THEOREM ManifestFollowsEvidence == Spec => []EvidenceBehindManifest
<1>1. Init => Evidence
  BY DEF Init, Evidence, EvidenceBehindManifest, EvidenceInHand, Exists
<1>2. Base /\ Evidence /\ [Next]_vars => Evidence'
  <2> SUFFICES ASSUME Base, Evidence, [Next]_vars
               PROVE  Evidence'
    OBVIOUS
  <2>1. CASE Next
    <3>1. EvidenceInHand'
      BY <2>1, NextKeepsEvidenceInHand
    <3>2. CASE pc \notin Appending
      BY <2>1, <3>1, <3>2, StepsOfTheHistory, OldEntriesStayBacked DEF Evidence
    <3>3. CASE SaveRecord \/ SaveQuarantine
      BY <3>1, <3>3, NewEntriesAreBacked DEF Evidence
    <3>4. CASE UNCHANGED <<manifestFile, quarantineFile, objects>>
      BY <3>1, <3>4 DEF Evidence, EvidenceBehindManifest, Exists
    <3>5. CASE Disruption
      BY <3>1, <3>4, <3>5 DEF Disruption, Crash, Interrupt, Raise, disk
    <3>6. pc \in Appending => SaveRecord \/ SaveQuarantine \/ Disruption
      BY <2>1 DEF Appending, Next, Process, Operator, StartRun, StartRecovery,
           CreateRun, ResumeRun, Prologue, CreateCheckpoint, MarkRunning,
           MarkRecovering, SaveSelection, Collect, SearchIsComplete, ReplayPage,
           BeginSearch, SearchAnswers, SearchFails, RetrySearch, GiveUpSearch,
           SavePage, SavePageCheckpoint, Capture, CaptureIsDone, SkipSettled,
           BeginRecord, RecordAnswers, RecordFails, RetryRecord, GiveUpRecord,
           StoreObject, StoreFails, StoreQuarantine, SaveRecordCheckpoint,
           Finish, Complete, Return, FailRun, InterruptRun
    <3>7. QED
      BY <3>2, <3>3, <3>5, <3>6
  <2>2. CASE UNCHANGED vars
    BY <2>2 DEF vars, disk, memory, Evidence, EvidenceBehindManifest, Exists,
                EvidenceInHand, RecordId, Position
  <2>3. QED
    BY <2>1, <2>2
<1>3. Evidence => EvidenceBehindManifest
  BY DEF Evidence
<1>4. QED
  BY <1>1, <1>2, <1>3, BaseInvariant, PTL DEF Spec

-----------------------------------------------------------------------------
(* A recovery behind the failures it selects                               *)

Recovering ==
  \A r \in RunIds :
    Exists(r) /\ IsRecovery(r) => Selectable(manifestFile[r].configuration, manifestFile)

(* The selections of a configuration are request positions.                 *)
LEMMA SelectedPositions ==
  ASSUME NEW c \in Configuration, NEW k \in DOMAIN c.selected
  PROVE  c.selected[k] \in 1..CandidateLimit
<1>1. c.selected \in Seq(1..CandidateLimit)
  BY DEF Configuration
<1>2. DOMAIN c.selected = 1..Len(c.selected)
  BY <1>1
<1>3. QED
  BY <1>1, <1>2, ElementOfSeq

(* What was selectable stays so, because the source run keeps its entries.  *)
LEMMA SelectableStays ==
  ASSUME Base, HistoryStep, NEW c \in Configuration, Selectable(c, manifestFile)
  PROVE  Selectable(c, manifestFile')
<1>1. /\ c.recoveryOf \in RunIds
      /\ Kept(manifestFile[c.recoveryOf], manifestFile'[c.recoveryOf])
  BY StepsKeepHistory DEF Selectable, Exists
<1>2. manifestFile'[c.recoveryOf] # NoFile
  BY <1>1, AbsenceAssumption DEF Kept
<1>3. ASSUME NEW k \in DOMAIN c.selected
      PROVE  Eligible(manifestFile'[c.recoveryOf], c.selected[k])
  <2>1. c.selected[k] \in 1..CandidateLimit
    BY SelectedPositions
  <2>2. Eligible(manifestFile[c.recoveryOf], c.selected[k])
    BY DEF Selectable
  <2>3. QED
    BY <1>1, <2>1, <2>2 DEF Eligible, Kept, Settled
<1>4. QED
  BY <1>1, <1>2, <1>3 DEF Selectable

(* A run that has a manifest after a step had one before, or was created    *)
(* by it.                                                                   *)
LEMMA NewRunsAreCreated ==
  ASSUME Base, HistoryStep, NEW r \in RunIds, Exists(r)', ~Exists(r)
  PROVE  \E c \in Configuration :
           /\ CreateRun(r, c)
           /\ c.recoveryOf # NoRun => Selectable(c, manifestFile)
<1>1. CASE manifestFile' = manifestFile
  BY <1>1 DEF Exists
<1>2. ASSUME NEW m, run \in RunIds, manifestFile[run] \in Manifest,
             manifestFile' = [manifestFile EXCEPT ![run] = m]
      PROVE  FALSE
  BY <1>2, AbsenceAssumption DEF Base, TypeOK, Exists
<1>3. CASE Updates
  BY <1>2, <1>3 DEF Updates
<1>4. CASE ReservesSearch \/ ReservesRecord
  BY <1>2, <1>4 DEF ReservesSearch, ReservesRecord, Reserves
<1>5. CASE Creates
  <2>1. PICK q \in RunIds, c \in Configuration :
          /\ CreateRun(q, c)
          /\ c.recoveryOf # NoRun => Selectable(c, manifestFile)
    BY <1>5 DEF Creates
  <2>2. q = r
    BY <2>1 DEF CreateRun, Base, TypeOK, Exists
  <2>3. QED
    BY <2>1, <2>2
<1>6. CASE Quiet \/ CallsSearch \/ CallsRecord
  BY <1>1, <1>6 DEF Quiet, CallsSearch, CallsRecord
<1>7. QED
  BY <1>3, <1>4, <1>5, <1>6 DEF HistoryStep

(* A recovery run's source exists and still has the failures it selected.   *)
LEMMA RecoveringInvariant == Spec => []Recovering
<1>1. Init => Recovering
  BY DEF Init, Recovering, Exists
<1>2. Base /\ Recovering /\ [Next]_vars => Recovering'
  <2> SUFFICES ASSUME Base, Recovering, [Next]_vars
               PROVE  Recovering'
    OBVIOUS
  <2>1. CASE Next
    <3>1. HistoryStep
      BY <2>1, StepsOfTheHistory
    <3> SUFFICES ASSUME NEW r \in RunIds, Exists(r)', IsRecovery(r)'
                 PROVE  Selectable(manifestFile'[r].configuration, manifestFile')
      BY DEF Recovering
    <3>2. CASE Exists(r)
      <4>1. /\ manifestFile'[r].configuration = manifestFile[r].configuration
            /\ manifestFile[r].configuration \in Configuration
        BY <3>1, <3>2, StepsKeepHistory DEF Kept, Base, TypeOK, Exists, Manifest
      <4>2. Selectable(manifestFile[r].configuration, manifestFile)
        BY <3>2, <4>1 DEF Recovering, IsRecovery
      <4>3. QED
        BY <3>1, <4>1, <4>2, SelectableStays
    <3>3. CASE ~Exists(r)
      <4>1. PICK c \in Configuration :
              /\ CreateRun(r, c)
              /\ c.recoveryOf # NoRun => Selectable(c, manifestFile)
        BY <3>1, <3>3, NewRunsAreCreated
      <4>2. manifestFile'[r].configuration = c
        BY <4>1 DEF CreateRun, NewManifest, Base, TypeOK
      <4>3. Selectable(c, manifestFile)
        BY <4>1, <4>2 DEF IsRecovery
      <4>4. QED
        BY <3>1, <4>2, <4>3, SelectableStays
    <3>4. QED
      BY <3>2, <3>3
  <2>2. CASE UNCHANGED vars
    BY <2>2 DEF vars, disk, Recovering, Exists, IsRecovery
  <2>3. QED
    BY <2>1, <2>2
<1>3. QED
  BY <1>1, <1>2, BaseInvariant, PTL DEF Spec

(* A recovery run only ever holds failures that its source run recorded as  *)
(* retryable, whatever becomes of the source run meanwhile.                 *)
THEOREM RecoveryIsOfRetryable == Spec => []RecoverySelectsRetryable
<1>1. Base /\ Recovering => RecoverySelectsRetryable
  <2> SUFFICES ASSUME Base, Recovering, NEW r \in RunIds, Exists(r), IsRecovery(r),
                      NEW k \in DOMAIN manifestFile[r].configuration.selected
               PROVE  LET c      == manifestFile[r].configuration
                          source == manifestFile[c.recoveryOf]
                      IN /\ c.selected[k] \in WithOutcome(source, "quarantined")
                         /\ source.records[c.selected[k]].retryable
    BY DEF RecoverySelectsRetryable
  <2>1. manifestFile[r].configuration \in Configuration
    BY DEF Base, TypeOK, Exists, Manifest
  <2>2. manifestFile[r].configuration.selected[k] \in 1..CandidateLimit
    BY <2>1, SelectedPositions
  <2>3. QED
    BY <2>2 DEF Recovering, Selectable, Eligible, WithOutcome, Settled
<1>2. QED
  BY <1>1, RecoveringInvariant, BaseInvariant, PTL

-----------------------------------------------------------------------------
(* Completed runs                                                          *)

(* Where the process works on a run, that run is not completed: only after  *)
(* the last save, or on the way out, may it be.                             *)
Ending == {"idle", "returning", "failing", "interrupting", "unhandled"}

Unfinished == pc \notin Ending => manifestFile[run].status # "completed"

(* A saved manifest has its new status, and its run goes on only with that. *)
LEMMA SavedStatus ==
  ASSUME Base, Unfinished, pc \in Working, pc \notin Ending,
         NEW m \in Manifest, NEW then, SaveManifest(m, then), run' = run,
         m.status # "completed" \/ then \in Ending
  PROVE  Unfinished'
<1>1. run \in RunIds /\ manifestFile \in [RunIds -> Manifest \cup {NoFile}]
  BY DEF Base, TypeOK, Loaded, Working
<1>2. CASE pc' = then /\ manifestFile' = [manifestFile EXCEPT ![run] = m]
  BY <1>1, <1>2 DEF Unfinished
<1>3. CASE manifestFile' = manifestFile
  BY <1>3 DEF Unfinished
<1>4. QED
  BY <1>2, <1>3 DEF SaveManifest, Reject

(* A step that leaves the manifests and the run alone, on the way to an end *)
(* or from a place that was no end.                                         *)
LEMMA UnsavedStatus ==
  ASSUME Unfinished, manifestFile' = manifestFile,
         pc' \in Ending \/ (run' = run /\ pc \notin Ending)
  PROVE  Unfinished'
BY DEF Unfinished

LEMMA UpdatedStatus ==
  ASSUME NEW m \in Manifest
  PROVE  /\ \A s \in Statuses, b \in BOOLEAN :
              [m EXCEPT !.status = s, !.finished = b].status = s
         /\ [m EXCEPT !.search_request_count = @ + 1].status = m.status
         /\ [m EXCEPT !.record_request_count = @ + 1].status = m.status
         /\ \A k : [m EXCEPT !.status = "running",
                             !.candidate_count = k].status = "running"
         /\ \A i, e, j, k, l :
              [m EXCEPT !.records[i] = e,
                        !.created_count = @ + j,
                        !.existing_count = @ + k,
                        !.quarantined_count = @ + l].status = m.status
BY DEF Manifest

LEMMA NextKeepsUnfinished ==
  ASSUME Base, Unfinished, Next
  PROVE  Unfinished'
<1> USE DEF Ending
<1>1. CASE Operator
  <2>1. ASSUME NEW r \in RunIds, NEW c \in Configuration, CreateRun(r, c)
        PROVE  Unfinished'
    BY <2>1 DEF CreateRun, Unfinished, NewManifest, Base, TypeOK
  <2>2. ASSUME NEW r \in RunIds, StartRun(r) PROVE Unfinished'
    <3>1. [recoveryOf |-> NoRun, selected |-> <<>>] \in Configuration
      BY DEF Configuration
    <3>2. QED
      BY <2>1, <2>2, <3>1 DEF StartRun
  <2>3. ASSUME NEW r \in RunIds, ResumeRun(r) PROVE Unfinished'
    BY <2>3 DEF ResumeRun, Unfinished, disk
  <2>4. ASSUME NEW r \in RunIds, NEW source \in RunIds,
               NEW selected \in Selections, StartRecovery(r, source, selected)
        PROVE  Unfinished'
    <3>1. [recoveryOf |-> source, selected |-> selected] \in Configuration
      BY SelectionsAreSequences DEF Configuration
    <3>2. QED
      BY <2>1, <2>4, <3>1 DEF StartRecovery
  <2>5. QED
    BY <1>1, <2>2, <2>3, <2>4 DEF Operator
<1>2. CASE Return \/ Crash \/ Interrupt \/ Raise \/ FailRun \/ InterruptRun
  BY <1>2 DEF Return, Crash, Interrupt, Raise, FailRun, InterruptRun, EndRun,
              Exit, Unfinished
<1>3. ASSUME UNCHANGED manifestFile, run' = run, pc \notin Ending
      PROVE  Unfinished'
  BY <1>3, UnsavedStatus
<1>4. CASE CreateCheckpoint \/ SearchIsComplete \/ SearchAnswers
           \/ SearchFails \/ CaptureIsDone \/ RecordAnswers \/ RecordFails
           \/ GiveUpRecord \/ StoreObject \/ StoreFails \/ GiveUpSearch
           \/ StoreQuarantine
  BY <1>3, <1>4 DEF CreateCheckpoint, SearchIsComplete, SearchAnswers,
     SearchFails, CaptureIsDone, RecordAnswers, RecordFails, GiveUpRecord,
     StoreObject, StoreFails, GiveUpSearch, StoreQuarantine, disk, memory
<1>5. CASE SaveSelection \/ ReplayPage \/ SavePageCheckpoint \/ SkipSettled
           \/ SaveRecordCheckpoint
  BY <1>3, <1>5 DEF SaveSelection, ReplayPage, SavePageCheckpoint, SkipSettled,
     SaveRecordCheckpoint, SaveCheckpoint, Reject
<1>6. ASSUME pc \in Working, pc \notin Ending
      PROVE  /\ manifest \in Manifest
             /\ manifest.status # "completed"
  BY <1>6 DEF Base, Loaded, Working, Unfinished
<1>7. CASE MarkRunning \/ MarkRecovering
  <2>1. PICK m, then :
          /\ SaveManifest(m, then)
          /\ m \in Manifest
          /\ m.status # "completed"
    <3>1. manifest \in Manifest /\ "running" \in Statuses
      BY <1>7 DEF MarkRunning, MarkRecovering, Base, Loaded, Statuses
    <3>2. CASE MarkRunning
      <4> DEFINE m == [manifest EXCEPT !.status = "running", !.finished = FALSE]
      <4>1. m \in Manifest /\ m.status # "completed"
        BY <3>1, ManifestUpdates, UpdatedStatus
      <4>2. QED
        BY <3>2, <4>1 DEF MarkRunning
    <3>3. CASE MarkRecovering
      <4> DEFINE count == Len(manifest.configuration.selected)
      <4>1. count \in Nat
        BY <3>1 DEF Manifest, Configuration
      <4>2. /\ [manifest EXCEPT !.status = "running",
                                !.candidate_count = count] \in Manifest
            /\ [manifest EXCEPT !.status = "running",
                                !.candidate_count = count].status # "completed"
        BY <3>1, <4>1, ManifestUpdates, UpdatedStatus
      <4>3. QED
        BY <3>3, <4>2 DEF MarkRecovering
    <3>4. QED
      BY <1>7, <3>2, <3>3
  <2>2. run' = run /\ pc \in Working /\ pc \notin Ending
    BY <1>7 DEF MarkRunning, MarkRecovering, Working, Points
  <2>3. QED
    BY <2>1, <2>2, SavedStatus
<1>8. CASE BeginSearch \/ RetrySearch
  <2>1. run' = run /\ pc \in Working /\ pc \notin Ending
    BY <1>8 DEF BeginSearch, RetrySearch, Working, Points, InTry
  <2>2. CASE UNCHANGED manifestFile
    BY <1>3, <2>1, <2>2
  <2>3. CASE \E n : ReserveSearch(n)
    <3> DEFINE m == [manifest EXCEPT !.search_request_count = @ + 1]
    <3>1. m \in Manifest /\ m.status # "completed"
      BY <1>6, <2>1, ManifestUpdates, UpdatedStatus
    <3> HIDE DEF m
    <3>2. CASE SaveManifest(m, "call_search")
      BY <2>1, <3>1, <3>2, SavedStatus
    <3>3. QED
      BY <1>3, <2>1, <2>3, <3>2
         DEF ReserveSearch, Reserve, SaveCheckpoint, Reject, m
  <2>4. QED
    BY <1>8, <2>2, <2>3 DEF BeginSearch, RetrySearch, Reject
<1>9. CASE BeginRecord \/ RetryRecord
  <2>1. run' = run /\ pc \in Working /\ pc \notin Ending
    BY <1>9 DEF BeginRecord, RetryRecord, Working, Points, InTry
  <2> DEFINE m == [manifest EXCEPT !.record_request_count = @ + 1]
  <2>2. m \in Manifest /\ m.status # "completed"
    BY <1>6, <2>1, ManifestUpdates, UpdatedStatus
  <2> HIDE DEF m
  <2>3. CASE SaveManifest(m, "call_record")
    BY <2>1, <2>2, <2>3, SavedStatus
  <2>4. QED
    BY <1>3, <1>9, <2>1, <2>3
       DEF BeginRecord, RetryRecord, ReserveRecord, Reserve, m
<1>10. CASE SavePage
  <2> DEFINE entry == [cursor        |-> checkpoint.next_cursor,
                       next_cursor   |-> held.checkpoint.next_cursor,
                       candidate_ids |-> held.new_candidate_ids]
             m == [manifest EXCEPT
                     !.pages[PageNumber] = entry,
                     !.candidate_count = Len(held.checkpoint.candidates)]
  <2>1. /\ run' = run
        /\ pc \in Working
        /\ pc \notin Ending
        /\ held \in HeldPage
        /\ checkpoint \in Checkpoint
    BY <1>10 DEF SavePage, Base, InHand, Loaded, Working, Points, InTry
  <2>2. Len(held.checkpoint.candidates) \in Nat /\ PageNumber \in Nat
    BY <2>1 DEF HeldPage, Checkpoint, PageNumber
  <2>3. CASE entry \in PageEntry /\ SaveManifest(m, "save_page_checkpoint")
    <3> HIDE DEF entry
    <3>1. manifest \in Manifest /\ manifest.status # "completed"
      BY <1>6, <2>1
    <3>2. m \in Manifest
      BY <2>2, <2>3, <3>1, PageAppended
    <3>3. m.status = manifest.status
      BY <3>1 DEF Manifest
    <3> HIDE DEF m
    <3>4. QED
      BY <2>1, <2>3, <3>1, <3>2, <3>3, SavedStatus
  <2>4. CASE Reject
    BY <1>3, <2>1, <2>4 DEF Reject
  <2>5. QED
    BY <1>10, <2>3, <2>4 DEF SavePage
<1>11. CASE SaveRecord \/ SaveQuarantine
  <2>1. /\ run' = run
        /\ pc \in Working
        /\ pc \notin Ending
        /\ MoreCandidates
    BY <1>11 DEF SaveRecord, SaveQuarantine, Base, InHand, AtRecord, Working,
                 Points, InTry
  <2>2. Position \in Nat /\ RecordId \in Records
    BY <2>1, CandidateInTurn
  <2>3. PICK e \in RecordEntry : SaveEntry(e)
    BY <1>11, <2>2 DEF SaveRecord, SaveQuarantine, RecordEntry, Base, InHand,
                       HeldStored, HeldFailure
  <2>4. /\ Tally(e, "created") \in Nat
        /\ Tally(e, "already_present") \in Nat
        /\ Tally(e, "quarantined") \in Nat
    BY DEF Tally
  <2>5. EntryAppended(e) \in Manifest
    BY <1>6, <2>1, <2>2, <2>4, RecordAppended DEF EntryAppended
  <2>6. EntryAppended(e).status = manifest.status
    BY <1>6, <2>1, UpdatedStatus DEF EntryAppended
  <2>7. CASE Reject
    BY <1>3, <2>1, <2>7 DEF Reject
  <2>8. CASE SaveManifest(EntryAppended(e), "save_record_checkpoint")
    BY <1>6, <2>1, <2>5, <2>6, <2>8, SavedStatus
  <2>9. QED
    BY <2>3, <2>7, <2>8 DEF SaveEntry
<1>12. CASE Complete
  <2>1. pc \in Working /\ pc \notin Ending /\ run' = run
    BY <1>12 DEF Complete, Working, Points, InTry
  <2>2. "completed" \in Statuses
    BY DEF Statuses
  <2>3. [manifest EXCEPT !.status = "completed", !.finished = TRUE] \in Manifest
    BY <1>6, <2>1, <2>2, ManifestUpdates
  <2>4. QED
    BY <1>12, <2>1, <2>3, SavedStatus DEF Complete
<1>13. QED
  BY <1>1, <1>2, <1>4, <1>5, <1>7, <1>8, <1>9, <1>10, <1>11, <1>12
     DEF Next, Process, Prologue, Collect, Capture, Finish, Disruption

LEMMA UnfinishedInvariant == Spec => []Unfinished
<1>1. Init => Unfinished
  BY DEF Init, Unfinished, Ending
<1>2. Base /\ Unfinished /\ [Next]_vars => Unfinished'
  <2> SUFFICES ASSUME Base, Unfinished, [Next]_vars
               PROVE  Unfinished'
    OBVIOUS
  <2>1. CASE Next
    BY <2>1, NextKeepsUnfinished
  <2>2. CASE UNCHANGED vars
    BY <2>2 DEF vars, disk, memory, Unfinished
  <2>3. QED
    BY <2>1, <2>2
<1>3. QED
  BY <1>1, <1>2, BaseInvariant, PTL DEF Spec

-----------------------------------------------------------------------------
(* One page further                                                        *)

(* A checkpoint the contract accepts, within the candidate limit, and with  *)
(* something left to ask for unless Search is complete.                     *)
Sound(c) ==
  /\ ValidCheckpoint(c)
  /\ Len(c.candidates) <= CandidateLimit
  /\ ~c.search_complete =>
       /\ Len(c.candidates) < CandidateLimit
       /\ c.next_cursor \notin ToSet(c.seen_cursors)

(* entry is what a page adds to c: new candidates, within the limit, and no *)
(* cursor that was used.                                                    *)
Follows(entry, c) ==
  /\ entry \in PageEntry
  /\ entry.cursor = c.next_cursor
  /\ IsInjective(c.candidates \o entry.candidate_ids)
  /\ Len(c.candidates \o entry.candidate_ids) <= CandidateLimit
  /\ entry.next_cursor \notin ToSet(Append(c.seen_cursors, c.next_cursor))

(* next is the checkpoint after c and the page of entry.                    *)
Advances(c, next, entry, count) ==
  /\ Sound(next)
  /\ next.candidates = c.candidates \o entry.candidate_ids
  /\ next.seen_cursors = Append(c.seen_cursors, c.next_cursor)
  /\ next.next_record_index = c.next_record_index
  /\ IF next.search_complete
     THEN \/ Len(next.candidates) = CandidateLimit
          \/ count >= PageLimit
          \/ entry.next_cursor = NoCursor
     ELSE next.next_cursor = entry.next_cursor

(* after is a sound checkpoint, one page further, that stops when it should.*)
Applied(after, c, ids, next, count) ==
  /\ Sound(after)
  /\ after.candidates = c.candidates \o ids
  /\ after.seen_cursors = Append(c.seen_cursors, c.next_cursor)
  /\ after.next_record_index = c.next_record_index
  /\ after.search_complete <=>
       StopsAfter(after.candidates, after.seen_cursors, next, count)
  /\ after.next_cursor = IF after.search_complete THEN NoCursor ELSE next

(* That is what PageApplied builds, whatever the successor.                 *)
LEMMA PageIsApplied ==
  ASSUME NEW c, Sound(c), ~c.search_complete,
         NEW ids \in Seq(Records),
         IsInjective(c.candidates \o ids),
         Len(c.candidates \o ids) <= CandidateLimit,
         NEW next \in Cursors \cup {NoCursor}, NEW count \in Nat
  PROVE  Applied(PageApplied(c, ids, next, count), c, ids, next, count)
<1> DEFINE after == PageApplied(c, ids, next, count)
           seen  == Append(c.seen_cursors, c.next_cursor)
           both  == c.candidates \o ids
           stops == StopsAfter(both, seen, next, count)
<1>1. /\ c \in Checkpoint
      /\ c.candidates \in Seq(Records)
      /\ c.seen_cursors \in Seq(Cursors)
      /\ c.next_record_index \in Nat
      /\ c.next_record_index <= Len(c.candidates)
      /\ c.next_cursor \in Cursors
  BY DEF Sound, ValidCheckpoint, Checkpoint
<1>2. /\ both \in Seq(Records)
      /\ Len(both) = Len(c.candidates) + Len(ids)
  BY <1>1
<1>3. /\ seen \in Seq(Cursors)
      /\ IsInjective(seen)
  BY <1>1, AppendNew DEF Sound, ValidCheckpoint
<1>4. stops \in BOOLEAN
  BY DEF StopsAfter
<1>5. /\ after.candidates = both
      /\ after.seen_cursors = seen
      /\ after.next_record_index = c.next_record_index
      /\ after.search_complete = stops
      /\ after.next_cursor = IF stops THEN NoCursor ELSE next
  BY <1>1 DEF PageApplied, Checkpoint
<1>6. after \in Checkpoint
  <2> HIDE DEF both, seen, stops
  <2>1. after = [c EXCEPT !.candidates = both,
                          !.seen_cursors = seen,
                          !.next_cursor = IF stops THEN NoCursor ELSE next,
                          !.search_complete = stops]
    BY DEF PageApplied, both, seen, stops
  <2> HIDE DEF after
  <2>2. QED
    BY <1>1, <1>2, <1>3, <1>4, <2>1 DEF Checkpoint
<1> HIDE DEF after
<1>7. stops <=> \/ Len(both) >= CandidateLimit
                \/ count >= PageLimit
                \/ next = NoCursor
                \/ next \in ToSet(seen)
  BY DEF StopsAfter
<1> HIDE DEF both, seen, stops
<1>8. ValidCheckpoint(after)
  <2>1. IsInjective(after.candidates) /\ IsInjective(after.seen_cursors)
    BY <1>3, <1>5 DEF both
  <2>2. after.next_record_index <= Len(after.candidates)
    BY <1>1, <1>2, <1>5
  <2>3. after.search_complete <=> after.next_cursor = NoCursor
    BY <1>5, <1>7
  <2>4. QED
    BY <1>6, <2>1, <2>2, <2>3 DEF ValidCheckpoint
<1>9. Sound(after)
  <2>1. Len(both) \in Nat /\ Len(both) <= CandidateLimit
    BY <1>2 DEF both
  <2>2. QED
    BY <1>5, <1>7, <1>8, <2>1, LimitsAssumption DEF Sound
<1>10. QED
  BY <1>4, <1>5, <1>9 DEF Applied, after, both, seen, stops

(* A provider page makes an entry that follows c and a checkpoint that      *)
(* advances it: what advance_cursor promises.                               *)
LEMMA PageAdvances ==
  ASSUME NEW c, Sound(c), ~c.search_complete,
         NEW page, page.items \in Seq(Records),
         page.next_cursor \in Cursors \cup {NoCursor}, NEW count \in Nat
  PROVE  LET a     == AdvanceCursor(c, page, count)
             entry == [cursor        |-> c.next_cursor,
                       next_cursor   |-> a.checkpoint.next_cursor,
                       candidate_ids |-> a.new_candidate_ids]
         IN /\ ValidAdvance(a)
            /\ Follows(entry, c)
            /\ Advances(c, a.checkpoint, entry, count)
<1> DEFINE ids   == Unknown(c.candidates, page.items, CandidateLimit)
           next  == page.next_cursor
           after == PageApplied(c, ids, next, count)
           seen  == Append(c.seen_cursors, c.next_cursor)
           entry == [cursor        |-> c.next_cursor,
                     next_cursor   |-> after.next_cursor,
                     candidate_ids |-> ids]
<1>1. /\ c.candidates \in Seq(Records)
      /\ IsInjective(c.candidates)
      /\ Len(c.candidates) <= CandidateLimit
      /\ c.next_cursor \in Cursors
      /\ CandidateLimit \in Nat
  BY LimitsAssumption DEF Sound, ValidCheckpoint, Checkpoint
<1>2. /\ ids \in Seq(Records)
      /\ IsInjective(c.candidates \o ids)
      /\ Len(c.candidates \o ids) <= CandidateLimit
  BY <1>1, UnknownAreNew
<1>3. /\ AdvanceCursor(c, page, count).checkpoint = after
      /\ AdvanceCursor(c, page, count).new_candidate_ids = ids
  BY DEF AdvanceCursor
<1> HIDE DEF ids
<1>4. Applied(after, c, ids, next, count)
  BY <1>2, PageIsApplied
<1> HIDE DEF after
<1>5. after.next_cursor \notin ToSet(seen)
  <2>1. NoCursor \notin ToSet(seen)
    <3>1. seen \in Seq(Cursors)
      BY <1>1 DEF Sound, ValidCheckpoint, Checkpoint
    <3>2. QED
      BY <3>1, CursorsAssumption DEF ToSet
  <2>2. QED
    BY <1>4, <2>1 DEF Applied, StopsAfter
<1>6. after.next_cursor \in Cursors \cup {NoCursor}
  BY <1>4 DEF Applied, Sound, ValidCheckpoint, Checkpoint
<1>7. Follows(entry, c)
  BY <1>1, <1>2, <1>5, <1>6 DEF Follows, PageEntry
<1>8. Advances(c, after, entry, count)
  BY <1>4 DEF Applied, Advances
<1>9. QED
  BY <1>2, <1>3, <1>4, <1>7, <1>8 DEF ValidAdvance, Applied, Sound

(* So does replaying an entry that follows c, with a later request count:   *)
(* what _reconcile_search_entry promises.                                   *)
LEMMA ReplayAdvances ==
  ASSUME NEW c, Sound(c), ~c.search_complete, NEW entry, Follows(entry, c),
         NEW count \in Nat
  PROVE  Advances(c, ReconcileEntry(c, entry, count), entry, count)
<1> DEFINE ids   == entry.candidate_ids
           next  == entry.next_cursor
           after == PageApplied(c, ids, next, count)
           seen  == Append(c.seen_cursors, c.next_cursor)
<1>1. /\ c.candidates \in Seq(Records)
      /\ ids \in Seq(Records)
      /\ next \in Cursors \cup {NoCursor}
      /\ IsInjective(c.candidates \o ids)
      /\ Len(c.candidates \o ids) <= CandidateLimit
      /\ next \notin ToSet(seen)
  BY DEF Sound, ValidCheckpoint, Checkpoint, Follows, PageEntry
<1>2. NewInEntry(c, entry) = ids
  BY <1>1, UnknownIsAll DEF NewInEntry
<1>3. ReconcileEntry(c, entry, count) = after
  BY <1>2 DEF ReconcileEntry
<1>4. Applied(after, c, ids, next, count)
  BY <1>1, PageIsApplied
<1> HIDE DEF after
<1>5. after.search_complete =>
        \/ Len(c.candidates \o ids) = CandidateLimit
        \/ count >= PageLimit
        \/ next = NoCursor
  <2> HIDE DEF ids, next, seen
  <2>1. Len(c.candidates \o ids) \in Nat
    BY <1>1
  <2>2. /\ after.candidates = c.candidates \o ids
        /\ after.seen_cursors = seen
    BY <1>4 DEF Applied, seen
  <2>3. QED
    BY <1>1, <1>4, <2>1, <2>2, LimitsAssumption DEF Applied, StopsAfter
<1>6. QED
  BY <1>3, <1>4, <1>5 DEF Applied, Advances

-----------------------------------------------------------------------------
(* The two documents of a run                                              *)

(* The cursor that the page after the first n asks for.                     *)
CursorAfter(m, n) == IF n = 0 THEN StartCursor ELSE m.pages[n].next_cursor

(* The pages that m holds are those that c has seen, or the next one too.   *)
SeenAll(m, c) == Captured(m) = 1..Len(c.seen_cursors)

OneAhead(m, c) ==
  /\ ~c.search_complete
  /\ Captured(m) = 1..(Len(c.seen_cursors) + 1)
  /\ Follows(m.pages[Len(c.seen_cursors) + 1], c)

(* c is what the pages of m that it has seen make it.                       *)
Listed(m, c) ==
  /\ c.candidates = PageIds(m, Len(c.seen_cursors))
  /\ \A n \in 1..Len(c.seen_cursors) : c.seen_cursors[n] = m.pages[n].cursor
  /\ ~c.search_complete => c.next_cursor = CursorAfter(m, Len(c.seen_cursors))
  /\ SeenAll(m, c) \/ OneAhead(m, c)

(* Or c holds the selection of a recovery.                                  *)
Chosen(m, c, selection) ==
  /\ m.configuration.recoveryOf # NoRun
  /\ c.search_complete
  /\ c.seen_cursors = <<>>
  /\ Captured(m) = {}
  /\ c.candidates = selection

(* The records that m settles are those that c has passed, or the next one  *)
(* too, each under the identifier of its candidate.                         *)
Recorded(m, c) ==
  /\ \/ Settled(m) = 1..c.next_record_index
     \/ Settled(m) = 1..(c.next_record_index + 1)
  /\ \A i \in Settled(m) :
       /\ c.search_complete
       /\ i <= Len(c.candidates)
       /\ m.records[i].record_id = c.candidates[i]

Agree(m, c, selection) ==
  /\ Sound(c)
  /\ Listed(m, c) \/ Chosen(m, c, selection)
  /\ Recorded(m, c)

Empty(m) == Captured(m) = {} /\ Settled(m) = {}

Accounted(m, c) ==
  /\ c.search_complete
  /\ \/ Settled(m) = 1..Len(c.candidates)
     \/ m.record_request_count = RecordLimit

(* What holds of the files of run r.                                        *)
Consistent(r, m, c, selection) ==
  /\ ValidManifest(m)
  /\ ValidConfiguration(r, m.configuration)
  /\ Len(m.configuration.selected) <= CandidateLimit
  /\ IF c # NoFile THEN Agree(m, c, selection) ELSE Empty(m)
  /\ m.status = "completed" => c # NoFile /\ Accounted(m, c)

SelectionOf(r) == SelectedRecords(manifestFile[r].configuration)

DocumentsAgree ==
  \A r \in RunIds : Exists(r) =>
    Consistent(r, manifestFile[r], checkpointFile[r], SelectionOf(r))

-----------------------------------------------------------------------------
(* What the process holds between two writes                               *)

HeldEntry ==
  [cursor        |-> checkpoint.next_cursor,
   next_cursor   |-> held.checkpoint.next_cursor,
   candidate_ids |-> held.new_candidate_ids]

Selecting ==
  /\ pc \in {"create_checkpoint", "mark_recovering"} =>
       manifest.status = "planned"
  /\ pc \in {"mark_recovering", "save_selection"} =>
       /\ manifest.configuration.recoveryOf # NoRun
       /\ checkpoint = NewCheckpoint
       /\ Empty(manifest)

(* While a page is asked for, one more request is booked than pages seen.   *)
AskingForPage ==
  pc \in {"call_search", "backoff_search", "save_page"} =>
    /\ ~checkpoint.search_complete
    /\ SeenAll(manifest, checkpoint)
    /\ Len(checkpoint.seen_cursors) < manifest.search_request_count

PageInHand ==
  /\ pc \in {"save_page", "save_page_checkpoint"} =>
       /\ Advances(checkpoint, held.checkpoint, HeldEntry,
                   manifest.search_request_count)
       /\ Follows(HeldEntry, checkpoint)
  /\ pc = "save_page_checkpoint" =>
       /\ ~checkpoint.search_complete
       /\ PageIsCaptured
       /\ manifest.pages[PageNumber] = HeldEntry

AskingFor ==
  {"call_record", "backoff_record", "store_object", "save_record",
   "store_quarantine", "save_quarantine"}

(* While a record is asked for, one more request is booked than settled.    *)
AskingForRecord ==
  /\ pc \in AtRecord \cup {"capture", "finish"} => checkpoint.search_complete
  /\ pc \in AskingFor =>
       /\ Settled(manifest) = 1..checkpoint.next_record_index
       /\ checkpoint.next_record_index < manifest.record_request_count
  /\ pc = "save_record_checkpoint" => Settled(manifest) = 1..Position
  /\ pc = "finish" =>
       ~MoreCandidates \/ manifest.record_request_count = RecordLimit

InProgress ==
  /\ Selecting
  /\ AskingForPage
  /\ PageInHand
  /\ AskingForRecord
  /\ InternalChecksNeverTrip

Replayable == DocumentsAgree /\ InProgress

-----------------------------------------------------------------------------
(* The identifiers that pages contribute                                   *)

(* Only the pages counted matter.                                           *)
LEMMA SamePagesSameIds ==
  ASSUME NEW m, NEW new, NEW n \in Nat,
         \A k \in 1..n : new.pages[k] = m.pages[k]
  PROVE  PageIds(new, n) = PageIds(m, n)
<1>1. [k \in 1..n |-> new.pages[k].candidate_ids]
        = [k \in 1..n |-> m.pages[k].candidate_ids]
  BY Zenon
<1>2. QED
  BY <1>1 DEF PageIds

LEMMA NoPagesNoIds == \A m : PageIds(m, 0) = <<>>
<1> SUFFICES ASSUME NEW m PROVE PageIds(m, 0) = <<>>
  OBVIOUS
<1> DEFINE s == [k \in 1..0 |-> m.pages[k].candidate_ids]
<1>1. s = <<>> /\ Len(s) = 0
  OBVIOUS
<1>2. QED
  BY <1>1 DEF PageIds, FlattenSeq

(* Another page adds its own at the end.                                    *)
LEMMA OneMorePage ==
  ASSUME NEW m, NEW n \in Nat, m.pages[n + 1] \in PageEntry
  PROVE  PageIds(m, n + 1) = PageIds(m, n) \o m.pages[n + 1].candidate_ids
<1> DEFINE s == [k \in Nat |-> m.pages[k].candidate_ids]
<1>1. ASSUME NEW k \in Nat
      PROVE  First(s, k) = [i \in 1..k |-> m.pages[i].candidate_ids]
  BY DEF First
<1>2. s[n + 1] \in Seq(Records)
  BY DEF PageEntry
<1>3. s[n + 1] = m.pages[n + 1].candidate_ids
  OBVIOUS
<1> HIDE DEF s
<1>4. FlattenSeq(First(s, n + 1)) = FlattenSeq(First(s, n)) \o s[n + 1]
  BY <1>2, FlattenOneMore
<1>5. FlattenSeq(First(s, n)) = PageIds(m, n)
  BY <1>1 DEF PageIds
<1>6. FlattenSeq(First(s, n + 1)) = PageIds(m, n + 1)
  <2>1. n + 1 \in Nat
    OBVIOUS
  <2>2. QED
    BY <1>1, <2>1 DEF PageIds
<1>7. QED
  BY <1>3, <1>4, <1>5, <1>6

-----------------------------------------------------------------------------
(* What keeps the documents in agreement                                   *)

LEMMA SoundParts ==
  ASSUME NEW c, Sound(c)
  PROVE  /\ c \in Checkpoint
         /\ c.candidates \in Seq(Records)
         /\ Len(c.candidates) \in Nat
         /\ Len(c.candidates) <= CandidateLimit
         /\ c.seen_cursors \in Seq(Cursors)
         /\ Len(c.seen_cursors) \in Nat
         /\ c.next_record_index \in Nat
         /\ c.next_record_index <= Len(c.candidates)
         /\ c.search_complete \in BOOLEAN
BY DEF Sound, ValidCheckpoint, Checkpoint

(* A manifest whose entries stay.                                           *)
LEMMA SameEntriesAgree ==
  ASSUME NEW m, NEW new, NEW c, NEW selection, Agree(m, c, selection),
         SameEntries(m, new), new.configuration = m.configuration
  PROVE  Agree(new, c, selection)
<1>1. /\ Captured(new) = Captured(m)
      /\ Settled(new) = Settled(m)
      /\ \A n : PageIds(new, n) = PageIds(m, n)
      /\ \A n : CursorAfter(new, n) = CursorAfter(m, n)
      /\ new.pages = m.pages
      /\ new.records = m.records
  BY DEF SameEntries, Captured, Settled, PageIds, CursorAfter
<1>2. Recorded(new, c)
  BY <1>1 DEF Agree, Recorded
<1>3. CASE Listed(m, c)
  <2>1. Listed(new, c)
    BY <1>1, <1>3 DEF Listed, SeenAll, OneAhead
  <2>2. QED
    BY <1>2, <2>1 DEF Agree
<1>4. CASE Chosen(m, c, selection)
  BY <1>1, <1>2, <1>4 DEF Agree, Chosen
<1>5. QED
  BY <1>3, <1>4 DEF Agree

(* Before the checkpoint sees it, a new page is one ahead.                  *)
LEMMA NewPageAgrees ==
  ASSUME NEW m \in Manifest, NEW new, NEW c, NEW selection, NEW entry,
         Agree(m, c, selection), ~c.search_complete, SeenAll(m, c),
         Follows(entry, c), Len(c.seen_cursors) + 1 <= PageLimit,
         new.pages = [m.pages EXCEPT ![Len(c.seen_cursors) + 1] = entry],
         new.records = m.records
  PROVE  /\ Agree(new, c, selection)
         /\ Captured(new) = 1..(Len(c.seen_cursors) + 1)
<1>1. PICK n \in Nat : n = Len(c.seen_cursors)
  BY SoundParts DEF Agree
<1>2. n + 1 \in 1..PageLimit /\ PageLimit \in Nat
  BY <1>1, LimitsAssumption
<1>3. /\ m.pages \in [1..PageLimit -> PageEntry \cup {NoEntry}]
      /\ entry \in PageEntry /\ entry # NoEntry
  BY AbsenceAssumption DEF Manifest, Follows
<1>4. /\ new.pages[n + 1] = entry
      /\ \A k \in 1..PageLimit : k # n + 1 => new.pages[k] = m.pages[k]
      /\ \A k \in 1..n : new.pages[k] = m.pages[k]
  BY <1>1, <1>2, <1>3
<1>5. Captured(m) = 1..n
  BY <1>1 DEF SeenAll
<1>6. Captured(new) = 1..(n + 1)
  <2>1. Captured(new) = Captured(m) \cup {n + 1}
    BY <1>2, <1>3, <1>4 DEF Captured
  <2>2. QED
    BY <1>2, <1>5, <2>1
<1>7. /\ PageIds(new, n) = PageIds(m, n)
      /\ CursorAfter(new, n) = CursorAfter(m, n)
  <2>1. PageIds(new, n) = PageIds(m, n)
    BY <1>4, SamePagesSameIds
  <2>2. n = 0 \/ n \in 1..n
    OBVIOUS
  <2>3. CursorAfter(new, n) = CursorAfter(m, n)
    BY <1>4, <2>2 DEF CursorAfter
  <2>4. QED
    BY <2>1, <2>3
<1>8. Listed(m, c)
  BY DEF Agree, Chosen
<1>9. OneAhead(new, c)
  BY <1>1, <1>4, <1>6 DEF OneAhead
<1>10. Listed(new, c)
  BY <1>1, <1>4, <1>7, <1>8, <1>9 DEF Listed
<1>11. Recorded(new, c)
  BY DEF Agree, Recorded, Settled
<1>12. QED
  BY <1>1, <1>4, <1>6, <1>10, <1>11 DEF Agree

(* The page after those that c has seen is the one ahead.                   *)
LEMMA NextPageIsAhead ==
  ASSUME NEW m \in Manifest, NEW c, NEW selection, Agree(m, c, selection),
         ~c.search_complete
  PROVE  IF /\ Len(c.seen_cursors) + 1 <= PageLimit
            /\ m.pages[Len(c.seen_cursors) + 1] # NoEntry
         THEN OneAhead(m, c)
         ELSE SeenAll(m, c)
<1>1. PICK n \in Nat : n = Len(c.seen_cursors)
  BY SoundParts DEF Agree
<1>2. SeenAll(m, c) \/ OneAhead(m, c)
  BY DEF Agree, Chosen, Listed
<1>3. CASE SeenAll(m, c)
  <2>1. n + 1 \notin Captured(m)
    BY <1>1, <1>3 DEF SeenAll
  <2>2. n + 1 \in 1..PageLimit => m.pages[n + 1] = NoEntry
    BY <2>1 DEF Captured
  <2>3. QED
    BY <1>1, <1>3, <2>2, LimitsAssumption
<1>4. CASE OneAhead(m, c)
  <2>1. n + 1 \in Captured(m)
    BY <1>1, <1>4 DEF OneAhead
  <2>2. n + 1 \in 1..PageLimit /\ m.pages[n + 1] # NoEntry
    BY <2>1 DEF Captured
  <2>3. QED
    BY <1>1, <1>4, <2>2, LimitsAssumption
<1>5. QED
  BY <1>2, <1>3, <1>4

(* A checkpoint that moves past the page ahead is again what the pages make *)
(* it, whether from memory or by replay.                                    *)
LEMMA AdvancedAgrees ==
  ASSUME NEW m \in Manifest, NEW c, NEW next, NEW selection,
         Agree(m, c, selection), OneAhead(m, c),
         Advances(c, next, m.pages[Len(c.seen_cursors) + 1],
                  m.search_request_count)
  PROVE  Agree(m, next, selection)
<1>1. PICK n \in Nat : n = Len(c.seen_cursors)
  BY SoundParts DEF Agree
<1> DEFINE entry == m.pages[n + 1]
<1>2. /\ ~c.search_complete
      /\ Captured(m) = 1..(n + 1)
      /\ Follows(entry, c)
  BY <1>1 DEF OneAhead
<1>3. /\ Sound(next)
      /\ next.candidates = c.candidates \o entry.candidate_ids
      /\ next.seen_cursors = Append(c.seen_cursors, c.next_cursor)
      /\ next.next_record_index = c.next_record_index
      /\ ~next.search_complete => next.next_cursor = entry.next_cursor
  BY <1>1 DEF Advances
<1>4. /\ entry \in PageEntry
      /\ entry.cursor = c.next_cursor
  BY <1>2 DEF Follows
<1>5. /\ Listed(m, c)
      /\ c.seen_cursors \in Seq(Cursors)
      /\ c.next_cursor \in Cursors
  BY <1>2 DEF Agree, Chosen, Sound, ValidCheckpoint, Checkpoint
<1>6. /\ Len(next.seen_cursors) = n + 1
      /\ \A k \in 1..n : next.seen_cursors[k] = c.seen_cursors[k]
      /\ next.seen_cursors[n + 1] = c.next_cursor
  BY <1>1, <1>3, <1>5
<1>7. next.candidates = PageIds(m, n + 1)
  BY <1>1, <1>3, <1>4, <1>5, OneMorePage DEF Listed
<1>8. \A k \in 1..(n + 1) : next.seen_cursors[k] = m.pages[k].cursor
  <2> SUFFICES ASSUME NEW k \in 1..(n + 1)
               PROVE  next.seen_cursors[k] = m.pages[k].cursor
    OBVIOUS
  <2>1. CASE k \in 1..n
    BY <1>1, <1>5, <1>6, <2>1 DEF Listed
  <2>2. CASE k = n + 1
    BY <1>4, <1>6, <2>2
  <2>3. QED
    BY <2>1, <2>2
<1>9. Listed(m, next)
  <2>1. ~next.search_complete => next.next_cursor = CursorAfter(m, n + 1)
    BY <1>3 DEF CursorAfter
  <2>2. QED
    BY <1>2, <1>6, <1>7, <1>8, <2>1 DEF Listed, SeenAll
<1>10. Recorded(m, next)
  BY <1>2, <1>3 DEF Agree, Recorded
<1>11. QED
  BY <1>3, <1>9, <1>10 DEF Agree

(* When the Search budget is spent, Search ends with what it has.           *)
LEMMA CeilingAgrees ==
  ASSUME NEW m, NEW c, NEW selection, Agree(m, c, selection),
         ~c.search_complete, SeenAll(m, c)
  PROVE  Agree(m, [c EXCEPT !.search_complete = TRUE,
                            !.next_cursor = NoCursor], selection)
<1> DEFINE next == [c EXCEPT !.search_complete = TRUE, !.next_cursor = NoCursor]
<1>1. c \in Checkpoint
  BY SoundParts DEF Agree
<1>2. /\ next \in Checkpoint
      /\ next.search_complete = TRUE
      /\ next.next_cursor = NoCursor
      /\ next.candidates = c.candidates
      /\ next.seen_cursors = c.seen_cursors
      /\ next.next_record_index = c.next_record_index
  BY <1>1 DEF Checkpoint
<1> HIDE DEF next
<1>3. Sound(next)
  BY <1>2 DEF Agree, Sound, ValidCheckpoint
<1>4. Listed(m, next)
  BY <1>2 DEF Agree, Chosen, Listed, SeenAll
<1>5. Recorded(m, next)
  BY <1>2 DEF Agree, Recorded
<1>6. QED
  BY <1>3, <1>4, <1>5 DEF Agree, next

(* A checkpoint that moves past a settled record.                           *)
LEMMA PastRecordAgrees ==
  ASSUME NEW m, NEW c, NEW selection, Agree(m, c, selection),
         Settled(m) = 1..(c.next_record_index + 1)
  PROVE  Agree(m, [c EXCEPT !.next_record_index = @ + 1], selection)
<1> DEFINE next == [c EXCEPT !.next_record_index = @ + 1]
<1>1. c \in Checkpoint /\ c.next_record_index \in Nat
  BY SoundParts DEF Agree
<1>2. c.next_record_index + 1 <= Len(c.candidates) /\ c.search_complete
  <2>1. c.next_record_index + 1 \in Settled(m)
    BY <1>1
  <2>2. QED
    BY <2>1 DEF Agree, Recorded
<1>3. /\ next \in Checkpoint
      /\ next.search_complete = c.search_complete
      /\ next.next_cursor = c.next_cursor
      /\ next.candidates = c.candidates
      /\ next.seen_cursors = c.seen_cursors
      /\ next.next_record_index = c.next_record_index + 1
  BY <1>1 DEF Checkpoint
<1> HIDE DEF next
<1>4. Sound(next)
  BY <1>2, <1>3 DEF Agree, Sound, ValidCheckpoint
<1>5. Listed(m, c) => Listed(m, next)
  BY <1>2, <1>3 DEF Listed, SeenAll, OneAhead
<1>6. Chosen(m, c, selection) => Chosen(m, next, selection)
  BY <1>3 DEF Chosen
<1>7. Recorded(m, next)
  BY <1>3 DEF Agree, Recorded
<1>8. QED
  BY <1>4, <1>5, <1>6, <1>7 DEF Agree, next

(* An entry for the candidate in turn.                                      *)
LEMMA NewRecordAgrees ==
  ASSUME NEW m \in Manifest, NEW new, NEW c, NEW selection, NEW entry,
         Agree(m, c, selection), c.search_complete,
         c.next_record_index < Len(c.candidates),
         Settled(m) = 1..c.next_record_index,
         entry \in RecordEntry,
         entry.record_id = c.candidates[c.next_record_index + 1],
         new.records = [m.records EXCEPT ![c.next_record_index + 1] = entry],
         new.pages = m.pages,
         new.configuration = m.configuration,
         new.search_request_count = m.search_request_count
  PROVE  /\ Agree(new, c, selection)
         /\ Settled(new) = 1..(c.next_record_index + 1)
<1>1. PICK i \in Nat : i = c.next_record_index
  BY SoundParts DEF Agree
<1>2. /\ i + 1 \in 1..CandidateLimit
      /\ i + 1 <= Len(c.candidates)
      /\ CandidateLimit \in Nat
  BY <1>1, SoundParts, LimitsAssumption DEF Agree
<1>3. /\ m.records \in [1..CandidateLimit -> RecordEntry \cup {NoEntry}]
      /\ entry # NoEntry
  BY AbsenceAssumption DEF Manifest
<1>4. /\ new.records[i + 1] = entry
      /\ \A k \in 1..CandidateLimit : k # i + 1 => new.records[k] = m.records[k]
  BY <1>1, <1>2, <1>3
<1>5. Settled(new) = 1..(i + 1)
  <2>1. Settled(new) = Settled(m) \cup {i + 1}
    BY <1>2, <1>3, <1>4 DEF Settled
  <2>2. QED
    BY <1>1, <2>1
<1>6. ASSUME NEW k \in Settled(new)
      PROVE  k <= Len(c.candidates) /\ new.records[k].record_id = c.candidates[k]
  <2>1. CASE k = i + 1
    BY <1>1, <1>2, <1>4, <2>1
  <2>2. CASE k # i + 1
    <3>1. k \in Settled(m) /\ k \in 1..CandidateLimit
      BY <1>1, <1>5, <2>2 DEF Settled
    <3>2. QED
      BY <1>4, <2>2, <3>1 DEF Agree, Recorded
  <2>3. QED
    BY <2>1, <2>2
<1>7. Recorded(new, c)
  BY <1>1, <1>5, <1>6 DEF Recorded
<1>8. /\ Captured(new) = Captured(m)
      /\ \A n : PageIds(new, n) = PageIds(m, n)
  BY DEF Captured, PageIds
<1>9. Listed(m, c) => Listed(new, c)
  BY <1>8 DEF Listed, SeenAll, OneAhead
<1>10. Chosen(m, c, selection) => Chosen(new, c, selection)
  BY <1>8 DEF Chosen
<1>11. QED
  BY <1>1, <1>5, <1>7, <1>9, <1>10 DEF Agree

(* The first checkpoint of a run without entries.                           *)
LEMMA NewCheckpointAgrees ==
  ASSUME NEW m, NEW selection, Empty(m)
  PROVE  Agree(m, NewCheckpoint, selection)
<1>1. /\ NewCheckpoint.candidates = <<>>
      /\ NewCheckpoint.seen_cursors = <<>>
      /\ NewCheckpoint.next_cursor = StartCursor
      /\ NewCheckpoint.search_complete = FALSE
      /\ NewCheckpoint.next_record_index = 0
      /\ NewCheckpoint \in Checkpoint
  BY NewDocuments DEF NewCheckpoint
<1>2. /\ Len(<<>>) = 0
      /\ IsInjective(<<>>)
      /\ StartCursor \notin ToSet(<<>>)
      /\ 1..0 = {}
  BY DEF IsInjective, ToSet
<1>3. Sound(NewCheckpoint)
  BY <1>1, <1>2, CursorsAssumption, LimitsAssumption DEF Sound, ValidCheckpoint
<1>4. Listed(m, NewCheckpoint)
  BY <1>1, <1>2, NoPagesNoIds DEF Empty, Listed, CursorAfter, SeenAll
<1>5. Recorded(m, NewCheckpoint)
  BY <1>1, <1>2 DEF Empty, Recorded
<1>6. QED
  BY <1>3, <1>4, <1>5 DEF Agree

(* The selection of a recovery, put in place of what Search would find.     *)
LEMMA SelectionAgrees ==
  ASSUME NEW m, NEW selection \in Seq(Records), Empty(m),
         m.configuration.recoveryOf # NoRun,
         IsInjective(selection), Len(selection) <= CandidateLimit
  PROVE  Agree(m, [NewCheckpoint EXCEPT !.candidates = selection,
                                        !.next_cursor = NoCursor,
                                        !.search_complete = TRUE], selection)
<1> DEFINE next == [NewCheckpoint EXCEPT !.candidates = selection,
                                         !.next_cursor = NoCursor,
                                         !.search_complete = TRUE]
<1>1. /\ next \in Checkpoint
      /\ next.candidates = selection
      /\ next.seen_cursors = <<>>
      /\ next.next_cursor = NoCursor
      /\ next.search_complete = TRUE
      /\ next.next_record_index = 0
  <2>1. /\ NewCheckpoint \in Checkpoint
        /\ NewCheckpoint.seen_cursors = <<>>
        /\ NewCheckpoint.next_record_index = 0
    BY NewDocuments DEF NewCheckpoint
  <2> HIDE DEF next
  <2>2. next = [NewCheckpoint EXCEPT !.candidates = selection,
                                     !.next_cursor = NoCursor,
                                     !.search_complete = TRUE]
    BY DEF next
  <2>3. QED
    BY <2>1, <2>2 DEF Checkpoint
<1> HIDE DEF next
<1>2. IsInjective(<<>>) /\ Len(selection) \in Nat /\ 1..0 = {}
  BY DEF IsInjective
<1>3. Sound(next)
  BY <1>1, <1>2 DEF Sound, ValidCheckpoint
<1>4. Chosen(m, next, selection)
  BY <1>1 DEF Chosen, Empty
<1>5. Recorded(m, next)
  BY <1>1, <1>2 DEF Empty, Recorded
<1>6. QED
  BY <1>3, <1>4, <1>5 DEF Agree, next

-----------------------------------------------------------------------------
(* What keeps a manifest valid                                             *)

SameTallies(m, new) ==
  /\ new.created_count = m.created_count
  /\ new.existing_count = m.existing_count
  /\ new.quarantined_count = m.quarantined_count

(* finished_at is set in the terminal statuses exclusively.                 *)
Stamped(m) == m.finished <=> m.status \in Terminal

(* Positions are few.                                                       *)
LEMMA PositionsAreFinite ==
  ASSUME NEW n \in Nat
  PROVE  /\ IsFiniteSet(1..n)
         /\ Cardinality(1..n) = n
<1>1. IsFiniteSet(1..n) /\ Cardinality(1..n) = IF 1 > n THEN 0 ELSE n - 1 + 1
  BY FS_Interval
<1>2. QED
  BY <1>1

LEMMA EntriesAreFinite ==
  ASSUME NEW m
  PROVE  /\ IsFiniteSet(Captured(m)) /\ Cardinality(Captured(m)) \in Nat
         /\ IsFiniteSet(Settled(m)) /\ Cardinality(Settled(m)) \in Nat
         /\ \A o : /\ IsFiniteSet(WithOutcome(m, o))
                   /\ Cardinality(WithOutcome(m, o)) \in Nat
<1>1. IsFiniteSet(1..PageLimit) /\ IsFiniteSet(1..CandidateLimit)
  BY PositionsAreFinite, LimitsAssumption
<1>2. /\ Captured(m) \subseteq 1..PageLimit
      /\ Settled(m) \subseteq 1..CandidateLimit
      /\ \A o : WithOutcome(m, o) \subseteq 1..CandidateLimit
  BY DEF Captured, Settled, WithOutcome
<1>3. /\ IsFiniteSet(Captured(m))
      /\ IsFiniteSet(Settled(m))
      /\ \A o : IsFiniteSet(WithOutcome(m, o))
  BY <1>1, <1>2, FS_Subset
<1>4. QED
  BY <1>3, FS_CardinalityType

(* A new run's manifest is valid and has no entry.                          *)
LEMMA NewManifestIsValid ==
  ASSUME NEW configuration
  PROVE  /\ ValidManifest(NewManifest(configuration))
         /\ Empty(NewManifest(configuration))
<1> DEFINE m == NewManifest(configuration)
<1>0. Stamped(m)
  BY DEF NewManifest, Stamped, Terminal
<1>1. /\ m.candidate_count = 0
      /\ m.search_request_count = 0
      /\ m.record_request_count = 0
      /\ m.created_count = 0
      /\ m.existing_count = 0
      /\ m.quarantined_count = 0
      /\ m.pages = [n \in 1..PageLimit |-> NoEntry]
      /\ m.records = [i \in 1..CandidateLimit |-> NoEntry]
  BY DEF NewManifest
<1> HIDE DEF m
<1>2. Captured(m) = {} /\ Settled(m) = {}
  BY <1>1 DEF Captured, Settled
<1>3. \A o : WithOutcome(m, o) = {}
  BY <1>2 DEF WithOutcome
<1>4. ValidManifest(m)
  <2>1. Cardinality({}) = 0
    BY FS_EmptySet
  <2>2. /\ Cardinality(Captured(m)) = 0
        /\ Cardinality(Settled(m)) = 0
        /\ \A o : Cardinality(WithOutcome(m, o)) = 0
    BY <1>2, <1>3, <2>1
  <2>3. 0 <= CandidateLimit /\ 0 <= RecordLimit /\ 0 <= PageLimit
    BY LimitsAssumption
  <2>4. QED
    BY <1>0, <1>1, <2>2, <2>3 DEF ValidManifest, Stamped
<1>5. QED
  BY <1>2, <1>4 DEF Empty, m

(* One that keeps its entries and outcome counts stays valid while its      *)
(* request counts stay within the limits.                                   *)
LEMMA CountsStayValid ==
  ASSUME NEW m \in Manifest, NEW new \in Manifest, ValidManifest(m),
         SameEntries(m, new), SameTallies(m, new), Stamped(new),
         new.candidate_count <= CandidateLimit,
         m.search_request_count <= new.search_request_count,
         new.search_request_count <= PageLimit,
         m.record_request_count <= new.record_request_count,
         new.record_request_count <= RecordLimit
  PROVE  ValidManifest(new)
<1>1. /\ Captured(new) = Captured(m)
      /\ Settled(new) = Settled(m)
      /\ \A o : WithOutcome(new, o) = WithOutcome(m, o)
  BY DEF SameEntries, Captured, Settled, WithOutcome
<1>2. /\ Cardinality(Captured(m)) \in Nat
      /\ Cardinality(Settled(m)) \in Nat
      /\ m.search_request_count \in Nat /\ new.search_request_count \in Nat
      /\ m.record_request_count \in Nat /\ new.record_request_count \in Nat
  BY EntriesAreFinite DEF Manifest
<1>3. /\ Cardinality(Captured(m)) <= new.search_request_count
      /\ Cardinality(Settled(m)) <= new.record_request_count
  BY <1>2 DEF ValidManifest
<1>4. QED
  BY <1>1, <1>3 DEF ValidManifest, SameTallies, Stamped

(* Another page needs another request.                                      *)
LEMMA PageStaysValid ==
  ASSUME NEW m \in Manifest, NEW new \in Manifest, ValidManifest(m),
         NEW n \in Nat, Captured(new) = 1..(n + 1),
         n < m.search_request_count,
         new.records = m.records, SameTallies(m, new), SameCounts(m, new),
         Stamped(new), new.candidate_count <= CandidateLimit
  PROVE  ValidManifest(new)
<1>1. /\ Settled(new) = Settled(m)
      /\ \A o : WithOutcome(new, o) = WithOutcome(m, o)
  BY DEF Settled, WithOutcome
<1>2. Cardinality(Captured(new)) = n + 1
  BY PositionsAreFinite
<1>3. Cardinality(Captured(new)) <= new.search_request_count
  BY <1>2 DEF SameCounts, Manifest
<1>4. QED
  BY <1>1, <1>3 DEF ValidManifest, SameTallies, SameCounts, Stamped

(* Another record, another request and one more of its outcome.             *)
LEMMA RecordStaysValid ==
  ASSUME NEW m \in Manifest, NEW new \in Manifest, ValidManifest(m),
         NEW n \in Nat, NEW e \in RecordEntry,
         n + 1 <= CandidateLimit,
         Settled(m) = 1..n, Settled(new) = 1..(n + 1),
         n < m.record_request_count,
         new.records = [m.records EXCEPT ![n + 1] = e],
         new.pages = m.pages, SameCounts(m, new), Stamped(new),
         new.candidate_count = m.candidate_count,
         new.created_count = m.created_count + Tally(e, "created"),
         new.existing_count = m.existing_count + Tally(e, "already_present"),
         new.quarantined_count = m.quarantined_count + Tally(e, "quarantined")
  PROVE  ValidManifest(new)
<1>1. Captured(new) = Captured(m)
  BY DEF Captured
<1>2. Cardinality(Settled(new)) <= new.record_request_count
  <2>1. Cardinality(Settled(new)) = n + 1
    BY PositionsAreFinite
  <2>2. QED
    BY <2>1 DEF SameCounts, Manifest
<1>3. ASSUME NEW o
      PROVE  Cardinality(WithOutcome(new, o))
               = Cardinality(WithOutcome(m, o)) + Tally(e, o)
  <2>1. /\ new.records[n + 1] = e
        /\ \A i \in 1..n : new.records[i] = m.records[i]
    <3>1. m.records \in [1..CandidateLimit -> RecordEntry \cup {NoEntry}]
      BY DEF Manifest
    <3>2. n + 1 \in 1..CandidateLimit /\ \A i \in 1..n : i \in 1..CandidateLimit
      BY LimitsAssumption
    <3>3. \A i \in 1..n : i # n + 1
      OBVIOUS
    <3>4. QED
      BY <3>1, <3>2, <3>3
  <2>2. WithOutcome(m, o) \subseteq 1..n /\ n + 1 \notin 1..n
    BY DEF WithOutcome
  <2>3. CASE e.outcome = o
    <3>1. WithOutcome(new, o) = WithOutcome(m, o) \cup {n + 1}
      BY <2>1, <2>3 DEF WithOutcome
    <3>2. Cardinality(WithOutcome(m, o) \cup {n + 1})
            = Cardinality(WithOutcome(m, o)) + 1
      BY <2>2, EntriesAreFinite, FS_AddElement
    <3>3. QED
      BY <2>3, <3>1, <3>2 DEF Tally
  <2>4. CASE e.outcome # o
    <3>1. WithOutcome(new, o) = WithOutcome(m, o)
      BY <2>1, <2>4 DEF WithOutcome
    <3>2. Cardinality(WithOutcome(m, o)) \in Nat
      BY EntriesAreFinite
    <3>3. QED
      BY <2>4, <3>1, <3>2 DEF Tally
  <2>5. QED
    BY <2>3, <2>4
<1>4. QED
  BY <1>1, <1>2, <1>3 DEF ValidManifest, SameCounts, Stamped

-----------------------------------------------------------------------------
(* What a step does to the documents of every run                          *)

Known == Base /\ Recovering /\ Unfinished /\ Replayable

(* What a recovery selected stays what it was, because the source run keeps *)
(* its entries.                                                             *)
LEMMA SelectionStays ==
  ASSUME Base, Recovering, HistoryStep, NEW r \in RunIds, Exists(r), IsRecovery(r)
  PROVE  SelectionOf(r)' = SelectionOf(r)
<1> DEFINE c      == manifestFile[r].configuration
           before == manifestFile[c.recoveryOf].records
           after  == manifestFile'[c.recoveryOf].records
<1>1. /\ manifestFile'[r].configuration = c
      /\ c \in Configuration
  BY StepsKeepHistory DEF Kept, Base, TypeOK, Exists, Manifest
<1>2. Selectable(c, manifestFile)
  BY DEF Recovering
<1>3. Kept(manifestFile[c.recoveryOf], manifestFile'[c.recoveryOf])
  BY <1>2, StepsKeepHistory DEF Selectable, Exists
<1>4. ASSUME NEW k \in DOMAIN c.selected
      PROVE  after[c.selected[k]] = before[c.selected[k]]
  <2>1. c.selected[k] \in 1..CandidateLimit
    BY <1>1, SelectedPositions
  <2>2. before[c.selected[k]] # NoEntry
    BY <1>2 DEF Selectable, Eligible
  <2>3. QED
    BY <1>3, <2>1, <2>2 DEF Kept, Settled
<1>5. /\ SelectionOf(r)
           = [k \in DOMAIN c.selected |-> before[c.selected[k]].record_id]
      /\ SelectionOf(r)'
           = [k \in DOMAIN c.selected |-> after[c.selected[k]].record_id]
  BY <1>1 DEF SelectionOf, SelectedRecords
<1> HIDE DEF before, after, c
<1>6. [k \in DOMAIN c.selected |-> after[c.selected[k]].record_id]
        = [k \in DOMAIN c.selected |-> before[c.selected[k]].record_id]
  BY <1>4, Zenon
<1>7. QED
  BY <1>5, <1>6

(* The selection matters to a recovery only.                                *)
LEMMA SelectionMatters ==
  ASSUME Base, Recovering, HistoryStep, NEW r \in RunIds, Exists(r),
         NEW m, NEW c, m.configuration = manifestFile[r].configuration,
         Consistent(r, m, c, SelectionOf(r))
  PROVE  Consistent(r, m, c, SelectionOf(r)')
<1>1. CASE IsRecovery(r)
  BY <1>1, SelectionStays
<1>2. CASE ~IsRecovery(r)
  <2>1. \A s, t : Agree(m, c, s) => Agree(m, c, t)
    BY <1>2 DEF Agree, Chosen, IsRecovery
  <2>2. QED
    BY <2>1 DEF Consistent
<1>3. QED
  BY <1>1, <1>2

(* A step that leaves the documents of one run consistent, and those of the *)
(* others alone.                                                            *)
LEMMA OneRunAgrees ==
  ASSUME Base, Recovering, HistoryStep, DocumentsAgree, NEW q \in RunIds,
         NEW m, NEW c, m.configuration = manifestFile[q].configuration,
         Exists(q), Consistent(q, m, c, SelectionOf(q)),
         manifestFile'[q] = m, checkpointFile'[q] = c,
         \A r \in RunIds \ {q} : /\ manifestFile'[r] = manifestFile[r]
                                 /\ checkpointFile'[r] = checkpointFile[r]
  PROVE  DocumentsAgree'
<1> SUFFICES ASSUME NEW r \in RunIds, Exists(r)'
             PROVE  Consistent(r, manifestFile'[r], checkpointFile'[r],
                               SelectionOf(r)')
  BY DEF DocumentsAgree
<1>1. CASE r = q
  BY <1>1, SelectionMatters
<1>2. CASE r # q
  <2>1. /\ Exists(r)
        /\ manifestFile'[r] = manifestFile[r]
        /\ checkpointFile'[r] = checkpointFile[r]
    BY <1>2 DEF Exists
  <2>2. Consistent(r, manifestFile[r], checkpointFile[r], SelectionOf(r))
    BY <2>1 DEF DocumentsAgree
  <2>3. QED
    BY <2>1, <2>2, SelectionMatters
<1>3. QED
  BY <1>1, <1>2

(* A step that writes no document.                                          *)
LEMMA NothingWrittenAgrees ==
  ASSUME DocumentsAgree, UNCHANGED <<manifestFile, checkpointFile>>
  PROVE  DocumentsAgree'
BY DEF DocumentsAgree, Exists, SelectionOf, SelectedRecords

(* What the process knows of the documents it works on.                     *)
LEMMA AtWork ==
  ASSUME Base, DocumentsAgree, pc \in Working
  PROVE  /\ run \in RunIds
         /\ manifest = manifestFile[run] /\ manifest \in Manifest
         /\ checkpoint = checkpointFile[run] /\ checkpoint \in Checkpoint
         /\ checkpoint # NoFile
         /\ Exists(run)
         /\ Consistent(run, manifest, checkpoint, SelectionOf(run))
         /\ ValidManifest(manifest)
         /\ Agree(manifest, checkpoint, SelectionOf(run))
<1>1. /\ run \in RunIds
      /\ manifest = manifestFile[run] /\ manifest \in Manifest
      /\ checkpoint = checkpointFile[run] /\ checkpoint \in Checkpoint
      /\ checkpoint # NoFile /\ manifest # NoFile
  BY AbsenceAssumption DEF Base, Loaded, Working
<1>2. Exists(run)
  BY <1>1 DEF Exists
<1>3. Consistent(run, manifest, checkpoint, SelectionOf(run))
  BY <1>1, <1>2 DEF DocumentsAgree
<1>4. QED
  BY <1>1, <1>2, <1>3 DEF Consistent

(* A manifest that is valid and agrees with the checkpoint is saved.        *)
LEMMA ManifestSavedAgrees ==
  ASSUME Base, Recovering, HistoryStep, DocumentsAgree, pc \in Working,
         NEW m, NEW then, SaveManifest(m, then),
         ValidManifest(m), m.configuration = manifest.configuration,
         Agree(m, checkpoint, SelectionOf(run)),
         m.status = "completed" => Accounted(m, checkpoint)
  PROVE  /\ DocumentsAgree'
         /\ manifest' = m /\ checkpoint' = checkpoint
         /\ pc' = then
<1>1. /\ manifest' = m /\ checkpoint' = checkpoint
      /\ pc' = then
      /\ manifestFile' = [manifestFile EXCEPT ![run] = m]
      /\ checkpointFile' = checkpointFile
  BY DEF SaveManifest
<1>2. Consistent(run, m, checkpointFile[run], SelectionOf(run))
  BY AtWork DEF Consistent
<1>3. /\ manifestFile'[run] = m
      /\ \A r \in RunIds \ {run} : manifestFile'[r] = manifestFile[r]
  BY <1>1, AtWork DEF Base, TypeOK
<1>4. DocumentsAgree'
  BY <1>1, <1>2, <1>3, AtWork, OneRunAgrees
<1>5. QED
  BY <1>1, <1>4

(* So is a checkpoint that agrees with the manifest.                        *)
LEMMA CheckpointSavedAgrees ==
  ASSUME Base, Recovering, HistoryStep, DocumentsAgree, pc \in Working,
         manifest.status # "completed",
         NEW c, NEW then, SaveCheckpoint(c, then),
         Agree(manifest, c, SelectionOf(run))
  PROVE  /\ DocumentsAgree'
         /\ manifest' = manifest /\ checkpoint' = c
         /\ pc' = then
<1>1. ValidCheckpoint(c) /\ c # NoFile
  BY AbsenceAssumption DEF Agree, Sound, ValidCheckpoint
<1>2. /\ manifest' = manifest /\ checkpoint' = c
      /\ pc' = then
      /\ checkpointFile' = [checkpointFile EXCEPT ![run] = c]
      /\ manifestFile' = manifestFile
  BY <1>1 DEF SaveCheckpoint
<1>3. Consistent(run, manifest, c, SelectionOf(run))
  BY <1>1, AtWork DEF Consistent
<1>4. /\ checkpointFile'[run] = c
      /\ \A r \in RunIds \ {run} : checkpointFile'[r] = checkpointFile[r]
  BY <1>2, AtWork DEF Base, TypeOK
<1>5. DocumentsAgree'
  BY <1>2, <1>3, <1>4, AtWork, OneRunAgrees
<1>6. QED
  BY <1>2, <1>5

(* Points at which nothing is in hand.                                      *)
Elsewhere ==
  {"idle", "mark_running", "collect", "returning", "failing", "interrupting"}

LEMMA NothingInProgress ==
  ASSUME pc' \in Elsewhere
  PROVE  InProgress'
BY DEF Elsewhere, InProgress, Selecting, AskingForPage, PageInHand,
       AskingForRecord, AskingFor, AtRecord, InternalChecksNeverTrip

(* Nor where a run has just been created.                                   *)
LEMMA CreatedInProgress ==
  ASSUME NEW r, NEW configuration, CreateRun(r, configuration)
  PROVE  InProgress'
BY DEF CreateRun, NewManifest, InProgress, Selecting, AskingForPage, PageInHand,
       AskingForRecord, AskingFor, AtRecord, InternalChecksNeverTrip

-----------------------------------------------------------------------------
(* Starting a run                                                          *)

(* A new run has an empty manifest and no checkpoint.                       *)
LEMMA CreateAgrees ==
  ASSUME Base, Recovering, HistoryStep, DocumentsAgree,
         NEW q \in RunIds, NEW configuration \in Configuration,
         CreateRun(q, configuration), ValidConfiguration(q, configuration),
         Len(configuration.selected) <= CandidateLimit
  PROVE  DocumentsAgree'
<1> DEFINE new == NewManifest(configuration)
<1>1. /\ ~Exists(q)
      /\ manifestFile'[q] = new
      /\ \A r \in RunIds \ {q} : manifestFile'[r] = manifestFile[r]
      /\ checkpointFile' = checkpointFile
  BY DEF CreateRun, Exists, Base, TypeOK
<1>2. checkpointFile[q] = NoFile
  BY <1>1 DEF Base, Loaded, HasCheckpoint
<1>3. new.configuration = configuration /\ new.status = "planned"
  BY DEF NewManifest
<1>4. ValidManifest(new) /\ Empty(new)
  BY NewManifestIsValid
<1> HIDE DEF new
<1>5. \A selection : Consistent(q, new, NoFile, selection)
  BY <1>3, <1>4 DEF Consistent
<1> SUFFICES ASSUME NEW r \in RunIds, Exists(r)'
             PROVE  Consistent(r, manifestFile'[r], checkpointFile'[r],
                               SelectionOf(r)')
  BY DEF DocumentsAgree
<1>6. CASE r = q
  BY <1>1, <1>2, <1>5, <1>6
<1>7. CASE r # q
  <2>1. /\ Exists(r)
        /\ manifestFile'[r] = manifestFile[r]
        /\ checkpointFile'[r] = checkpointFile[r]
    BY <1>1, <1>7 DEF Exists
  <2>2. Consistent(r, manifestFile[r], checkpointFile[r], SelectionOf(r))
    BY <2>1 DEF DocumentsAgree
  <2>3. QED
    BY <2>1, <2>2, SelectionMatters
<1>8. QED
  BY <1>6, <1>7

LEMMA OperatorKeepsReplayable ==
  ASSUME Known, HistoryStep, Operator
  PROVE  Replayable'
<1> USE DEF Known, Replayable
<1>1. ASSUME NEW r \in RunIds, StartRun(r) PROVE Replayable'
  <2> DEFINE c == [recoveryOf |-> NoRun, selected |-> <<>>]
  <2>1. c \in Configuration
    BY DEF Configuration
  <2>2. ValidConfiguration(r, c) /\ Len(c.selected) <= CandidateLimit
    <3>1. r # NoRun /\ 0 <= CandidateLimit
      BY CursorsAssumption, LimitsAssumption
    <3>2. QED
      BY <3>1 DEF ValidConfiguration, IsInjective
  <2>3. CreateRun(r, c)
    BY <1>1 DEF StartRun
  <2> HIDE DEF c
  <2>4. QED
    BY <2>1, <2>2, <2>3, CreateAgrees, CreatedInProgress
<1>2. ASSUME NEW r \in RunIds, ResumeRun(r) PROVE Replayable'
  <2>1. /\ UNCHANGED <<manifestFile, checkpointFile>>
        /\ pc' = "mark_running"
    BY <1>2 DEF ResumeRun, disk
  <2>2. QED
    BY <2>1, NothingWrittenAgrees, NothingInProgress DEF Elsewhere
<1>3. ASSUME NEW r \in RunIds, NEW source \in RunIds, NEW selected \in Selections,
             StartRecovery(r, source, selected)
      PROVE  Replayable'
  <2> DEFINE c == [recoveryOf |-> source, selected |-> selected]
  <2>1. c \in Configuration
    BY SelectionsAreSequences DEF Configuration
  <2>2. /\ ValidConfiguration(r, c)
        /\ Len(c.selected) <= CandidateLimit
        /\ CreateRun(r, c)
    BY <1>3 DEF StartRecovery
  <2> HIDE DEF c
  <2>3. QED
    BY <2>1, <2>2, CreateAgrees, CreatedInProgress
<1>4. QED
  BY <1>1, <1>2, <1>3 DEF Operator

(* The records that a recovery selects are distinct, as the source run has  *)
(* one entry for each of its candidates.                                    *)
LEMMA SelectionIsInjective ==
  ASSUME Base, Recovering, DocumentsAgree, NEW r \in RunIds,
         Exists(r), IsRecovery(r)
  PROVE  /\ SelectionOf(r) \in Seq(Records)
         /\ IsInjective(SelectionOf(r))
         /\ Len(SelectionOf(r)) <= CandidateLimit
<1> DEFINE configuration == manifestFile[r].configuration
           selected == configuration.selected
           q      == configuration.recoveryOf
           source == manifestFile[q]
           c      == checkpointFile[q]
<1>1. /\ Selectable(configuration, manifestFile)
      /\ q \in RunIds
      /\ Exists(q)
      /\ source \in Manifest
      /\ configuration \in Configuration
  BY DEF Recovering, Selectable, Exists, Base, TypeOK, Manifest
<1>2. /\ ValidConfiguration(r, configuration)
      /\ Len(selected) <= CandidateLimit
  BY DEF DocumentsAgree, Consistent
<1>3. selected \in Seq(1..CandidateLimit) /\ DOMAIN selected = 1..Len(selected)
  BY <1>1 DEF Configuration
<1>4. ASSUME NEW k \in DOMAIN selected
      PROVE  /\ selected[k] \in Settled(source)
             /\ source.records[selected[k]].record_id \in Records
  <2>1. selected[k] \in 1..CandidateLimit
    BY <1>1, SelectedPositions
  <2>2. source.records[selected[k]] # NoEntry
    BY <1>1 DEF Selectable, Eligible
  <2>3. source.records[selected[k]] \in RecordEntry
    BY <1>1, <2>1, <2>2 DEF Manifest
  <2>4. QED
    BY <2>1, <2>2, <2>3 DEF Settled, RecordEntry
<1>5. ASSUME NEW k \in DOMAIN selected
      PROVE  /\ IsInjective(c.candidates)
             /\ c.candidates \in Seq(Records)
             /\ selected[k] \in DOMAIN c.candidates
             /\ source.records[selected[k]].record_id = c.candidates[selected[k]]
  <2>1. selected[k] \in Settled(source)
    BY <1>4
  <2>2. Agree(source, c, SelectionOf(q))
    BY <1>1, <2>1 DEF DocumentsAgree, Consistent, Empty
  <2>3. IsInjective(c.candidates) /\ c.candidates \in Seq(Records)
    BY <2>2, SoundParts DEF Agree, Sound, ValidCheckpoint
  <2>4. /\ selected[k] <= Len(c.candidates)
        /\ source.records[selected[k]].record_id = c.candidates[selected[k]]
    BY <2>1, <2>2 DEF Agree, Recorded
  <2>5. selected[k] \in 1..CandidateLimit
    BY <2>1 DEF Settled
  <2>6. selected[k] \in DOMAIN c.candidates
    BY <2>3, <2>4, <2>5
  <2>7. QED
    BY <2>3, <2>4, <2>6
<1>6. SelectionOf(r)
        = [k \in DOMAIN selected |-> source.records[selected[k]].record_id]
  BY DEF SelectionOf, SelectedRecords
<1>7. IsInjective(SelectionOf(r))
  <2> SUFFICES ASSUME NEW i \in DOMAIN selected, NEW j \in DOMAIN selected,
                      SelectionOf(r)[i] = SelectionOf(r)[j]
               PROVE  i = j
    BY <1>6 DEF IsInjective
  <2>1. source.records[selected[i]].record_id
          = source.records[selected[j]].record_id
    BY <1>6
  <2> HIDE DEF selected, source, c
  <2>2. c.candidates[selected[i]] = c.candidates[selected[j]]
    BY <1>5, <2>1
  <2>3. selected[i] = selected[j]
    BY <1>5, <2>2 DEF IsInjective
  <2>4. QED
    BY <1>2, <2>3 DEF ValidConfiguration, IsInjective, selected
<1> HIDE DEF selected, source, c
<1>8. SelectionOf(r) \in [1..Len(selected) -> Records]
  BY <1>3, <1>4, <1>6
<1>9. Len(selected) \in Nat
  BY <1>3
<1>10. SelectionOf(r) \in Seq(Records) /\ Len(SelectionOf(r)) = Len(selected)
  BY <1>8, <1>9
<1>11. QED
  BY <1>2, <1>7, <1>10

(* The first checkpoint, the status and the selection of a recovery.        *)
LEMMA PrologueKeepsReplayable ==
  ASSUME Known, HistoryStep, Prologue
  PROVE  Replayable'
<1> USE DEF Known, Replayable
<1>1. CASE CreateCheckpoint
  <2>1. /\ run \in RunIds
        /\ manifest = manifestFile[run]
        /\ manifest # NoFile
        /\ Exists(run)
    BY <1>1, AbsenceAssumption DEF CreateCheckpoint, Base, Loaded, Exists
  <2>2. /\ checkpointFile[run] = NoFile
        /\ manifestFile' = manifestFile
        /\ manifest' = manifest
        /\ checkpoint' = NewCheckpoint
        /\ checkpointFile'[run] = NewCheckpoint
        /\ \A r \in RunIds \ {run} : checkpointFile'[r] = checkpointFile[r]
        /\ pc' = IF manifest.configuration.recoveryOf = NoRun
                 THEN "mark_running" ELSE "mark_recovering"
    BY <1>1, <2>1 DEF CreateCheckpoint, Base, TypeOK
  <2>3. Consistent(run, manifest, NoFile, SelectionOf(run))
    BY <2>1, <2>2 DEF DocumentsAgree
  <2>4. Empty(manifest) /\ manifest.status # "completed"
    BY <2>3 DEF Consistent
  <2>5. NewCheckpoint # NoFile
    BY NewDocuments, AbsenceAssumption
  <2>6. Consistent(run, manifest, NewCheckpoint, SelectionOf(run))
    BY <2>3, <2>4, <2>5, NewCheckpointAgrees DEF Consistent
  <2>7. DocumentsAgree'
    BY <2>1, <2>2, <2>6, OneRunAgrees
  <2>8. CASE manifest.configuration.recoveryOf = NoRun
    BY <2>2, <2>7, <2>8, NothingInProgress DEF Elsewhere
  <2>9. CASE manifest.configuration.recoveryOf # NoRun
    <3>1. manifest.status = "planned"
      BY <1>1 DEF CreateCheckpoint, InProgress, Selecting
    <3>2. Selecting'
      BY <2>2, <2>4, <2>9, <3>1 DEF Selecting, Empty
    <3>3. InProgress'
      BY <2>2, <2>9, <3>2
         DEF InProgress, AskingForPage, PageInHand, AskingForRecord, AskingFor,
             AtRecord, InternalChecksNeverTrip
    <3>4. QED
      BY <2>7, <3>3
  <2>10. QED
    BY <2>8, <2>9
<1>2. CASE MarkRunning
  <2> DEFINE m == [manifest EXCEPT !.status = "running", !.finished = FALSE]
  <2>1. pc \in Working
    BY <1>2 DEF MarkRunning, Working, Points, InTry
  <2>2. m \in Manifest /\ Kept(manifest, m) /\ SameCounts(manifest, m)
        /\ SameEntries(manifest, m)
    BY <2>1, AtWork, ManifestUpdates, FieldsKeepEntries DEF Statuses
  <2>3. /\ m.configuration = manifest.configuration
        /\ SameTallies(manifest, m)
        /\ m.candidate_count = manifest.candidate_count
        /\ m.status = "running"
        /\ m.finished = FALSE
    BY <2>1, AtWork DEF Manifest, SameTallies
  <2>4. SaveManifest(m, "collect")
    BY <1>2 DEF MarkRunning
  <2> HIDE DEF m
  <2>5. ValidManifest(m)
    <3>1. /\ manifest.search_request_count \in Nat
          /\ manifest.record_request_count \in Nat
      BY <2>1, AtWork DEF Manifest
    <3>2. Stamped(m)
      BY <2>3 DEF Stamped, Terminal
    <3>3. QED
      BY <2>1, <2>2, <2>3, <3>1, <3>2, AtWork, CountsStayValid
         DEF SameCounts, ValidManifest
  <2>6. Agree(m, checkpoint, SelectionOf(run))
    BY <2>1, <2>2, <2>3, AtWork, SameEntriesAgree DEF SameCounts
  <2>7. DocumentsAgree' /\ pc' = "collect"
    BY <2>1, <2>3, <2>4, <2>5, <2>6, ManifestSavedAgrees
  <2>8. QED
    BY <2>7, NothingInProgress DEF Elsewhere
<1>3. CASE MarkRecovering
  <2> DEFINE k == Len(manifest.configuration.selected)
             m == [manifest EXCEPT !.status = "running", !.candidate_count = k]
  <2>1. /\ pc \in Working
        /\ pc = "mark_recovering"
        /\ SaveManifest(m, "save_selection")
    BY <1>3 DEF MarkRecovering, Working, Points, InTry
  <2>2. k \in Nat /\ k <= CandidateLimit
    BY <2>1, AtWork DEF Consistent, Manifest, Configuration
  <2> HIDE DEF k
  <2>3. m \in Manifest /\ Kept(manifest, m) /\ SameCounts(manifest, m)
        /\ SameEntries(manifest, m)
    BY <2>1, <2>2, AtWork, ManifestUpdates, FieldsKeepEntries
  <2>4. /\ m.configuration = manifest.configuration
        /\ SameTallies(manifest, m)
        /\ m.candidate_count = k
        /\ m.status = "running"
        /\ m.finished = manifest.finished
    BY <2>1, AtWork DEF Manifest, SameTallies
  <2> HIDE DEF m
  <2>5. ValidManifest(m)
    <3>1. /\ manifest.search_request_count \in Nat
          /\ manifest.record_request_count \in Nat
      BY <2>1, AtWork DEF Manifest
    <3>2. Stamped(m)
      BY <2>1, <2>4, AtWork
         DEF Stamped, Terminal, Selecting, InProgress, ValidManifest
    <3>3. QED
      BY <2>1, <2>2, <2>3, <2>4, <3>1, <3>2, AtWork, CountsStayValid
         DEF SameCounts, ValidManifest
  <2>6. Agree(m, checkpoint, SelectionOf(run))
    BY <2>1, <2>3, <2>4, AtWork, SameEntriesAgree DEF SameCounts
  <2>7. /\ DocumentsAgree' /\ pc' = "save_selection"
        /\ manifest' = m /\ checkpoint' = checkpoint
    BY <2>1, <2>4, <2>5, <2>6, ManifestSavedAgrees
  <2>8. /\ manifest.configuration.recoveryOf # NoRun
        /\ checkpoint = NewCheckpoint
        /\ Empty(manifest)
    BY <2>1 DEF InProgress, Selecting
  <2>9. Empty(m)
    BY <2>3, <2>8 DEF SameEntries, Empty, Captured, Settled
  <2>10. Selecting'
    BY <2>4, <2>7, <2>8, <2>9 DEF Selecting, Empty
  <2>11. InProgress'
    BY <2>7, <2>10
       DEF InProgress, AskingForPage, PageInHand, AskingForRecord, AskingFor,
           AtRecord, InternalChecksNeverTrip
  <2>12. QED
    BY <2>7, <2>11
<1>4. CASE SaveSelection
  <2> DEFINE c == [NewCheckpoint EXCEPT !.candidates = SelectionOf(run),
                                        !.next_cursor = NoCursor,
                                        !.search_complete = TRUE]
  <2>1. /\ pc \in Working
        /\ manifest.configuration.recoveryOf # NoRun
        /\ checkpoint = NewCheckpoint
        /\ Empty(manifest)
        /\ manifest.status # "completed"
    BY <1>4, AtWork
       DEF SaveSelection, Working, Points, InTry, InProgress, Selecting,
           Unfinished, Ending
  <2>2. IsRecovery(run)
    BY <2>1, AtWork DEF IsRecovery
  <2>3. SaveCheckpoint(c, "capture")
    BY <1>4, <2>1, AtWork DEF SaveSelection, SelectionOf
  <2>4. Agree(manifest, c, SelectionOf(run))
    BY <2>1, <2>2, AtWork, SelectionIsInjective, SelectionAgrees
  <2>5. c.search_complete
    BY NewDocuments DEF Checkpoint
  <2> HIDE DEF c
  <2>6. DocumentsAgree' /\ pc' = "capture" /\ checkpoint' = c
    BY <2>1, <2>3, <2>4, CheckpointSavedAgrees
  <2>7. InProgress'
    BY <2>5, <2>6
       DEF InProgress, Selecting, AskingForPage, PageInHand, AskingForRecord,
           AskingFor, AtRecord, InternalChecksNeverTrip
  <2>8. QED
    BY <2>6, <2>7
<1>5. QED
  BY <1>1, <1>2, <1>3, <1>4 DEF Prologue

-----------------------------------------------------------------------------
(* _collect_candidates                                                     *)

(* Where a page may be asked for there is something left to ask.            *)
LEMMA PagesSeen ==
  ASSUME Known, pc \in Working, SeenAll(manifest, checkpoint)
  PROVE  /\ Len(checkpoint.seen_cursors) \in Nat
         /\ Len(checkpoint.seen_cursors) <= manifest.search_request_count
         /\ manifest.search_request_count \in Nat
         /\ manifest.search_request_count <= PageLimit
<1>1. /\ manifest \in Manifest
      /\ ValidManifest(manifest)
      /\ Len(checkpoint.seen_cursors) \in Nat
  BY AtWork, SoundParts DEF Known, Replayable, Agree
<1>2. Cardinality(Captured(manifest)) = Len(checkpoint.seen_cursors)
  BY <1>1, PositionsAreFinite DEF SeenAll
<1>3. QED
  BY <1>1, <1>2 DEF ValidManifest, Manifest

LEMMA ReserveSearchKeepsReplayable ==
  ASSUME Known, HistoryStep, pc \in {"collect", "backoff_search"},
         NEW n, ReserveSearch(n), run' = run,
         ~checkpoint.search_complete, SeenAll(manifest, checkpoint)
  PROVE  Replayable'
<1> USE DEF Known, Replayable
<1>1. /\ pc \in Working
      /\ manifest.status # "completed"
  BY AtWork DEF Working, Points, InTry, Unfinished, Ending
<1>2. /\ Len(checkpoint.seen_cursors) \in Nat
      /\ Len(checkpoint.seen_cursors) <= manifest.search_request_count
      /\ manifest.search_request_count \in Nat
      /\ manifest.search_request_count <= PageLimit
  BY <1>1, PagesSeen
<1>3. CASE /\ manifest.search_request_count < PageLimit
           /\ Reserve([manifest EXCEPT !.search_request_count = @ + 1],
                      "call_search")
  <2> DEFINE m == [manifest EXCEPT !.search_request_count = @ + 1]
  <2>1. m \in Manifest
    BY <1>1, AtWork, ManifestUpdates
  <2>2. /\ m.configuration = manifest.configuration
        /\ m.status = manifest.status
        /\ m.search_request_count = manifest.search_request_count + 1
        /\ m.record_request_count = manifest.record_request_count
        /\ m.candidate_count = manifest.candidate_count
        /\ SameTallies(manifest, m)
        /\ SameEntries(manifest, m)
        /\ m.finished = manifest.finished
    BY <1>1, AtWork DEF Manifest, SameTallies, SameEntries
  <2>3. SaveManifest(m, "call_search")
    BY <1>3 DEF Reserve
  <2> HIDE DEF m
  <2>4. ValidManifest(m)
    <3>1. manifest.record_request_count \in Nat /\ PageLimit \in Nat
      BY <1>1, AtWork, LimitsAssumption DEF Manifest
    <3>2. Stamped(m)
      BY <1>1, <2>2, AtWork DEF Stamped, ValidManifest
    <3>3. QED
      BY <1>1, <1>2, <1>3, <2>1, <2>2, <3>1, <3>2, AtWork, CountsStayValid
         DEF ValidManifest
  <2>5. Agree(m, checkpoint, SelectionOf(run))
    BY <1>1, <2>2, AtWork, SameEntriesAgree
  <2>6. /\ DocumentsAgree' /\ pc' = "call_search"
        /\ manifest' = m /\ checkpoint' = checkpoint
    BY <1>1, <2>2, <2>3, <2>4, <2>5, ManifestSavedAgrees
  <2>7. SeenAll(m, checkpoint)
    BY <2>2 DEF SameEntries, SeenAll, Captured
  <2>8. Len(checkpoint.seen_cursors) < m.search_request_count
    BY <1>2, <2>2
  <2>9. AskingForPage'
    BY <2>6, <2>7, <2>8 DEF AskingForPage, SeenAll
  <2>10. InProgress'
    BY <2>6, <2>9
       DEF InProgress, Selecting, PageInHand, AskingForRecord, AskingFor,
           AtRecord, InternalChecksNeverTrip
  <2>11. QED
    BY <2>6, <2>10
<1>4. CASE /\ manifest.search_request_count >= PageLimit
           /\ SaveCheckpoint([checkpoint EXCEPT !.search_complete = TRUE,
                                                !.next_cursor = NoCursor],
                             "capture")
  <2> DEFINE c == [checkpoint EXCEPT !.search_complete = TRUE,
                                     !.next_cursor = NoCursor]
  <2>1. Agree(manifest, c, SelectionOf(run))
    BY <1>1, AtWork, CeilingAgrees
  <2>2. c.search_complete
    BY <1>1, AtWork DEF Checkpoint
  <2>3. SaveCheckpoint(c, "capture")
    BY <1>4
  <2> HIDE DEF c
  <2>4. DocumentsAgree' /\ pc' = "capture" /\ checkpoint' = c
    BY <1>1, <2>1, <2>3, CheckpointSavedAgrees
  <2>5. InProgress'
    BY <2>2, <2>4
       DEF InProgress, Selecting, AskingForPage, PageInHand, AskingForRecord,
           AskingFor, AtRecord, InternalChecksNeverTrip
  <2>6. QED
    BY <2>4, <2>5
<1>5. QED
  BY <1>3, <1>4 DEF ReserveSearch

(* A page that was captured is the one ahead of the checkpoint.             *)
LEMMA CapturedPageIsAhead ==
  ASSUME Known, pc \in Working, ~checkpoint.search_complete
  PROVE  IF PageIsCaptured
         THEN OneAhead(manifest, checkpoint)
         ELSE SeenAll(manifest, checkpoint)
<1>1. manifest \in Manifest /\ Agree(manifest, checkpoint, SelectionOf(run))
  BY AtWork DEF Known, Replayable
<1>2. QED
  BY <1>1, NextPageIsAhead DEF PageIsCaptured, PageNumber

LEMMA ReplayPageKeepsReplayable ==
  ASSUME Known, HistoryStep, ReplayPage
  PROVE  Replayable'
<1> USE DEF Known, Replayable
<1> DEFINE entry == manifest.pages[Len(checkpoint.seen_cursors) + 1]
           count == manifest.search_request_count
           c     == ReconcileEntry(checkpoint, entry, count)
<1>1. /\ pc \in Working
      /\ manifest.status # "completed"
  BY AtWork DEF ReplayPage, Working, Points, InTry, Unfinished, Ending
<1>2. OneAhead(manifest, checkpoint) /\ ~checkpoint.search_complete
  BY <1>1, CapturedPageIsAhead DEF ReplayPage
<1>3. Follows(entry, checkpoint)
  BY <1>2 DEF OneAhead
<1>4. /\ count \in Nat
      /\ count <= PageLimit
      /\ manifest \in Manifest
      /\ Agree(manifest, checkpoint, SelectionOf(run))
      /\ Sound(checkpoint)
  BY <1>1, AtWork DEF Manifest, ValidManifest, Agree
<1>5. Advances(checkpoint, c, entry, count)
  BY <1>2, <1>3, <1>4, ReplayAdvances
<1>6. entry.cursor = checkpoint.next_cursor
  BY <1>3 DEF Follows
<1>7. SaveCheckpoint(c, "collect")
  BY <1>6 DEF ReplayPage, PageNumber
<1> HIDE DEF c
<1>8. Agree(manifest, c, SelectionOf(run))
  BY <1>2, <1>4, <1>5, AdvancedAgrees
<1>9. DocumentsAgree' /\ pc' = "collect"
  BY <1>1, <1>7, <1>8, CheckpointSavedAgrees
<1>10. QED
  BY <1>9, NothingInProgress DEF Elsewhere

LEMMA BeginSearchKeepsReplayable ==
  ASSUME Known, HistoryStep, BeginSearch
  PROVE  Replayable'
<1>1. pc \in Working /\ pc = "collect" /\ ~checkpoint.search_complete
  BY DEF BeginSearch, Working, Points, InTry
<1>2. SeenAll(manifest, checkpoint)
  BY <1>1, CapturedPageIsAhead DEF BeginSearch
<1>3. Len(checkpoint.candidates) < CandidateLimit
  BY <1>1, AtWork DEF Known, Replayable, Agree, Sound
<1>4. ReserveSearch(1) /\ run' = run
  BY <1>3 DEF BeginSearch
<1>5. QED
  BY <1>1, <1>2, <1>4, ReserveSearchKeepsReplayable

LEMMA RetrySearchKeepsReplayable ==
  ASSUME Known, HistoryStep, RetrySearch
  PROVE  Replayable'
<1>1. /\ pc = "backoff_search"
      /\ ReserveSearch(attempt + 1)
      /\ run' = run
  BY DEF RetrySearch
<1>2. ~checkpoint.search_complete /\ SeenAll(manifest, checkpoint)
  BY <1>1 DEF Known, Replayable, InProgress, AskingForPage
<1>3. QED
  BY <1>1, <1>2, ReserveSearchKeepsReplayable

LEMMA SearchAnswersKeepsReplayable ==
  ASSUME Known, HistoryStep, SearchAnswers
  PROVE  Replayable'
<1> USE DEF Known, Replayable
<1> DEFINE count == manifest.search_request_count
<1>1. pc \in Working /\ pc = "call_search"
  BY DEF SearchAnswers, Working, Points, InTry
<1>2. /\ ~checkpoint.search_complete
      /\ SeenAll(manifest, checkpoint)
      /\ Len(checkpoint.seen_cursors) < count
  BY <1>1 DEF InProgress, AskingForPage
<1>3. Sound(checkpoint) /\ count \in Nat
  BY <1>1, AtWork DEF Agree, Manifest
<1>4. /\ manifest' = manifest
      /\ checkpoint' = checkpoint
      /\ UNCHANGED <<manifestFile, checkpointFile>>
  BY DEF SearchAnswers, disk
<1>5. PICK page \in SearchPages :
        LET advance == AdvanceCursor(checkpoint, page, count)
        IN IF MayAdvance(checkpoint, count) /\ ValidAdvance(advance)
           THEN /\ held' = [kind |-> "page",
                            checkpoint |-> advance.checkpoint,
                            new_candidate_ids |-> advance.new_candidate_ids]
                /\ pc' = "save_page"
           ELSE /\ held' = Nothing
                /\ pc' = "rejected"
  BY DEF SearchAnswers
<1> DEFINE a     == AdvanceCursor(checkpoint, page, count)
           entry == [cursor        |-> checkpoint.next_cursor,
                     next_cursor   |-> a.checkpoint.next_cursor,
                     candidate_ids |-> a.new_candidate_ids]
<1>6. page.items \in Seq(Records) /\ page.next_cursor \in Cursors \cup {NoCursor}
  BY DEF SearchPages, SeqOf
<1>7. /\ ValidAdvance(a)
      /\ Follows(entry, checkpoint)
      /\ Advances(checkpoint, a.checkpoint, entry, count)
  BY <1>2, <1>3, <1>6, PageAdvances
<1>8. /\ pc' = "save_page"
      /\ held'.checkpoint = a.checkpoint
      /\ held'.new_candidate_ids = a.new_candidate_ids
  <2>1. MayAdvance(checkpoint, count)
    <3>1. Len(checkpoint.seen_cursors) \in Nat
      BY <1>3, SoundParts
    <3>2. checkpoint.next_cursor # NoCursor
      BY <1>2, <1>3 DEF Sound, ValidCheckpoint
    <3>3. QED
      BY <1>2, <1>3, <3>1, <3>2 DEF MayAdvance
  <2>2. QED
    BY <1>5, <1>7, <2>1
<1> HIDE DEF a
<1>9. HeldEntry' = entry
  BY <1>4, <1>8 DEF HeldEntry
<1>10. PageInHand'
  BY <1>4, <1>7, <1>8, <1>9 DEF PageInHand
<1>11. AskingForPage'
  BY <1>2, <1>4, <1>8 DEF AskingForPage, SeenAll
<1>12. InProgress'
  BY <1>8, <1>10, <1>11
     DEF InProgress, Selecting, AskingForRecord, AskingFor, AtRecord,
         InternalChecksNeverTrip
<1>13. QED
  BY <1>4, <1>12, NothingWrittenAgrees

LEMMA SavePageKeepsReplayable ==
  ASSUME Known, HistoryStep, SavePage
  PROVE  Replayable'
<1> USE DEF Known, Replayable
<1> DEFINE m == [manifest EXCEPT
                   !.pages[PageNumber] = HeldEntry,
                   !.candidate_count = Len(held.checkpoint.candidates)]
<1>1. /\ pc = "save_page"
      /\ pc \in Working
      /\ manifest.status # "completed"
      /\ held' = held
  BY AtWork DEF SavePage, Working, Points, InTry, Unfinished, Ending
<1>2. /\ manifest \in Manifest
      /\ ValidManifest(manifest)
      /\ Agree(manifest, checkpoint, SelectionOf(run))
  BY <1>1, AtWork
<1>3. /\ ~checkpoint.search_complete
      /\ SeenAll(manifest, checkpoint)
      /\ Len(checkpoint.seen_cursors) < manifest.search_request_count
      /\ Advances(checkpoint, held.checkpoint, HeldEntry,
                  manifest.search_request_count)
      /\ Follows(HeldEntry, checkpoint)
  BY <1>1 DEF InProgress, AskingForPage, PageInHand
<1>4. PICK n \in Nat : n = Len(checkpoint.seen_cursors)
  BY <1>1, <1>3, PagesSeen
<1>5. /\ n < manifest.search_request_count
      /\ manifest.search_request_count \in Nat
      /\ n + 1 <= PageLimit
      /\ PageNumber = n + 1
  BY <1>1, <1>3, <1>4, PagesSeen, LimitsAssumption DEF PageNumber
<1>6. HeldEntry \in PageEntry
  BY <1>3 DEF Follows
<1>7. ~PageIsCaptured
  <2>1. n + 1 \notin Captured(manifest)
    BY <1>3, <1>4 DEF SeenAll
  <2>2. QED
    BY <1>5, <2>1, LimitsAssumption DEF PageIsCaptured, Captured
<1>8. SaveManifest(m, "save_page_checkpoint")
  BY <1>6, <1>7 DEF SavePage, HeldEntry
<1>9. /\ Len(held.checkpoint.candidates) \in Nat
      /\ Len(held.checkpoint.candidates) <= CandidateLimit
  BY <1>3, SoundParts DEF Advances
<1>10. m \in Manifest
  <2>1. PageNumber \in Nat
    BY <1>5
  <2>2. QED
    BY <1>2, <1>6, <1>9, <2>1, PageAppended
<1>11. /\ m.pages = [manifest.pages EXCEPT ![n + 1] = HeldEntry]
       /\ m.records = manifest.records
       /\ m.configuration = manifest.configuration
       /\ m.status = manifest.status
       /\ m.finished = manifest.finished
       /\ m.candidate_count = Len(held.checkpoint.candidates)
       /\ SameTallies(manifest, m)
       /\ SameCounts(manifest, m)
  BY <1>2, <1>5 DEF Manifest, SameTallies, SameCounts
<1> HIDE DEF m
<1>12. /\ Agree(m, checkpoint, SelectionOf(run))
       /\ Captured(m) = 1..(n + 1)
       /\ m.pages[n + 1] = HeldEntry
  <2>1. /\ Len(checkpoint.seen_cursors) + 1 <= PageLimit
        /\ m.pages = [manifest.pages EXCEPT
                        ![Len(checkpoint.seen_cursors) + 1] = HeldEntry]
        /\ m.records = manifest.records
    BY <1>4, <1>5, <1>11
  <2>2. /\ Agree(m, checkpoint, SelectionOf(run))
        /\ Captured(m) = 1..(Len(checkpoint.seen_cursors) + 1)
    BY <1>2, <1>3, <2>1, NewPageAgrees
  <2>3. manifest.pages \in [1..PageLimit -> PageEntry \cup {NoEntry}]
    BY <1>2 DEF Manifest
  <2>4. n + 1 \in 1..PageLimit
    BY <1>5, LimitsAssumption
  <2>5. m.pages[n + 1] = HeldEntry
    BY <1>11, <2>3, <2>4
  <2>6. QED
    BY <1>4, <2>2, <2>5
<1>13. ValidManifest(m)
  <2>1. Stamped(m)
    BY <1>2, <1>11 DEF Stamped, ValidManifest
  <2>2. QED
    BY <1>2, <1>5, <1>9, <1>10, <1>11, <1>12, <2>1, PageStaysValid
<1>14. /\ DocumentsAgree' /\ pc' = "save_page_checkpoint"
       /\ manifest' = m /\ checkpoint' = checkpoint
  BY <1>1, <1>8, <1>11, <1>12, <1>13, ManifestSavedAgrees
<1>15. PageInHand'
  <2>1. HeldEntry' = HeldEntry
    BY <1>1, <1>14 DEF HeldEntry
  <2>2. PageNumber' = n + 1
    BY <1>4, <1>14 DEF PageNumber
  <2>3. n + 1 \in Captured(m)
    BY <1>12
  <2>4. PageIsCaptured'
    BY <1>5, <1>14, <2>2, <2>3 DEF PageIsCaptured, Captured
  <2>5. QED
    BY <1>1, <1>3, <1>11, <1>12, <1>14, <2>1, <2>2, <2>4
       DEF PageInHand, SameCounts
<1>16. InProgress'
  BY <1>14, <1>15
     DEF InProgress, Selecting, AskingForPage, AskingForRecord, AskingFor,
         AtRecord, InternalChecksNeverTrip
<1>17. QED
  BY <1>14, <1>16

LEMMA SavePageCheckpointKeepsReplayable ==
  ASSUME Known, HistoryStep, SavePageCheckpoint
  PROVE  Replayable'
<1> USE DEF Known, Replayable
<1>1. /\ pc = "save_page_checkpoint"
      /\ pc \in Working
      /\ manifest.status # "completed"
      /\ SaveCheckpoint(held.checkpoint, "collect")
  BY AtWork DEF SavePageCheckpoint, Working, Points, InTry, Unfinished, Ending
<1>2. /\ ~checkpoint.search_complete
      /\ PageIsCaptured
      /\ manifest.pages[PageNumber] = HeldEntry
      /\ Advances(checkpoint, held.checkpoint, HeldEntry,
                  manifest.search_request_count)
  BY <1>1 DEF InProgress, PageInHand
<1>3. OneAhead(manifest, checkpoint)
  BY <1>1, <1>2, CapturedPageIsAhead
<1>4. Agree(manifest, held.checkpoint, SelectionOf(run))
  BY <1>1, <1>2, <1>3, AtWork, AdvancedAgrees DEF PageNumber, ValidManifest
<1>5. DocumentsAgree' /\ pc' = "collect"
  BY <1>1, <1>4, CheckpointSavedAgrees
<1>6. QED
  BY <1>5, NothingInProgress DEF Elsewhere

LEMMA CollectKeepsReplayable ==
  ASSUME Known, HistoryStep, Collect
  PROVE  Replayable'
<1>1. CASE SearchIsComplete
  <2>1. /\ UNCHANGED <<manifestFile, checkpointFile, manifest, checkpoint>>
        /\ pc' = "capture"
        /\ checkpoint.search_complete
    BY <1>1 DEF SearchIsComplete, disk, memory
  <2>2. InProgress'
    BY <2>1
       DEF InProgress, Selecting, AskingForPage, PageInHand, AskingForRecord,
           AskingFor, AtRecord, InternalChecksNeverTrip
  <2>3. QED
    BY <2>1, <2>2, NothingWrittenAgrees DEF Known, Replayable
<1>2. CASE SearchFails \/ GiveUpSearch
  <2>1. /\ UNCHANGED <<manifestFile, checkpointFile, manifest, checkpoint, held>>
        /\ \/ pc' = "failing"
           \/ pc' = "backoff_search" /\ pc = "call_search"
    BY <1>2 DEF SearchFails, GiveUpSearch, disk, memory
  <2>2. CASE pc' = "failing"
    BY <2>1, <2>2, NothingWrittenAgrees, NothingInProgress
       DEF Elsewhere, Known, Replayable
  <2>3. CASE pc' = "backoff_search" /\ pc = "call_search"
    <3>1. AskingForPage'
      BY <2>1, <2>3
         DEF Known, Replayable, InProgress, AskingForPage, SeenAll
    <3>2. InProgress'
      BY <2>3, <3>1
         DEF InProgress, Selecting, PageInHand, AskingForRecord, AskingFor,
             AtRecord, InternalChecksNeverTrip
    <3>3. QED
      BY <2>1, <3>2, NothingWrittenAgrees DEF Known, Replayable
  <2>4. QED
    BY <2>1, <2>2, <2>3
<1>3. QED
  BY <1>1, <1>2, ReplayPageKeepsReplayable, BeginSearchKeepsReplayable,
     RetrySearchKeepsReplayable, SearchAnswersKeepsReplayable,
     SavePageKeepsReplayable, SavePageCheckpointKeepsReplayable
     DEF Collect

-----------------------------------------------------------------------------
(* _capture_records                                                        *)

(* The records settled are those passed, or the one in turn as well.        *)
LEMMA RecordsPassed ==
  ASSUME Known, pc \in Working
  PROVE  /\ checkpoint.next_record_index \in Nat
         /\ MoreCandidates => Position \in 1..CandidateLimit
         /\ IF MoreCandidates /\ IsSettled
            THEN Settled(manifest) = 1..(checkpoint.next_record_index + 1)
            ELSE MoreCandidates =>
                   Settled(manifest) = 1..checkpoint.next_record_index
<1>1. PICK n \in Nat : n = checkpoint.next_record_index
  BY AtWork DEF Known, Replayable, Checkpoint
<1>2. /\ \/ Settled(manifest) = 1..n
         \/ Settled(manifest) = 1..(n + 1)
      /\ Len(checkpoint.candidates) \in Nat
      /\ Len(checkpoint.candidates) <= CandidateLimit
  BY <1>1, AtWork, SoundParts DEF Known, Replayable, Agree, Recorded
<1>3. MoreCandidates => n + 1 \in 1..CandidateLimit
  BY <1>1, <1>2, LimitsAssumption DEF MoreCandidates
<1>4. ASSUME MoreCandidates
      PROVE  IsSettled <=> n + 1 \in Settled(manifest)
  BY <1>1, <1>3, <1>4 DEF IsSettled, Position, Settled
<1>5. n + 1 \notin 1..n /\ n + 1 \in 1..(n + 1)
  OBVIOUS
<1>6. QED
  BY <1>1, <1>2, <1>3, <1>4, <1>5 DEF Position

LEMMA ReserveRecordKeepsReplayable ==
  ASSUME Known, HistoryStep, pc \in {"capture", "backoff_record"},
         NEW n, ReserveRecord(n), checkpoint.search_complete,
         Settled(manifest) = 1..checkpoint.next_record_index
  PROVE  Replayable'
<1> USE DEF Known, Replayable
<1>1. /\ pc \in Working
      /\ manifest.status # "completed"
  BY AtWork DEF Working, Points, InTry, Unfinished, Ending
<1>2. /\ manifest \in Manifest
      /\ ValidManifest(manifest)
      /\ Agree(manifest, checkpoint, SelectionOf(run))
      /\ manifest.search_request_count \in Nat
      /\ manifest.record_request_count \in Nat
      /\ RecordLimit \in Nat
  BY <1>1, AtWork, LimitsAssumption DEF Manifest
<1>3. CASE /\ manifest.record_request_count < RecordLimit
           /\ Reserve([manifest EXCEPT !.record_request_count = @ + 1],
                      "call_record")
  <2> DEFINE m == [manifest EXCEPT !.record_request_count = @ + 1]
  <2>1. m \in Manifest
    BY <1>2, ManifestUpdates
  <2>2. /\ m.configuration = manifest.configuration
        /\ m.status = manifest.status
        /\ m.search_request_count = manifest.search_request_count
        /\ m.record_request_count = manifest.record_request_count + 1
        /\ m.candidate_count = manifest.candidate_count
        /\ SameTallies(manifest, m)
        /\ SameEntries(manifest, m)
        /\ m.finished = manifest.finished
    BY <1>2 DEF Manifest, SameTallies, SameEntries
  <2>3. SaveManifest(m, "call_record")
    BY <1>3 DEF Reserve
  <2> HIDE DEF m
  <2>4. ValidManifest(m)
    <3>1. /\ manifest.search_request_count <= m.search_request_count
          /\ m.search_request_count <= PageLimit
          /\ manifest.record_request_count <= m.record_request_count
          /\ m.record_request_count <= RecordLimit
          /\ m.candidate_count <= CandidateLimit
      BY <1>2, <1>3, <2>2 DEF ValidManifest
    <3>2. Stamped(m)
      BY <1>2, <2>2 DEF Stamped, ValidManifest
    <3>3. QED
      BY <1>2, <2>1, <2>2, <3>1, <3>2, CountsStayValid
  <2>5. Agree(m, checkpoint, SelectionOf(run))
    BY <1>2, <2>2, SameEntriesAgree
  <2>6. /\ DocumentsAgree' /\ pc' = "call_record"
        /\ manifest' = m /\ checkpoint' = checkpoint
    BY <1>1, <2>2, <2>3, <2>4, <2>5, ManifestSavedAgrees
  <2>7. Settled(m) = 1..checkpoint.next_record_index
    BY <2>2 DEF SameEntries, Settled
  <2>8. checkpoint.next_record_index < m.record_request_count
    <3>1. PICK k \in Nat : k = checkpoint.next_record_index
      BY <1>1, RecordsPassed
    <3>2. Cardinality(Settled(manifest)) = k
      BY <3>1, PositionsAreFinite
    <3>3. k <= manifest.record_request_count
      BY <1>2, <3>2 DEF ValidManifest
    <3>4. QED
      BY <1>2, <2>2, <3>1, <3>3
  <2>9. AskingForRecord'
    BY <2>6, <2>7, <2>8 DEF AskingForRecord, AskingFor, AtRecord
  <2>10. InProgress'
    BY <2>6, <2>9
       DEF InProgress, Selecting, AskingForPage, PageInHand,
           InternalChecksNeverTrip
  <2>11. QED
    BY <2>6, <2>10
<1>4. CASE /\ manifest.record_request_count >= RecordLimit
           /\ pc' = "finish"
           /\ UNCHANGED <<manifest, manifestFile, checkpoint, checkpointFile>>
  <2>1. manifest.record_request_count = RecordLimit
    BY <1>2, <1>4 DEF ValidManifest
  <2>2. AskingForRecord'
    BY <1>4, <2>1 DEF AskingForRecord, AskingFor, AtRecord
  <2>3. InProgress'
    BY <1>4, <2>2
       DEF InProgress, Selecting, AskingForPage, PageInHand,
           InternalChecksNeverTrip
  <2>4. QED
    BY <1>4, <2>3, NothingWrittenAgrees
<1>5. QED
  BY <1>3, <1>4 DEF ReserveRecord

(* The checkpoint moves past a record that is settled.                      *)
LEMMA PastRecordKeepsReplayable ==
  ASSUME Known, HistoryStep, SkipSettled \/ SaveRecordCheckpoint
  PROVE  Replayable'
<1> USE DEF Known, Replayable
<1>1. /\ pc \in Working
      /\ pc \in {"capture", "save_record_checkpoint"}
      /\ manifest.status # "completed"
      /\ SaveCheckpoint(PastThisRecord, "capture")
  BY AtWork DEF SkipSettled, SaveRecordCheckpoint, Working, Points, InTry,
                Unfinished, Ending
<1>2. /\ checkpoint \in Checkpoint
      /\ checkpoint.search_complete
      /\ Agree(manifest, checkpoint, SelectionOf(run))
  BY <1>1, AtWork DEF InProgress, AskingForRecord, AtRecord
<1>3. Settled(manifest) = 1..(checkpoint.next_record_index + 1)
  <2>1. CASE SkipSettled
    BY <1>1, <2>1, RecordsPassed DEF SkipSettled
  <2>2. CASE SaveRecordCheckpoint
    BY <2>2 DEF SaveRecordCheckpoint, InProgress, AskingForRecord, Position
  <2>3. QED
    BY <2>1, <2>2
<1>4. Agree(manifest, PastThisRecord, SelectionOf(run))
  BY <1>2, <1>3, PastRecordAgrees DEF PastThisRecord
<1>5. PastThisRecord.search_complete
  BY <1>2 DEF PastThisRecord, Checkpoint
<1>6. DocumentsAgree' /\ pc' = "capture" /\ checkpoint' = PastThisRecord
  BY <1>1, <1>4, CheckpointSavedAgrees
<1>7. InProgress'
  BY <1>5, <1>6
     DEF InProgress, Selecting, AskingForPage, PageInHand, AskingForRecord,
         AskingFor, AtRecord, InternalChecksNeverTrip
<1>8. QED
  BY <1>6, <1>7

(* Neither asking for a record nor storing what came changes a document.    *)
LEMMA AskingKeepsReplayable ==
  ASSUME Known, pc \in AskingFor, pc' \in AskingFor \cup {"failing"},
         UNCHANGED <<manifestFile, checkpointFile, manifest, checkpoint>>
  PROVE  Replayable'
<1>1. /\ checkpoint.search_complete
      /\ Settled(manifest) = 1..checkpoint.next_record_index
      /\ checkpoint.next_record_index < manifest.record_request_count
  BY DEF Known, Replayable, InProgress, AskingForRecord, AskingFor, AtRecord
<1>2. AskingForRecord'
  BY <1>1 DEF AskingForRecord, AskingFor, AtRecord
<1>3. InProgress'
  BY <1>2
     DEF InProgress, Selecting, AskingForPage, PageInHand, AskingFor,
         InternalChecksNeverTrip
<1>4. QED
  BY <1>3, NothingWrittenAgrees DEF Known, Replayable

(* The entry of the candidate in turn.                                      *)
LEMMA SaveEntryKeepsReplayable ==
  ASSUME Known, HistoryStep, pc \in {"save_record", "save_quarantine"},
         NEW e \in RecordEntry, e.record_id = RecordId, SaveEntry(e)
  PROVE  Replayable'
<1> USE DEF Known, Replayable
<1> DEFINE m == EntryAppended(e)
<1>1. /\ pc \in Working
      /\ manifest.status # "completed"
      /\ MoreCandidates
      /\ checkpoint.search_complete
      /\ Settled(manifest) = 1..checkpoint.next_record_index
      /\ checkpoint.next_record_index < manifest.record_request_count
  BY AtWork DEF Working, Points, InTry, Unfinished, Ending, Base, InHand,
                AtRecord, InProgress, AskingForRecord, AskingFor
<1>2. /\ manifest \in Manifest
      /\ ValidManifest(manifest)
      /\ Agree(manifest, checkpoint, SelectionOf(run))
  BY <1>1, AtWork
<1>3. PICK n \in Nat : n = checkpoint.next_record_index
  BY <1>1, RecordsPassed
<1>4. Position = n + 1 /\ n + 1 <= CandidateLimit
  BY <1>1, <1>3, RecordsPassed, LimitsAssumption DEF Position
<1>5. /\ Tally(e, "created") \in Nat
      /\ Tally(e, "already_present") \in Nat
      /\ Tally(e, "quarantined") \in Nat
  BY DEF Tally
<1>6. m \in Manifest
  <2>1. Position \in Nat
    BY <1>4
  <2>2. QED
    BY <1>2, <1>5, <2>1, RecordAppended DEF EntryAppended
<1>7. /\ m.records = [manifest.records EXCEPT ![n + 1] = e]
      /\ m.pages = manifest.pages
      /\ m.configuration = manifest.configuration
      /\ m.status = manifest.status
      /\ m.finished = manifest.finished
      /\ m.candidate_count = manifest.candidate_count
      /\ SameCounts(manifest, m)
      /\ m.created_count = manifest.created_count + Tally(e, "created")
      /\ m.existing_count = manifest.existing_count + Tally(e, "already_present")
      /\ m.quarantined_count = manifest.quarantined_count + Tally(e, "quarantined")
  <2> HIDE DEF Tally
  <2>1. QED
    BY <1>2, <1>4 DEF EntryAppended, Manifest, SameCounts
<1>8. ~IsSettled
  <2>1. n + 1 \notin Settled(manifest)
    BY <1>1, <1>3
  <2>2. QED
    BY <1>4, <2>1, LimitsAssumption DEF IsSettled, Settled
<1>9. SaveManifest(m, "save_record_checkpoint")
  BY <1>8 DEF SaveEntry
<1> HIDE DEF m
<1>10. /\ Agree(m, checkpoint, SelectionOf(run))
       /\ Settled(m) = 1..(n + 1)
  <2>1. checkpoint.next_record_index < Len(checkpoint.candidates)
    BY <1>1 DEF MoreCandidates
  <2>2. e.record_id = checkpoint.candidates[checkpoint.next_record_index + 1]
    BY DEF RecordId, Position
  <2>3. m.records
          = [manifest.records EXCEPT ![checkpoint.next_record_index + 1] = e]
    BY <1>3, <1>7
  <2>4. m.search_request_count = manifest.search_request_count
    BY <1>7 DEF SameCounts
  <2>5. /\ Agree(m, checkpoint, SelectionOf(run))
        /\ Settled(m) = 1..(checkpoint.next_record_index + 1)
    BY <1>1, <1>2, <1>7, <2>1, <2>2, <2>3, <2>4, NewRecordAgrees
  <2>6. QED
    BY <1>3, <2>5
<1>11. ValidManifest(m)
  <2>1. Stamped(m)
    BY <1>2, <1>7 DEF Stamped, ValidManifest
  <2>2. QED
    BY <1>1, <1>2, <1>3, <1>4, <1>6, <1>7, <1>10, <2>1, RecordStaysValid
<1>12. /\ DocumentsAgree' /\ pc' = "save_record_checkpoint"
       /\ manifest' = m /\ checkpoint' = checkpoint
  BY <1>1, <1>7, <1>9, <1>10, <1>11, ManifestSavedAgrees
<1>13. AskingForRecord'
  <2>1. Position' = n + 1
    BY <1>3, <1>12 DEF Position
  <2>2. Settled(manifest)' = 1..(n + 1)
    BY <1>10, <1>12 DEF Settled
  <2>3. QED
    BY <1>1, <1>12, <2>1, <2>2 DEF AskingForRecord, AskingFor, AtRecord
<1>14. InProgress'
  BY <1>12, <1>13
     DEF InProgress, Selecting, AskingForPage, PageInHand,
         InternalChecksNeverTrip
<1>15. QED
  BY <1>12, <1>14

LEMMA CaptureKeepsReplayable ==
  ASSUME Known, HistoryStep, Capture
  PROVE  Replayable'
<1>1. CASE CaptureIsDone
  <2>1. /\ UNCHANGED <<manifestFile, checkpointFile, manifest, checkpoint>>
        /\ pc' = "finish"
        /\ ~MoreCandidates
        /\ checkpoint.search_complete
    BY <1>1 DEF CaptureIsDone, disk, memory, Known, Replayable, InProgress,
                AskingForRecord
  <2>2. AskingForRecord'
    BY <2>1 DEF AskingForRecord, AskingFor, AtRecord, MoreCandidates
  <2>3. InProgress'
    BY <2>1, <2>2
       DEF InProgress, Selecting, AskingForPage, PageInHand,
           InternalChecksNeverTrip
  <2>4. QED
    BY <2>1, <2>3, NothingWrittenAgrees DEF Known, Replayable
<1>2. CASE BeginRecord
  <2>1. /\ pc = "capture" /\ pc \in Working
        /\ ReserveRecord(1)
        /\ MoreCandidates /\ ~IsSettled
    BY <1>2 DEF BeginRecord, Working, Points, InTry
  <2>2. /\ checkpoint.search_complete
        /\ Settled(manifest) = 1..checkpoint.next_record_index
    BY <2>1, RecordsPassed DEF Known, Replayable, InProgress, AskingForRecord
  <2>3. QED
    BY <2>1, <2>2, ReserveRecordKeepsReplayable
<1>3. CASE RetryRecord
  <2>1. pc = "backoff_record" /\ ReserveRecord(attempt + 1)
    BY <1>3 DEF RetryRecord
  <2>2. /\ checkpoint.search_complete
        /\ Settled(manifest) = 1..checkpoint.next_record_index
    BY <2>1 DEF Known, Replayable, InProgress, AskingForRecord, AskingFor,
                AtRecord
  <2>3. QED
    BY <2>1, <2>2, ReserveRecordKeepsReplayable
<1>4. CASE RecordAnswers \/ RecordFails \/ GiveUpRecord \/ StoreObject
           \/ StoreFails \/ StoreQuarantine
  <2>1. /\ UNCHANGED <<manifestFile, checkpointFile, manifest, checkpoint>>
        /\ pc \in AskingFor
        /\ pc' \in AskingFor \cup {"failing"}
    BY <1>4 DEF RecordAnswers, RecordFails, GiveUpRecord, StoreObject, StoreFails,
                StoreQuarantine, disk, memory, AskingFor
  <2>2. QED
    BY <2>1, AskingKeepsReplayable
<1>5. CASE SaveRecord \/ SaveQuarantine
  <2>1. /\ pc \in {"save_record", "save_quarantine"}
        /\ pc \in Working
        /\ MoreCandidates
    BY <1>5 DEF SaveRecord, SaveQuarantine, Known, Base, InHand, AtRecord,
                Working, Points, InTry
  <2>2. RecordId \in Records
    BY <2>1, CandidateInTurn DEF Known
  <2>3. PICK e \in RecordEntry : e.record_id = RecordId /\ SaveEntry(e)
    BY <1>5, <2>2 DEF SaveRecord, SaveQuarantine, RecordEntry, Known, Base,
                       InHand, HeldStored, HeldFailure
  <2>4. QED
    BY <2>1, <2>3, SaveEntryKeepsReplayable
<1>6. QED
  BY <1>1, <1>2, <1>3, <1>4, <1>5, PastRecordKeepsReplayable DEF Capture

-----------------------------------------------------------------------------
(* How a run ends                                                          *)

(* A run that is marked completed accounts for every candidate.             *)
LEMMA CompleteKeepsReplayable ==
  ASSUME Known, HistoryStep, Complete
  PROVE  Replayable'
<1> USE DEF Known, Replayable
<1> DEFINE m == [manifest EXCEPT !.status = "completed", !.finished = TRUE]
<1>1. pc = "finish" /\ pc \in Working
  BY DEF Complete, Working, Points, InTry
<1>2. /\ manifest \in Manifest
      /\ ValidManifest(manifest)
      /\ Agree(manifest, checkpoint, SelectionOf(run))
  BY <1>1, AtWork
<1>3. /\ m \in Manifest
      /\ SameEntries(manifest, m)
      /\ SameCounts(manifest, m)
  BY <1>2, ManifestUpdates, FieldsKeepEntries DEF Statuses
<1>4. /\ m.configuration = manifest.configuration
      /\ SameTallies(manifest, m)
      /\ m.candidate_count = manifest.candidate_count
      /\ Stamped(m)
  BY <1>2 DEF Manifest, SameTallies, Stamped, Terminal
<1>5. SaveManifest(m, "returning")
  BY DEF Complete
<1> HIDE DEF m
<1>6. ValidManifest(m)
  <2>1. /\ manifest.search_request_count \in Nat
        /\ manifest.record_request_count \in Nat
    BY <1>2 DEF Manifest
  <2>2. QED
    BY <1>2, <1>3, <1>4, <2>1, CountsStayValid DEF SameCounts, ValidManifest
<1>7. Agree(m, checkpoint, SelectionOf(run))
  BY <1>2, <1>3, <1>4, SameEntriesAgree DEF SameCounts
<1>8. Accounted(m, checkpoint)
  <2>1. /\ checkpoint.search_complete
        /\ ~MoreCandidates \/ manifest.record_request_count = RecordLimit
    BY <1>1 DEF InProgress, AskingForRecord
  <2>2. CASE manifest.record_request_count = RecordLimit
    BY <1>3, <2>1, <2>2 DEF Accounted, SameCounts
  <2>3. CASE ~MoreCandidates
    <3>1. PICK n \in Nat : n = checkpoint.next_record_index
      BY <1>1, RecordsPassed
    <3>2. Len(checkpoint.candidates) = n
      BY <1>2, <2>3, <3>1, SoundParts DEF MoreCandidates, Agree
    <3>3. Settled(manifest) = 1..n
      <4>1. n + 1 \notin Settled(manifest)
        BY <1>2, <3>1, <3>2 DEF Agree, Recorded
      <4>2. n + 1 \in 1..(n + 1)
        OBVIOUS
      <4>3. QED
        BY <1>2, <3>1, <4>1, <4>2 DEF Agree, Recorded
    <3>4. QED
      BY <1>3, <2>1, <3>2, <3>3 DEF Accounted, SameEntries, Settled
  <2>4. QED
    BY <2>1, <2>2, <2>3
<1>9. DocumentsAgree' /\ pc' = "returning"
  BY <1>1, <1>4, <1>5, <1>6, <1>7, <1>8, ManifestSavedAgrees
<1>10. QED
  BY <1>9, NothingInProgress DEF Elsewhere

(* The except blocks change the status of what is on disk, and no more.     *)
LEMMA EndRunKeepsReplayable ==
  ASSUME Known, HistoryStep, pc # "idle",
         NEW status \in {"failed", "interrupted"}, EndRun(status),
         UNCHANGED checkpointFile
  PROVE  Replayable'
<1> USE DEF Known, Replayable
<1> DEFINE old == manifestFile[run]
           m   == EndedManifest(old, status)
<1>1. /\ run \in RunIds
      /\ old \in Manifest
      /\ Exists(run)
  BY AbsenceAssumption DEF Base, Loaded, Exists
<1>2. Consistent(run, old, checkpointFile[run], SelectionOf(run))
  BY <1>1 DEF DocumentsAgree
<1>3. /\ m \in Manifest
      /\ SameEntries(old, m)
      /\ SameCounts(old, m)
  BY <1>1, ManifestUpdates, FieldsKeepEntries DEF EndedManifest, Statuses
<1>4. /\ m.configuration = old.configuration
      /\ SameTallies(old, m)
      /\ m.candidate_count = old.candidate_count
      /\ m.status # "completed"
      /\ Stamped(m)
  BY <1>1 DEF EndedManifest, Manifest, SameTallies, Stamped, Terminal
<1> HIDE DEF m
<1>5. ValidManifest(old) /\ ValidManifest(m)
  <2> HIDE DEF old
  <2>1. /\ old.search_request_count \in Nat
        /\ old.record_request_count \in Nat
    BY <1>1 DEF Manifest
  <2>2. QED
    BY <1>1, <1>2, <1>3, <1>4, <2>1, CountsStayValid
       DEF SameCounts, ValidManifest, Consistent
<1>6. /\ manifestFile' = [manifestFile EXCEPT ![run] = m]
      /\ pc' = "idle"
  BY <1>5 DEF EndRun, Exit, m
<1>7. /\ manifestFile'[run] = m
      /\ \A r \in RunIds \ {run} : manifestFile'[r] = manifestFile[r]
  BY <1>1, <1>6 DEF Base, TypeOK
<1> HIDE DEF old
<1>8. Agree(old, checkpointFile[run], SelectionOf(run))
        => Agree(m, checkpointFile[run], SelectionOf(run))
  BY <1>3, <1>4, SameEntriesAgree DEF SameCounts
<1>9. Empty(old) => Empty(m)
  BY <1>3 DEF SameEntries, Empty, Captured, Settled
<1>10. Consistent(run, m, checkpointFile[run], SelectionOf(run))
  BY <1>2, <1>4, <1>5, <1>8, <1>9 DEF Consistent
<1>11. DocumentsAgree'
  BY <1>1, <1>4, <1>7, <1>10, OneRunAgrees DEF old
<1>12. QED
  BY <1>6, <1>11, NothingInProgress DEF Elsewhere

LEMMA EndingKeepsReplayable ==
  ASSUME Known, HistoryStep, Finish \/ Disruption
  PROVE  Replayable'
<1>1. CASE Complete
  BY <1>1, CompleteKeepsReplayable
<1>2. CASE FailRun \/ InterruptRun
  <2>1. PICK status \in {"failed", "interrupted"} : EndRun(status)
    BY <1>2 DEF FailRun, InterruptRun
  <2>2. pc # "idle" /\ UNCHANGED checkpointFile
    BY <1>2 DEF FailRun, InterruptRun
  <2>3. QED
    BY <2>1, <2>2, EndRunKeepsReplayable
<1>3. CASE Return \/ Disruption
  <2>1. /\ UNCHANGED <<manifestFile, checkpointFile>>
        /\ pc' \in Elsewhere
    BY <1>3 DEF Return, Disruption, Crash, Interrupt, Raise, Exit, disk,
                Elsewhere
  <2>2. QED
    BY <2>1, NothingWrittenAgrees, NothingInProgress DEF Known, Replayable
<1>4. QED
  BY <1>1, <1>2, <1>3 DEF Finish

-----------------------------------------------------------------------------
(* Replayable is inductive                                                 *)

LEMMA KnownInvariant == Spec => []Known
<1>1. Init => Replayable
  BY DEF Init, Replayable, DocumentsAgree, Exists, InProgress, Selecting,
         AskingForPage, PageInHand, AskingForRecord, AskingFor, AtRecord,
         InternalChecksNeverTrip
<1>2. Known /\ [Next]_vars => Replayable'
  <2> SUFFICES ASSUME Known, [Next]_vars
               PROVE  Replayable'
    OBVIOUS
  <2>1. CASE Next
    <3>1. HistoryStep
      BY <2>1, StepsOfTheHistory DEF Known
    <3>2. QED
      BY <2>1, <3>1, OperatorKeepsReplayable, PrologueKeepsReplayable,
         CollectKeepsReplayable, CaptureKeepsReplayable, EndingKeepsReplayable
         DEF Next, Process
  <2>2. CASE UNCHANGED vars
    BY <2>2
       DEF vars, disk, memory, Known, Replayable, DocumentsAgree, Exists,
           SelectionOf, SelectedRecords, InProgress, Selecting, AskingForPage,
           PageInHand, AskingForRecord, InternalChecksNeverTrip, HeldEntry,
           PageIsCaptured, PageNumber, Position, MoreCandidates
  <2>3. QED
    BY <2>1, <2>2
<1>3. Base /\ Recovering /\ Unfinished /\ Replayable <=> Known
  BY DEF Known
<1>4. QED
  BY <1>1, <1>2, <1>3, BaseInvariant, RecoveringInvariant, UnfinishedInvariant,
     PTL DEF Spec

(* What a step may do to a completed run.                                   *)
LEMMA CompletedStep ==
  ASSUME Base, Base', Unfinished, DocumentsAgree, Next,
         NEW r \in RunIds, IsCompleted(r)
  PROVE  /\ \E s \in {"completed", "failed", "interrupted"} :
              manifestFile'[r] = [manifestFile[r] EXCEPT !.status = s]
         /\ checkpointFile'[r] = checkpointFile[r]
         /\ quarantineFile'[r] = quarantineFile[r]
         /\ searchCalls'[r] = searchCalls[r]
         /\ recordCalls'[r] = recordCalls[r]
<1>1. /\ manifestFile[r] \in Manifest
      /\ manifestFile[r].status = "completed"
      /\ [manifestFile[r] EXCEPT !.status = "completed"] = manifestFile[r]
      /\ manifestFile[r].finished = TRUE
  <2>1. /\ manifestFile[r] \in Manifest
        /\ manifestFile[r].status = "completed"
    BY DEF IsCompleted, Exists, Base, TypeOK
  <2>2. ValidManifest(manifestFile[r])
    BY DEF IsCompleted, DocumentsAgree, Consistent
  <2>3. manifestFile[r].finished
    BY <2>1, <2>2 DEF ValidManifest, Terminal
  <2>4. QED
    BY <2>1, <2>3 DEF Manifest
<1>2. CASE UNCHANGED <<disk, calls>>
  BY <1>1, <1>2 DEF disk, calls
<1>3. CASE pc \in Ending
  <2>1. CASE Operator
    <3>1. ASSUME NEW q \in RunIds, NEW c, CreateRun(q, c)
          PROVE  /\ q # r
                 /\ UNCHANGED <<checkpointFile, quarantineFile, calls>>
                 /\ manifestFile'[r] = manifestFile[r]
      BY <3>1 DEF CreateRun, IsCompleted, Exists, Base, TypeOK
    <3>2. ASSUME NEW q \in RunIds, ResumeRun(q) PROVE UNCHANGED <<disk, calls>>
      BY <3>2 DEF ResumeRun
    <3>3. QED
      BY <1>1, <1>2, <2>1, <3>1, <3>2 DEF Operator, StartRun, StartRecovery, calls
  <2>2. CASE Return \/ Crash \/ Interrupt \/ Raise
    BY <1>2, <2>2 DEF Return, Crash, Interrupt, Raise
  <2>3. CASE FailRun \/ InterruptRun
    <3>1. PICK s \in {"failed", "interrupted"} :
            \/ manifestFile' = manifestFile
            \/ manifestFile' = [manifestFile EXCEPT
                                  ![run] = EndedManifest(manifestFile[run], s)]
      BY <2>3 DEF FailRun, InterruptRun, EndRun
    <3>2. UNCHANGED <<checkpointFile, quarantineFile, searchCalls, recordCalls>>
      BY <2>3 DEF FailRun, InterruptRun, calls
    <3>3. \/ manifestFile'[r] = manifestFile[r]
          \/ manifestFile'[r] = [manifestFile[r] EXCEPT !.status = s]
      <4>1. EndedManifest(manifestFile[r], s)
              = [manifestFile[r] EXCEPT !.status = s]
        BY <1>1 DEF EndedManifest, Manifest
      <4>2. QED
        BY <3>1, <4>1 DEF Base, TypeOK
    <3>4. QED
      BY <1>1, <3>2, <3>3
  <2>4. QED
    <3>1. ~Prologue /\ ~Collect /\ ~Capture /\ ~Complete
      BY <1>3 DEF Ending, Prologue, CreateCheckpoint, MarkRunning,
         MarkRecovering, SaveSelection, Collect, SearchIsComplete, ReplayPage,
         BeginSearch, SearchAnswers, SearchFails, RetrySearch, GiveUpSearch,
         SavePage, SavePageCheckpoint, Capture, CaptureIsDone, SkipSettled,
         BeginRecord, RecordAnswers, RecordFails, RetryRecord, GiveUpRecord,
         StoreObject, StoreFails, SaveRecord, StoreQuarantine, SaveQuarantine,
         SaveRecordCheckpoint, Complete
    <3>2. QED
      BY <2>1, <2>2, <2>3, <3>1 DEF Next, Process, Finish, Disruption
<1>4. CASE pc \notin Ending
  <2>1. /\ run # r
        /\ run \in RunIds
    BY <1>1, <1>4 DEF Unfinished, Base, Loaded, Ending
  <2>2. /\ manifestFile'[r] = manifestFile[r]
        /\ searchCalls'[r] = searchCalls[r]
        /\ recordCalls'[r] = recordCalls[r]
    <3>1. HistoryStep
      BY StepsOfTheHistory
    <3>2. ~Creates
      BY <1>4 DEF Creates, CreateRun, Ending
    <3>3. QED
      BY <2>1, <3>1, <3>2
         DEF HistoryStep, Quiet, Updates, ReservesSearch, ReservesRecord,
             Reserves, CallsSearch, CallsRecord, calls, Base, TypeOK
  <2>3. /\ checkpointFile'[r] = checkpointFile[r]
        /\ quarantineFile'[r] = quarantineFile[r]
    BY <1>4, <2>1
       DEF Next, Operator, StartRun, StartRecovery, CreateRun, ResumeRun,
           Process, Disruption, Crash, Interrupt, Raise, Finish, Complete,
           Return, FailRun, InterruptRun, Ending, disk, Base, TypeOK,
           Prologue, CreateCheckpoint, MarkRunning, MarkRecovering,
           SaveSelection, Collect, SearchIsComplete, ReplayPage, BeginSearch,
           SearchAnswers, SearchFails, RetrySearch, GiveUpSearch, SavePage,
           SavePageCheckpoint, Capture, CaptureIsDone, SkipSettled, BeginRecord,
           RecordAnswers, RecordFails, RetryRecord, GiveUpRecord, StoreObject,
           StoreFails, SaveRecord, StoreQuarantine, SaveQuarantine,
           SaveRecordCheckpoint, SaveEntry, SaveManifest, SaveCheckpoint, Reject,
           ReserveSearch, ReserveRecord, Reserve
  <2>4. QED
    BY <1>1, <2>2, <2>3
<1>5. QED
  BY <1>3, <1>4

(* Nobody works on a completed run (CompletedRunsAreLeftAlone).             *)
THEOREM CompletedRunsStay == Spec => CompletedRunsAreLeftAlone
<1> DEFINE LeftAlone ==
      \A r \in RunIds : IsCompleted(r) =>
        /\ manifestFile'[r].status \in {"completed", "failed", "interrupted"}
        /\ manifestFile'[r] =
             [manifestFile[r] EXCEPT !.status = manifestFile'[r].status]
        /\ checkpointFile'[r] = checkpointFile[r]
        /\ quarantineFile'[r] = quarantineFile[r]
        /\ searchCalls'[r] = searchCalls[r]
        /\ recordCalls'[r] = recordCalls[r]
<1>1. Base /\ Base' /\ Unfinished /\ DocumentsAgree /\ Next => LeftAlone
  <2> SUFFICES ASSUME Base, Base', Unfinished, DocumentsAgree, Next,
                      NEW r \in RunIds, IsCompleted(r)
               PROVE  /\ manifestFile'[r].status
                            \in {"completed", "failed", "interrupted"}
                      /\ manifestFile'[r] =
                           [manifestFile[r] EXCEPT
                              !.status = manifestFile'[r].status]
                      /\ checkpointFile'[r] = checkpointFile[r]
                      /\ quarantineFile'[r] = quarantineFile[r]
                      /\ searchCalls'[r] = searchCalls[r]
                      /\ recordCalls'[r] = recordCalls[r]
    OBVIOUS
  <2>1. PICK s \in {"completed", "failed", "interrupted"} :
          manifestFile'[r] = [manifestFile[r] EXCEPT !.status = s]
    BY CompletedStep
  <2>2. manifestFile'[r].status = s
    BY <2>1 DEF IsCompleted, Exists, Base, TypeOK, Manifest
  <2>3. QED
    BY <2>1, <2>2, CompletedStep
<1>2. Known /\ Known' /\ [Next]_vars => [LeftAlone]_vars
  BY <1>1 DEF Known, Replayable
<1> HIDE DEF LeftAlone
<1>3. Spec => [][LeftAlone]_vars
  BY <1>2, KnownInvariant, PTL DEF Spec
<1>4. QED
  BY <1>3 DEF LeftAlone, CompletedRunsAreLeftAlone

-----------------------------------------------------------------------------
(* What follows                                                            *)

(* The validators, _append_entry, the cursor comparison of the replay and   *)
(* the guards of build_cursor_request and advance_cursor never fire, in the *)
(* loops, before them or in the handlers, whatever the provider answers and *)
(* wherever runs crash.                                                     *)
THEOREM ChecksNeverTrip == Spec => []InternalChecksNeverTrip
<1>1. Known => InternalChecksNeverTrip
  BY DEF Known, Replayable, InProgress
<1>2. QED
  BY <1>1, KnownInvariant, PTL

(* What holds of a run with a checkpoint.                                   *)
LEMMA RunAgrees ==
  ASSUME Known, NEW r \in RunIds, HasCheckpoint(r)
  PROVE  /\ Exists(r)
         /\ Agree(manifestFile[r], checkpointFile[r], SelectionOf(r))
         /\ ~IsRecovery(r) => Listed(manifestFile[r], checkpointFile[r])
         /\ Len(checkpointFile[r].seen_cursors) \in Nat
<1>1. Exists(r) /\ checkpointFile[r] # NoFile
  BY DEF Known, Base, Loaded, HasCheckpoint
<1>2. Agree(manifestFile[r], checkpointFile[r], SelectionOf(r))
  BY <1>1 DEF Known, Replayable, DocumentsAgree, Consistent
<1>3. QED
  BY <1>1, <1>2, SoundParts DEF Agree, Chosen, IsRecovery

(* However often a run was interrupted between its writes, its checkpoint   *)
(* is what the pages it has seen make it, so that resuming collects the     *)
(* candidates an uninterrupted run would have (advance_cursor and           *)
(* _reconcile_search_entry agree).                                          *)
THEOREM CheckpointsReplay == Spec => []CheckpointReflectsHistory
<1>1. Known => CheckpointReflectsHistory
  <2> SUFFICES ASSUME Known, NEW r \in RunIds, HasCheckpoint(r), ~IsRecovery(r)
               PROVE  LET c    == checkpointFile[r]
                          m    == manifestFile[r]
                          seen == Len(c.seen_cursors)
                          next == IF seen = 0 THEN StartCursor
                                  ELSE m.pages[seen].next_cursor
                      IN /\ c.candidates = PageIds(m, seen)
                         /\ \A n \in 1..seen :
                              c.seen_cursors[n] = m.pages[n].cursor
                         /\ \A n \in Captured(m) : n <= seen + 1
                         /\ seen + 1 \in Captured(m) =>
                              m.pages[seen + 1].cursor = next
                         /\ ~c.search_complete => c.next_cursor = next
    BY DEF CheckpointReflectsHistory
  <2> DEFINE c == checkpointFile[r]
             m == manifestFile[r]
  <2>1. PICK seen \in Nat : seen = Len(c.seen_cursors)
    BY RunAgrees
  <2>2. Listed(m, c)
    BY RunAgrees
  <2> HIDE DEF c, m
  <2>3. \A n \in Captured(m) : n <= seen + 1
    <3>1. Captured(m) \subseteq 1..(seen + 1)
      BY <2>1, <2>2 DEF Listed, SeenAll, OneAhead
    <3>2. QED
      BY <3>1
  <2>4. seen + 1 \in Captured(m) =>
          m.pages[seen + 1].cursor = CursorAfter(m, seen)
    <3> SUFFICES ASSUME seen + 1 \in Captured(m)
                 PROVE  m.pages[seen + 1].cursor = CursorAfter(m, seen)
      OBVIOUS
    <3>1. seen + 1 \notin 1..seen
      OBVIOUS
    <3>2. OneAhead(m, c)
      BY <2>1, <2>2, <3>1 DEF Listed, SeenAll
    <3>3. QED
      BY <2>1, <2>2, <3>2 DEF OneAhead, Follows, Listed
  <2>5. QED
    BY <2>1, <2>2, <2>3, <2>4 DEF Listed, CursorAfter, c, m
<1>2. QED
  BY <1>1, KnownInvariant, PTL

(* A completed run has an entry for every candidate, or has spent its       *)
(* Record budget: none is lost in a crash between two writes.               *)
THEOREM CompletedRunsAccount == Spec => []CompletedRunsAreAccountedFor
<1>1. Known => CompletedRunsAreAccountedFor
  <2> SUFFICES ASSUME Known, NEW r \in RunIds, IsCompleted(r)
               PROVE  /\ checkpointFile[r].search_complete
                      /\ \/ Len(checkpointFile[r].candidates)
                              = Cardinality(Settled(manifestFile[r]))
                         \/ manifestFile[r].record_request_count = RecordLimit
    BY DEF CompletedRunsAreAccountedFor
  <2>1. /\ checkpointFile[r] # NoFile
        /\ Accounted(manifestFile[r], checkpointFile[r])
    BY DEF Known, Replayable, DocumentsAgree, Consistent, IsCompleted
  <2>2. Len(checkpointFile[r].candidates) \in Nat
    BY <2>1, RunAgrees, SoundParts DEF HasCheckpoint, Agree
  <2>3. QED
    BY <2>1, <2>2, PositionsAreFinite DEF Accounted
<1>2. QED
  BY <1>1, KnownInvariant, PTL

(* Every record entry is of the candidate at its position in what the       *)
(* captured pages list or the recovery selected.                            *)
THEOREM EntriesAreTraceable == Spec => []RecordsAreTraceable
<1>1. Known => RecordsAreTraceable
  <2> SUFFICES ASSUME Known, NEW r \in RunIds, Exists(r),
                      NEW i \in Settled(manifestFile[r])
               PROVE  LET m        == manifestFile[r]
                          listed   == PageIds(m, Cardinality(Captured(m)))
                          selected == m.configuration.selected
                          failed(k) ==
                            manifestFile[m.configuration.recoveryOf]
                              .records[selected[k]]
                      IN IF IsRecovery(r) /\ Captured(m) = {}
                         THEN /\ i <= Len(selected)
                              /\ m.records[i].record_id = failed(i).record_id
                         ELSE /\ i <= Len(listed)
                              /\ m.records[i].record_id = listed[i]
    BY DEF RecordsAreTraceable
  <2> DEFINE c == checkpointFile[r]
             m == manifestFile[r]
             selected == m.configuration.selected
  <2>1. HasCheckpoint(r)
    BY DEF Known, Replayable, DocumentsAgree, Consistent, Empty, HasCheckpoint
  <2>2. Agree(m, c, SelectionOf(r))
    BY <2>1, RunAgrees
  <2>3. PICK seen \in Nat : seen = Len(c.seen_cursors)
    BY <2>1, RunAgrees
  <2>4. /\ c.search_complete
        /\ i <= Len(c.candidates)
        /\ m.records[i].record_id = c.candidates[i]
        /\ i \in Nat \ {0}
    BY <2>2, LimitsAssumption DEF Agree, Recorded, Settled
  <2>5. CASE Listed(m, c)
    <3>1. Captured(m) = 1..seen /\ c.candidates = PageIds(m, seen)
      BY <2>3, <2>4, <2>5 DEF Listed, SeenAll, OneAhead
    <3>2. Cardinality(Captured(m)) = seen
      BY <3>1, PositionsAreFinite
    <3>3. Captured(m) # {}
      <4> SUFFICES ASSUME Captured(m) = {}
                   PROVE  FALSE
        OBVIOUS
      <4>1. seen = 0
        BY <3>1
      <4>2. c.candidates = <<>>
        BY <3>1, <4>1, NoPagesNoIds
      <4>3. QED
        BY <2>4, <4>2
    <3>4. QED
      BY <2>4, <3>1, <3>2, <3>3
  <2>6. CASE Chosen(m, c, SelectionOf(r))
    <3>1. /\ IsRecovery(r)
          /\ Captured(m) = {}
          /\ c.candidates = SelectionOf(r)
      BY <2>6 DEF Chosen, IsRecovery
    <3>2. m.configuration \in Configuration
      BY DEF Known, Base, TypeOK, Exists, Manifest
    <3>3. /\ DOMAIN selected = 1..Len(selected)
          /\ Len(selected) \in Nat
      BY <3>2 DEF Configuration
    <3>4. c.candidates
            = [k \in DOMAIN selected |->
                 manifestFile[m.configuration.recoveryOf]
                   .records[selected[k]].record_id]
      BY <3>1 DEF SelectionOf, SelectedRecords
    <3> HIDE DEF selected, c
    <3>5. DOMAIN c.candidates = 1..Len(selected)
      BY <3>3, <3>4
    <3>6. DOMAIN c.candidates = 1..Len(c.candidates) /\ Len(c.candidates) \in Nat
      BY <2>2, SoundParts DEF Agree
    <3>7. i \in 1..Len(selected)
      BY <2>4, <3>5, <3>6
    <3>8. m.records[i].record_id
            = manifestFile[m.configuration.recoveryOf]
                .records[selected[i]].record_id
      BY <2>4, <3>3, <3>4, <3>7
    <3>9. QED
      BY <3>1, <3>3, <3>7, <3>8 DEF selected
  <2>7. QED
    BY <2>2, <2>5, <2>6 DEF Agree
<1>2. QED
  BY <1>1, KnownInvariant, PTL

-----------------------------------------------------------------------------
(* Why Search ends                                                         *)

(* What the property says of a complete Search: o is the successor that the *)
(* provider's last page named.                                              *)
Stopped(c, count, o) ==
  \/ Len(c.candidates) = CandidateLimit
  \/ count = PageLimit
  \/ c.seen_cursors # <<>> /\ o \in {NoCursor} \cup ToSet(c.seen_cursors)

(* If the page of entry, the next one for c, is the last, then one of these *)
(* is why.                                                                  *)
Explains(entry, c, count, o) ==
  entry.next_cursor = NoCursor =>
    \/ Len(c.candidates \o entry.candidate_ids) = CandidateLimit
    \/ count = PageLimit
    \/ o \in {NoCursor} \cup ToSet(Append(c.seen_cursors, c.next_cursor))

(* What a run's files, and the provider's last answer to it, say of the end *)
(* of its Search: that it has come, or that a captured page will bring it.  *)
EndsForAReason(m, c, o) ==
  m.configuration.recoveryOf = NoRun =>
    /\ c.search_complete => Stopped(c, m.search_request_count, o)
    /\ OneAhead(m, c) =>
         Explains(m.pages[Len(c.seen_cursors) + 1], c, m.search_request_count, o)

EveryEndHasAReason ==
  \A r \in RunIds : HasCheckpoint(r) =>
    EndsForAReason(manifestFile[r], checkpointFile[r], offered[r])

Reasons ==
  /\ EveryEndHasAReason
  /\ pc = "save_page" =>
       Explains(HeldEntry, checkpoint, manifest.search_request_count,
                offered[run])

(* A provider page explains its entry: advance_cursor leaves out the        *)
(* successor only when it stops, and stops for these reasons.               *)
LEMMA PageExplains ==
  ASSUME NEW c, Sound(c), ~c.search_complete,
         NEW page, page.items \in Seq(Records),
         page.next_cursor \in Cursors \cup {NoCursor},
         NEW count \in Nat, count <= PageLimit
  PROVE  LET a == AdvanceCursor(c, page, count)
         IN Explains([cursor        |-> c.next_cursor,
                      next_cursor   |-> a.checkpoint.next_cursor,
                      candidate_ids |-> a.new_candidate_ids],
                     c, count, page.next_cursor)
<1> DEFINE ids   == Unknown(c.candidates, page.items, CandidateLimit)
           next  == page.next_cursor
           after == PageApplied(c, ids, next, count)
           seen  == Append(c.seen_cursors, c.next_cursor)
<1>1. /\ c.candidates \in Seq(Records)
      /\ IsInjective(c.candidates)
      /\ Len(c.candidates) <= CandidateLimit
      /\ CandidateLimit \in Nat
      /\ PageLimit \in Nat
  BY LimitsAssumption DEF Sound, ValidCheckpoint, Checkpoint
<1>2. /\ ids \in Seq(Records)
      /\ IsInjective(c.candidates \o ids)
      /\ Len(c.candidates \o ids) <= CandidateLimit
  BY <1>1, UnknownAreNew
<1>3. /\ AdvanceCursor(c, page, count).checkpoint = after
      /\ AdvanceCursor(c, page, count).new_candidate_ids = ids
  BY DEF AdvanceCursor
<1> HIDE DEF ids
<1>4. Applied(after, c, ids, next, count)
  BY <1>2, PageIsApplied
<1> HIDE DEF after, seen
<1>5. after.next_cursor = NoCursor =>
        \/ Len(c.candidates \o ids) >= CandidateLimit
        \/ count >= PageLimit
        \/ next = NoCursor
        \/ next \in ToSet(seen)
  BY <1>4 DEF Applied, Sound, ValidCheckpoint, StopsAfter, seen
<1>6. Len(c.candidates \o ids) \in Nat
  BY <1>1, <1>2
<1>7. after.next_cursor = NoCursor =>
        \/ Len(c.candidates \o ids) = CandidateLimit
        \/ count = PageLimit
        \/ next \in {NoCursor} \cup ToSet(seen)
  BY <1>1, <1>2, <1>5, <1>6
<1>8. QED
  BY <1>3, <1>7 DEF Explains, seen

(* The checkpoint that a page makes of c stops for the reason that explains *)
(* the page, and has no page ahead of it.                                   *)
LEMMA AdvancedEnds ==
  ASSUME NEW m \in Manifest, NEW c, NEW next, NEW o, Sound(c), OneAhead(m, c),
         Advances(c, next, m.pages[Len(c.seen_cursors) + 1],
                  m.search_request_count),
         m.search_request_count <= PageLimit,
         EndsForAReason(m, c, o)
  PROVE  EndsForAReason(m, next, o)
<1> SUFFICES ASSUME m.configuration.recoveryOf = NoRun
             PROVE  /\ next.search_complete =>
                         Stopped(next, m.search_request_count, o)
                    /\ ~OneAhead(m, next)
  BY DEF EndsForAReason
<1>1. PICK n \in Nat : n = Len(c.seen_cursors)
  BY SoundParts
<1> DEFINE entry == m.pages[n + 1]
           count == m.search_request_count
<1>2. /\ c.seen_cursors \in Seq(Cursors)
      /\ c.next_cursor \in Cursors
  BY DEF OneAhead, Sound, ValidCheckpoint, Checkpoint
<1>3. /\ next.candidates = c.candidates \o entry.candidate_ids
      /\ next.seen_cursors = Append(c.seen_cursors, c.next_cursor)
  BY <1>1 DEF Advances
<1>4. /\ Len(next.seen_cursors) = n + 1
      /\ next.seen_cursors # <<>>
  BY <1>1, <1>2, <1>3
<1>5. ~OneAhead(m, next)
  <2>1. Captured(m) = 1..(n + 1)
    BY <1>1 DEF OneAhead
  <2>2. n + 2 \notin 1..(n + 1) /\ n + 2 \in 1..((n + 1) + 1)
    OBVIOUS
  <2>3. QED
    BY <1>4, <2>1, <2>2 DEF OneAhead
<1>6. ASSUME next.search_complete
      PROVE  Stopped(next, count, o)
  <2>1. \/ Len(next.candidates) = CandidateLimit
        \/ count >= PageLimit
        \/ entry.next_cursor = NoCursor
    BY <1>1, <1>6 DEF Advances
  <2>2. Explains(entry, c, count, o)
    BY <1>1 DEF EndsForAReason
  <2>3. count >= PageLimit => count = PageLimit
    BY LimitsAssumption DEF Manifest
  <2>4. QED
    BY <1>3, <1>4, <2>1, <2>2, <2>3 DEF Explains, Stopped
<1>7. QED
  BY <1>5, <1>6

(* Later requests take no reason back.                                      *)
LEMMA ReasonsStay ==
  ASSUME NEW m \in Manifest, NEW new \in Manifest, NEW c, NEW o,
         EndsForAReason(m, c, o),
         new.configuration = m.configuration,
         new.pages = m.pages,
         new.search_request_count >= m.search_request_count,
         new.search_request_count <= PageLimit
  PROVE  EndsForAReason(new, c, o)
<1>1. m.search_request_count = PageLimit => new.search_request_count = PageLimit
  BY LimitsAssumption DEF Manifest
<1>2. OneAhead(new, c) <=> OneAhead(m, c)
  BY DEF OneAhead, Captured
<1>3. QED
  BY <1>1, <1>2 DEF EndsForAReason, Stopped, Explains

(* Only the save of a page adds one to a manifest on disk.                  *)
LEMMA OnlySavePageAddsPages ==
  ASSUME Base, Next, ~SavePage, NEW r \in RunIds, Exists(r)
  PROVE  manifestFile'[r].pages = manifestFile[r].pages
<1>1. CASE manifestFile'[r] = manifestFile[r]
  BY <1>1
<1>2. CASE pc = "save_page"
  <2>1. Disruption
    BY <1>2 DEF Next, Operator, StartRun, StartRecovery, CreateRun, ResumeRun,
                Process, Prologue, CreateCheckpoint, MarkRunning, MarkRecovering,
                SaveSelection, Collect, SearchIsComplete, ReplayPage, BeginSearch,
                SearchAnswers, SearchFails, RetrySearch, GiveUpSearch,
                SavePageCheckpoint, Capture, CaptureIsDone, SkipSettled,
                BeginRecord, RecordAnswers, RecordFails, RetryRecord,
                GiveUpRecord, StoreObject, StoreFails, SaveRecord,
                StoreQuarantine, SaveQuarantine, SaveRecordCheckpoint, Finish,
                Complete, Return, FailRun, InterruptRun
  <2>2. QED
    BY <1>1, <2>1 DEF Disruption, Crash, Interrupt, Raise, disk
<1>3. CASE pc # "save_page"
  <2>1. ASSUME NEW m \in Manifest, m.pages = manifestFile[run].pages,
               manifestFile' = [manifestFile EXCEPT ![run] = m]
        PROVE  manifestFile'[r].pages = manifestFile[r].pages
    BY <2>1 DEF Base, TypeOK
  <2>2. HistoryStep
    BY StepsOfTheHistory
  <2>3. CASE Creates
    BY <2>3 DEF Creates, CreateRun, Exists, Base, TypeOK
  <2>4. CASE Updates
    BY <1>3, <2>1, <2>4 DEF Updates, EntersAtMostOne
  <2>5. CASE ReservesSearch \/ ReservesRecord
    BY <2>1, <2>5 DEF ReservesSearch, ReservesRecord, Reserves, SameEntries
  <2>6. CASE Quiet \/ CallsSearch \/ CallsRecord
    BY <2>6 DEF Quiet, CallsSearch, CallsRecord
  <2>7. QED
    BY <2>2, <2>3, <2>4, <2>5, <2>6 DEF HistoryStep
<1>4. QED
  BY <1>2, <1>3

(* A run whose checkpoint and last answer a step leaves alone.              *)
LEMMA UndisturbedEnds ==
  ASSUME Known, Known', Reasons, Next, ~SavePage, NEW r \in RunIds,
         HasCheckpoint(r),
         checkpointFile'[r] = checkpointFile[r], offered'[r] = offered[r]
  PROVE  EndsForAReason(manifestFile'[r], checkpointFile'[r], offered'[r])
<1>1. HistoryStep /\ Base /\ Exists(r) /\ Exists(r)'
  BY StepsOfTheHistory DEF Known, Base, Loaded, HasCheckpoint
<1>2. /\ Kept(manifestFile[r], manifestFile'[r])
      /\ manifestFile'[r].search_request_count
           >= manifestFile[r].search_request_count
  BY <1>1, StepsKeepHistory
<1>3. manifestFile'[r].pages = manifestFile[r].pages
  BY <1>1, OnlySavePageAddsPages
<1>4. ValidManifest(manifestFile'[r])
  BY <1>1 DEF Known, Replayable, DocumentsAgree, Consistent
<1>5. manifestFile[r] \in Manifest /\ manifestFile'[r] \in Manifest
  BY <1>1, <1>2 DEF Kept, Base, TypeOK, Exists
<1>6. EndsForAReason(manifestFile[r], checkpointFile[r], offered[r])
  BY DEF Reasons, EveryEndHasAReason
<1>7. QED
  BY <1>2, <1>3, <1>4, <1>5, <1>6, ReasonsStay DEF Kept, ValidManifest

(* A step that leaves all of them alone.                                    *)
LEMMA NoCheckpointEnds ==
  ASSUME Known, Known', Reasons, Next, ~SavePage,
         UNCHANGED <<checkpointFile, offered>>
  PROVE  EveryEndHasAReason'
BY UndisturbedEnds DEF EveryEndHasAReason, HasCheckpoint

(* A step that saves a checkpoint of the run under way, or none.            *)
LEMMA SavedCheckpointEnds ==
  ASSUME Known, Known', Reasons, Next, ~SavePage, pc \in Working,
         UNCHANGED offered,
         NEW c, NEW then, SaveCheckpoint(c, then) \/ Reject,
         EndsForAReason(manifest, c, offered[run])
  PROVE  EveryEndHasAReason'
<1>1. CASE UNCHANGED checkpointFile
  BY <1>1, NoCheckpointEnds
<1>2. CASE /\ checkpointFile' = [checkpointFile EXCEPT ![run] = c]
           /\ UNCHANGED manifestFile
  <2> SUFFICES ASSUME NEW r \in RunIds, HasCheckpoint(r)'
               PROVE  EndsForAReason(manifestFile'[r], checkpointFile'[r],
                                     offered'[r])
    BY DEF EveryEndHasAReason
  <2>1. run \in RunIds /\ manifest = manifestFile[run]
    BY AtWork DEF Known, Replayable
  <2>2. CASE r = run
    BY <1>2, <2>1, <2>2 DEF Known, Base, TypeOK
  <2>3. CASE r # run
    <3>1. checkpointFile'[r] = checkpointFile[r] /\ HasCheckpoint(r)
      BY <1>2, <2>3 DEF Known, Base, TypeOK, HasCheckpoint
    <3>2. QED
      BY <3>1, UndisturbedEnds
  <2>4. QED
    BY <2>2, <2>3
<1>3. QED
  BY <1>1, <1>2 DEF SaveCheckpoint, Reject

(* A page in hand is one that the provider has just answered.               *)
LEMMA PageInHandIsNew ==
  ASSUME Base, Next, pc' = "save_page"
  PROVE  SearchAnswers
<1>1. pc = "call_search"
  BY WhatIsHeld DEF WithPage, CallsSearch
<1>2. QED
  BY <1>1 DEF Next, Operator, StartRun, StartRecovery, CreateRun, ResumeRun,
              Process, Prologue, CreateCheckpoint, MarkRunning, MarkRecovering,
              SaveSelection, Collect, SearchIsComplete, ReplayPage, BeginSearch,
              SearchFails, RetrySearch, GiveUpSearch, SavePage,
              SavePageCheckpoint, Capture, CaptureIsDone, SkipSettled,
              BeginRecord, RecordAnswers, RecordFails, RetryRecord,
              GiveUpRecord, StoreObject, StoreFails, SaveRecord,
              StoreQuarantine, SaveQuarantine, SaveRecordCheckpoint, Finish,
              Complete, Return, FailRun, InterruptRun, Disruption, Crash,
              Interrupt, Raise, Exit

(* A page is asked for while Search goes on and no page is ahead, so its    *)
(* answer can only explain the entry it makes.                              *)
LEMMA SearchAnswersKeepsReasons ==
  ASSUME Known, Known', Reasons, Next, SearchAnswers
  PROVE  Reasons'
<1> DEFINE count == manifest.search_request_count
<1>1. pc \in Working /\ pc = "call_search"
  BY DEF SearchAnswers, Working, Points, InTry
<1>2. /\ run \in RunIds
      /\ manifest = manifestFile[run] /\ manifest \in Manifest
      /\ checkpoint = checkpointFile[run]
      /\ ValidManifest(manifest)
      /\ Sound(checkpoint)
  BY <1>1, AtWork DEF Known, Replayable, Agree
<1>3. ~checkpoint.search_complete /\ SeenAll(manifest, checkpoint)
  BY <1>1 DEF Known, Replayable, InProgress, AskingForPage
<1>4. /\ UNCHANGED <<manifestFile, checkpointFile, run, manifest, checkpoint>>
      /\ ~SavePage
  BY <1>1 DEF SearchAnswers, SavePage, disk
<1>5. PICK page \in SearchPages :
        LET advance == AdvanceCursor(checkpoint, page, count)
        IN /\ offered' = [offered EXCEPT ![run] = page.next_cursor]
           /\ pc' = "save_page" =>
                held' = [kind |-> "page",
                         checkpoint |-> advance.checkpoint,
                         new_candidate_ids |-> advance.new_candidate_ids]
  BY DEF SearchAnswers
<1>6. EveryEndHasAReason'
  <2> SUFFICES ASSUME NEW r \in RunIds, HasCheckpoint(r)'
               PROVE  EndsForAReason(manifestFile'[r], checkpointFile'[r],
                                     offered'[r])
    BY DEF EveryEndHasAReason
  <2>1. CASE r = run
    <3>1. ~OneAhead(manifest, checkpoint)
      <4>1. PICK n \in Nat : n = Len(checkpoint.seen_cursors)
        BY <1>2, SoundParts
      <4>2. n + 1 \notin 1..n /\ n + 1 \in 1..(n + 1)
        OBVIOUS
      <4>3. QED
        BY <1>3, <4>1, <4>2 DEF SeenAll, OneAhead
    <3>2. QED
      BY <1>2, <1>3, <1>4, <2>1, <3>1 DEF EndsForAReason
  <2>2. CASE r # run
    <3>1. /\ checkpointFile'[r] = checkpointFile[r] /\ HasCheckpoint(r)
          /\ offered'[r] = offered[r]
      BY <1>2, <1>4, <1>5, <2>2 DEF HasCheckpoint, Known, Base, TypeOK
    <3>2. QED
      BY <1>4, <3>1, UndisturbedEnds
  <2>3. QED
    BY <2>1, <2>2
<1>7. ASSUME pc' = "save_page"
      PROVE  Explains(HeldEntry', checkpoint', manifest'.search_request_count,
                      offered'[run'])
  <2> DEFINE a == AdvanceCursor(checkpoint, page, count)
  <2>1. /\ page.items \in Seq(Records)
        /\ page.next_cursor \in Cursors \cup {NoCursor}
    BY DEF SearchPages, SeqOf
  <2>2. count \in Nat /\ count <= PageLimit
    BY <1>2 DEF Manifest, ValidManifest
  <2>3. Explains([cursor        |-> checkpoint.next_cursor,
                  next_cursor   |-> a.checkpoint.next_cursor,
                  candidate_ids |-> a.new_candidate_ids],
                 checkpoint, count, page.next_cursor)
    BY <1>2, <1>3, <2>1, <2>2, PageExplains
  <2>4. /\ held'.checkpoint = a.checkpoint
        /\ held'.new_candidate_ids = a.new_candidate_ids
    BY <1>5, <1>7
  <2> HIDE DEF a
  <2>5. HeldEntry' = [cursor        |-> checkpoint.next_cursor,
                      next_cursor   |-> a.checkpoint.next_cursor,
                      candidate_ids |-> a.new_candidate_ids]
    BY <1>4, <2>4 DEF HeldEntry
  <2>6. offered'[run'] = page.next_cursor
    BY <1>2, <1>4, <1>5 DEF Known, Base, TypeOK
  <2>7. QED
    BY <1>4, <2>3, <2>5, <2>6
<1>8. QED
  BY <1>6, <1>7 DEF Reasons

(* The entry that is saved is then the page ahead, with the explanation it  *)
(* was held with.                                                           *)
LEMMA SavePageKeepsReasons ==
  ASSUME Known, Known', Reasons, Next, SavePage
  PROVE  EveryEndHasAReason'
<1> DEFINE count == manifest.search_request_count
<1> SUFFICES ASSUME NEW r \in RunIds, HasCheckpoint(r)'
             PROVE  EndsForAReason(manifestFile'[r], checkpointFile'[r],
                                   offered'[r])
  BY DEF EveryEndHasAReason
<1>1. pc = "save_page" /\ pc \in Working
  BY DEF SavePage, Working, Points, InTry
<1>2. /\ run \in RunIds
      /\ manifest = manifestFile[run] /\ manifest \in Manifest
      /\ checkpoint = checkpointFile[run] /\ checkpoint \in Checkpoint
  BY <1>1, AtWork DEF Known, Replayable
<1>3. /\ UNCHANGED <<checkpointFile, offered>>
      /\ HasCheckpoint(r)
  BY DEF SavePage, SaveManifest, Reject, calls, HasCheckpoint
<1>4. EndsForAReason(manifestFile[r], checkpointFile[r], offered[r])
  BY <1>3 DEF Reasons, EveryEndHasAReason
<1>5. CASE manifestFile'[r] = manifestFile[r]
  BY <1>3, <1>4, <1>5
<1>6. CASE r = run
  <2> DEFINE m == [manifest EXCEPT
                     !.pages[PageNumber] = HeldEntry,
                     !.candidate_count = Len(held.checkpoint.candidates)]
  <2>1. CASE Reject
    BY <1>5, <2>1 DEF Reject
  <2>2. CASE SaveManifest(m, "save_page_checkpoint")
    <3>1. /\ m.pages = [manifest.pages EXCEPT ![PageNumber] = HeldEntry]
          /\ m.search_request_count = count
          /\ m.configuration = manifest.configuration
      BY <1>2 DEF Manifest
    <3> HIDE DEF m
    <3>2. CASE manifestFile'[r] = m
      <4>1. /\ ~checkpoint.search_complete
            /\ SeenAll(manifest, checkpoint)
            /\ Len(checkpoint.seen_cursors) < count
        BY <1>1 DEF Known, Replayable, InProgress, AskingForPage
      <4>2. PageNumber \in 1..PageLimit
        BY <1>1, <4>1, PagesSeen, LimitsAssumption DEF PageNumber
      <4>3. m.pages[PageNumber] = HeldEntry
        BY <1>2, <3>1, <4>2 DEF Manifest
      <4>4. Explains(HeldEntry, checkpoint, count, offered[run])
        BY <1>1 DEF Reasons
      <4>5. EndsForAReason(m, checkpoint, offered[run])
        BY <3>1, <4>1, <4>3, <4>4 DEF EndsForAReason, PageNumber
      <4>6. QED
        BY <1>2, <1>3, <1>6, <3>2, <4>5
    <3>3. QED
      BY <1>2, <1>5, <1>6, <2>2, <3>2
         DEF SaveManifest, Reject, Known, Base, TypeOK
  <2>3. QED
    BY <2>1, <2>2 DEF SavePage, HeldEntry
<1>7. CASE r # run
  <2>1. manifestFile'[r] = manifestFile[r]
    BY <1>2, <1>7 DEF SavePage, SaveManifest, Reject, Known, Base, TypeOK
  <2>2. QED
    BY <1>5, <2>1
<1>8. QED
  BY <1>6, <1>7

(* Every step keeps the reasons.                                            *)
LEMMA NextKeepsReasons ==
  ASSUME Known, Known', Reasons, Next
  PROVE  EveryEndHasAReason'
<1>1. CASE Operator \/ MarkRunning \/ MarkRecovering \/ Finish \/ Disruption
  <2>1. UNCHANGED <<checkpointFile, offered>>
    BY <1>1
       DEF Operator, StartRun, StartRecovery, CreateRun, ResumeRun, MarkRunning,
           MarkRecovering, Finish, Complete, Return, FailRun, InterruptRun,
           Disruption, Crash, Interrupt, Raise, SaveManifest, Reject, disk, calls
  <2>2. CASE SavePage
    BY <2>2, SavePageKeepsReasons
  <2>3. QED
    BY <2>1, <2>2, NoCheckpointEnds
<1>2. CASE SearchIsComplete \/ SearchFails \/ GiveUpSearch
  <2>1. UNCHANGED <<checkpointFile, offered>> /\ ~SavePage
    BY <1>2 DEF SearchIsComplete, SearchFails, GiveUpSearch, SavePage, disk, calls
  <2>2. QED
    BY <2>1, NoCheckpointEnds
<1>3. CASE CaptureIsDone \/ BeginRecord \/ RecordAnswers \/ RecordFails
           \/ RetryRecord \/ GiveUpRecord \/ StoreObject \/ StoreFails
           \/ SaveRecord \/ StoreQuarantine \/ SaveQuarantine
  <2>1. UNCHANGED <<checkpointFile, offered>> /\ ~SavePage
    BY <1>3 DEF CaptureIsDone, BeginRecord, RecordAnswers, RecordFails,
                RetryRecord, GiveUpRecord, StoreObject, StoreFails, SaveRecord,
                StoreQuarantine, SaveQuarantine, ReserveRecord, Reserve,
                SaveEntry, SaveManifest, Reject, SavePage, disk, calls
  <2>2. QED
    BY <2>1, NoCheckpointEnds
<1>4. CASE CreateCheckpoint
  <2>1. /\ pc = "create_checkpoint"
        /\ run \in RunIds
        /\ checkpointFile[run] = NoFile
        /\ checkpointFile' = [checkpointFile EXCEPT ![run] = NewCheckpoint]
        /\ UNCHANGED <<manifestFile, offered>>
        /\ Exists(run)
        /\ ~SavePage
    BY <1>4, AbsenceAssumption
       DEF CreateCheckpoint, SavePage, calls, Known, Base, Loaded, Exists
  <2>2. Captured(manifestFile[run]) = {}
    BY <2>1 DEF Known, Replayable, DocumentsAgree, Consistent, Empty
  <2>3. EndsForAReason(manifestFile[run], NewCheckpoint, offered[run])
    <3>1. ~NewCheckpoint.search_complete /\ Len(NewCheckpoint.seen_cursors) = 0
      BY DEF NewCheckpoint
    <3>2. 1 \in 1..(0 + 1)
      OBVIOUS
    <3>3. QED
      BY <2>2, <3>1, <3>2 DEF EndsForAReason, OneAhead
  <2> SUFFICES ASSUME NEW r \in RunIds, HasCheckpoint(r)'
               PROVE  EndsForAReason(manifestFile'[r], checkpointFile'[r],
                                     offered'[r])
    BY DEF EveryEndHasAReason
  <2>4. CASE r = run
    BY <2>1, <2>3, <2>4 DEF Known, Base, TypeOK
  <2>5. CASE r # run
    <3>1. checkpointFile'[r] = checkpointFile[r] /\ HasCheckpoint(r)
      BY <2>1, <2>5 DEF Known, Base, TypeOK, HasCheckpoint
    <3>2. QED
      BY <2>1, <3>1, UndisturbedEnds
  <2>6. QED
    BY <2>4, <2>5
<1>5. CASE SaveSelection
  <2> DEFINE c == [checkpoint EXCEPT
                     !.candidates = SelectedRecords(manifest.configuration),
                     !.next_cursor = NoCursor,
                     !.search_complete = TRUE]
  <2>1. /\ pc \in Working
        /\ ~SavePage
        /\ UNCHANGED offered
        /\ SaveCheckpoint(c, "capture")
    BY <1>5 DEF SaveSelection, SavePage, calls, Working, Points
  <2>2. manifest.configuration.recoveryOf # NoRun
    BY <1>5 DEF SaveSelection, Known, Replayable, InProgress, Selecting
  <2> HIDE DEF c
  <2>3. EndsForAReason(manifest, c, offered[run])
    BY <2>2 DEF EndsForAReason
  <2>4. QED
    BY <2>1, <2>3, SavedCheckpointEnds
<1>6. CASE ReplayPage \/ SavePageCheckpoint
  <2> DEFINE ahead == manifest.pages[Len(checkpoint.seen_cursors) + 1]
             count == manifest.search_request_count
  <2>1. /\ pc \in Working
        /\ ~SavePage
        /\ UNCHANGED offered
        /\ ~checkpoint.search_complete
        /\ PageIsCaptured
    BY <1>6 DEF ReplayPage, SavePageCheckpoint, SavePage, calls, Working, Points,
                InTry, Known, Replayable, InProgress, PageInHand
  <2>2. /\ manifest = manifestFile[run] /\ manifest \in Manifest
        /\ checkpoint = checkpointFile[run]
        /\ run \in RunIds /\ HasCheckpoint(run)
        /\ count \in Nat /\ count <= PageLimit
        /\ Sound(checkpoint)
    BY <2>1, AtWork
       DEF Known, Replayable, Agree, HasCheckpoint, Manifest, ValidManifest
  <2>3. OneAhead(manifest, checkpoint)
    BY <2>1, CapturedPageIsAhead
  <2>4. EndsForAReason(manifest, checkpoint, offered[run])
    BY <2>2 DEF Reasons, EveryEndHasAReason
  <2>5. PICK c : /\ Advances(checkpoint, c, ahead, count)
                 /\ SaveCheckpoint(c, "collect") \/ Reject
    <3>1. CASE ReplayPage
      <4>1. Follows(ahead, checkpoint)
        BY <2>3 DEF OneAhead
      <4>2. Advances(checkpoint, ReconcileEntry(checkpoint, ahead, count), ahead,
                     count)
        BY <2>1, <2>2, <4>1, ReplayAdvances
      <4>3. \/ SaveCheckpoint(ReconcileEntry(checkpoint, ahead, count), "collect")
            \/ Reject
        BY <3>1 DEF ReplayPage, PageNumber
      <4>4. QED
        BY <4>2, <4>3
    <3>2. CASE SavePageCheckpoint
      BY <3>2
         DEF SavePageCheckpoint, PageNumber, Known, Replayable, InProgress,
             PageInHand
    <3>3. QED
      BY <1>6, <3>1, <3>2
  <2>6. EndsForAReason(manifest, c, offered[run])
    BY <2>2, <2>3, <2>4, <2>5, AdvancedEnds
  <2>7. QED
    BY <2>1, <2>5, <2>6, SavedCheckpointEnds
<1>7. CASE BeginSearch \/ RetrySearch
  <2> DEFINE c == [checkpoint EXCEPT !.search_complete = TRUE,
                                     !.next_cursor = NoCursor]
  <2>1. pc \in Working /\ ~SavePage /\ UNCHANGED offered
    BY <1>7 DEF BeginSearch, RetrySearch, SavePage, calls, Working, Points, InTry
  <2>2. \/ UNCHANGED checkpointFile
        \/ /\ manifest.search_request_count >= PageLimit
           /\ SaveCheckpoint(c, "capture")
    BY <1>7 DEF BeginSearch, RetrySearch, ReserveSearch, Reserve, SaveManifest,
                Reject
  <2>3. CASE /\ manifest.search_request_count >= PageLimit
             /\ SaveCheckpoint(c, "capture")
    <3>1. /\ manifest \in Manifest /\ ValidManifest(manifest)
          /\ checkpoint \in Checkpoint
      BY <2>1, AtWork DEF Known, Replayable
    <3>2. manifest.search_request_count = PageLimit
      BY <2>3, <3>1, LimitsAssumption DEF Manifest, ValidManifest
    <3>3. c.search_complete
      BY <3>1 DEF Checkpoint
    <3> HIDE DEF c
    <3>4. EndsForAReason(manifest, c, offered[run])
      BY <3>2, <3>3 DEF EndsForAReason, Stopped, OneAhead
    <3>5. QED
      BY <2>1, <2>3, <3>4, SavedCheckpointEnds
  <2>4. QED
    BY <2>1, <2>2, <2>3, NoCheckpointEnds
<1>8. CASE SearchAnswers
  BY <1>8, SearchAnswersKeepsReasons DEF Reasons
<1>9. CASE SavePage
  BY <1>9, SavePageKeepsReasons
<1>10. CASE SkipSettled \/ SaveRecordCheckpoint
  <2>1. /\ pc \in Working
        /\ ~SavePage
        /\ UNCHANGED offered
        /\ SaveCheckpoint(PastThisRecord, "capture")
        /\ checkpoint.search_complete
    BY <1>10 DEF SkipSettled, SaveRecordCheckpoint, SavePage, calls, Working,
                 Points, InTry, Known, Replayable, InProgress, AskingForRecord,
                 AtRecord
  <2>2. /\ manifest = manifestFile[run]
        /\ checkpoint = checkpointFile[run] /\ checkpoint \in Checkpoint
        /\ run \in RunIds /\ HasCheckpoint(run)
    BY <2>1, AtWork DEF Known, Replayable, HasCheckpoint
  <2>3. EndsForAReason(manifest, checkpoint, offered[run])
    BY <2>2 DEF Reasons, EveryEndHasAReason
  <2>4. /\ PastThisRecord.candidates = checkpoint.candidates
        /\ PastThisRecord.seen_cursors = checkpoint.seen_cursors
        /\ PastThisRecord.search_complete = checkpoint.search_complete
    BY <2>2 DEF PastThisRecord, Checkpoint
  <2>5. EndsForAReason(manifest, PastThisRecord, offered[run])
    BY <2>1, <2>3, <2>4 DEF EndsForAReason, Stopped, OneAhead
  <2>6. QED
    BY <2>1, <2>5, SavedCheckpointEnds
<1>11. QED
  BY <1>1, <1>2, <1>3, <1>4, <1>5, <1>6, <1>7, <1>8, <1>9, <1>10
     DEF Next, Process, Prologue, Collect, Capture

(* However its pages are collected, lost and replayed, a run's Search is    *)
(* complete only because it has its candidates, because its requests are    *)
(* spent, or because the page the provider answered last names no           *)
(* successor, or one that the run has used.                                 *)
THEOREM SearchEndsWithReason == Spec => []SearchEndsForAReason
<1>1. Init => Reasons
  BY DEF Init, Reasons, EveryEndHasAReason, HasCheckpoint
<1>2. Known /\ Known' /\ Reasons /\ [Next]_vars => Reasons'
  <2> SUFFICES ASSUME Known, Known', Reasons, [Next]_vars
               PROVE  Reasons'
    OBVIOUS
  <2>1. CASE Next
    <3>1. CASE SearchAnswers
      BY <2>1, <3>1, SearchAnswersKeepsReasons
    <3>2. CASE ~SearchAnswers
      <4>1. pc' # "save_page"
        BY <2>1, <3>2, PageInHandIsNew DEF Known
      <4>2. EveryEndHasAReason'
        BY <2>1, NextKeepsReasons
      <4>3. QED
        BY <4>1, <4>2 DEF Reasons
    <3>3. QED
      BY <3>1, <3>2
  <2>2. CASE UNCHANGED vars
    BY <2>2 DEF vars, disk, memory, calls, Reasons, EveryEndHasAReason,
                HasCheckpoint, HeldEntry
  <2>3. QED
    BY <2>1, <2>2
<1>3. Known /\ Reasons => SearchEndsForAReason
  <2> SUFFICES ASSUME Known, Reasons, NEW r \in RunIds, HasCheckpoint(r),
                      ~IsRecovery(r), checkpointFile[r].search_complete
               PROVE  Stopped(checkpointFile[r],
                              manifestFile[r].search_request_count, offered[r])
    BY DEF SearchEndsForAReason, Stopped
  <2>1. EndsForAReason(manifestFile[r], checkpointFile[r], offered[r])
    BY DEF Reasons, EveryEndHasAReason
  <2>2. QED
    BY <2>1 DEF EndsForAReason, IsRecovery
<1>4. QED
  BY <1>1, <1>2, <1>3, KnownInvariant, PTL DEF Spec

-----------------------------------------------------------------------------
(* What is settled is not asked for                                        *)

(* A record call is for the candidate after those that are settled.         *)
LEMMA RecordCallIsForTheNext ==
  ASSUME Known, pc = "call_record", NEW i \in Settled(manifestFile[run])
  PROVE  manifestFile[run].records[i].record_id # RecordId
<1>1. pc \in Working /\ MoreCandidates
  BY DEF Working, Points, InTry, Known, Base, InHand, AtRecord
<1>2. /\ manifest = manifestFile[run]
      /\ Agree(manifest, checkpoint, SelectionOf(run))
  BY <1>1, AtWork DEF Known, Replayable
<1>3. PICK n \in Nat : n = checkpoint.next_record_index
  BY <1>1, RecordsPassed DEF Known
<1>4. i \in 1..n
  BY <1>2, <1>3 DEF Known, Replayable, InProgress, AskingForRecord, AskingFor
<1>5. /\ i \in DOMAIN checkpoint.candidates
      /\ n + 1 \in DOMAIN checkpoint.candidates
      /\ i # n + 1
  <2>1. DOMAIN checkpoint.candidates = 1..Len(checkpoint.candidates)
    BY <1>2, SoundParts DEF Agree
  <2>2. n < Len(checkpoint.candidates) /\ Len(checkpoint.candidates) \in Nat
    BY <1>1, <1>2, <1>3, SoundParts DEF MoreCandidates, Agree
  <2>3. QED
    BY <1>4, <2>1, <2>2
<1>6. checkpoint.candidates[i] # checkpoint.candidates[n + 1]
  BY <1>2, <1>5 DEF Agree, Sound, ValidCheckpoint, IsInjective
<1>7. manifest.records[i].record_id = checkpoint.candidates[i]
  BY <1>2 DEF Agree, Recorded
<1>8. QED
  BY <1>2, <1>3, <1>6, <1>7 DEF RecordId, Position

(* A Search call is for a cursor that no captured page answers.             *)
LEMMA SearchCallIsForANewCursor ==
  ASSUME Known, pc = "call_search", NEW n \in Captured(manifestFile[run])
  PROVE  manifestFile[run].pages[n].cursor # checkpoint.next_cursor
<1>1. pc \in Working
  BY DEF Working, Points, InTry
<1>2. /\ manifest = manifestFile[run]
      /\ Agree(manifest, checkpoint, SelectionOf(run))
  BY <1>1, AtWork DEF Known, Replayable
<1>3. ~checkpoint.search_complete /\ SeenAll(manifest, checkpoint)
  BY DEF Known, Replayable, InProgress, AskingForPage
<1>4. n \in 1..Len(checkpoint.seen_cursors)
  BY <1>2, <1>3 DEF SeenAll
<1>5. manifest.pages[n].cursor = checkpoint.seen_cursors[n]
  BY <1>2, <1>3, <1>4 DEF Agree, Listed, Chosen
<1>6. checkpoint.seen_cursors[n] \in ToSet(checkpoint.seen_cursors)
  BY <1>2, <1>4, SoundParts DEF Agree, ToSet
<1>7. QED
  BY <1>2, <1>3, <1>5, <1>6 DEF Agree, Sound

(* No resume, retry or replay asks the provider again for what the manifest *)
(* on disk has.                                                             *)
THEOREM SettledIsNeverAskedAgain == Spec => SettledIsNotAskedAgain
<1> DEFINE AsksForNews ==
      \A r \in RunIds :
        /\ recordCalls'[r] > recordCalls[r] =>
             \A i \in Settled(manifestFile[r]) :
               manifestFile[r].records[i].record_id # RecordId
        /\ searchCalls'[r] > searchCalls[r] =>
             \A n \in Captured(manifestFile[r]) :
               manifestFile[r].pages[n].cursor # checkpoint.next_cursor
<1>1. Known /\ Next => AsksForNews
  <2> SUFFICES ASSUME Known, Next, NEW r \in RunIds
               PROVE  /\ recordCalls'[r] > recordCalls[r] =>
                           \A i \in Settled(manifestFile[r]) :
                             manifestFile[r].records[i].record_id # RecordId
                      /\ searchCalls'[r] > searchCalls[r] =>
                           \A n \in Captured(manifestFile[r]) :
                             manifestFile[r].pages[n].cursor
                               # checkpoint.next_cursor
    OBVIOUS
  <2>1. HistoryStep
    BY StepsOfTheHistory DEF Known
  <2>2. /\ searchCalls \in [RunIds -> Nat] /\ recordCalls \in [RunIds -> Nat]
        /\ searchCalls[r] \in Nat /\ recordCalls[r] \in Nat
    BY DEF Known, Base, TypeOK
  <2>3. CASE UNCHANGED calls
    BY <2>2, <2>3 DEF calls
  <2>4. CASE CallsSearch
    <3>1. /\ pc = "call_search"
          /\ recordCalls' = recordCalls
          /\ r # run => searchCalls'[r] = searchCalls[r]
      BY <2>2, <2>4 DEF CallsSearch
    <3>2. CASE r = run
      BY <2>2, <3>1, <3>2, SearchCallIsForANewCursor
    <3>3. CASE r # run
      BY <2>2, <3>1, <3>3
    <3>4. QED
      BY <3>2, <3>3
  <2>5. CASE CallsRecord
    <3>1. /\ pc = "call_record"
          /\ searchCalls' = searchCalls
          /\ r # run => recordCalls'[r] = recordCalls[r]
      BY <2>2, <2>5 DEF CallsRecord
    <3>2. CASE r = run
      BY <2>2, <3>1, <3>2, RecordCallIsForTheNext
    <3>3. CASE r # run
      BY <2>2, <3>1, <3>3
    <3>4. QED
      BY <3>2, <3>3
  <2>6. QED
    BY <2>1, <2>3, <2>4, <2>5
       DEF HistoryStep, Quiet, Creates, CreateRun, Updates, ReservesSearch,
           ReservesRecord, Reserves
<1>2. Known /\ [Next]_vars => [AsksForNews]_vars
  BY <1>1
<1> HIDE DEF AsksForNews
<1>3. Spec => [][AsksForNews]_vars
  BY <1>2, KnownInvariant, PTL DEF Spec
<1>4. QED
  BY <1>3 DEF AsksForNews, SettledIsNotAskedAgain

-----------------------------------------------------------------------------
(* Every step leaves less to do                                            *)

(* The order of WorkLeft, by the first number that differs.                 *)
LEMMA OrderOfWork ==
  ASSUME NEW a1, NEW a2, NEW a3, NEW a4, NEW b1, NEW b2, NEW b3, NEW b4,
         \/ a1 \in 0..(b1 - 1)
         \/ a1 = b1 /\ a2 \in 0..(b2 - 1)
         \/ a1 = b1 /\ a2 = b2 /\ a3 \in 0..(b3 - 1)
         \/ a1 = b1 /\ a2 = b2 /\ a3 = b3 /\ a4 \in 0..(b4 - 1)
  PROVE  LessWork(<<a1, a2, a3, a4>>, <<b1, b2, b3, b4>>)
<1> DEFINE a == <<a1, a2, a3, a4>>
           b == <<b1, b2, b3, b4>>
<1>1. /\ a[1] = a1 /\ a[2] = a2 /\ a[3] = a3 /\ a[4] = a4
      /\ b[1] = b1 /\ b[2] = b2 /\ b[3] = b3 /\ b[4] = b4
  OBVIOUS
<1>2. \E k \in 1..4 : /\ a[k] \in 0..(b[k] - 1)
                      /\ \A j \in 1..(k - 1) : j \in 1..4 => a[j] = b[j]
  <2> HIDE DEF a, b
  <2>1. CASE a1 \in 0..(b1 - 1)
    <3>1. \A j \in 1..(1 - 1) : a[j] = b[j]
      OBVIOUS
    <3>2. QED
      BY <1>1, <2>1, <3>1
  <2>2. CASE a1 = b1 /\ a2 \in 0..(b2 - 1)
    <3>1. \A j \in 1..(2 - 1) : j = 1
      OBVIOUS
    <3>2. QED
      BY <1>1, <2>2, <3>1
  <2>3. CASE a1 = b1 /\ a2 = b2 /\ a3 \in 0..(b3 - 1)
    <3>1. \A j \in 1..(3 - 1) : j = 1 \/ j = 2
      OBVIOUS
    <3>2. QED
      BY <1>1, <2>3, <3>1
  <2>4. CASE a1 = b1 /\ a2 = b2 /\ a3 = b3 /\ a4 \in 0..(b4 - 1)
    <3>1. \A j \in 1..(4 - 1) : j = 1 \/ j = 2 \/ j = 3
      OBVIOUS
    <3>2. QED
      BY <1>1, <2>4, <3>1
  <2>5. QED
    BY <2>1, <2>2, <2>3, <2>4
<1>3. \A k \in 1..4 : \A j \in 1..(k - 1) : j \in 1..4
  OBVIOUS
<1> HIDE DEF a, b
<1>4. LessWork(a, b)
  BY <1>2, <1>3 DEF LessWork
<1>5. QED
  BY <1>4 DEF a, b

(* How far each point is from the end of its run.                           *)
LEMMA StageNumbers ==
  ASSUME NEW p
  PROVE  /\ p \in {"idle", "unhandled"} => StagesAfter(p) = 0
         /\ p \in {"failing", "rejected", "interrupting"} => StagesAfter(p) = 1
         /\ p = "returning" => StagesAfter(p) = 2
         /\ p = "finish" => StagesAfter(p) = 3
         /\ p \in Capturing => StagesAfter(p) = 4
         /\ p \in Collecting => StagesAfter(p) = 5
         /\ p = "save_selection" => StagesAfter(p) = 6
         /\ p \in {"mark_running", "mark_recovering"} => StagesAfter(p) = 7
         /\ p = "create_checkpoint" => StagesAfter(p) = 8
BY DEF StagesAfter, Capturing, Collecting

(* A later stage leaves less.                                               *)
LEMMA StagePassed ==
  ASSUME StagesAfter(pc') \in 0..(StagesAfter(pc) - 1)
  PROVE  LessWork(WorkLeft', WorkLeft)
BY OrderOfWork DEF WorkLeft

(* So does a handler, and the end of the process.                           *)
LEMMA EndingIsProgress ==
  ASSUME TypeOK, pc # "idle", FailRun \/ InterruptRun \/ Return \/ Disruption
  PROVE  LessWork(WorkLeft', WorkLeft)
<1>1. pc \in Points
  BY DEF TypeOK
<1>2. pc # "unhandled" => StagesAfter(pc) \in 1..8
  BY <1>1, StageNumbers DEF Points, InTry, Capturing, Collecting
<1>3. pc \in InTry => StagesAfter(pc) \in 2..8
  BY StageNumbers DEF InTry, Capturing, Collecting
<1>4. CASE pc # "unhandled" /\ pc' \in {"idle", "unhandled"}
  BY <1>2, <1>4, StageNumbers, StagePassed
<1>5. CASE pc \in InTry /\ pc' \in {"failing", "interrupting"}
  BY <1>3, <1>5, StageNumbers, StagePassed
<1>6. CASE pc = "unhandled" /\ pc' = "idle"
  <2>1. WorkLeft = <<0, 0, 0, 1>> /\ WorkLeft' = <<0, 0, 0, 0>>
    BY <1>6, StageNumbers
       DEF WorkLeft, ItemsLeft, CallsLeft, PointsAfter, Collecting, Capturing
  <2>2. QED
    BY <2>1, OrderOfWork
<1>7. QED
  BY <1>4, <1>5, <1>6
     DEF FailRun, InterruptRun, EndRun, Return, Disruption, Crash, Interrupt,
         Raise, MayRaise, InTry, Exit

(* So does whatever ends in the handler of a failure.                       *)
LEMMA FailingIsProgress ==
  ASSUME pc \in InTry \cup {"mark_running", "mark_recovering", "save_selection"},
         pc' \in {"rejected", "failing"}
  PROVE  LessWork(WorkLeft', WorkLeft)
<1>1. StagesAfter(pc) \in 2..8
  BY StageNumbers DEF InTry, Capturing, Collecting
<1>2. QED
  BY <1>1, StageNumbers, StagePassed

(* What Search and capture have left.                                       *)
LEMMA WorkOfSearch ==
  /\ pc \in Collecting =>
       WorkLeft = <<5, PageLimit - Len(checkpoint.seen_cursors),
                    PageLimit - manifest.search_request_count, PointsAfter(pc)>>
  /\ pc' \in Collecting =>
       WorkLeft' = <<5, PageLimit - Len(checkpoint'.seen_cursors),
                     PageLimit - manifest'.search_request_count,
                     PointsAfter(pc')>>
<1>1. CASE pc \in Collecting
  BY <1>1, StageNumbers DEF WorkLeft, ItemsLeft, CallsLeft, Collecting, Capturing
<1>2. CASE pc' \in Collecting
  BY <1>2, StageNumbers DEF WorkLeft, ItemsLeft, CallsLeft, Collecting, Capturing
<1>3. QED
  BY <1>1, <1>2

LEMMA WorkOfCapture ==
  /\ pc \in Capturing =>
       WorkLeft = <<4, Len(checkpoint.candidates) - checkpoint.next_record_index,
                    RecordLimit - manifest.record_request_count, PointsAfter(pc)>>
  /\ pc' \in Capturing =>
       WorkLeft' = <<4, Len(checkpoint'.candidates) - checkpoint'.next_record_index,
                     RecordLimit - manifest'.record_request_count,
                     PointsAfter(pc')>>
<1>1. CASE pc \in Capturing
  BY <1>1, StageNumbers DEF WorkLeft, ItemsLeft, CallsLeft, Collecting, Capturing
<1>2. CASE pc' \in Capturing
  BY <1>2, StageNumbers DEF WorkLeft, ItemsLeft, CallsLeft, Collecting, Capturing
<1>3. QED
  BY <1>1, <1>2

(* The next page: one fewer may follow.                                     *)
LEMMA NextPageIsProgress ==
  ASSUME pc \in Collecting, pc' \in Collecting,
         Len(checkpoint.seen_cursors) \in Nat,
         PageNumber <= PageLimit,
         Len(checkpoint'.seen_cursors) = PageNumber
  PROVE  LessWork(WorkLeft', WorkLeft)
<1>1. PageLimit - Len(checkpoint'.seen_cursors)
        \in 0..(PageLimit - Len(checkpoint.seen_cursors) - 1)
  BY LimitsAssumption DEF PageNumber
<1>2. QED
  BY <1>1, WorkOfSearch, OrderOfWork

(* The next candidate: one fewer follows.                                   *)
LEMMA NextRecordIsProgress ==
  ASSUME checkpoint \in Checkpoint, pc \in Capturing, MoreCandidates,
         SaveCheckpoint(PastThisRecord, "capture")
  PROVE  LessWork(WorkLeft', WorkLeft)
<1> DEFINE c == PastThisRecord
<1>1. /\ Len(checkpoint.candidates) \in Nat
      /\ checkpoint.next_record_index \in Nat
      /\ checkpoint.next_record_index < Len(checkpoint.candidates)
      /\ c.candidates = checkpoint.candidates
      /\ c.next_record_index = checkpoint.next_record_index + 1
  BY DEF Checkpoint, PastThisRecord, MoreCandidates
<1> HIDE DEF c
<1>2. CASE pc' = "rejected"
  BY <1>2, FailingIsProgress DEF Capturing, InTry
<1>3. CASE pc' = "capture" /\ checkpoint' = c
  <2>1. Len(checkpoint'.candidates) - checkpoint'.next_record_index
          \in 0..(Len(checkpoint.candidates) - checkpoint.next_record_index - 1)
    BY <1>1, <1>3
  <2>2. pc' \in Capturing
    BY <1>3 DEF Capturing
  <2>3. QED
    BY <2>1, <2>2, WorkOfCapture, OrderOfWork
<1>4. pc \in InTry
  BY DEF Capturing, InTry
<1>5. QED
  BY <1>2, <1>3, <1>4 DEF SaveCheckpoint, Reject, c

(* A reservation: one fewer may follow.  Without one, the stage ends.       *)
LEMMA ReserveSearchIsProgress ==
  ASSUME manifest \in Manifest, pc \in {"collect", "backoff_search"},
         NEW n, ReserveSearch(n)
  PROVE  LessWork(WorkLeft', WorkLeft)
<1> DEFINE m == [manifest EXCEPT !.search_request_count = @ + 1]
<1>1. /\ manifest.search_request_count \in Nat
      /\ m.search_request_count = manifest.search_request_count + 1
  BY DEF Manifest
<1> HIDE DEF m
<1>2. pc \in Collecting /\ pc \in InTry
  BY DEF Collecting, InTry
<1>3. CASE pc' = "rejected"
  BY <1>2, <1>3, FailingIsProgress
<1>4. CASE /\ pc' = "call_search"
           /\ manifest.search_request_count < PageLimit
           /\ manifest' = m
           /\ checkpoint' = checkpoint
  <2>1. PageLimit - manifest'.search_request_count
          \in 0..(PageLimit - manifest.search_request_count - 1)
    BY <1>1, <1>4, LimitsAssumption
  <2>2. pc' \in Collecting
    BY <1>4 DEF Collecting
  <2>3. QED
    BY <1>2, <1>4, <2>1, <2>2, WorkOfSearch, OrderOfWork
<1>5. CASE pc' = "capture"
  <2>1. pc' \in Capturing
    BY <1>5 DEF Capturing
  <2>2. QED
    BY <1>2, <2>1, StageNumbers, StagePassed
<1>6. QED
  BY <1>2, <1>3, <1>4, <1>5
     DEF ReserveSearch, Reserve, SaveManifest, SaveCheckpoint, Reject, m

LEMMA ReserveRecordIsProgress ==
  ASSUME manifest \in Manifest, pc \in {"capture", "backoff_record"},
         NEW n, ReserveRecord(n)
  PROVE  LessWork(WorkLeft', WorkLeft)
<1> DEFINE m == [manifest EXCEPT !.record_request_count = @ + 1]
<1>1. /\ manifest.record_request_count \in Nat
      /\ m.record_request_count = manifest.record_request_count + 1
  BY DEF Manifest
<1> HIDE DEF m
<1>2. pc \in Capturing /\ pc \in InTry
  BY DEF Capturing, InTry
<1>3. CASE pc' = "rejected"
  BY <1>2, <1>3, FailingIsProgress
<1>4. CASE /\ pc' = "call_record"
           /\ manifest.record_request_count < RecordLimit
           /\ manifest' = m
           /\ checkpoint' = checkpoint
  <2>1. RecordLimit - manifest'.record_request_count
          \in 0..(RecordLimit - manifest.record_request_count - 1)
    BY <1>1, <1>4, LimitsAssumption
  <2>2. pc' \in Capturing
    BY <1>4 DEF Capturing
  <2>3. QED
    BY <1>2, <1>4, <2>1, <2>2, WorkOfCapture, OrderOfWork
<1>5. CASE pc' = "finish"
  BY <1>2, <1>5, StageNumbers, StagePassed
<1>6. QED
  BY <1>2, <1>3, <1>4, <1>5 DEF ReserveRecord, Reserve, SaveManifest, Reject, m

(* Within one request, every step passes a point.                           *)
LEMMA PointPassedInSearch ==
  ASSUME pc \in Collecting, pc' \in Collecting, checkpoint' = checkpoint,
         manifest'.search_request_count = manifest.search_request_count,
         PointsAfter(pc') \in 0..(PointsAfter(pc) - 1)
  PROVE  LessWork(WorkLeft', WorkLeft)
BY WorkOfSearch, OrderOfWork

LEMMA PointPassedInCapture ==
  ASSUME pc \in Capturing, pc' \in Capturing, checkpoint' = checkpoint,
         manifest'.record_request_count = manifest.record_request_count,
         PointsAfter(pc') \in 0..(PointsAfter(pc) - 1)
  PROVE  LessWork(WorkLeft', WorkLeft)
BY WorkOfCapture, OrderOfWork

(* Starting a run and recovering its selection.                             *)
LEMMA PrologueIsProgress ==
  ASSUME Prologue
  PROVE  LessWork(WorkLeft', WorkLeft)
<1>1. CASE CreateCheckpoint
  <2>1. pc = "create_checkpoint" /\ pc' \in {"mark_running", "mark_recovering"}
    BY <1>1 DEF CreateCheckpoint
  <2>2. QED
    BY <2>1, StageNumbers, StagePassed
<1>2. CASE MarkRunning
  <2>1. pc = "mark_running" /\ pc' \in {"collect", "rejected", "unhandled"}
    BY <1>2 DEF MarkRunning, SaveManifest, Reject
  <2>2. QED
    BY <2>1, StageNumbers, StagePassed DEF Collecting
<1>3. CASE MarkRecovering
  <2>1. /\ pc = "mark_recovering"
        /\ pc' \in {"save_selection", "rejected", "unhandled"}
    BY <1>3 DEF MarkRecovering, SaveManifest, Reject
  <2>2. QED
    BY <2>1, StageNumbers, StagePassed
<1>4. CASE SaveSelection
  <2>1. pc = "save_selection" /\ pc' \in {"capture", "rejected", "unhandled"}
    BY <1>4 DEF SaveSelection, SaveCheckpoint, Reject
  <2>2. QED
    BY <2>1, StageNumbers, StagePassed DEF Capturing
<1>5. QED
  BY <1>1, <1>2, <1>3, <1>4 DEF Prologue

(* Collecting candidates.                                                   *)
LEMMA CollectIsProgress ==
  ASSUME Known, Collect
  PROVE  LessWork(WorkLeft', WorkLeft)
<1>1. pc \in Collecting /\ pc \in InTry /\ pc \in Working
  BY DEF Collect, SearchIsComplete, ReplayPage, BeginSearch, SearchAnswers,
         SearchFails, RetrySearch, GiveUpSearch, SavePage, SavePageCheckpoint,
         Collecting, Working, Points, InTry
<1>2. /\ manifest \in Manifest
      /\ checkpoint \in Checkpoint
      /\ Len(checkpoint.seen_cursors) \in Nat
  <2>1. manifest \in Manifest /\ checkpoint \in Checkpoint
    BY <1>1, AtWork DEF Known, Replayable
  <2>2. QED
    BY <2>1 DEF Checkpoint
<1>3. CASE pc' \in {"rejected", "failing"}
  BY <1>1, <1>3, FailingIsProgress
<1>4. CASE SearchIsComplete
  <2>1. pc' \in Capturing
    BY <1>4 DEF SearchIsComplete, Capturing
  <2>2. QED
    BY <1>1, <2>1, StageNumbers, StagePassed
<1>5. CASE ReplayPage /\ pc' # "rejected"
  <2> DEFINE c == ReconcileEntry(checkpoint, manifest.pages[PageNumber],
                                 manifest.search_request_count)
  <2>1. c.seen_cursors = Append(checkpoint.seen_cursors, checkpoint.next_cursor)
    BY <1>2 DEF ReconcileEntry, PageApplied, Checkpoint
  <2>2. Len(c.seen_cursors) = PageNumber
    <3>1. checkpoint.seen_cursors \in Seq(Cursors)
      BY <1>2 DEF Checkpoint
    <3> HIDE DEF c
    <3>2. QED
      BY <2>1, <3>1 DEF PageNumber
  <2> HIDE DEF c
  <2>3. pc' = "collect" /\ checkpoint' = c /\ PageNumber <= PageLimit
    BY <1>1, <1>5 DEF ReplayPage, SaveCheckpoint, Reject, PageIsCaptured, c
  <2>4. pc' \in Collecting
    BY <2>3 DEF Collecting
  <2>5. QED
    BY <1>1, <1>2, <2>2, <2>3, <2>4, NextPageIsProgress
<1>6. CASE BeginSearch /\ pc' # "rejected"
  <2>1. pc = "collect" /\ ReserveSearch(1)
    BY <1>1, <1>6 DEF BeginSearch, Reject
  <2>2. QED
    BY <1>2, <2>1, ReserveSearchIsProgress
<1>7. CASE (SearchAnswers \/ SearchFails) /\ pc' \notin {"rejected", "failing"}
  <2>1. /\ pc = "call_search"
        /\ pc' \in {"save_page", "backoff_search"}
        /\ manifest' = manifest /\ checkpoint' = checkpoint
    <3>1. CASE SearchAnswers
      BY <1>7, <3>1 DEF SearchAnswers, disk
    <3>2. CASE SearchFails
      BY <1>7, <3>2 DEF SearchFails, memory
    <3>3. QED
      BY <1>7, <3>1, <3>2
  <2>2. pc' \in Collecting /\ PointsAfter(pc') \in 0..(PointsAfter(pc) - 1)
    BY <2>1 DEF PointsAfter, Collecting
  <2>3. QED
    BY <1>1, <2>1, <2>2, PointPassedInSearch
<1>8. CASE RetrySearch
  BY <1>2, <1>8, ReserveSearchIsProgress DEF RetrySearch
<1>9. CASE SavePage /\ pc' # "rejected"
  <2> DEFINE entry == HeldEntry
             m == [manifest EXCEPT
                     !.pages[PageNumber] = entry,
                     !.candidate_count = Len(held.checkpoint.candidates)]
  <2>1. m.search_request_count = manifest.search_request_count
    BY <1>2 DEF Manifest
  <2> HIDE DEF m
  <2>2. /\ pc = "save_page" /\ pc' = "save_page_checkpoint"
        /\ manifest' = m /\ checkpoint' = checkpoint
    BY <1>1, <1>9 DEF SavePage, SaveManifest, Reject, m, HeldEntry
  <2>3. pc' \in Collecting /\ PointsAfter(pc') \in 0..(PointsAfter(pc) - 1)
    BY <2>2 DEF PointsAfter, Collecting
  <2>4. QED
    BY <1>1, <2>1, <2>2, <2>3, PointPassedInSearch
<1>10. CASE SavePageCheckpoint /\ pc' # "rejected"
  <2>1. /\ PageNumber <= PageLimit
        /\ held.checkpoint.seen_cursors
             = Append(checkpoint.seen_cursors, checkpoint.next_cursor)
    BY <1>10 DEF SavePageCheckpoint, Known, Replayable, InProgress, PageInHand,
                 PageIsCaptured, Advances
  <2>2. Len(held.checkpoint.seen_cursors) = PageNumber
    <3>1. checkpoint.seen_cursors \in Seq(Cursors)
      BY <1>2 DEF Checkpoint
    <3>2. QED
      BY <2>1, <3>1 DEF PageNumber
  <2>3. pc' = "collect" /\ checkpoint' = held.checkpoint
    BY <1>1, <1>10 DEF SavePageCheckpoint, SaveCheckpoint, Reject
  <2>4. pc' \in Collecting
    BY <2>3 DEF Collecting
  <2>5. QED
    BY <1>1, <1>2, <2>1, <2>2, <2>3, <2>4, NextPageIsProgress
<1>11. CASE GiveUpSearch
  BY <1>3, <1>11 DEF GiveUpSearch
<1>12. QED
  BY <1>3, <1>4, <1>5, <1>6, <1>7, <1>8, <1>9, <1>10, <1>11 DEF Collect

(* Capturing records.                                                       *)
LEMMA CaptureIsProgress ==
  ASSUME Known, Capture
  PROVE  LessWork(WorkLeft', WorkLeft)
<1>1. pc \in Capturing /\ pc \in InTry /\ pc \in Working
  BY DEF Capture, CaptureIsDone, SkipSettled, BeginRecord, RecordAnswers,
         RecordFails, RetryRecord, GiveUpRecord, StoreObject, StoreFails,
         SaveRecord, StoreQuarantine, SaveQuarantine, SaveRecordCheckpoint,
         Capturing, Working, Points, InTry
<1>2. manifest \in Manifest /\ checkpoint \in Checkpoint
  BY <1>1, AtWork DEF Known, Replayable
<1>3. CASE pc' \in {"rejected", "failing"}
  BY <1>1, <1>3, FailingIsProgress
<1>4. CASE CaptureIsDone
  <2>1. pc' = "finish"
    BY <1>4 DEF CaptureIsDone
  <2>2. QED
    BY <1>1, <2>1, StageNumbers, StagePassed
<1>5. CASE SkipSettled
  BY <1>1, <1>2, <1>5, NextRecordIsProgress DEF SkipSettled
<1>6. CASE SaveRecordCheckpoint
  <2>1. MoreCandidates
    BY <1>6 DEF SaveRecordCheckpoint, Known, Base, InHand, AtRecord
  <2>2. QED
    BY <1>1, <1>2, <1>6, <2>1, NextRecordIsProgress DEF SaveRecordCheckpoint
<1>7. CASE BeginRecord \/ RetryRecord
  BY <1>2, <1>7, ReserveRecordIsProgress DEF BeginRecord, RetryRecord
<1>8. CASE /\ RecordAnswers \/ RecordFails \/ GiveUpRecord \/ StoreObject
                \/ StoreFails \/ StoreQuarantine
           /\ pc' # "failing"
  <2>1. manifest' = manifest /\ checkpoint' = checkpoint
    BY <1>8 DEF RecordAnswers, RecordFails, GiveUpRecord, StoreObject, StoreFails,
                StoreQuarantine, memory
  <2>2. \/ pc = "call_record"
             /\ pc' \in {"store_object", "backoff_record", "store_quarantine"}
        \/ pc = "backoff_record" /\ pc' = "store_quarantine"
        \/ pc = "store_object" /\ pc' \in {"save_record", "store_quarantine"}
        \/ pc = "store_quarantine" /\ pc' = "save_quarantine"
    BY <1>8 DEF RecordAnswers, RecordFails, GiveUpRecord, StoreObject, StoreFails,
                StoreQuarantine
  <2>3. pc' \in Capturing /\ PointsAfter(pc') \in 0..(PointsAfter(pc) - 1)
    BY <2>2 DEF PointsAfter, Capturing
  <2>4. QED
    BY <1>1, <2>1, <2>3, PointPassedInCapture
<1>9. CASE (SaveRecord \/ SaveQuarantine) /\ pc' # "rejected"
  <2>1. PICK entry : SaveEntry(entry)
    BY <1>9 DEF SaveRecord, SaveQuarantine
  <2> DEFINE m == EntryAppended(entry)
  <2>2. m.record_request_count = manifest.record_request_count
    BY <1>2 DEF EntryAppended, Manifest
  <2> HIDE DEF m
  <2>3. /\ pc' = "save_record_checkpoint"
        /\ manifest' = m /\ checkpoint' = checkpoint
    BY <1>1, <1>9, <2>1 DEF SaveEntry, SaveManifest, Reject, m
  <2>4. pc \in {"save_record", "save_quarantine"}
    BY <1>9 DEF SaveRecord, SaveQuarantine
  <2>5. pc' \in Capturing /\ PointsAfter(pc') \in 0..(PointsAfter(pc) - 1)
    BY <2>3, <2>4 DEF PointsAfter, Capturing
  <2>6. QED
    BY <1>1, <2>2, <2>3, <2>5, PointPassedInCapture
<1>10. QED
  BY <1>3, <1>4, <1>5, <1>6, <1>7, <1>8, <1>9 DEF Capture

(* Whatever the provider answers and wherever a run is disrupted, it cannot *)
(* go on for ever: every step of _collect_candidates, _capture_records and  *)
(* the handlers leaves less of it, in an order without endless descents.    *)
THEOREM RunsProgress == Spec => EveryStepIsProgress
<1> DEFINE Progress == pc # "idle" => LessWork(WorkLeft', WorkLeft)
<1>1. Known /\ Next => Progress
  <2> SUFFICES ASSUME Known, Next, pc # "idle"
               PROVE  LessWork(WorkLeft', WorkLeft)
    OBVIOUS
  <2>1. CASE Operator
    BY <2>1 DEF Operator, StartRun, ResumeRun, StartRecovery, CreateRun
  <2>2. CASE Prologue
    BY <2>2, PrologueIsProgress
  <2>3. CASE Collect
    BY <2>3, CollectIsProgress
  <2>4. CASE Capture
    BY <2>4, CaptureIsProgress
  <2>5. CASE Complete
    <3>1. pc = "finish" /\ pc' \in {"returning", "rejected"}
      BY <2>5 DEF Complete, SaveManifest, Reject, InTry
    <3>2. QED
      BY <3>1, StageNumbers, StagePassed
  <2>6. CASE FailRun \/ InterruptRun \/ Return \/ Disruption
    BY <2>6, EndingIsProgress DEF Known, Base
  <2>7. QED
    BY <2>1, <2>2, <2>3, <2>4, <2>5, <2>6 DEF Next, Process, Finish
<1>2. Known /\ [Next]_vars => [Progress]_vars
  BY <1>1
<1> HIDE DEF Progress
<1>3. Spec => [][Progress]_vars
  BY <1>2, KnownInvariant, PTL DEF Spec
<1>4. QED
  BY <1>3 DEF Progress, EveryStepIsProgress

(* What is left of a run is always four natural numbers.                    *)
THEOREM WorkIsCounted == Spec => [](WorkLeft \in [1..4 -> Nat])
<1>1. Known => WorkLeft \in [1..4 -> Nat]
  <2> SUFFICES ASSUME Known
               PROVE  /\ StagesAfter(pc) \in Nat
                      /\ ItemsLeft \in Nat
                      /\ CallsLeft \in Nat
                      /\ PointsAfter(pc) \in Nat
    BY DEF WorkLeft
  <2>1. pc \in Points
    BY DEF Known, Base, TypeOK
  <2>2. StagesAfter(pc) \in Nat /\ PointsAfter(pc) \in Nat
    BY <2>1, StageNumbers DEF Points, InTry, Collecting, Capturing, PointsAfter
  <2>3. CASE pc \notin Collecting \cup Capturing
    BY <2>2, <2>3 DEF ItemsLeft, CallsLeft
  <2>4. CASE pc \in Collecting \cup Capturing
    <3>1. pc \in Working
      BY <2>4 DEF Collecting, Capturing, Working, Points, InTry
    <3>2. /\ manifest \in Manifest
          /\ ValidManifest(manifest)
          /\ checkpoint \in Checkpoint
          /\ ValidCheckpoint(checkpoint)
          /\ Agree(manifest, checkpoint, SelectionOf(run))
      BY <3>1, AtWork DEF Known, Replayable, Agree, Sound
    <3>3. /\ PageLimit - manifest.search_request_count \in Nat
          /\ RecordLimit - manifest.record_request_count \in Nat
      BY <3>2, LimitsAssumption DEF ValidManifest, Manifest
    <3>4. Len(checkpoint.candidates) - checkpoint.next_record_index \in Nat
      BY <3>2 DEF ValidCheckpoint, Checkpoint
    <3>5. PageLimit - Len(checkpoint.seen_cursors) \in Nat
      <4>1. PICK n \in Nat : n = Len(checkpoint.seen_cursors)
        BY <3>2 DEF Checkpoint
      <4>2. n = 0 \/ n \in Captured(manifest)
        <5>1. Captured(manifest) \in {1..n, 1..(n + 1)} \/ n = 0
          BY <3>2, <4>1 DEF Agree, Listed, Chosen, SeenAll, OneAhead
        <5>2. QED
          BY <5>1
      <4>3. n <= PageLimit
        BY <4>2, LimitsAssumption DEF Captured
      <4>4. QED
        BY <4>1, <4>3, LimitsAssumption
    <3>6. QED
      BY <2>2, <2>4, <3>3, <3>4, <3>5 DEF ItemsLeft, CallsLeft, Collecting, Capturing
  <2>5. QED
    BY <2>3, <2>4
<1>2. QED
  BY <1>1, KnownInvariant, PTL

Smaller == {mn \in Nat \X Nat : mn[1] < mn[2]}

LEMMA NumbersDoNotDescend == IsWellFoundedOn(Smaller, Nat)
<1> SUFFICES ASSUME NEW f \in [Nat -> Nat],
                    \A n \in Nat : <<f[n + 1], f[n]>> \in Smaller
             PROVE  FALSE
  BY DEF IsWellFoundedOn
<1>1. PICK least \in {f[n] : n \in Nat} : \A m \in {f[n] : n \in Nat} : least <= m
  <2>1. {f[n] : n \in Nat} \in SUBSET Nat /\ f[0] \in {f[n] : n \in Nat}
    OBVIOUS
  <2>2. QED
    BY <2>1, LeastNumber
<1>2. PICK n \in Nat : least = f[n]
  BY <1>1
<1>3. f[n + 1] \in Nat /\ f[n] \in Nat /\ f[n + 1] < f[n]
  BY DEF Smaller
<1>4. least <= f[n + 1]
  BY <1>1
<1>5. QED
  BY <1>2, <1>3, <1>4

(* And four numbers do not grow less for ever.  With RunsProgress: however  *)
(* long a behaviour is, only finitely many of its steps lie between the     *)
(* start or resumption of a run and the return to idle (the loops of        *)
(* _collect_candidates, _capture_records and execute_with_retry).           *)
THEOREM WorkDoesNotDescend ==
  ~ \E work \in [Nat -> [1..4 -> Nat]] :
      \A n \in Nat : LessWork(work[n + 1], work[n])
<1> DEFINE Order == LexProductOrdering(Smaller, Nat, 4)
<1>1. IsWellFoundedOn(Order, [1..4 -> Nat])
  BY NumbersDoNotDescend, WFLexProductOrdering
<1>2. ASSUME NEW a \in [1..4 -> Nat], NEW b \in [1..4 -> Nat], LessWork(a, b)
      PROVE  <<a, b>> \in Order
  <2>1. PICK k \in 1..4 : /\ a[k] \in 0..(b[k] - 1)
                          /\ \A j \in 1..(k - 1) : a[j] = b[j]
    BY <1>2 DEF LessWork
  <2>2. <<a[k], b[k]>> \in Smaller
    BY <2>1 DEF Smaller
  <2>3. QED
    BY <2>1, <2>2 DEF LexProductOrdering
<1> HIDE DEF Order
<1>3. ASSUME NEW work \in [Nat -> [1..4 -> Nat]],
             \A n \in Nat : LessWork(work[n + 1], work[n])
      PROVE  FALSE
  <2>1. \A n \in Nat : <<work[n + 1], work[n]>> \in Order
    BY <1>2, <1>3
  <2>2. QED
    BY <1>1, <2>1, Zenon DEF IsWellFoundedOn
<1>4. QED
  BY <1>3

=============================================================================
