------------------------------ MODULE RunState ------------------------------
(***************************************************************************)
(* The durable documents of one ingestion run and the checks the code runs *)
(* every time it builds one: the manifest (history and counters) and the   *)
(* checkpoint (replay position), from ingestion/contracts.py.              *)
(*                                                                         *)
(* A request identity such as "search-page-0002" or "record-0003" is its   *)
(* position, so the manifest's entries are two functions over positions.   *)
(* Of finished_at the manifest keeps whether it is set, which a validator  *)
(* compares with the status.  Other times, paths, hashes and messages are  *)
(* left out: no check or branch of the modelled code depends on them, but  *)
(* for the time in a quarantine record (see StoreQuarantine in             *)
(* Orchestrator).                                                          *)
(***************************************************************************)
EXTENDS Naturals, Sequences, FiniteSets, Functions

CONSTANTS
  RunIds,          \* run identifiers an operator may choose
  Records,         \* Europeana record identifiers
  Versions,        \* contents a record's document can have
  Cursors,         \* Search cursors
  StartCursor,     \* the cursor "*" of the first page
  NoCursor, NoRun, NoEntry, NoFile,
  CandidateLimit,  \* candidate_limit of every run
  RecordLimit,     \* record_request_limit of every run
  PageLimit        \* search_page_limit of every run

ASSUME LimitsAssumption ==
  /\ CandidateLimit \in Nat \ {0}
  /\ RecordLimit \in Nat \ {0}
  /\ PageLimit \in Nat \ {0}

ASSUME CursorsAssumption ==
  /\ StartCursor \in Cursors
  /\ NoCursor \notin Cursors
  /\ NoRun \notin RunIds

-----------------------------------------------------------------------------
(* The documents                                                           *)

Statuses == {"planned", "running", "completed", "interrupted", "failed"}

(* The statuses that finished_at goes with.                                 *)
Terminal == {"completed", "interrupted", "failed"}

StoredOutcomes == {"created", "already_present"}

(* recoveryOf and selected are NoRun and <<>> for an ordinary run.         *)
Configuration ==
  [recoveryOf : RunIds \cup {NoRun}, selected : Seq(1..CandidateLimit)]

PageEntry ==
  [cursor : Cursors, next_cursor : Cursors \cup {NoCursor},
   candidate_ids : Seq(Records)]

RecordEntry ==
  [record_id : Records, outcome : StoredOutcomes, version : Versions]
    \cup [record_id : Records, outcome : {"quarantined"}, retryable : BOOLEAN]

Manifest ==
  [configuration        : Configuration,
   status               : Statuses,
   finished             : BOOLEAN,
   candidate_count      : Nat,
   search_request_count : Nat,
   record_request_count : Nat,
   created_count        : Nat,
   existing_count       : Nat,
   quarantined_count    : Nat,
   pages                : [1..PageLimit -> PageEntry \cup {NoEntry}],
   records              : [1..CandidateLimit -> RecordEntry \cup {NoEntry}]]

Checkpoint ==
  [candidates        : Seq(Records),
   seen_cursors      : Seq(Cursors),
   next_cursor       : Cursors \cup {NoCursor},
   search_complete   : BOOLEAN,
   next_record_index : Nat]

ASSUME AbsenceAssumption ==
  /\ NoEntry \notin PageEntry \cup RecordEntry
  /\ NoFile \notin Manifest \cup Checkpoint

-----------------------------------------------------------------------------
(* What the contracts reject                                               *)

ValidConfigurationWithRepeats(r, c) ==
  /\ c.recoveryOf # NoRun <=> c.selected # <<>>
  /\ c.recoveryOf # r

ValidConfiguration(r, c) ==
  /\ c.recoveryOf # NoRun <=> c.selected # <<>>
  /\ IsInjective(c.selected)
  /\ c.recoveryOf # r

Settled(m) == {i \in 1..CandidateLimit : m.records[i] # NoEntry}
Captured(m) == {n \in 1..PageLimit : m.pages[n] # NoEntry}
WithOutcome(m, o) == {i \in Settled(m) : m.records[i].outcome = o}

ValidManifest(m) ==
  /\ m.finished <=> m.status \in Terminal
  /\ m.candidate_count <= CandidateLimit
  /\ m.record_request_count <= RecordLimit
  /\ m.search_request_count <= PageLimit
  /\ Cardinality(Captured(m)) <= m.search_request_count
  /\ Cardinality(Settled(m)) <= m.record_request_count
  /\ m.created_count = Cardinality(WithOutcome(m, "created"))
  /\ m.existing_count = Cardinality(WithOutcome(m, "already_present"))
  /\ m.quarantined_count = Cardinality(WithOutcome(m, "quarantined"))

ValidCheckpoint(c) ==
  /\ c \in Checkpoint
  /\ IsInjective(c.candidates)
  /\ IsInjective(c.seen_cursors)
  /\ c.next_record_index <= Len(c.candidates)
  /\ c.search_complete <=> c.next_cursor = NoCursor

-----------------------------------------------------------------------------
(* What _create_run writes before the first request                        *)

NewManifest(configuration) ==
  [configuration        |-> configuration,
   status               |-> "planned",
   finished             |-> FALSE,
   candidate_count      |-> 0,
   search_request_count |-> 0,
   record_request_count |-> 0,
   created_count        |-> 0,
   existing_count       |-> 0,
   quarantined_count    |-> 0,
   pages                |-> [n \in 1..PageLimit |-> NoEntry],
   records              |-> [i \in 1..CandidateLimit |-> NoEntry]]

NewCheckpoint ==
  [candidates        |-> <<>>,
   seen_cursors      |-> <<>>,
   next_cursor       |-> StartCursor,
   search_complete   |-> FALSE,
   next_record_index |-> 0]
=============================================================================
