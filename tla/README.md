# Lowlands Lens: a verification project

Lowlands Lens collects cultural heritage records from Europeana into an
immutable "Bronze" store, takes live snapshots of the provider's metadata, and
offers a small search-and-answer prototype with a browser page. This directory
holds TLA+ models of all its stateful parts, the TLC runs that check them on
small instances, and proofs that TLAPS checks for every value of the constants.

## 1. Inventory

| Component | State it keeps | Operations | Interacts with | What is hard | What makes it correct |
|---|---|---|---|---|---|
| **Ingestion orchestrator** `ingestion/orchestrator.py` | its copies of one run's manifest and checkpoint; everything else is on disk | `execute`, `execute_recovery`, resume, `_collect_candidates`, `_capture_records`, `_quarantine` | the source (Search, Record), four stores, retry loop, clock | a crash, an interrupt or an exception between any two durable writes, followed by a replay | budgets hold across restarts; checkpoint behind manifest behind evidence; replay agrees with first execution; history is append-only; runs end and can be completed |
| **Run-state contracts** `ingestion/contracts.py` | none (values) | validators of manifest, checkpoint, configuration | every write goes through them | a sequence of legal calls that builds a document the validators refuse | they accept everything the program itself builds |
| **Cursor pagination** `ingestion/pagination.py` | none (pure) | `build_cursor_request`, `advance_cursor` | orchestrator | duplicates, cursor cycles, the limit inside a page | first distinct records, in order, up to the limit; no cursor twice; replay reproduces it |
| **Retry** `ingestion/retry.py` | attempt number and total delay, in memory | `execute_with_retry`, `classify_failure` | client, budget reservation, sleeper, jitter | three budgets that run out at different moments, `Retry-After` and jitter at the delay budget | attempts, calls and delays bounded; exhausted only when it is; a retry comes when due; the recorded verdict is right |
| **Filesystem stores** `ingestion/filesystem.py`, `serialization.py` | `bronze/`, `runs/<id>/manifest.json`, `checkpoint.json`, `quarantine/` | create, load, save, store | orchestrator, other processes, the operating system | a kill or power loss between temporary file, flush, publication and directory flush; two writers of one object | each store is atomic; one creator; answers are true; what was acknowledged survives a power loss, where the directory flushes had effect |
| **Command line, composition, runtime** `ingestion/cli.py`, `composition.py`, `runtime.py`, `ports.py` | none | `run_cli` | orchestrator | which of execute, resume and recovery is called | one run at a time |
| **Europeana client** `discovery/client.py`, `httpx2_transport.py`, `transport.py` | none | Search, Record, status classification | retry loop, through `EuropeanaSource` | statuses, `Retry-After`, response shapes | each failure has the right class |
| **Discovery exploration** `discovery/exploration.py`, `run_live.py`, `query_matrix.py`, `configuration.py`, `contracts.py` | the files of one snapshot directory | run a query matrix, fetch samples, write the manifest | client, filesystem, other commands | failures and kills midway, two commands for one directory, odd matrices | a snapshot is of one command; its manifest proves it complete; nothing is replaced or asked twice |
| **Search and answer API** `api/*.py`, `application/*.py` | none between requests | search, answer | prototype adapters, browser | the order of the checks, limits at their bounds, records of an earlier server | what one operation returns can be used in the other; unknown records are never ignored |
| **Prototype adapters and domain** `adapters/*.py`, `domain.py` | fixed synthetic records | retrieve, generate | API | order of the answer cases | only requested records are cited |
| **Browser interface** `api/static/app.js` | results, selection, mode, busy flag, what is on the screen | search, select, answer, examples | API, asynchronously | answers that arrive, late or never, after selection or mode changed; a server restarted with other records | screen agrees with selection; answers cite the records they were asked about; the composer is released |
| **Static assets**, **migrations** | none | none | none | nothing | nothing |

The orchestrator is the program's core. One run is a sequence of two loops:

1. `_collect_candidates`: reserve a Search attempt in the manifest (saved), call
   the source, work out the next checkpoint in memory, append a page entry to
   the manifest (saved), then save the checkpoint.
2. `_capture_records`: for each candidate, reserve a Record attempt (saved),
   call the source, publish the object or write the quarantine file, append a
   record entry to the manifest (saved), then advance the checkpoint (saved).

When a manifest entry exists already, a resume replays it into the lagging
checkpoint without calling the source. `execute_recovery` starts a new run whose
candidates are the records of selected, retryable failures of another run.

The hazards the code is exposed to, each with its line and the properties that
watch it, are listed in `PROJECT.json` under `hazards`. Those without a property
carry a note: most of them are things the code allows, shown by a configuration
of section 3.

## 2. Modules

| Module | Models | Role |
|---|---|---|
| `RunState` | `contracts.py` | the documents (`Manifest`, `Checkpoint`, `Configuration`) and what their validators reject |
| `Pagination` | `pagination.py`, `_reconcile_search_entry` | what one provider page, or one replayed page entry, does to a checkpoint |
| `Paging` | the Search loop without failures | `Pagination` on its own, against an independent definition |
| `Orchestrator` | `orchestrator.py`, the attempt loop of `retry.py`, the stores as atomic operations | the core state machine and its properties |
| `Ledger` | what `RunManifest` promises | abstract specification, implemented by `Orchestrator` |
| `AtomicStore` | the ports of `ports.py` | abstract specification, implemented by `Filesystem` |
| `Filesystem` | `filesystem.py`, one system call a step | the stores under several processes, errors, kills and power losses |
| `Client` | `client.py`, `httpx2_transport.py`, `classify_failure` | how an exchange can end, and the failure it is recorded as (pure operators) |
| `Attempts` | what the orchestrator takes for granted of `execute_with_retry` | abstract specification, implemented by `Retry` |
| `Retry` | `execute_with_retry`, `_retry_delay` | the retry loop over `Client`, with time |
| `Filtering` | the comprehensions of the adapters and routes, the loop over the items of a provider page | the members of a sequence that are in a set, and those that are not, once each, in order (recursive functions) |
| `AnswerApi` | `api/`, `application/`, `adapters/` | the response to a request as a function of the records served |
| `ApiCalls` | any HTTP client | `AnswerApi` under requests of every shape and restarts |
| `Interface` | `app.js` and its server | composes the page with `AnswerApi`; every listener and both submissions |
| `QueryMatrix` | `query_matrix.py`, `exploration.py`, `discovery/contracts.py` | validators of matrices, requests and summaries |
| `Exploration` | `run_live.py` | the snapshot command, several at once, over `QueryMatrix` |
| `MC...` | | instances for TLC (symmetry sets, small data) |
| `SequenceProofs` | | lemmas about numbers, sequences and the items of a page, used by the proofs of four components |
| `OrchestratorProofs`, `PagingProofs`, `FilesystemProofs`, `RetryProofs`, `ApiCallsProofs`, `InterfaceProofs`, `ExplorationProofs` | | theorems, section 4 |

How they compose: `Filesystem` implements `AtomicStore`, which is what
`Orchestrator` assumes when it treats a store operation as one step.
`Orchestrator` takes the retry loop for what `Attempts` says of it, and `Retry`,
which has the delays, the jitter and the classification, implements `Attempts`.
`Orchestrator` in turn implements `Ledger`. `Interface` and `ApiCalls` share
`AnswerApi`.

### Orchestrator: state

`manifestFile`, `checkpointFile`, `quarantineFile` and `objects` are the disk;
`run`, `manifest`, `checkpoint`, `attempt` and `held` are local variables of the
process and vanish when it dies. `pc` names the point just before the next
durable write or source call, so that a disruption can fall between any two.
`searchCalls` and `recordCalls` are history variables: what the provider saw.
`offered` is one too: the next cursor of the page the provider answered last,
which the documents do not keep once `advance_cursor` has stopped.

A request identity (`search-page-0002`, `record-0003`) is its position, so the
manifest's tuple of entries is kept as two functions over positions, `pages` and
`records`. Their uniqueness is then not a fact of the model for free: every
append is guarded by the look-up that `_append_entry` makes, and an append to a
taken position is a `Reject`.

### Orchestrator: actions

| Code | Actions |
|---|---|
| `_create_run` | `StartRun` or `StartRecovery` (manifest), `CreateCheckpoint` |
| `_load_for_resume` | `ResumeRun` |
| first save of `execute`, the two of `execute_recovery` | `MarkRunning`, `MarkRecovering`, `SaveSelection` |
| `_collect_candidates` | `SearchIsComplete`, `ReplayPage`, `BeginSearch`, `SearchAnswers`, `SearchFails`, `RetrySearch`, `GiveUpSearch`, `SavePage`, `SavePageCheckpoint` |
| `_capture_records`, `_quarantine` | `CaptureIsDone`, `SkipSettled`, `BeginRecord`, `RecordAnswers`, `RecordFails`, `RetryRecord`, `GiveUpRecord`, `StoreObject`, `StoreFails`, `SaveRecord`, `StoreQuarantine`, `SaveQuarantine`, `SaveRecordCheckpoint` |
| last save, return, the two handlers | `Complete`, `Return`, `FailRun`, `InterruptRun` |
| kill of the process; `KeyboardInterrupt`; `OSError` of a state write | `Crash`, `Interrupt`, `Raise` |

Every save goes through `SaveManifest` or `SaveCheckpoint`, which validate the
new document first, as `_replace_manifest` and `_replace_checkpoint` do;
`StartRecovery` and `ResumeRun` validate what they load (`Loads`), `EndRun` what
a handler is about to save. Of `finished_at` the manifest keeps whether it is
set, which the validator compares with the status: `Complete` and the handlers
set it, `MarkRunning` clears it. A validator, `_append_entry`, the cursor
comparison of a replay, `build_cursor_request` or a guard of `advance_cursor`
that raises leads to `pc = "rejected"`, from where the handler runs as for any
exception. Where no handler is left to run (the writes before the `try` block,
and the handlers themselves) it leads to `pc = "unhandled"`, from where the
process ends. `InternalChecksNeverTrip` says that neither ever happens.

### Orchestrator: what it implements

`Ledgers == INSTANCE Ledger WITH ...` maps `opened` to the runs whose manifest
exists, `entries` to the two functions over positions, `booked` to the two
counters of the manifest, `made` to the calls the provider saw, and `in_hand` to
what `pc` says: after an answer and before its entry, the process holds the
outcome of one call of one kind. `Ledger` has no checkpoint, no replay, no
retry and no status; that a resume never re-enters a position, never forgets a
booked call and never enters what it was not given follows from it.

### Filesystem

`entry` and `durable` are a directory as readers find it and as the medium has
it, `made` and `settled` the same for the directories themselves, `temporary`
the unpublished file of each process, and `pc[w]` the system call it is about to
make. `_fsync_directory` swallows an `OSError`, so `FlushDirectory` may have no
effect; the history variable `unflushed` holds the processes whose call went on
after such a flush. A new directory's own name is nobody's to flush, and comes
to the medium by `WriteBackDirectory` only.

| Code | Actions |
|---|---|
| `create`, `save`, `load`, `store` of the four stores | `Begin`, `FindsFile`, `FindsNoFile`, `Read` |
| `mkdir`, `_write_fsynced`, `os.link`, `os.replace`, `_fsync_directory`, `unlink` | `MakeDirectory`, `WriteTemporary`, `FlushTemporary`, `Link`, `LinkRefused`, `Rename`, `FlushDirectory`, `CleanUp`, `CleanUpAndResolve` |
| an `OSError` of any of them | `SystemCallFails`, `CleanUpFails` |
| kill of a process; power loss; write-back by the system | `Crash`, `PowerLoss`, `WriteBack`, `WriteBackDirectory` |

Contents are model values (`Damaged` is anything that does not decode), so the
canonical JSON and the hash of a content are that content: the code compares the
hash of what it reads, the model compares the content. The refinement maps
`seen` to the contents of `entry`, `disk` to those of `durable` and `busy` to
`pc # "idle"`; the effect of a call is its link or rename.

### Retry and Client

`Exchange` enumerates how a call can go: no response, or a status, a
`Retry-After` header and a body. `Get` is what the client returns or raises, and
`ClassifyFailure` what `classify_failure` makes of it. The loop's steps are
`ReserveAttempt` (`before_attempt`), `Operate`, `GiveUp`, `ChooseDelay`,
`Sleep`. `earlier` and `reserved` are the counter that `before_attempt` keeps on
disk; `calls`, `exchange` and `waited` are history variables. Delays are
integers, jitter a percentage, and `FloatLimit` stands for the least integer
that Python's `float` refuses.

`Loop == INSTANCE Attempts WITH ...` maps a failure in hand that is not
retryable to the end it leads to, one that is retryable to `backing_off`, and
the loop's counter to the attempts booked. `Orchestrator` has the same steps,
written out for each of its two loops, because what a booking and an answer do
to the manifest differs:

| `Attempts` | `Orchestrator` |
|---|---|
| `Book`, `Refuse` | the two disjuncts of `ReserveSearch` and `ReserveRecord`, in `BeginSearch`, `RetrySearch`, `BeginRecord`, `RetryRecord` |
| `Call` | `SearchAnswers`, `SearchFails`, `RecordAnswers`, `RecordFails` |
| `GiveUp` | `GiveUpSearch`, `GiveUpRecord` (at any attempt) |
| `BookFails`, an end as `raised` | `Raise`, `Interrupt`, `Crash` |

### AnswerApi, ApiCalls and Interface

`Response(collection, request)` is the two routes: validation first, then the
retrieval or generation cases in the code's order, then the response contract,
each with its own error. A text is reduced to the markers and terms the adapters
look for, a record to its identifier.

`Interface` keeps `app.js`'s `state` object, what the document shows (`cards`,
`tray`, `askDisabled`, `placeholder`, `shown`, `typing`) and the fetch under way
(`pending`, `response`). A listener is one action (`ClickSearchMode`,
`ClickAskMode`, `ToggleSelection`, `ClearSelection`, `Submit`, `ExampleChip`,
`AnswerChip`); a submission is cut at its `await`: `Begin`, then
`ServerResponds`, then `Deliver` or `NetworkFails` with everything to the end of
the function. `Restart` brings up a server with other records at any time.

### QueryMatrix and Exploration

`dir` is the snapshot directory, each file with the command that wrote it and
whether it is whole. `pc`, `asked`, `summaries`, `sample` and `manifest` are the
local variables of each command. `_write_new_json` is two steps (`Create...`
with mode `x`, `Write...`), and `SystemCallFails` and `Kill` may fall on either.
A query's texts, filters and facets are labels: their name, whether they carry
surrounding blanks, and what that makes of the validators on each side.

### What is abstracted

- Timestamps, hashes, paths and messages. A time matters in two places: whether
  `finished_at` is set, which is modelled, and the quarantine file, where a
  replayed failure carries a new `occurred_at`, so that its content differs from
  the file already there and the store refuses it.
- In `Orchestrator` a store operation is one atomic step, justified by
  `Filesystem` for kills of the process. After a power loss two promises are
  weaker (`DocResolvedIsDurable`, `DocReservationsSurvive` below), so
  `Orchestrator`'s `Crash` is the end of the process, not of the machine.
- In `Orchestrator` delays are a free choice: `GiveUpSearch` and `GiveUpRecord`
  may happen at any attempt, because one `Retry-After` can exceed the total
  delay budget (`Attempts!GiveUp`). `Retry` has the arithmetic. The exception
  classes are reduced to retryable or not; `Client` has the classification.
- A handler whose own save fails leaves the disk as it is, which is `Crash`.
  An `OSError` outside the `try` block (creation, first save) is `Crash` too; a
  check that refuses a document there is "unhandled".
- One ingestion process at a time, as the Phase 4 notes assume. Runs share the
  disk. All runs have the same limits.
- `IngestionInterruptedError` is caught in the code and raised nowhere; it is
  covered by `Interrupt`.
- A recovery run is resumed through `execute(resume=True)`, which accepts it;
  the command line refuses that combination.
- The Search loop is not cut inside `advance_cursor` or the validators: they
  are pure and one process executes them.

## 3. Runs

| Run | Instance | What it shows |
|---|---|---|
| `single_run` | one run, three records, two contents each, three cursors, limits 3, two attempts, pages of at most two items | the safety properties of one run, through any number of disruptions and resumes; every step of a started run is progress |
| `recovery` | two runs, two records, limits 2, one page, one attempt | a recovery and its source, each crashing and resuming: selections stay retryable, entries name the right records, and the manifests implement `Ledger` |
| `liveness` | one run, two records, two cursors, three Search calls, limits 2 | every started run ends; once disruptions cease a resuming operator completes it; Search ends only for what the provider offered last, or for a limit |
| `paging` | three records, pages of at most three items, three cursors | pagination equals "first distinct records up to the limit"; no cursor twice; replay equals advance |
| `filesystem` | two processes, one manifest, one object, two contents | the stores implement `AtomicStore`; one creator; answers are true; an acknowledged write survives a power loss, but for the two exceptions named below |
| `retry` | 1 and 4 attempts, base delays 0 to 2, budgets 0, 4 and 7, jitter 0 and 50 %, nine statuses, `Retry-After` below, at and above the budgets | retries come when due and within every budget; verdicts are right; the loop implements `Attempts` |
| `api_calls` | every collection of up to three records, limits 2, requests up to one past each limit, eight texts | results can be asked about; pages are consistent; unknown records are never ignored |
| `interface` | three records, pages and answers of at most two, two collections the server may be started with | screen, selection, requests and answers agree; the composer is released |
| `exploration` | two commands, each with its own matrix out of ten, two sampled queries, eight responses (fewer or more items than announced, a record or a facet twice, more items than the total) | one command per snapshot; a manifest means a complete snapshot; nothing replaced or asked twice |

Three further runs expect a violation, below.

Bounds: sets of records, contents, cursors, runs, processes and texts are small.
`CandidateLimit`, `RecordLimit`, `PageLimit`, `MaxAttempts`, `MaxLimit`,
`MaxEvidence`, `PageSize` and `MaxPageSize` are the program's own limits, made
small; `MaxItems` bounds a provider page, `RequestLimit` is the run's own
ceiling. Nothing else is bounded: crashes, interrupts, resumes, power losses,
clicks and restarts are unlimited, and the state spaces are finite because the
program's own budgets are. The selection of the page is a sequence without
repeats, so at most three long.

Why these are enough: three candidates and three pages let a checkpoint lag by
an entry in the first, a middle and the last position; three Record calls for
three candidates leave a budget that retries can exhaust; two contents per
record let a replay fetch something else than what was stored; pages of two (in
`paging`, three) items let a duplicate fall inside a page, across pages and at
the limit; three cursors can form a cycle that does not include the first. Two
processes and two contents are what a race for one file needs: a third adds
another loser. Three records are one more than a page shows and than an answer
accepts. Two queries let a failure fall before, between and after the requests
of a snapshot. Records, contents, writers and (in `recovery`) runs are
interchangeable in every definition, so safety runs use symmetry; the liveness
runs do not. `offered` is read by no action and by `SearchEndsForAReason` alone,
so `single_run` and `recovery` view the states without it (`WithoutOffered`).
`liveness` keeps it, and allows a Search call more than there are cursors, so
that a cursor can come back before the budget is spent.

`CHECK_DEADLOCK FALSE` is set where the system may stop: all runs completed, or
a manifest left without its checkpoint; every command ended; stores at rest.

The properties, stated with the code they are about in the modules named in
section 2:

- `CallsAreReserved`: calls seen by the provider <= count on disk <= limit.
- `CheckpointBehindManifest`, `EvidenceBehindManifest`: the write order.
- `CheckpointReflectsHistory`: a checkpoint is a function of the pages it has
  seen, so that replay after any crash rebuilds the same candidates.
- `SearchEndsForAReason`: Search is only taken for complete with all candidates,
  with the Search budget spent, or when the cursor the provider offered last
  (`offered`, not the checkpoint, which holds none once Search is complete) is
  none or one that was used.
- `CompletedRunsAreLeftAlone`: once the completed manifest is on disk no call is
  made for the run and nothing of it is written, but for its status, which a
  handler may still change between the last save and the return. `HistoryIsKept`, `SettledIsNotAskedAgain`: what is written stays,
  and is not paid for twice.
- `CompletedRunsAreAccountedFor`: completed means every candidate has an entry,
  or the Record budget is spent.
- `InternalChecksNeverTrip`: the program never builds a document its own
  validators refuse, `finished_at` against the status included, in the loops, in
  the writes before them or in the handlers, and never fails to load one.
- `EveryStepIsProgress`: each step of a started run lowers `WorkLeft`, four
  numbers compared from the left: the stages that may follow, the pages or
  candidates left to the stage, the calls it may still book, the points of the
  iteration that may follow. A retry consumes a call, a replay a page, a settled
  record a candidate, and a handler never returns to a loop.
- `RecordsAreTraceable`, `RecoverySelectsRetryable`, `ImplementsLedger`,
  `RunEnds`, `EventuallyCompleted`.
- `CandidatesAreFirstDistinct` (the candidate of position `i` is the item at the
  `i`-th place that holds an item for the first time, and there are as many as
  such places, up to the limit), `CursorsAreNotRepeated`, `ReplayAgreesWithAdvance`.
- `ImplementsAtomicStore`, `AnswersAreTrue` (of several creators one is told so, and
  everyone finds what he was told is there).
- `AcknowledgedSurvives`: what a writer was told is written, and nobody replaced
  since, would be there, name and bytes, after a power loss at this moment. Two
  exceptions are part of the statement, since the code allows them: a directory
  flush that had no effect, and a directory whose own name is not on the medium
  (`DocReservationsSurvive` below).
- `ExhaustedIsSpent`: exhausted means that the attempts are used up, or that the
  wait the last exchange prescribes (its `Retry-After`, or the back-off within
  its bounds) does not fit into what is left of the total delay.
- `WithinBudgets`, `RetriesAreDue`, `ImplementsAttempts`, and `VerdictIsRight`: a
  recorded failure is retryable exactly when the provider's last answer was
  transient, but for a rate limit whose `Retry-After` `int` refuses (see below).
- `UnknownIsNeverIgnored`, `SearchPagesAreConsistent`, `ResultsCanBeAskedAbout`.
- `SelectionIsShown` (the screen shows the selection, and ask mode has one), `AnswersCiteTheirRequest`,
  `NoUnhandledError`, `ComposerIsReleased`, `SearchIsPreserved` (a request that
  settles leaves selection, mode and results as they are; only a search that
  found something adds to the results).
- `SnapshotIsOfOneCommand`, `ManifestIsComplete`, `RequestsAreNotRepeated`,
  `EvidenceIsKept`.

### Fairness

`RunningSpec` assumes weak fairness of `Process`: a program that can execute its
next statement eventually does. It is fairness of the whole process, not of each
action, so the answers of the provider stay free: it may fail every time.
`ResumingSpec` adds weak fairness of `ResumeRun` for each run: an operator, or a
supervisor, who restarts what has not completed. The code does not do so by
itself, which is why `RunEnds` needs only the first and `EventuallyCompleted`
needs both, and only from the point where disruptions cease. Without disruptions
each resume that fails has spent part of a budget, so there are finitely many.

`Interface!FairSpec` assumes weak fairness of `ServerResponds` and `Deliver`: a
fetch settles, by a response or by `NetworkFails`. `app.js` sets no timeout, so without
this the composer stays disabled for ever; `ComposerIsReleased` says that
nothing else can keep it so. Nothing is assumed of the user.

### Where documents and code disagree

Three runs check a statement of the repository's own documents and find it
violated by the code; `PROJECT.json` quotes the line and describes the trace.

| Run | Statement | What happens |
|---|---|---|
| `unfinished_can_resume` | a planned run left by a crash may be resumed | not when the crash fell between manifest and checkpoint |
| `quarantine_replay` | crash points between storage and manifest are safe to replay | a replayed failure conflicts with its own quarantine file and fails the run |
| `errors_use_the_contract` | every operational error goes through the public error contract | an error of the body as a whole has an empty field name, and the handler itself raises |

Ten more configurations are kept to be run by hand
(`tlc -config <file> <module>`); each finds the statement violated.

| Configuration | Module | Statement | What happens |
|---|---|---|---|
| `DocCompletedIsFinal.cfg` | `MCOrchestrator` | completed runs are not mutated (ADR 0004:199) | an interrupt between the last save and the return rewrites the status as interrupted |
| `DocExhaustionIsRecorded.cfg` | `MCOrchestrator` | exhausting the ceiling produces a terminal outcome (ADR 0004:221) | a record whose retries spend the ceiling gets no entry |
| `DocObjectsAreReferenced.cfg` | `MCOrchestrator` | every raw record is traceable to a request and run (IMPLEMENTATION_PHASES.md:382) | an object published just before a crash can stay without an entry |
| `DocRetriesSparePages.cfg` | `MCOrchestrator` | pages and retries have independent limits (ADR 0004:223) | a retried Search uses up the page limit |
| `DocRecoveryNeverSearches.cfg` | `MCOrchestrator` | recovery does not execute Search (PHASE_4_BRONZE_INGESTION.md:127) | a recovery run that died before its first checkpoint save does, when resumed through `execute` |
| `DocResolvedIsDurable.cfg` | `MCFilesystem` | the object is published or resolved before its entry, durably (ADR 0004:185) | a killed writer leaves a name that is not on the medium; `already_present` flushes nothing |
| `DocReservationsSurvive.cfg` | `MCFilesystem` | reservations survive a crash (PHASE_4_BRONZE_INGESTION.md:151) | the parent of a new run directory is never flushed, so a power loss can take the run away |
| `DocRateLimitIsRetryable.cfg` | `MCRetry` | HTTP 429 is retryable (PHASE_4_BRONZE_INGESTION.md:139) | `isdigit` accepts characters that `int` refuses, and the rate limit is recorded as permanent |
| `DocOtherStatuses.cfg` | `MCRetry` | other HTTP failures are permanent (PHASE_4_BRONZE_INGESTION.md:148) | a status above 599 makes `classify_failure` raise, and the run fails |
| `DocLoadedQueries.cfg` | `MCExploration` | incomplete or unbounded query definitions are rejected (query_matrix.py:45) | a matrix loads that holds a query no request can be made of, found after others were spent |

## 4. Proofs

Every theorem is about the module's `Spec`, for every value of the constants,
from the named assumptions of the modules (`LimitsAssumption`,
`CursorsAssumption`, `AbsenceAssumption`, `AttemptsAssumption`,
`PathsAssumption`, `ContentsAssumption`, `FileAssumption`, `PoliciesAssumption`,
`SampleIdsAssumption`, `MatricesAssumption`, `ResponsesAssumption` and so on).
They say that limits are positive, that the marks for "nothing" are not things,
that paths of documents and objects differ, that policies are ones `RetryPolicy`
accepts, that `SAMPLE_QUERY_IDS` names queries once, and that a matrix and a
response hold sequences; TLC evaluates them in every run of their modules.

| Module | Theorem | States | Argument |
|---|---|---|---|
| `OrchestratorProofs` | `TypeCorrect` | `[]TypeOK` | `Base` is inductive: `TypeOK`, `Loaded` (the process's copies equal the files) and `InHand` (what the next write needs is in hand, and there is a candidate in turn). `TypeOK` alone is not inductive, because a save writes what the copies hold |
| | `HistoryIsAppendOnly` | `HistoryIsKept` | `StepsOfTheHistory`: under `Base`, every step is quiet, creates a run, updates the running manifest keeping its entries, reserves a call or makes one |
| | `BudgetsAreKept` | `[]CallsAreReserved` | `Budgets` adds that a call which is due (the process is just before it) is already counted |
| | `ManifestsAreLedgers` | `ImplementsLedger` | step simulation under `Base` and `Budgets`: quiet steps stutter or forget, creations open, reservations book, calls call, updates fill at most one free position and only with what is held |
| | `CheckpointFollowsManifest` | `[]CheckpointBehindManifest` | `Behind` adds what holds between the manifest's save and the checkpoint's: the checkpoint in hand is one page on, and the entry of the page or record is on disk |
| | `ManifestFollowsEvidence` | `[]EvidenceBehindManifest` | `Evidence` adds that what the next entry will name is stored |
| | `RecoveryIsOfRetryable` | `[]RecoverySelectsRetryable` | what was selectable stays so, because the source run keeps its entries |
| | `CompletedRunsStay` | `CompletedRunsAreLeftAlone` | `Unfinished`: a process that works on a run, before its last write, finds it not completed on disk |
| | `RunsProgress`, `WorkIsCounted`, `WorkDoesNotDescend` | `EveryStepIsProgress`; `WorkLeft` is four natural numbers; no infinite chain of `LessWork` | one case per action under `Base` and `Replayable`; the library's lexicographic order, below |
| | `ChecksNeverTrip`, `CheckpointsReplay`, `CompletedRunsAccount`, `SearchEndsWithReason`, `EntriesAreTraceable`, `SettledIsNeverAskedAgain` | `[]InternalChecksNeverTrip`, `[]CheckpointReflectsHistory`, `[]CompletedRunsAreAccountedFor`, `[]SearchEndsForAReason`, `[]RecordsAreTraceable`, `SettledIsNotAskedAgain` | one invariant, `Replayable`, below; for `SearchEndsWithReason` with `Reasons` beside it: what was offered last is what made the page in hand, or the one on disk ahead of its checkpoint, stop |
| `FilesystemProofs` | `TypeCorrect`, `AnswersHold`, `AcknowledgedHolds` | `[]TypeOK`, `[]AnswersAreTrue`, `[]AcknowledgedSurvives` | one inductive invariant: what is about to be published is whole and flushed (`InHand`, `AreFlushed`), a save replaces something that exists, and what an outcome says stays true from the moment it is decided; a writer past its directory flush that is not in `unflushed` has its name on the medium |
| | `Implements` | `ImplementsAtomicStore` | each system call is a stutter but the one at which the call takes effect; a power loss leaves flushed contents |
| `PagingProofs` | `CandidatesAreTheFirst`, `CursorsStayNew`, `ReplayAgrees` | the properties of `paging` | `Pagewise`, below |
| `RetryProofs` | `TypeCorrect`, `BudgetsAreKept`, `ExhaustionIsHonest`, `VerdictsAreRight`, `RetriesComeWhenDue` | the properties of `retry` | `Handled` (the failure in hand is the last exchange's), `Counted` (program counter against counters) and `Timed` (a wait is the header's or within the policy's bounds); lemmas bound the exponential and its jitter |
| | `ImplementsTheLoop` | `ImplementsAttempts` | step simulation under the same invariant: a reservation books, is refused or raises; a call calls; the handler stutters until it gives up |
| `ApiCallsProofs` | `UnknownIsReported`, `SearchShowsAPage`, `ResultsAreAnswerable` | the properties of `api_calls` | the response in hand is that of the request in hand; what the route computes of it follows from the lemmas about `Among`, whichever records the server was started with |
| `InterfaceProofs` | `TypeCorrect`, `ScreenIsTrue`, `BusyIsTrue`, `RequestsDoNotOverlap` | type, selection and request properties | the selection stays a sequence of identifiers without repeats, the screen follows it, and the composer is busy exactly while a fetch is pending |
| | `PageMakesNoUnhandledError`, `CitationsAreOfTheRequest`, `SearchStays` | `[]NoUnhandledError`, `[]AnswersCiteTheirRequest`, `SearchIsPreserved` | `Talks`: what was sent is a request the page can build (`Sent`), and the response in hand is what some collection of records answers to it (`Replied`); the collection need not be the present one, which is what a restart takes away |
| `ExplorationProofs` | `TypeCorrect` | `[]TypeOK` | from `IInv` and `AskInv`: a sample is only passed by a command that is at one |
| | `OneCommandPerSnapshot`, `EvidenceStays` | `[]SnapshotIsOfOneCommand`, `EvidenceIsKept` | `IInv`: only the command that created the summary gets past it, and a file that is open for writing is its own |
| | `EachRequestOnce` | `[]RequestsAreNotRepeated` | `AskInv`: what a command has asked and summarized is determined by where it is (`Phase`) |
| | `ManifestProvesTheSnapshot` | `[]ManifestIsComplete` | `FileInv`: what the directory has of the samples before the present one (`Proves`), below |

### Replay

That an internal check never fires, that a checkpoint is what its pages make it
and the other four properties that `OrchestratorProofs` takes from `Replayable`
are about the two documents of a run together, and none of them is inductive. A
step that replays a page keeps `CheckpointReflectsHistory` only if the page on
disk is the one the next cursor asks for; a save passes its validator only if candidates are
distinct and within the limits, and that holds of the next page only if the
entry was computed from a checkpoint that agreed with the manifest.
`Replayable` is `DocumentsAgree /\ InProgress`:

- `DocumentsAgree`: of every run with a checkpoint, the candidates are the
  identifiers of the pages it has seen, in order, its cursors are theirs, Search
  is complete for one of three reasons, and the manifest has entries for exactly
  the pages seen or for one more that follows them; the same of the records
  against `next_record_index`; and both documents satisfy their validators.
- `InProgress`: between two writes, what is in hand is that next page, that
  next entry or that next checkpoint.

Each step then keeps the two at most one entry apart. The lemmas about the items
of a page are in `SequenceProofs` (it yields identifiers that are new,
`UnknownAreNew`, and the same ones if it is gone through again, `UnknownIsAll`),
those about `advance_cursor` and its replay in the module: the replay of the
entry gives the checkpoint that the first execution computed (`ReplayAdvances`).

### First occurrences

`CandidatesAreFirstDistinct` compares with `FirstDistinct`, which is stated by
the places of a sequence and says nothing of loops or pages. `Pagewise` is
inductive: the cursors seen are those of the entries, the checkpoint satisfies
its validator and asks for a cursor it has not seen (`Steady`), and the
candidates are the first distinct of the items received so far (`Collected`).
Without `Steady` a page could find candidates beyond the limit, or a cursor that
was used. One page is an induction over its items (`OneMoreItem`, `OnePageMore`):
below the limit an item is unknown to the candidates exactly when its place is a
first one (`FirstSomewhere`), and its rank is then the length of the candidates
plus one (`RanksCount`).

### Progress

`RunEnds` is liveness, which the provers cannot reach, but its substance is a
fact about steps: nothing a started run does, retries, replays and handlers
included, fails to lower `WorkLeft` (`RunsProgress`), and a tuple of four natural
numbers (`WorkIsCounted`) cannot be lowered for ever (`WorkDoesNotDescend`, from
the library's well-foundedness of lexicographic orders). It needs `Replayable`,
because the second number is the pages or candidates the checkpoint still lacks:
that a replay finds the page it asks for, and that a page is not entered beyond
the limit, is why it is lowered and stays a number. What remains of `RunEnds` is
that a process which runs has a step to take, which the run `liveness` checks,
and that it takes it, which is the fairness of section 3.

### Snapshots

`ManifestIsComplete` speaks of the moment a manifest is whole, but what it says
has to be carried through every sample before. `Proves(d, label, list, n,
entries)` is that, for the command that is at sample `n`: the summary on disk is
its list, the entries it holds are those of the samples before `n` that found
something, each with its whole record in the directory, and the directory holds
no other record but the one being written. Two commands side by side cannot
disturb it: by `IInv` at most one of them is past the summary. That a query has
one summary (`OneSummary`) comes from the distinct identifiers of a matrix that
loads, which is the first thing `AskInv` carries.

### Induction

The library's induction rules take an operator as parameter, which the provers
cannot instantiate. The inductions over sequences that the proofs need are
therefore over sets of numbers: `SequenceProofs!Induction` says that a set of
natural numbers with 0 and every successor is all of them; it follows from the
well-foundedness of strict inclusion on finite sets (`WFMin`), which needs no
operator. A recursive function is first shown to exist with its equation
(`PassOver`, `LoopOverItems`, `JoinsExist`), then unfolded under the induction.
`AmongMembers`, `AmongInjective` and `AmongSelects` say what a pass over a
sequence returns; `FlattenOneMore` what one page more adds to a concatenation.
For this, `Filtering!Unknown` and `Filtering!Among` are recursive functions:
`tlapm` knows nothing of `SelectSeq`.

All invariants were model-checked on the instances of section 3 before their
proofs. Two changes of the models came from the proofs. The arms of `Response`
overlapped, so that a malformed search had the error or the results, as it
pleased `CHOOSE`; the server validates before it routes, and so does `Response`
now.
`Exploration` assumed less of its constants than it used: that the identifiers
to sample are distinct, and that a matrix and a response hold sequences.

### Only model-checked

Liveness (`RunEnds`, `EventuallyCompleted`, `ComposerIsReleased`): the provers do
not reason about `ENABLED`, without which weak fairness cannot be used. All other
properties of the passing runs have a theorem.

`tlapm` loses its SMT backend where a module declares a RECURSIVE operator, so
all recursion here is by the folds of the community modules or by recursive
functions.

## 5. Not modelled

- Request encoding, redaction of keys, field-by-field payload contracts and
  canonical JSON: pure conversions that no property above tells apart.
- The text of the fixtures, translations and wording: the API's models take any
  collection of records and any assignment of terms.
- The evidence cards and the language selector of the page: drawn from the
  answer, or sent along, and read by nothing.
- Option parsing, printing, the environment and the system clock.
- `index.html` and `styles.css` (no behaviour) and the migrations (an empty
  baseline revision).
- Two ingestion processes on one run: the Phase 4 notes exclude it. With two,
  each overwrites the other's manifest, since a save replaces the whole file.

## 6. Plan

Done: everything in section 2. What could follow:

1. A composition of `Orchestrator` with power losses in the sense of
   `AtomicStore!PowerLoss` (a run may go back to an older durable version): which
   of the order properties survive, and which need the two flushes named above.
2. A history of the provider's pages in `Orchestrator`, so that the comparison
   with first occurrences is stated of the loop with its failures, too. Today it
   is argued from three theorems: `CandidatesAreTheFirst` of the loop without
   failures, `CheckpointsReplay` and `ReplayAgrees` of what a failure repeats.
3. `Orchestrator` over `Attempts` by composition instead of by the table in
   section 2.
