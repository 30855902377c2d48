----------------------------- MODULE Filesystem -----------------------------
(***************************************************************************)
(* The stores of ingestion/filesystem.py, step by step: temporary file,    *)
(* flush, link or rename, directory flush and clean-up, by several         *)
(* processes at once.  Every value of pc is a point just before one        *)
(* operating-system call, so that an error, a kill or a power loss can     *)
(* fall between any two.                                                   *)
(*                                                                         *)
(* A directory is what the operating system shows (entry, made) and what   *)
(* is on the medium (durable, settled); a file's bytes reach the medium    *)
(* when they are flushed.                                                  *)
(***************************************************************************)
CONSTANTS
  Writers, Documents, Objects, Contents, Absent, Damaged, NoCall,
  Quarantines,  \* the objects that are quarantine records
  Directory,    \* [paths -> the directory a path is in]
  Nobody        \* wrote the files that were there before

Paths == Documents \cup Objects
Directories == {Directory[p] : p \in Paths}
Siblings(p) == {q \in Paths : Directory[q] = Directory[p]}

ASSUME PathsAssumption ==
  /\ Documents \cap Objects = {}
  /\ Quarantines \subseteq Objects

ASSUME ContentsAssumption ==
  /\ Absent \notin Contents
  /\ Damaged \notin Contents
  /\ Absent # Damaged
  /\ Contents \cap {"pending", "created", "refused", "saved",
                    "already_present", "conflict", "failed", "lost"} = {}

VARIABLES
  entry,      \* [Paths -> the file a reader finds there, or Absent]
  durable,    \* [Paths -> the file whose name is on the medium, or Absent]
  made,       \* the directories that exist
  settled,    \* the directories whose own name is on the medium
  unflushed,  \* history variable: the writers whose call went through a
              \* directory flush without effect, which they cannot notice
  temporary,  \* [Writers -> its temporary file, or Absent]
  pc,         \* [Writers -> the system call it is about to make]
  call,       \* [Writers -> the store operation last called]
  answer      \* [Writers -> its outcome so far]

files   == <<entry, durable>>
folders == <<made, settled, unflushed>>
vars    == <<files, folders, temporary, pc, call, answer>>

Content(file) == IF file = Absent THEN Absent ELSE file.content

Abstract == INSTANCE AtomicStore WITH
  seen <- [p \in Paths |-> Content(entry[p])],
  disk <- [p \in Paths |-> Content(durable[p])],
  busy <- [w \in Writers |-> pc[w] # "idle"]

Calls == Abstract!Calls
Answers == Abstract!Answers

File ==
  [content : Contents \cup {Damaged}, flushed : BOOLEAN,
   by : Writers \cup {Nobody}]

ASSUME FileAssumption == Absent \notin File

(* Points where the writer's temporary file may exist.                      *)
Holding == {"flush", "publish", "flush_directory", "clean_up",
            "clean_up_and_resolve"}

Points == Holding \cup {"idle", "check", "read", "make_directory", "write"}

(* What earlier runs left: whole files, or evidence damaged from outside.   *)
Init ==
  /\ made \in SUBSET Directories
  /\ settled = made
  /\ unflushed = {}
  /\ entry \in [Paths -> {Absent} \cup [content : Contents \cup {Damaged},
                                        flushed : {TRUE}, by : {Nobody}]]
  /\ \A p \in Paths : Directory[p] \notin made => entry[p] = Absent
  /\ durable = entry
  /\ temporary = [w \in Writers |-> Absent]
  /\ pc = [w \in Writers |-> "idle"]
  /\ call = [w \in Writers |-> NoCall]
  /\ answer = [w \in Writers |-> "lost"]

-----------------------------------------------------------------------------
(* Calls and returns                                                       *)

FirstPoint(kind) ==
  CASE kind = "create" -> "make_directory"
    [] kind = "load" -> "read"
    [] OTHER -> "check"

Begin(w, c) ==
  /\ pc[w] = "idle"
  /\ call' = [call EXCEPT ![w] = c]
  /\ answer' = [answer EXCEPT ![w] = "pending"]
  /\ pc' = [pc EXCEPT ![w] = FirstPoint(c.kind)]
  /\ unflushed' = unflushed \ {w}
  /\ UNCHANGED <<files, made, settled, temporary>>

Path(w) == call[w].path

Goto(w, point) ==
  /\ pc' = [pc EXCEPT ![w] = point]
  /\ UNCHANGED call

Return(w, a) ==
  /\ Goto(w, "idle")
  /\ answer' = [answer EXCEPT ![w] = a]

-----------------------------------------------------------------------------
(* Looking first                                                           *)

(* exists and is_file: they are false also when the path cannot be          *)
(* examined.                                                                *)
FindsFile(w) ==
  /\ pc[w] = "check"
  /\ entry[Path(w)] # Absent
  /\ Goto(w, IF call[w].kind = "store" THEN "read" ELSE "make_directory")
  /\ UNCHANGED <<files, folders, temporary, answer>>

FindsNoFile(w) ==
  /\ pc[w] = "check"
  /\ \/ /\ call[w].kind = "store"
        /\ Goto(w, "make_directory")
        /\ UNCHANGED answer
     \/ /\ call[w].kind = "save"
        /\ Return(w, "failed")
  /\ UNCHANGED <<files, folders, temporary>>

(* _load_model, or the verification of a file that is already there.  A     *)
(* damaged, missing or unreadable file is an error.                         *)
Read(w) ==
  /\ pc[w] = "read"
  /\ LET there == Content(entry[Path(w)])
     IN \/ /\ call[w].kind = "load"
           /\ there \in Contents
           /\ Return(w, there)
        \/ /\ call[w].kind = "store"
           /\ there \in Contents
           /\ Return(w, IF there = call[w].content
                        THEN "already_present" ELSE "conflict")
        \/ Return(w, "failed")
  /\ UNCHANGED <<files, folders, temporary>>

-----------------------------------------------------------------------------
(* _publish_new and _replace                                               *)

(* mkdir is outside the try: its error is raised as it is.                  *)
MakeDirectory(w) ==
  /\ pc[w] = "make_directory"
  /\ \/ /\ made' = made \cup {Directory[Path(w)]}
        /\ Goto(w, "write")
        /\ UNCHANGED answer
     \/ Return(w, "failed") /\ UNCHANGED made
  /\ UNCHANGED <<files, settled, unflushed, temporary>>

WriteTemporary(w) ==
  /\ pc[w] = "write"
  /\ temporary' = [temporary EXCEPT
       ![w] = [content |-> call[w].content, flushed |-> FALSE, by |-> w]]
  /\ Goto(w, "flush")
  /\ UNCHANGED <<files, folders, answer>>

SkipFlush(w) ==
  /\ pc[w] = "flush"
  /\ Goto(w, "publish")
  /\ UNCHANGED <<files, folders, temporary, answer>>

FlushTemporary(w) ==
  /\ pc[w] = "flush"
  /\ temporary' = [temporary EXCEPT ![w].flushed = TRUE]
  /\ Goto(w, "publish")
  /\ UNCHANGED <<files, folders, answer>>

(* The file appears under its final name, in one step.                      *)
Appears(w, a) ==
  /\ entry' = [entry EXCEPT ![Path(w)] = temporary[w]]
  /\ answer' = [answer EXCEPT ![w] = a]
  /\ Goto(w, "flush_directory")
  /\ UNCHANGED <<durable, folders, temporary>>

LinkReplacing(w) ==
  /\ pc[w] = "publish"
  /\ call[w].kind \in {"create", "store"}
  /\ Appears(w, "created")

Link(w) ==
  /\ pc[w] = "publish"
  /\ call[w].kind \in {"create", "store"}
  /\ entry[Path(w)] = Absent
  /\ Appears(w, "created")

(* FileExistsError: create raises, store resolves what the winner wrote.    *)
LinkRefused(w) ==
  /\ pc[w] = "publish"
  /\ entry[Path(w)] # Absent
  /\ \/ /\ call[w].kind = "create"
        /\ answer' = [answer EXCEPT ![w] = "refused"]
        /\ Goto(w, "clean_up")
     \/ /\ call[w].kind = "store"
        /\ Goto(w, "clean_up_and_resolve")
        /\ UNCHANGED answer
  /\ UNCHANGED <<files, folders, temporary>>

Rename(w) ==
  /\ pc[w] = "publish"
  /\ call[w].kind = "save"
  /\ Appears(w, "saved")

(* What the operating system writes to the medium.                          *)
Reaches(paths) ==
  durable' = [p \in Paths |-> IF p \in paths THEN entry[p] ELSE durable[p]]

SkipDirectory(w) ==
  /\ pc[w] = "flush_directory"
  /\ Goto(w, "clean_up")
  /\ UNCHANGED <<files, folders, temporary, answer>>

(* Best effort: a platform that cannot open a directory, or an error of the *)
(* flush, goes unnoticed.                                                   *)
FlushDirectory(w) ==
  /\ pc[w] = "flush_directory"
  /\ \/ /\ Reaches(Siblings(Path(w)))
        /\ UNCHANGED unflushed
     \/ /\ UNCHANGED durable
        /\ unflushed' = unflushed \cup {w}
  /\ Goto(w, "clean_up")
  /\ UNCHANGED <<entry, made, settled, temporary, answer>>

(* The finally block, then the outcome or the error it was on the way with. *)
CleanUp(w) ==
  /\ pc[w] = "clean_up"
  /\ temporary' = [temporary EXCEPT ![w] = Absent]
  /\ Return(w, IF answer[w] = "pending" THEN "failed" ELSE answer[w])
  /\ UNCHANGED <<files, folders>>

(* The loser of a race: an object is verified, a quarantine record starts   *)
(* over.                                                                    *)
CleanUpAndResolve(w) ==
  /\ pc[w] = "clean_up_and_resolve"
  /\ temporary' = [temporary EXCEPT ![w] = Absent]
  /\ Goto(w, IF Path(w) \in Quarantines THEN "check" ELSE "read")
  /\ UNCHANGED <<files, folders, answer>>

(* An OSError of the write, the flush, the link or the rename.              *)
SystemCallFails(w) ==
  /\ pc[w] \in {"write", "flush", "publish"}
  /\ Goto(w, "clean_up")
  /\ UNCHANGED <<files, folders, temporary, answer>>

(* unlink itself raises, or closing the directory did: the operation may    *)
(* have succeeded, its caller is told that it failed, and the temporary     *)
(* file may stay.                                                           *)
CleanUpFails(w) ==
  /\ pc[w] \in {"clean_up", "clean_up_and_resolve"}
  /\ temporary' = [temporary EXCEPT ![w] = Absent]
  /\ Return(w, "failed")
  /\ UNCHANGED <<files, folders>>

Step(w) ==
  \/ \E c \in Calls : Begin(w, c)
  \/ FindsFile(w) \/ FindsNoFile(w) \/ Read(w)
  \/ MakeDirectory(w) \/ WriteTemporary(w) \/ FlushTemporary(w)
  \/ Link(w) \/ LinkRefused(w) \/ Rename(w) \/ FlushDirectory(w)
  \/ CleanUp(w) \/ CleanUpAndResolve(w)
  \/ SystemCallFails(w) \/ CleanUpFails(w)

-----------------------------------------------------------------------------
(* The environment                                                         *)

(* A process is killed: the operating system keeps what it was told.        *)
Crash(w) ==
  /\ pc[w] # "idle"
  /\ temporary' = [temporary EXCEPT ![w] = Absent]
  /\ Return(w, "lost")
  /\ unflushed' = unflushed \ {w}
  /\ UNCHANGED <<files, made, settled>>

(* The operating system writes names to the medium in its own time.         *)
WriteBack(p) ==
  /\ Reaches({p})
  /\ UNCHANGED <<entry, folders, temporary, pc, call, answer>>

WriteBackDirectory(d) ==
  /\ d \in made
  /\ settled' = settled \cup {d}
  /\ UNCHANGED <<files, made, unflushed, temporary, pc, call, answer>>

Lost == {p \in Paths : Directory[p] \notin settled}

(* Bytes that were not flushed are gone even where the name is there.       *)
AfterPowerLoss(file) ==
  IF file = Absent \/ file.flushed
  THEN file
  ELSE [file EXCEPT !.content = Damaged, !.flushed = TRUE]

(* What would be found there after a power loss at this moment.             *)
Surviving(p) == IF p \in Lost THEN Absent ELSE AfterPowerLoss(durable[p])

PowerLoss ==
  /\ entry' = [p \in Paths |-> Surviving(p)]
  /\ durable' = entry'
  /\ made' = settled
  /\ temporary' = [w \in Writers |-> Absent]
  /\ pc' = [w \in Writers |-> "idle"]
  /\ answer' = [w \in Writers |-> "lost"]
  /\ unflushed' = {}
  /\ UNCHANGED <<settled, call>>

Next ==
  \/ \E w \in Writers : Step(w) \/ Crash(w)
  \/ \E p \in Paths : WriteBack(p)
  \/ \E d \in Directories : WriteBackDirectory(d)
  \/ PowerLoss

Spec == Init /\ [][Next]_vars

-----------------------------------------------------------------------------
(* Properties                                                              *)

(* Shapes; and a temporary file exists only while its writer is between     *)
(* the write and the finally block (files a kill or a failed unlink leaves  *)
(* behind are nobody's, and their random names are never looked at again).  *)
TypeOK ==
  /\ entry \in [Paths -> File \cup {Absent}]
  /\ durable \in [Paths -> File \cup {Absent}]
  /\ made \subseteq Directories
  /\ settled \subseteq made
  /\ unflushed \subseteq Writers
  /\ temporary \in [Writers -> File \cup {Absent}]
  /\ pc \in [Writers -> Points]
  /\ call \in [Writers -> Calls \cup {NoCall}]
  /\ answer \in [Writers -> Answers]
  /\ \A w \in Writers : temporary[w] # Absent => pc[w] \in Holding

Has(w, answers) == pc[w] = "idle" /\ answer[w] \in answers

(* Two processes that publish one object are never both told that they      *)
(* created it (os.link instead of os.replace in _publish_new).              *)
OneCreator ==
  \A v, w \in Writers :
    Has(v, {"created"}) /\ Has(w, {"created"}) /\ Path(v) = Path(w) => v = w

(* Whoever was told that an object was created or already present finds his *)
(* own content there, whatever other processes did meanwhile                *)
(* (_resolve_existing, and the comparison of a quarantine record).          *)
OwnContentIsThere ==
  \A w \in Writers :
    Has(w, {"created", "already_present"}) /\ Path(w) \in Objects =>
      Content(entry[Path(w)]) = call[w].content

(* What a store answered of an object is true of it, and stays true.        *)
AnswersAreTrue == OneCreator /\ OwnContentIsThere

(* Two things may take an acknowledged write back, and both are outside the *)
(* writer's view: a directory flush that had no effect, and a directory so  *)
(* new that its own name is not on the medium.  But for these, what a       *)
(* caller was told is written, and nobody has replaced since, would survive *)
(* a power loss at any later moment, name and bytes (the order of           *)
(* _write_fsynced, link or replace, _fsync_directory and the return).       *)
AcknowledgedSurvives ==
  \A w \in Writers :
    /\ Has(w, {"created", "saved"})
    /\ entry[Path(w)] # Absent
    /\ entry[Path(w)].by = w
    /\ w \notin unflushed
    /\ Directory[Path(w)] \in settled
    => Surviving(Path(w)) = entry[Path(w)]

(* The stores behave as AtomicStore: every call takes effect whole, at one  *)
(* point, and a kill or a power loss leaves old or new, never a mixture.    *)
ImplementsAtomicStore == Abstract!Spec

(* "Durable ordering is mandatory: ... publish or resolve the raw object,   *)
(* persist the successful manifest entry" (ADR 0004): an object resolved as *)
(* already present is on the medium, as the manifest entry that follows     *)
(* will be.                                                                 *)
ResolvedIsDurable ==
  \A w \in Writers :
    Has(w, {"already_present"}) /\ unflushed = {} =>
      durable[Path(w)] = entry[Path(w)]

(* "Each Record attempt is reserved durably before provider access, so a    *)
(* crash cannot reset the five-call ceiling" (Phase 4 notes): a manifest    *)
(* that was saved exists after a power loss.                                *)
ReservationsSurvive ==
  [][\A w \in Writers :
       Has(w, {"saved"}) /\ w \notin unflushed => entry'[Path(w)] # Absent]_vars
=============================================================================
