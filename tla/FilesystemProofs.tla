-------------------------- MODULE FilesystemProofs --------------------------
(***************************************************************************)
(* The stores of ingestion/filesystem.py implement AtomicStore, for any    *)
(* number of processes, paths and contents, through kills, I/O errors and  *)
(* power losses.                                                           *)
(***************************************************************************)
EXTENDS Filesystem, TLAPS

(* Points at which nothing is decided yet.                                  *)
Undecided == {"check", "read", "make_directory", "write", "flush", "publish",
              "clean_up_and_resolve"}

(* Points between the look at an existing document and its replacement.     *)
Replacing == {"make_directory", "write", "flush", "publish"}

(* A process at work has a call of the kind its point belongs to.           *)
AtWork ==
  \A w \in Writers :
    /\ pc[w] # "idle" \/ answer[w] # "lost" => call[w] \in Calls
    /\ pc[w] \in Undecided => answer[w] = "pending"
    /\ pc[w] = "check" => call[w].kind \in {"save", "store"}
    /\ pc[w] = "read" => call[w].kind \in {"load", "store"}
    /\ pc[w] \in Replacing => call[w].kind # "load"
    /\ pc[w] = "clean_up_and_resolve" => call[w].kind = "store"

(* What is about to be published is the whole content, flushed.             *)
InHand ==
  \A w \in Writers :
    /\ pc[w] \in {"flush", "publish"} =>
         /\ temporary[w] \in File
         /\ temporary[w].content = call[w].content
         /\ temporary[w].by = w
    /\ pc[w] = "publish" => temporary[w].flushed

(* No name leads to bytes that a power loss would take.                     *)
AreFlushed ==
  \A p \in Paths :
    /\ entry[p] # Absent => entry[p].flushed
    /\ durable[p] # Absent => durable[p].flushed

SaveReplaces ==
  \A w \in Writers :
    pc[w] \in Replacing /\ call[w].kind = "save" => entry[Path(w)] # Absent

(* What an outcome says about the path, from the moment it is decided.      *)
Truths ==
  \A w \in Writers :
    /\ answer[w] = "created" => entry[Path(w)] # Absent
    /\ answer[w] \in {"created", "already_present"} /\ Path(w) \in Objects =>
         Content(entry[Path(w)]) = call[w].content

CreatedOnce ==
  \A v, w \in Writers :
    answer[v] = "created" /\ answer[w] = "created" /\ Path(v) = Path(w) => v = w

OnMedium ==
  \A w \in Writers :
    /\ pc[w] \in {"clean_up", "idle"}
    /\ answer[w] \in {"created", "saved"}
    /\ entry[Path(w)] # Absent
    /\ entry[Path(w)].by = w
    /\ w \notin unflushed
    => durable[Path(w)] = entry[Path(w)]

IInv ==
  /\ TypeOK
  /\ AtWork
  /\ InHand
  /\ AreFlushed
  /\ SaveReplaces
  /\ Truths
  /\ CreatedOnce
  /\ OnMedium

-----------------------------------------------------------------------------
(* Shapes                                                                  *)

(* What a caller may ask of a store (the arguments of create, save, load    *)
(* and store).                                                              *)
LEMMA CallShape ==
  ASSUME NEW c \in Calls
  PROVE  /\ c.kind \in {"create", "save", "load", "store"}
         /\ c.path \in Paths
         /\ c.kind = "store" <=> c.path \in Objects
         /\ c.kind # "load" => c.content \in Contents
  BY PathsAssumption
  DEF Calls, Abstract!Calls, Paths

(* Outcomes that are not contents are told apart from contents.             *)
LEMMA AnswerShape ==
  /\ {"pending", "created", "refused", "saved", "already_present",
      "conflict", "failed", "lost"} \subseteq Answers
  /\ Contents \subseteq Answers
  /\ \A c \in Contents :
       c \notin {"pending", "created", "refused", "saved",
                 "already_present", "conflict", "failed", "lost"}
  BY ContentsAssumption DEF Answers, Abstract!Answers

(* The process has no temporary file after the step.                        *)
Drops(w) ==
  \/ temporary' = [temporary EXCEPT ![w] = Absent]
  \/ temporary' = temporary /\ temporary[w] = Absent

(* Nothing of a process changes but its point and its answer, which becomes *)
(* final (every raise, and every return that says nothing of the path).     *)
LEMMA ReturnKeeps ==
  ASSUME IInv, NEW w \in Writers, pc[w] # "idle",
         NEW a \in Answers,
         pc' = [pc EXCEPT ![w] = "idle"],
         answer' = [answer EXCEPT ![w] = a],
         a \in {"created", "saved"} => pc[w] = "clean_up" /\ a = answer[w],
         a = "already_present" =>
           a = answer[w] \/ Content(entry[Path(w)]) = call[w].content,
         Drops(w),
         unflushed' = unflushed \/ (a = "lost" /\ unflushed' = unflushed \ {w}),
         UNCHANGED <<files, made, settled, call>>
  PROVE  IInv'
<1> USE DEF files, Path, Drops
<1>1. TypeOK'
  BY DEF IInv, TypeOK, Points, Holding
<1>2. AtWork'
  BY DEF IInv, TypeOK, AtWork, Undecided, Replacing
<1>3. InHand'
  BY DEF IInv, TypeOK, InHand
<1>4. AreFlushed' /\ SaveReplaces'
  BY DEF IInv, TypeOK, AreFlushed, SaveReplaces, Replacing
<1>5. Truths' /\ CreatedOnce' /\ OnMedium'
  BY DEF IInv, TypeOK, Truths, CreatedOnce, OnMedium, Content
<1> QED BY <1>1, <1>2, <1>3, <1>4, <1>5 DEF IInv

(* Nothing changes but a process's point: looking, and errors on the way to *)
(* the finally block.                                                       *)
LEMMA GotoKeeps ==
  ASSUME IInv, NEW w \in Writers, pc[w] # "idle",
         NEW point \in Points, point # "idle",
         pc' = [pc EXCEPT ![w] = point],
         point \in Undecided => answer[w] = "pending",
         point = "check" => call[w].kind \in {"save", "store"},
         point = "read" => call[w].kind \in {"load", "store"},
         point \in Replacing =>
           /\ call[w].kind # "load"
           /\ call[w].kind = "save" => entry[Path(w)] # Absent,
         point = "clean_up_and_resolve" => call[w].kind = "store",
         point \notin {"flush", "publish"},
         point = "clean_up" => answer[w] \notin {"created", "saved"},
         Drops(w) \/ (point \in Holding /\ UNCHANGED temporary),
         UNCHANGED <<files, settled, unflushed, answer, call>>,
         made \subseteq made', made' \subseteq Directories
  PROVE  IInv'
<1> USE DEF files, Path, Drops
<1>1. TypeOK'
  BY DEF IInv, TypeOK, Points, Holding
<1>2. AtWork'
  BY DEF IInv, TypeOK, AtWork, Undecided, Replacing, Points, Holding
<1>3. InHand'
  BY DEF IInv, TypeOK, InHand
<1>4. AreFlushed' /\ SaveReplaces'
  BY DEF IInv, TypeOK, AreFlushed, SaveReplaces, Replacing
<1>5. Truths' /\ CreatedOnce' /\ OnMedium'
  BY DEF IInv, TypeOK, Truths, CreatedOnce, OnMedium, Content
<1> QED BY <1>1, <1>2, <1>3, <1>4, <1>5 DEF IInv

-----------------------------------------------------------------------------
(* Every step keeps the invariant                                          *)

LEMMA BeginKeeps ==
  ASSUME IInv, NEW w \in Writers, NEW c \in Calls, Begin(w, c)
  PROVE  IInv'
<1> USE DEF Begin, files, folders
<1>0. /\ FirstPoint(c.kind) \in {"make_directory", "read", "check"}
      /\ FirstPoint(c.kind) = "make_directory" => c.kind = "create"
      /\ FirstPoint(c.kind) = "read" => c.kind = "load"
      /\ FirstPoint(c.kind) = "check" => c.kind \in {"save", "store"}
  BY CallShape DEF FirstPoint
<1>1. TypeOK'
  BY <1>0, AnswerShape DEF IInv, TypeOK, Points, Holding
<1>2. AtWork'
  BY <1>0 DEF IInv, TypeOK, AtWork, Undecided, Replacing
<1>3. InHand'
  BY <1>0 DEF IInv, TypeOK, InHand
<1>4. AreFlushed' /\ SaveReplaces'
  BY <1>0 DEF IInv, TypeOK, AreFlushed, SaveReplaces, Replacing, Path
<1>5. Truths' /\ CreatedOnce' /\ OnMedium'
  BY <1>0 DEF IInv, TypeOK, Truths, CreatedOnce, OnMedium, Content, Path
<1> QED BY <1>1, <1>2, <1>3, <1>4, <1>5 DEF IInv

LEMMA LookKeeps ==
  ASSUME IInv, NEW w \in Writers, FindsFile(w) \/ FindsNoFile(w) \/ Read(w)
  PROVE  IInv'
<1>0. /\ call[w] \in Calls
      /\ answer[w] = "pending"
      /\ temporary[w] = Absent
      /\ pc[w] # "idle"
  BY DEF IInv, AtWork, TypeOK, FindsFile, FindsNoFile, Read, Undecided, Holding
<1>1. CASE FindsFile(w)
  <2> DEFINE point ==
        IF call[w].kind = "store" THEN "read" ELSE "make_directory"
  <2>1. point \in Undecided /\ point \in Points
    BY DEF Undecided, Points
  <2>2. point \notin {"idle", "check", "flush", "publish", "clean_up",
                      "clean_up_and_resolve"}
    OBVIOUS
  <2>3. point = "read" => call[w].kind = "store"
    OBVIOUS
  <2>4. point \in Replacing =>
          call[w].kind # "load" /\ entry[Path(w)] # Absent
    BY <1>1 DEF FindsFile, IInv, AtWork, Replacing
  <2>5. /\ pc' = [pc EXCEPT ![w] = point]
        /\ UNCHANGED <<files, settled, unflushed, answer, call, temporary, made>>
    BY <1>1 DEF FindsFile, Goto, folders
  <2>6. made \subseteq Directories
    BY DEF IInv, TypeOK
  <2> HIDE DEF point
  <2> QED BY <1>0, <2>1, <2>2, <2>3, <2>4, <2>5, <2>6, GotoKeeps DEF Drops
<1>2. CASE FindsNoFile(w)
  <2>1. CASE call[w].kind = "store" /\ Goto(w, "make_directory")
               /\ UNCHANGED answer
    <3>1. /\ "make_directory" \in Undecided
          /\ "make_directory" \in Points
      BY DEF Undecided, Points
    <3>2. /\ pc' = [pc EXCEPT ![w] = "make_directory"]
          /\ UNCHANGED <<files, settled, unflushed, answer, call, temporary, made>>
      BY <1>2, <2>1 DEF FindsNoFile, Goto, folders
    <3>3. made \subseteq Directories
      BY DEF IInv, TypeOK
    <3> QED BY <1>0, <2>1, <3>1, <3>2, <3>3, GotoKeeps DEF Drops
  <2>2. CASE Return(w, "failed")
    BY <1>0, <1>2, <2>2, ReturnKeeps, AnswerShape
    DEF FindsNoFile, Return, Goto, Drops, folders
  <2> QED BY <1>2, <2>1, <2>2 DEF FindsNoFile
<1>3. CASE Read(w)
  <2> DEFINE there == Content(entry[Path(w)])
  <2>1. CASE there \in Contents /\ Return(w, there)
    BY <1>0, <1>3, <2>1, ReturnKeeps, AnswerShape
    DEF Read, Return, Goto, Drops, folders
  <2>2. CASE Return(w, IF there = call[w].content
                       THEN "already_present" ELSE "conflict")
    BY <1>0, <1>3, <2>2, ReturnKeeps, AnswerShape
    DEF Read, Return, Goto, Drops, folders
  <2>3. CASE Return(w, "failed")
    BY <1>0, <1>3, <2>3, ReturnKeeps, AnswerShape
    DEF Read, Return, Goto, Drops, folders
  <2> QED BY <1>3, <2>1, <2>2, <2>3 DEF Read
<1> QED BY <1>1, <1>2, <1>3

LEMMA MakeDirectoryKeeps ==
  ASSUME IInv, NEW w \in Writers, MakeDirectory(w)
  PROVE  IInv'
<1>0. /\ call[w] \in Calls
      /\ answer[w] = "pending"
      /\ temporary[w] = Absent
      /\ Directory[Path(w)] \in Directories
  BY CallShape
  DEF IInv, AtWork, TypeOK, MakeDirectory, Undecided, Holding, Path, Directories
<1>1. CASE Return(w, "failed") /\ UNCHANGED made
  BY <1>0, <1>1, ReturnKeeps, AnswerShape DEF MakeDirectory, Return, Goto, Drops
<1>2. CASE Goto(w, "write") /\ UNCHANGED answer
             /\ made' = made \cup {Directory[Path(w)]}
  <2>1. "write" \in Undecided /\ "write" \in Points
    BY DEF Undecided, Points
  <2>2. /\ pc[w] # "idle"
        /\ call[w].kind # "load"
        /\ call[w].kind = "save" => entry[Path(w)] # Absent
    BY DEF MakeDirectory, IInv, AtWork, SaveReplaces, Replacing
  <2>3. /\ pc' = [pc EXCEPT ![w] = "write"]
        /\ UNCHANGED <<files, settled, unflushed, answer, call, temporary>>
    BY <1>2 DEF MakeDirectory, Goto
  <2>4. made \subseteq made' /\ made' \subseteq Directories
    BY <1>0, <1>2 DEF IInv, TypeOK
  <2> QED BY <1>0, <2>1, <2>2, <2>3, <2>4, GotoKeeps DEF Drops
<1> QED BY <1>1, <1>2 DEF MakeDirectory

LEMMA TemporaryKeeps ==
  ASSUME IInv, NEW w \in Writers, WriteTemporary(w) \/ FlushTemporary(w)
  PROVE  IInv'
<1> USE DEF WriteTemporary, FlushTemporary, Goto, files, folders, Path
<1>0. call[w] \in Calls /\ call[w].content \in Contents
  BY CallShape DEF IInv, AtWork, Replacing
<1>a. PICK file \in File :
        /\ temporary' = [temporary EXCEPT ![w] = file]
        /\ file.content = call[w].content
        /\ file.by = w
        /\ \/ pc' = [pc EXCEPT ![w] = "flush"]
           \/ pc' = [pc EXCEPT ![w] = "publish"] /\ file.flushed
  <2>1. CASE WriteTemporary(w)
    <3> DEFINE file ==
          [content |-> call[w].content, flushed |-> FALSE, by |-> w]
    <3>1. file \in File
      BY <1>0 DEF File
    <3>2. temporary' = [temporary EXCEPT ![w] = file]
            /\ pc' = [pc EXCEPT ![w] = "flush"]
      BY <2>1
    <3> QED BY <3>1, <3>2
  <2>2. CASE FlushTemporary(w)
    <3>1. /\ temporary[w] \in File
          /\ temporary[w].content = call[w].content
          /\ temporary[w].by = w
      BY <2>2 DEF IInv, InHand
    <3> DEFINE file == [temporary[w] EXCEPT !.flushed = TRUE]
    <3>2. file \in File /\ file.content = call[w].content /\ file.by = w
            /\ file.flushed
      BY <3>1 DEF File
    <3>3. temporary' = [temporary EXCEPT ![w] = file]
      BY <2>2
    <3> QED BY <2>2, <3>2, <3>3
  <2> QED BY <2>1, <2>2
<1>1. TypeOK'
  BY <1>0, <1>a DEF IInv, TypeOK, Points, Holding
<1>2. AtWork'
  BY DEF IInv, TypeOK, AtWork, Undecided, Replacing
<1>3. InHand'
  BY <1>a DEF IInv, TypeOK, InHand
<1>4. AreFlushed' /\ SaveReplaces'
  BY DEF IInv, TypeOK, AreFlushed, SaveReplaces, Replacing
<1>5. Truths' /\ CreatedOnce' /\ OnMedium'
  BY DEF IInv, TypeOK, Truths, CreatedOnce, OnMedium, Content
<1> QED BY <1>1, <1>2, <1>3, <1>4, <1>5 DEF IInv

LEMMA AppearsKeeps ==
  ASSUME IInv, NEW w \in Writers, Link(w) \/ Rename(w)
  PROVE  IInv'
<1> USE DEF Link, Rename, Appears, Goto, folders, Path
<1>a. /\ call[w] \in Calls
      /\ pc[w] = "publish"
      /\ temporary[w] \in File
      /\ temporary[w].content = call[w].content
      /\ temporary[w].flushed
      /\ temporary[w].by = w
  BY DEF IInv, AtWork, Replacing, InHand
<1>b. /\ call[w].path \in Paths
      /\ call[w].kind = "save" => call[w].path \notin Objects
      /\ call[w].content \in Contents
  BY <1>a, CallShape DEF IInv, AtWork, Replacing
<1>c. temporary[w] \in File /\ temporary[w] # Absent
  BY <1>a, FileAssumption
<1>0. /\ entry' = [entry EXCEPT ![call[w].path] = temporary[w]]
      /\ temporary[w].content = call[w].content
      /\ temporary[w].flushed
      /\ temporary[w].by = w
  BY <1>a
<1>1. TypeOK'
  BY <1>a, <1>b, <1>c, <1>0, AnswerShape DEF IInv, TypeOK, Points, Holding
<1>2. AtWork'
  BY <1>a, <1>b, <1>c, <1>0 DEF IInv, TypeOK, AtWork, Undecided, Replacing
<1>3. InHand'
  BY DEF IInv, TypeOK, InHand
<1>4. AreFlushed' /\ SaveReplaces'
  BY <1>a, <1>b, <1>c, <1>0 DEF IInv, TypeOK, AreFlushed, SaveReplaces, Replacing
<1>5. Truths'
  <2> SUFFICES ASSUME NEW v \in Writers
               PROVE  /\ answer'[v] = "created" => entry'[Path(v)] # Absent
                      /\ answer'[v] \in {"created", "already_present"}
                           /\ Path(v) \in Objects =>
                           Content(entry'[Path(v)]) = call[v].content
    BY DEF Truths, Content
  <2>1. CASE v = w
    BY <1>a, <1>b, <1>c, <1>0, <2>1 DEF IInv, TypeOK, Content
  <2>2. CASE v # w /\ call[v].path # call[w].path
    BY <1>0, <2>2 DEF IInv, TypeOK, Truths
  <2>3. CASE v # w /\ call[v].path = call[w].path
    <3>1. answer'[v] = answer[v]
      BY <2>3 DEF IInv, TypeOK
    <3>2. entry'[Path(v)] = temporary[w]
      BY <1>b, <1>0, <2>3 DEF IInv, TypeOK
    <3>3. Link(w) => answer[v] \notin {"created", "already_present"}
                       \/ Path(v) \notin Objects
      <4> SUFFICES ASSUME Link(w), Path(v) \in Objects,
                          answer[v] \in {"created", "already_present"}
                   PROVE  FALSE
        OBVIOUS
      <4>1. call[v] \in Calls /\ call[v].kind = "store"
        BY CallShape DEF IInv, AtWork
      <4>2. call[v].content \in Contents
        BY <4>1, CallShape
      <4>3. Content(entry[Path(v)]) = Absent
        BY <2>3 DEF Content
      <4> QED BY <4>2, <4>3, ContentsAssumption DEF IInv, Truths
    <3> QED BY <1>b, <1>c, <2>3, <3>1, <3>2, <3>3
  <2> QED BY <2>1, <2>2, <2>3
<1>6. CreatedOnce'
  BY <1>a, <1>b, <1>c, <1>0 DEF IInv, TypeOK, CreatedOnce, Truths
<1>7. OnMedium'
  BY <1>a, <1>b, <1>c, <1>0 DEF IInv, TypeOK, OnMedium
<1> QED BY <1>1, <1>2, <1>3, <1>4, <1>5, <1>6, <1>7 DEF IInv

LEMMA LinkRefusedKeeps ==
  ASSUME IInv, NEW w \in Writers, LinkRefused(w)
  PROVE  IInv'
<1> USE DEF LinkRefused, Goto, files, folders, Path
<1>1. TypeOK'
  BY AnswerShape DEF IInv, TypeOK, Points, Holding
<1>2. AtWork'
  BY DEF IInv, TypeOK, AtWork, Undecided, Replacing
<1>3. InHand'
  BY DEF IInv, TypeOK, InHand
<1>4. AreFlushed' /\ SaveReplaces'
  BY DEF IInv, TypeOK, AreFlushed, SaveReplaces, Replacing
<1>5. Truths' /\ CreatedOnce'
  BY DEF IInv, TypeOK, AtWork, Undecided, Truths, CreatedOnce, Content
<1>6. OnMedium'
  BY DEF IInv, TypeOK, AtWork, Undecided, OnMedium
<1> QED BY <1>1, <1>2, <1>3, <1>4, <1>5, <1>6 DEF IInv

LEMMA FlushDirectoryKeeps ==
  ASSUME IInv, NEW w \in Writers, FlushDirectory(w)
  PROVE  IInv'
<1> USE DEF FlushDirectory, Goto, Reaches, folders, Path
<1>0. call[w] \in Calls /\ call[w].path \in Paths
  BY CallShape DEF IInv, AtWork
<1>1. TypeOK'
  BY DEF IInv, TypeOK, Points, Holding
<1>2. AtWork'
  BY DEF IInv, TypeOK, AtWork, Undecided, Replacing
<1>3. InHand'
  BY DEF IInv, TypeOK, InHand
<1>4. AreFlushed' /\ SaveReplaces'
  BY DEF IInv, TypeOK, AreFlushed, SaveReplaces, Replacing
<1>5. Truths' /\ CreatedOnce'
  BY DEF IInv, TypeOK, Truths, CreatedOnce, Content
<1>6. OnMedium'
  <2> SUFFICES ASSUME NEW v \in Writers,
                      pc'[v] \in {"clean_up", "idle"},
                      answer[v] \in {"created", "saved"},
                      entry[Path(v)] # Absent, entry[Path(v)].by = v,
                      v \notin unflushed'
               PROVE  durable'[Path(v)] = entry[Path(v)]
    BY DEF OnMedium
  <2>1. call[v] \in Calls /\ Path(v) \in Paths
    BY CallShape DEF IInv, AtWork
  <2>2. CASE v = w
    BY <1>0, <2>1, <2>2 DEF Siblings
  <2>3. CASE v # w
    BY <2>1, <2>3 DEF IInv, TypeOK, OnMedium
  <2> QED BY <2>2, <2>3
<1> QED BY <1>1, <1>2, <1>3, <1>4, <1>5, <1>6 DEF IInv

LEMMA CleanUpKeeps ==
  ASSUME IInv, NEW w \in Writers,
         CleanUp(w) \/ CleanUpAndResolve(w) \/ SystemCallFails(w)
           \/ CleanUpFails(w)
  PROVE  IInv'
<1>0. answer[w] \in Answers /\ temporary[w] \in File \cup {Absent}
  BY DEF IInv, TypeOK
<1>1. CASE CleanUp(w)
  <2>1. CASE answer[w] = "pending"
    BY <1>1, <2>1, ReturnKeeps, AnswerShape
    DEF CleanUp, Return, Goto, Drops, folders
  <2>2. CASE answer[w] # "pending"
    BY <1>0, <1>1, <2>2, ReturnKeeps DEF CleanUp, Return, Goto, Drops, folders
  <2> QED BY <2>1, <2>2
<1>2. CASE CleanUpAndResolve(w)
  <2> DEFINE point == IF Path(w) \in Quarantines THEN "check" ELSE "read"
  <2>1. /\ point \in Undecided
        /\ point \in Points
        /\ point \notin Replacing
        /\ point \in {"check", "read"}
    BY DEF Undecided, Points, Replacing
  <2>2. /\ pc[w] # "idle"
        /\ answer[w] = "pending"
        /\ call[w].kind = "store"
    BY <1>2 DEF CleanUpAndResolve, IInv, AtWork, Undecided
  <2>3. Drops(w)
    BY <1>2 DEF CleanUpAndResolve, Drops
  <2>4. /\ pc' = [pc EXCEPT ![w] = point]
        /\ UNCHANGED <<files, settled, unflushed, answer, call, made>>
    BY <1>2 DEF CleanUpAndResolve, Goto, folders
  <2>5. made \subseteq Directories
    BY DEF IInv, TypeOK
  <2> HIDE DEF point
  <2> QED BY <2>1, <2>2, <2>3, <2>4, <2>5, GotoKeeps
<1>3. CASE SystemCallFails(w)
  <2>1. /\ answer[w] = "pending"
        /\ pc[w] # "idle"
    BY <1>3 DEF SystemCallFails, IInv, AtWork, Undecided
  <2>2. "clean_up" \in Points /\ "clean_up" \notin Undecided \cup Replacing
    BY DEF Points, Holding, Undecided, Replacing
  <2>3. "clean_up" \in Holding /\ UNCHANGED temporary
    BY <1>3 DEF SystemCallFails, Holding
  <2>4. made \subseteq made' /\ made' \subseteq Directories
    BY <1>3 DEF SystemCallFails, folders, IInv, TypeOK
  <2>5. pc' = [pc EXCEPT ![w] = "clean_up"]
        /\ UNCHANGED <<files, settled, unflushed, answer, call>>
    BY <1>3 DEF SystemCallFails, Goto, folders
  <2> QED BY <2>1, <2>2, <2>3, <2>4, <2>5, GotoKeeps
<1>4. CASE CleanUpFails(w)
  BY <1>4, ReturnKeeps, AnswerShape DEF CleanUpFails, Return, Goto, Drops, folders
<1> QED BY <1>1, <1>2, <1>3, <1>4

LEMMA EnvironmentKeeps ==
  ASSUME IInv,
         \/ \E w \in Writers : Crash(w)
         \/ \E p \in Paths : WriteBack(p)
         \/ \E d \in Directories : WriteBackDirectory(d)
         \/ PowerLoss
         \/ UNCHANGED vars
  PROVE  IInv'
<1>1. ASSUME NEW w \in Writers, Crash(w) PROVE IInv'
  BY <1>1, ReturnKeeps, AnswerShape DEF Crash, Return, Goto, Drops, folders
<1>2. ASSUME NEW p \in Paths, WriteBack(p) PROVE IInv'
  <2> USE <1>2 DEF WriteBack, Reaches, folders
  <2>1. TypeOK'
    BY DEF IInv, TypeOK
  <2>2. AtWork' /\ InHand' /\ SaveReplaces'
    BY DEF IInv, AtWork, InHand, SaveReplaces, Path
  <2>3. AreFlushed'
    BY DEF IInv, TypeOK, AreFlushed
  <2>4. Truths' /\ CreatedOnce'
    BY DEF IInv, Truths, CreatedOnce, Path
  <2>5. OnMedium'
    <3> SUFFICES ASSUME NEW v \in Writers,
                        pc[v] \in {"clean_up", "idle"},
                        answer[v] \in {"created", "saved"},
                        entry[Path(v)] # Absent, entry[Path(v)].by = v,
                        v \notin unflushed
                 PROVE  durable'[Path(v)] = entry[Path(v)]
      BY DEF OnMedium, Path
    <3>1. Path(v) \in Paths
      BY CallShape DEF IInv, AtWork, Path
    <3> QED BY <3>1 DEF IInv, OnMedium
  <2> QED BY <2>1, <2>2, <2>3, <2>4, <2>5 DEF IInv
<1>3. ASSUME NEW d \in Directories, WriteBackDirectory(d) PROVE IInv'
  BY <1>3 DEF WriteBackDirectory, files, IInv, TypeOK, AtWork, InHand,
    AreFlushed, SaveReplaces, Truths, CreatedOnce, OnMedium, Path, Content
<1>4. CASE PowerLoss
  <2> USE <1>4 DEF PowerLoss
  <2>0. \A p \in Paths : durable[p] # Absent =>
          AfterPowerLoss(durable[p]) = durable[p]
    BY DEF IInv, AreFlushed, AfterPowerLoss
  <2>a. entry' = [p \in Paths |->
          IF p \in Lost THEN Absent ELSE AfterPowerLoss(durable[p])]
    BY DEF Surviving
  <2>1. TypeOK'
    BY <2>0, <2>a, AnswerShape DEF IInv, TypeOK, Points, AfterPowerLoss
  <2>2. AreFlushed'
    BY <2>0, <2>a DEF IInv, AreFlushed, AfterPowerLoss
  <2>3. AtWork' /\ InHand' /\ SaveReplaces'
    BY DEF AtWork, InHand, SaveReplaces, Undecided, Replacing
  <2>4. Truths' /\ CreatedOnce' /\ OnMedium'
    BY DEF Truths, CreatedOnce, OnMedium
  <2> QED BY <2>1, <2>2, <2>3, <2>4 DEF IInv
<1>5. CASE UNCHANGED vars
  BY <1>5 DEF vars, files, folders, IInv, TypeOK, AtWork, InHand, AreFlushed,
    SaveReplaces, Truths, CreatedOnce, OnMedium, Path, Content
<1> QED BY <1>1, <1>2, <1>3, <1>4, <1>5

LEMMA InitHolds ==
  ASSUME Init
  PROVE  IInv
<1> USE DEF Init
<1>0. entry \in [Paths -> File \cup {Absent}]
  BY DEF File
<1>1. TypeOK
  BY <1>0, AnswerShape DEF TypeOK, Points
<1>2. AtWork /\ InHand /\ SaveReplaces
  BY DEF AtWork, InHand, SaveReplaces, Undecided, Replacing
<1>3. AreFlushed
  BY DEF AreFlushed
<1>4. Truths /\ CreatedOnce /\ OnMedium
  BY DEF Truths, CreatedOnce, OnMedium
<1> QED BY <1>1, <1>2, <1>3, <1>4 DEF IInv

LEMMA Inductive == IInv /\ [Next]_vars => IInv'
<1> SUFFICES ASSUME IInv, [Next]_vars PROVE IInv'
  OBVIOUS
<1>1. ASSUME NEW w \in Writers, Step(w) PROVE IInv'
  BY <1>1, BeginKeeps, LookKeeps, MakeDirectoryKeeps, TemporaryKeeps,
     AppearsKeeps, LinkRefusedKeeps, FlushDirectoryKeeps, CleanUpKeeps
  DEF Step
<1> QED BY <1>1, EnvironmentKeeps DEF Next

(* Types, and no temporary file outlives the operation it belongs to.       *)
THEOREM TypeCorrect == Spec => []TypeOK
<1>1. IInv => TypeOK
  BY DEF IInv
<1> QED BY <1>1, InitHolds, Inductive, PTL DEF Spec

(* At most one process is told that it created an object, or a document,    *)
(* and a stored object is what its caller wrote, and stays so.              *)
THEOREM AnswersHold == Spec => []AnswersAreTrue
<1>1. IInv => OneCreator
  BY DEF IInv, CreatedOnce, OneCreator, Has
<1>2. IInv => OwnContentIsThere
  BY DEF IInv, Truths, OwnContentIsThere, Has
<1> QED BY <1>1, <1>2, InitHolds, Inductive, PTL DEF Spec, AnswersAreTrue

(* What a caller was told is written would survive a power loss, unless its *)
(* directory flush had no effect or its directory is not on the medium.     *)
THEOREM AcknowledgedHolds == Spec => []AcknowledgedSurvives
<1>1. IInv => AcknowledgedSurvives
  <2> SUFFICES ASSUME IInv, NEW w \in Writers,
                      Has(w, {"created", "saved"}),
                      entry[Path(w)] # Absent,
                      entry[Path(w)].by = w,
                      w \notin unflushed,
                      Directory[Path(w)] \in settled
               PROVE  Surviving(Path(w)) = entry[Path(w)]
    BY DEF AcknowledgedSurvives
  <2>1. Path(w) \in Paths
    BY CallShape DEF IInv, AtWork, Path, Has
  <2>2. durable[Path(w)] = entry[Path(w)]
    BY DEF IInv, OnMedium, Has
  <2>3. durable[Path(w)].flushed
    BY <2>1, <2>2 DEF IInv, AreFlushed
  <2> QED BY <2>1, <2>2, <2>3 DEF Surviving, Lost, AfterPowerLoss
<1> QED BY <1>1, InitHolds, Inductive, PTL DEF Spec

-----------------------------------------------------------------------------
(* Every step is one of AtomicStore, or is not seen there                  *)

(* The refinement mapping, as Abstract substitutes it.                      *)
Seen == [p \in Paths |-> Content(entry[p])]
Disk == [p \in Paths |-> Content(durable[p])]
Busy == [w \in Writers |-> pc[w] # "idle"]

LEMMA AbstractPaths == Abstract!Paths = Paths
  BY DEF Abstract!Paths, Paths

(* A return that decides nothing about the path: an error, or what was      *)
(* decided before (every raise of filesystem.py, and its last line).        *)
LEMMA ReturnMaps ==
  ASSUME IInv, NEW w \in Writers, pc[w] # "idle", NEW a,
         Return(w, a),
         a = "failed" \/ (a = answer[w] /\ a # "pending"),
         UNCHANGED files
  PROVE  Abstract!Return(w)
<1>1. Busy' = [Busy EXCEPT ![w] = FALSE]
  BY DEF Busy, Return, Goto, IInv, TypeOK
<1>2. Seen' = Seen /\ Disk' = Disk
  BY DEF Seen, Disk, files
<1>3. answer' = answer \/ answer' = [answer EXCEPT ![w] = "failed"]
  BY DEF Return, IInv, TypeOK
<1>4. a # "failed" => answer[w] # "pending" /\ answer' = answer
  BY DEF Return, IInv, TypeOK
<1> QED
  BY <1>1, <1>2, <1>4 DEF Abstract!Return, Busy, Seen, Disk, Return, Goto

(* A step inside an operation that touches neither path nor outcome.        *)
LEMMA InsideMaps ==
  ASSUME IInv, NEW w \in Writers, pc[w] # "idle", NEW point, point # "idle",
         Goto(w, point), UNCHANGED <<files, answer>>
  PROVE  UNCHANGED Abstract!vars
<1>1. Busy' = Busy
  BY DEF Busy, Goto, IInv, TypeOK
<1> QED BY <1>1 DEF Abstract!vars, Busy, Goto, files

LEMMA BeginMaps ==
  ASSUME IInv, NEW w \in Writers, NEW c \in Calls, Begin(w, c)
  PROVE  Abstract!Next
<1>1. FirstPoint(c.kind) # "idle"
  BY DEF FirstPoint
<1>2. Busy' = [Busy EXCEPT ![w] = TRUE]
  BY <1>1 DEF Busy, Begin, IInv, TypeOK
<1>3. Abstract!Invoke(w, c)
  BY <1>2 DEF Abstract!Invoke, Begin, Busy, files
<1> QED BY <1>3 DEF Abstract!Next, Calls

(* What a step finds when it decides: the call runs and is open.            *)
LEMMA OpenCall ==
  ASSUME IInv, NEW w \in Writers, pc[w] \in Undecided
  PROVE  /\ Abstract!Undecided(w, call[w].kind)
         /\ call[w] \in Calls
         /\ Path(w) \in Paths
         /\ Seen[Path(w)] = Content(entry[Path(w)])
  BY CallShape
  DEF Abstract!Undecided, IInv, AtWork, Undecided, Busy, Path, Seen

LEMMA ReadMaps ==
  ASSUME IInv, NEW w \in Writers, Read(w)
  PROVE  Abstract!Next
<1> DEFINE there == Content(entry[Path(w)])
<1>0. /\ Abstract!Undecided(w, call[w].kind)
      /\ Path(w) \in Paths
      /\ Seen[Path(w)] = there
      /\ pc[w] # "idle"
  BY OpenCall DEF Read, Undecided
<1>1. Seen' = Seen /\ Disk' = Disk
  BY DEF Read, Seen, Disk, files
<1>2. CASE Return(w, "failed")
  BY <1>0, <1>2, ReturnMaps DEF Read, Abstract!Next
<1>3. ASSUME NEW a, Return(w, a)
      PROVE  Abstract!Decide(w, a)
  <2>1. Busy' = [Busy EXCEPT ![w] = FALSE]
    BY <1>3 DEF Busy, Return, Goto, IInv, TypeOK
  <2> QED BY <1>1, <1>3, <2>1 DEF Abstract!Decide, Return, Goto, Busy, Disk
<1>4. CASE call[w].kind = "load" /\ there \in Contents /\ Return(w, there)
  <2>1. Seen[call[w].path] = there
    BY <1>0 DEF Path
  <2> HIDE DEF there
  <2>a. PICK a : a = there /\ Return(w, a)
    BY <1>4
  <2>b. Abstract!Decide(w, a)
    BY <1>3, <2>a
  <2>2. Abstract!Decide(w, Seen[call[w].path])
    BY <2>1, <2>a, <2>b DEF Abstract!Decide
  <2>3. Abstract!Load(w)
    BY <1>0, <1>1, <1>4, <2>1, <2>2 DEF Abstract!Load, Seen
  <2> QED BY <2>3 DEF Abstract!Next
<1>5. CASE /\ call[w].kind = "store"
           /\ there \in Contents
           /\ Return(w, IF there = call[w].content
                        THEN "already_present" ELSE "conflict")
  <2>1. CASE there = call[w].content
    <3>1. Abstract!Decide(w, "already_present")
      BY <1>3, <1>5, <2>1
    <3>2. Abstract!Store(w)
      BY <1>0, <1>1, <1>5, <2>1, <3>1 DEF Abstract!Store, Seen, Path
    <3> QED BY <3>2 DEF Abstract!Next
  <2>2. CASE there # call[w].content
    <3>1. Abstract!Decide(w, "conflict")
      BY <1>3, <1>5, <2>2
    <3>2. Abstract!Store(w)
      BY <1>0, <1>1, <1>5, <2>2, <3>1 DEF Abstract!Store, Seen, Path
    <3> QED BY <3>2 DEF Abstract!Next
  <2> QED BY <2>1, <2>2
<1> QED BY <1>2, <1>4, <1>5 DEF Read

LEMMA AppearsMaps ==
  ASSUME IInv, NEW w \in Writers, Link(w) \/ Rename(w)
  PROVE  Abstract!Next
<1>0. /\ Abstract!Undecided(w, call[w].kind)
      /\ call[w] \in Calls
      /\ Path(w) \in Paths
      /\ Seen[Path(w)] = Content(entry[Path(w)])
      /\ pc[w] = "publish"
  BY OpenCall DEF Link, Rename, Undecided
<1>1. temporary[w] # Absent /\ temporary[w].content = call[w].content
  BY <1>0, FileAssumption DEF IInv, InHand
<1>2. Seen' = [Seen EXCEPT ![call[w].path] = call[w].content]
  BY <1>0, <1>1
  DEF Seen, Link, Rename, Appears, Content, Path, IInv, TypeOK
<1>3. Disk' = Disk
  BY DEF Disk, Link, Rename, Appears
<1>4. Busy' = [Busy EXCEPT ![w] = TRUE]
  BY <1>0 DEF Busy, Link, Rename, Appears, Goto, IInv, TypeOK
<1>5. ASSUME NEW a, Appears(w, a)
      PROVE  Abstract!Decide(w, a)
  BY <1>3, <1>4, <1>5 DEF Abstract!Decide, Appears, Goto, Busy, Disk
<1>6. CASE Link(w)
  <2>1. Abstract!Decide(w, "created") /\ Seen[Path(w)] = Absent
    BY <1>0, <1>5, <1>6 DEF Link, Content
  <2>2. CASE call[w].kind = "create"
    <3>1. Abstract!Create(w)
      BY <1>0, <1>2, <2>1, <2>2
      DEF Abstract!Create, Abstract!Writes, Seen, Path
    <3> QED BY <3>1 DEF Abstract!Next
  <2>3. CASE call[w].kind = "store"
    <3>1. Abstract!Store(w)
      BY <1>0, <1>2, <2>1, <2>3
      DEF Abstract!Store, Abstract!Writes, Seen, Path
    <3> QED BY <3>1 DEF Abstract!Next
  <2> QED BY <1>6, <2>2, <2>3 DEF Link
<1>7. CASE Rename(w)
  <2>1. Abstract!Decide(w, "saved") /\ call[w].kind = "save"
    BY <1>5, <1>7 DEF Rename
  <2>2. entry[Path(w)] # Absent
    BY <1>0, <2>1 DEF IInv, SaveReplaces, Replacing
  <2>3. Seen[Path(w)] # Absent
    BY <1>0, <2>2, FileAssumption, ContentsAssumption
    DEF IInv, TypeOK, File, Content
  <2>4. Abstract!Save(w)
    BY <1>0, <1>2, <2>1, <2>3
    DEF Abstract!Save, Abstract!Writes, Seen, Path
  <2> QED BY <2>4 DEF Abstract!Next
<1> QED BY <1>6, <1>7

LEMMA LinkRefusedMaps ==
  ASSUME IInv, NEW w \in Writers, LinkRefused(w)
  PROVE  Abstract!Next \/ UNCHANGED Abstract!vars
<1>0. /\ Abstract!Undecided(w, call[w].kind)
      /\ Path(w) \in Paths
      /\ Seen[Path(w)] = Content(entry[Path(w)])
      /\ pc[w] = "publish"
  BY OpenCall DEF LinkRefused, Undecided
<1>1. CASE call[w].kind = "store" /\ Goto(w, "clean_up_and_resolve")
             /\ UNCHANGED answer
  BY <1>0, <1>1, InsideMaps DEF LinkRefused
<1>2. CASE /\ call[w].kind = "create"
           /\ answer' = [answer EXCEPT ![w] = "refused"]
           /\ Goto(w, "clean_up")
  <2>1. Seen[Path(w)] # Absent
    BY <1>0, FileAssumption, ContentsAssumption
    DEF LinkRefused, IInv, TypeOK, File, Content
  <2>2. Busy' = [Busy EXCEPT ![w] = TRUE]
    BY <1>0, <1>2 DEF Busy, Goto, IInv, TypeOK
  <2>3. Seen' = Seen /\ Disk' = Disk
    BY DEF LinkRefused, Seen, Disk, files
  <2>4. Abstract!Decide(w, "refused")
    BY <1>2, <2>2, <2>3 DEF Abstract!Decide, Goto, Busy, Disk
  <2>5. Abstract!Create(w)
    BY <1>0, <1>2, <2>1, <2>3, <2>4 DEF Abstract!Create, Seen, Path
  <2> QED BY <2>5 DEF Abstract!Next
<1> QED BY <1>1, <1>2 DEF LinkRefused

LEMMA FlushDirectoryMaps ==
  ASSUME IInv, NEW w \in Writers, FlushDirectory(w)
  PROVE  Abstract!Next \/ UNCHANGED Abstract!vars
<1>0. Busy' = Busy /\ Seen' = Seen
  BY DEF FlushDirectory, Goto, Busy, Seen, IInv, TypeOK
<1>1. CASE UNCHANGED durable
  BY <1>1, InsideMaps DEF FlushDirectory, files
<1>2. CASE Reaches(Siblings(Path(w)))
  <2>1. Siblings(Path(w)) \in SUBSET Paths
    BY DEF Siblings
  <2>2. Disk' = [p \in Paths |->
                   IF p \in Siblings(Path(w)) THEN Seen[p] ELSE Disk[p]]
    BY <1>2 DEF Disk, Seen, Reaches, Content
  <2>3. Abstract!Settle(Siblings(Path(w)))
    BY <1>0, <2>2, AbstractPaths
    DEF Abstract!Settle, FlushDirectory, Goto, Busy, Seen, Disk
  <2> QED BY <2>1, <2>3, AbstractPaths DEF Abstract!Next
<1> QED BY <1>1, <1>2 DEF FlushDirectory

LEMMA StepMaps ==
  ASSUME IInv, NEW w \in Writers, Step(w)
  PROVE  Abstract!Next \/ UNCHANGED Abstract!vars
<1>1. ASSUME NEW a, pc[w] # "idle", Return(w, a), UNCHANGED files,
             a = "failed" \/ (a = answer[w] /\ a # "pending")
      PROVE  Abstract!Next
  BY <1>1, ReturnMaps DEF Abstract!Next
<1>2. CASE FindsFile(w)
  BY <1>2, InsideMaps DEF FindsFile
<1>3. CASE FindsNoFile(w)
  <2>1. CASE Goto(w, "make_directory") /\ UNCHANGED answer
    BY <1>3, <2>1, InsideMaps DEF FindsNoFile
  <2>2. CASE Return(w, "failed")
    BY <1>1, <1>3, <2>2 DEF FindsNoFile
  <2> QED BY <1>3, <2>1, <2>2 DEF FindsNoFile
<1>4. CASE MakeDirectory(w)
  <2>1. CASE Goto(w, "write") /\ UNCHANGED answer
    BY <1>4, <2>1, InsideMaps DEF MakeDirectory
  <2>2. CASE Return(w, "failed")
    BY <1>1, <1>4, <2>2 DEF MakeDirectory
  <2> QED BY <1>4, <2>1, <2>2 DEF MakeDirectory
<1>5. CASE WriteTemporary(w)
  BY <1>5, InsideMaps DEF WriteTemporary
<1>6. CASE FlushTemporary(w)
  BY <1>6, InsideMaps DEF FlushTemporary
<1>7. CASE CleanUp(w)
  <2>1. CASE answer[w] = "pending"
    BY <1>1, <1>7, <2>1 DEF CleanUp
  <2>2. CASE answer[w] # "pending"
    BY <1>1, <1>7, <2>2 DEF CleanUp
  <2> QED BY <2>1, <2>2
<1>8. CASE CleanUpAndResolve(w)
  <2>1. CASE Path(w) \in Quarantines
    BY <1>8, <2>1, InsideMaps DEF CleanUpAndResolve
  <2>2. CASE Path(w) \notin Quarantines
    BY <1>8, <2>2, InsideMaps DEF CleanUpAndResolve
  <2> QED BY <2>1, <2>2
<1>9. CASE SystemCallFails(w)
  BY <1>9, InsideMaps DEF SystemCallFails
<1>10. CASE CleanUpFails(w)
  BY <1>1, <1>10 DEF CleanUpFails
<1> QED
  BY <1>2, <1>3, <1>4, <1>5, <1>6, <1>7, <1>8, <1>9, <1>10, BeginMaps,
     ReadMaps, AppearsMaps, LinkRefusedMaps, FlushDirectoryMaps
  DEF Step

LEMMA EnvironmentMaps ==
  ASSUME IInv,
         \/ \E w \in Writers : Crash(w)
         \/ \E p \in Paths : WriteBack(p)
         \/ \E d \in Directories : WriteBackDirectory(d)
         \/ PowerLoss
         \/ UNCHANGED vars
  PROVE  Abstract!Next \/ UNCHANGED Abstract!vars
<1>1. ASSUME NEW w \in Writers, Crash(w) PROVE Abstract!Next
  <2>1. Busy' = [Busy EXCEPT ![w] = FALSE]
    BY <1>1 DEF Busy, Crash, Return, Goto, IInv, TypeOK
  <2>2. Abstract!Crash(w)
    BY <1>1, <2>1 DEF Abstract!Crash, Crash, Return, Goto, Busy, files
  <2> QED BY <2>2 DEF Abstract!Next
<1>2. ASSUME NEW p \in Paths, WriteBack(p) PROVE Abstract!Next
  <2>1. Disk' = [q \in Paths |-> IF q \in {p} THEN Seen[q] ELSE Disk[q]]
    BY <1>2 DEF Disk, Seen, WriteBack, Reaches, Content
  <2>2. Abstract!Settle({p})
    BY <1>2, <2>1, AbstractPaths
    DEF Abstract!Settle, WriteBack, Seen, Disk
  <2> QED BY <2>2, AbstractPaths DEF Abstract!Next
<1>3. ASSUME NEW d \in Directories, WriteBackDirectory(d)
      PROVE  UNCHANGED Abstract!vars
  BY <1>3 DEF Abstract!vars, WriteBackDirectory, files
<1>4. CASE PowerLoss
  <2>1. Disk' = [p \in Paths |-> IF p \in Lost THEN Absent ELSE Disk[p]]
    BY <1>4, FileAssumption
    DEF Disk, PowerLoss, Surviving, Content, AfterPowerLoss, IInv, AreFlushed
  <2>2. Seen' = Disk'
    BY <1>4 DEF Seen, Disk, PowerLoss
  <2>3. Busy' = [w \in Writers |-> FALSE]
    BY <1>4 DEF Busy, PowerLoss
  <2>4. Abstract!PowerLoss(Lost)
    BY <1>4, <2>1, <2>2, <2>3, AbstractPaths
    DEF Abstract!PowerLoss, PowerLoss, Seen, Disk, Busy
  <2>5. Lost \in SUBSET Abstract!Paths
    BY AbstractPaths DEF Lost
  <2>6. \E paths \in SUBSET Abstract!Paths : Abstract!PowerLoss(paths)
    BY <2>4, <2>5 DEF Abstract!PowerLoss
  <2> QED BY <2>6 DEF Abstract!Next
<1>5. CASE UNCHANGED vars
  BY <1>5 DEF Abstract!vars, vars, files
<1> QED BY <1>1, <1>2, <1>3, <1>4, <1>5

(* The stores keep the promise the orchestrator relies on.                  *)
THEOREM Implements == Spec => ImplementsAtomicStore
<1>1. Init => Abstract!Init
  <2> SUFFICES ASSUME Init PROVE Abstract!Init
    OBVIOUS
  <2>1. Seen \in [Paths -> Contents \cup {Absent, Damaged}]
    BY DEF Init, Seen, Content
  <2>2. Disk = Seen
    BY DEF Init, Disk, Seen
  <2>3. Busy = [w \in Writers |-> FALSE]
    BY DEF Init, Busy
  <2> QED
    BY <2>1, <2>2, <2>3, AbstractPaths
    DEF Init, Abstract!Init, Abstract!Whole, Seen, Disk, Busy
<1>2. IInv /\ [Next]_vars => [Abstract!Next]_(Abstract!vars)
  BY StepMaps, EnvironmentMaps DEF Next
<1> QED
  BY <1>1, <1>2, InitHolds, Inductive, PTL
  DEF Spec, ImplementsAtomicStore, Abstract!Spec
=============================================================================
