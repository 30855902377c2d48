----------------------------- MODULE AtomicStore -----------------------------
(***************************************************************************)
(* What the orchestrator assumes of its stores: a call takes effect at one *)
(* point between its start and its return, whole or not at all, whatever   *)
(* other processes do and whenever one of them, or the machine, dies.      *)
(* Filesystem shows that ingestion/filesystem.py keeps this promise.       *)
(***************************************************************************)
CONSTANTS
  Writers,    \* processes with the stores open
  Documents,  \* paths of manifests and checkpoints, replaced whole
  Objects,    \* paths of raw objects and quarantine records, written once
  Contents,   \* what callers write
  Absent,     \* no file
  Damaged,    \* a file that does not decode to what a caller wrote
  NoCall

Paths == Documents \cup Objects

Calls ==
  [kind : {"create", "save"}, path : Documents, content : Contents]
    \cup [kind : {"load"}, path : Documents]
    \cup [kind : {"store"}, path : Objects, content : Contents]

Answers ==
  {"pending", "created", "refused", "saved", "already_present", "conflict",
   "failed", "lost"} \cup Contents

VARIABLES
  seen,    \* [Paths -> what a reader finds]
  disk,    \* [Paths -> what a power loss leaves]
  call,    \* [Writers -> the call last made]
  answer,  \* [Writers -> its answer so far]
  busy     \* [Writers -> whether it is still running]

vars == <<seen, disk, call, answer, busy>>

Whole == Contents \cup {Absent, Damaged}

Init ==
  /\ seen \in [Paths -> Whole]
  /\ disk = seen
  /\ call = [w \in Writers |-> NoCall]
  /\ answer = [w \in Writers |-> "lost"]
  /\ busy = [w \in Writers |-> FALSE]

Invoke(w, c) ==
  /\ ~busy[w]
  /\ call' = [call EXCEPT ![w] = c]
  /\ answer' = [answer EXCEPT ![w] = "pending"]
  /\ busy' = [busy EXCEPT ![w] = TRUE]
  /\ UNCHANGED <<seen, disk>>

Undecided(w, kind) ==
  /\ busy[w]
  /\ answer[w] = "pending"
  /\ call[w].kind = kind

(* The call is decided, now or a little before it returns.                  *)
Decide(w, a) ==
  /\ answer' = [answer EXCEPT ![w] = a]
  /\ \E still \in BOOLEAN : busy' = [busy EXCEPT ![w] = still]
  /\ UNCHANGED <<disk, call>>

Writes(w) == seen' = [seen EXCEPT ![call[w].path] = call[w].content]

Create(w) ==
  /\ Undecided(w, "create")
  /\ IF seen[call[w].path] = Absent
     THEN Decide(w, "created") /\ Writes(w)
     ELSE Decide(w, "refused") /\ UNCHANGED seen

Save(w) ==
  /\ Undecided(w, "save")
  /\ seen[call[w].path] # Absent
  /\ Decide(w, "saved")
  /\ Writes(w)

Load(w) ==
  /\ Undecided(w, "load")
  /\ seen[call[w].path] \in Contents
  /\ Decide(w, seen[call[w].path])
  /\ UNCHANGED seen

(* Objects are written once: whoever comes later must bring the same.       *)
Store(w) ==
  /\ Undecided(w, "store")
  /\ LET there == seen[call[w].path]
     IN \/ there = Absent /\ Decide(w, "created") /\ Writes(w)
        \/ there = call[w].content /\ Decide(w, "already_present")
             /\ UNCHANGED seen
        \/ there \in Contents \ {call[w].content} /\ Decide(w, "conflict")
             /\ UNCHANGED seen

(* A call may fail before its effect, or after it.                          *)
Return(w) ==
  /\ busy[w]
  /\ busy' = [busy EXCEPT ![w] = FALSE]
  /\ \/ answer[w] # "pending" /\ answer' = answer
     \/ answer' = [answer EXCEPT ![w] = "failed"]
  /\ UNCHANGED <<seen, disk, call>>

Crash(w) ==
  /\ busy[w]
  /\ busy' = [busy EXCEPT ![w] = FALSE]
  /\ answer' = [answer EXCEPT ![w] = "lost"]
  /\ UNCHANGED <<seen, disk, call>>

Settle(settled) ==
  /\ disk' = [p \in Paths |-> IF p \in settled THEN seen[p] ELSE disk[p]]
  /\ UNCHANGED <<seen, call, answer, busy>>

(* Every path goes back to a version it had, never to a mixture; paths in   *)
(* directories that were new may be lost.                                   *)
PowerLoss(lost) ==
  /\ disk' = [p \in Paths |-> IF p \in lost THEN Absent ELSE disk[p]]
  /\ seen' = disk'
  /\ answer' = [w \in Writers |-> "lost"]
  /\ busy' = [w \in Writers |-> FALSE]
  /\ UNCHANGED call

Next ==
  \/ \E w \in Writers :
       \/ \E c \in Calls : Invoke(w, c)
       \/ Create(w) \/ Save(w) \/ Load(w) \/ Store(w)
       \/ Return(w) \/ Crash(w)
  \/ \E paths \in SUBSET Paths : Settle(paths) \/ PowerLoss(paths)

Spec == Init /\ [][Next]_vars
=============================================================================
