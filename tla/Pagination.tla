----------------------------- MODULE Pagination -----------------------------
(***************************************************************************)
(* The cursor arithmetic of Search: what one provider page does to a       *)
(* checkpoint (ingestion/pagination.py), and how a page already in the     *)
(* manifest is replayed into a checkpoint that lags behind it              *)
(* (_reconcile_search_entry in ingestion/orchestrator.py).                 *)
(***************************************************************************)
EXTENDS RunState, SequencesExt, Filtering

StopsAfterIgnoringRepeats(ids, seen, next, count) ==
  \/ Len(ids) >= CandidateLimit
  \/ count >= PageLimit
  \/ next = NoCursor

StopsOneCallTooSoon(ids, seen, next, count) ==
  \/ Len(ids) >= CandidateLimit
  \/ count + 1 >= PageLimit
  \/ next = NoCursor
  \/ next \in ToSet(seen)

(* Search stops at the first of: the candidate limit, the page limit, no    *)
(* next cursor, a cursor already used.                                      *)
StopsAfter(ids, seen, next, count) ==
  \/ Len(ids) >= CandidateLimit
  \/ count >= PageLimit
  \/ next = NoCursor
  \/ next \in ToSet(seen)

(* The checkpoint c after the page of cursor c.next_cursor contributed ids  *)
(* and named next as its successor.                                         *)
PageApplied(c, ids, next, count) ==
  LET candidates == c.candidates \o ids
      seen       == Append(c.seen_cursors, c.next_cursor)
      stops      == StopsAfter(candidates, seen, next, count)
  IN [c EXCEPT !.candidates = candidates,
               !.seen_cursors = seen,
               !.next_cursor = IF stops THEN NoCursor ELSE next,
               !.search_complete = stops]

(* advance_cursor refuses a checkpoint that has no cursor to send, and a    *)
(* count that leaves out the page at hand.                                  *)
MayAdvance(c, count) ==
  /\ ~c.search_complete
  /\ c.next_cursor # NoCursor
  /\ count >= 1

(* advance_cursor: the checkpoint after a provider page, and what is new.   *)
AdvanceCursor(c, page, count) ==
  LET new == Unknown(c.candidates, page.items, CandidateLimit)
  IN [checkpoint        |-> PageApplied(c, new, page.next_cursor, count),
      new_candidate_ids |-> new]

ValidAdvance(a) ==
  /\ ValidCheckpoint(a.checkpoint)
  /\ a.new_candidate_ids \in Seq(Records)

(* _reconcile_search_entry: the checkpoint after a page the manifest holds. *)
(* Nothing truncates the entry's identifiers a second time.                 *)
NewInEntry(c, entry) ==
  Unknown(c.candidates, entry.candidate_ids,
          Len(c.candidates) + Len(entry.candidate_ids))

ReconcileForgettingCursor(c, entry, count) ==
  [PageApplied(c, NewInEntry(c, entry), entry.next_cursor, count)
     EXCEPT !.seen_cursors = c.seen_cursors]

ReconcileReplacingCandidates(c, entry, count) ==
  PageApplied([c EXCEPT !.candidates = <<>>], entry.candidate_ids,
              entry.next_cursor, count)

ReconcileEntry(c, entry, count) ==
  PageApplied(c, NewInEntry(c, entry), entry.next_cursor, count)
=============================================================================
