------------------------------- MODULE Paging -------------------------------
(***************************************************************************)
(* Cursor pagination on its own: pages arrive one after the other, each    *)
(* after one or more Search requests, until pagination declares itself     *)
(* complete.  The checkpoint that advance_cursor accumulates is compared   *)
(* with two independent readings of the same pages: a definition over all  *)
(* items received, and the replay of the manifest entries from scratch.    *)
(***************************************************************************)
EXTENDS Pagination

CONSTANT MaxItems  \* the most items a provider page carries

VARIABLES
  checkpoint,  \* what advance_cursor returned last
  count,       \* search_request_count
  items,       \* history variable: every item received, in order
  entries      \* the manifest's page entries, in order

vars == <<checkpoint, count, items, entries>>

Init ==
  /\ checkpoint = NewCheckpoint
  /\ count = 0
  /\ items = <<>>
  /\ entries = <<>>

(* A page arrives after requests calls; build_cursor_request has let the    *)
(* first one through.                                                       *)
PageArrives(page, requests) ==
  /\ ~checkpoint.search_complete
  /\ Len(checkpoint.candidates) < CandidateLimit
  /\ count + requests <= PageLimit
  /\ MayAdvance(checkpoint, count + requests)
  /\ LET advance == AdvanceCursor(checkpoint, page, count + requests)
     IN /\ checkpoint' = advance.checkpoint
        /\ entries' = Append(entries,
             [cursor        |-> checkpoint.next_cursor,
              next_cursor   |-> advance.checkpoint.next_cursor,
              candidate_ids |-> advance.new_candidate_ids])
  /\ count' = count + requests
  /\ items' = items \o page.items

Pages ==
  [items : SeqOf(Records, MaxItems), next_cursor : Cursors \cup {NoCursor}]

Next ==
  \E page \in Pages, requests \in 1..PageLimit : PageArrives(page, requests)

Spec == Init /\ [][Next]_vars

-----------------------------------------------------------------------------
(* The places of s whose member does not stand at an earlier one, and how   *)
(* many of these there are up to place i.                                   *)
FirstPlaces(s) == {i \in DOMAIN s : \A j \in 1..(i - 1) : s[j] # s[i]}

Rank(i, s) == Cardinality({j \in FirstPlaces(s) : j <= i})

(* t holds the first limit distinct members of s, in the order of s.        *)
FirstDistinct(t, s, limit) ==
  LET distinct == Cardinality(FirstPlaces(s))
  IN /\ Len(t) = IF distinct < limit THEN distinct ELSE limit
     /\ \A i \in FirstPlaces(s) : Rank(i, s) <= limit => t[Rank(i, s)] = s[i]

(* The candidates are the first CandidateLimit distinct records of all that *)
(* the provider listed, in its order: pages, repeats within and across them *)
(* and the limit falling inside a page make no difference (advance_cursor). *)
CandidatesAreFirstDistinct ==
  FirstDistinct(checkpoint.candidates, items, CandidateLimit)

(* Replaying the last entry into the checkpoint before it gives the         *)
(* checkpoint after it, and advance_cursor never leaves one that the        *)
(* contract rejects (_reconcile_search_entry against advance_cursor).       *)
ReplayAgreesWithAdvance ==
  [][/\ ValidCheckpoint(checkpoint')
     /\ checkpoint' =
          ReconcileEntry(checkpoint, entries'[Len(entries')], count')]_vars

(* No cursor is requested twice, so Search stops even if the provider's     *)
(* cursors form a cycle.                                                    *)
CursorsAreNotRepeated ==
  IsInjective([n \in DOMAIN entries |-> entries[n].cursor])
=============================================================================
