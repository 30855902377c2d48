----------------------------- MODULE Filtering ------------------------------
(***************************************************************************)
(* The loops by which the code selects records: the comprehensions of the  *)
(* adapters and routes, and the loop over a provider page in               *)
(* ingestion/pagination.py.  They are recursive functions, so that what    *)
(* they return can be proved.                                              *)
(***************************************************************************)
EXTENDS Integers, Sequences, SequencesExt

(* The members of s that are in set, in the order of s: kept[n] is what a   *)
(* pass over s has kept after n of them.                                    *)
Among(s, set) ==
  LET kept[n \in 0..Len(s)] ==
        IF n = 0 THEN <<>>
        ELSE IF s[n] \in set THEN Append(kept[n - 1], s[n])
        ELSE kept[n - 1]
  IN kept[Len(s)]

UnknownWithRepeats(known, items, limit) ==
  LET new[n \in 0..Len(items)] ==
        IF n = 0 THEN <<>>
        ELSE LET before == new[n - 1]
             IN IF Len(known) + Len(before) = limit
                THEN before
                ELSE Append(before, items[n])
  IN new[Len(items)]

(* The items that are not yet known, in order, each once, as long as the    *)
(* known and the new ones together stay below limit: new[n] is what the     *)
(* loop over the items has collected after n of them.                       *)
Unknown(known, items, limit) ==
  LET new[n \in 0..Len(items)] ==
        IF n = 0 THEN <<>>
        ELSE LET before == new[n - 1]
             IN IF \/ items[n] \in ToSet(known) \cup ToSet(before)
                   \/ Len(known) + Len(before) = limit
                THEN before
                ELSE Append(before, items[n])
  IN new[Len(items)]
=============================================================================
