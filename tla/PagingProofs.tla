---------------------------- MODULE PagingProofs ----------------------------
(***************************************************************************)
(* Proofs about cursor pagination for every value of the constants: the    *)
(* candidates are the first distinct items, no cursor is used twice, and   *)
(* replaying an entry is the same as receiving its page.                   *)
(*                                                                         *)
(* What the loop of advance_cursor takes from a page is proved item by     *)
(* item (OneMoreItem, OnePageMore); the rest follows from an invariant of  *)
(* the pages received (Pagewise).                                          *)
(***************************************************************************)
EXTENDS Paging, SequenceProofs

-----------------------------------------------------------------------------
(* First occurrences                                                       *)

(* Another item is a first occurrence if it was not there; the places and   *)
(* ranks of the others stay.                                                *)
LEMMA PlacesOneMore ==
  ASSUME NEW X, NEW s \in Seq(X), NEW x \in X
  PROVE  LET u == Append(s, x)
         IN /\ FirstPlaces(u) = FirstPlaces(s)
                 \cup (IF x \in ToSet(s) THEN {} ELSE {Len(s) + 1})
            /\ \A i \in FirstPlaces(s) : Rank(i, u) = Rank(i, s)
<1> DEFINE u == Append(s, x)
           n == Len(s) + 1
<1>1. /\ DOMAIN u = DOMAIN s \cup {n}
      /\ u[n] = x
      /\ n \notin DOMAIN s
      /\ \A i \in DOMAIN s : u[i] = s[i] /\ i < n
  OBVIOUS
<1>2. ASSUME NEW i \in DOMAIN s PROVE i \in FirstPlaces(u) <=> i \in FirstPlaces(s)
  <2>1. \A j \in 1..(i - 1) : j \in DOMAIN s
    OBVIOUS
  <2>2. \A j \in 1..(i - 1) : u[j] = s[j]
    BY <1>1, <2>1
  <2> HIDE DEF u
  <2>3. QED
    BY <1>1, <2>2 DEF FirstPlaces
<1>3. n \in FirstPlaces(u) <=> x \notin ToSet(s)
  <2>1. \A j \in 1..(n - 1) : j \in DOMAIN s /\ u[j] = s[j]
    OBVIOUS
  <2>2. \A j \in DOMAIN s : j \in 1..(n - 1)
    OBVIOUS
  <2>3. n \in FirstPlaces(u) <=> \A j \in 1..(n - 1) : u[j] # x
    <3> HIDE DEF u, n
    <3>1. QED
      BY <1>1 DEF FirstPlaces
  <2> HIDE DEF u, n
  <2>4. QED
    BY <2>1, <2>2, <2>3 DEF ToSet
<1>4. FirstPlaces(u) \subseteq DOMAIN u /\ FirstPlaces(s) \subseteq DOMAIN s
  BY DEF FirstPlaces
<1> HIDE DEF u
<1>5. FirstPlaces(u) = FirstPlaces(s) \cup (IF x \in ToSet(s) THEN {} ELSE {n})
  <2> HIDE DEF n
  <2>1. QED
    BY <1>1, <1>2, <1>3, <1>4
<1>6. ASSUME NEW i \in FirstPlaces(s) PROVE Rank(i, u) = Rank(i, s)
  <2>1. i \in 1..Len(s) /\ ~(n <= i)
    BY <1>4
  <2>2. {j \in FirstPlaces(u) : j <= i} = {j \in FirstPlaces(s) : j <= i}
    <3> HIDE DEF n
    <3>1. QED
      BY <1>5, <2>1
  <2>3. QED
    BY <2>2 DEF Rank
<1>7. QED
  BY <1>5, <1>6 DEF u

(* Places are numbers of a finite interval, and so are ranks.               *)
LEMMA RanksCount ==
  ASSUME NEW X, NEW s \in Seq(X)
  PROVE  /\ IsFiniteSet(FirstPlaces(s))
         /\ Cardinality(FirstPlaces(s)) \in Nat
         /\ \A i \in FirstPlaces(s) :
              Rank(i, s) \in 1..Cardinality(FirstPlaces(s))
<1>1. FirstPlaces(s) \in SUBSET (1..Len(s)) /\ Len(s) \in Nat
  BY DEF FirstPlaces
<1>2. IsFiniteSet(1..Len(s))
  BY <1>1, FS_Interval
<1>3. IsFiniteSet(FirstPlaces(s))
  BY <1>1, <1>2, FS_Subset
<1>4. Cardinality(FirstPlaces(s)) \in Nat
  BY <1>3, FS_CardinalityType
<1>5. ASSUME NEW i \in FirstPlaces(s)
      PROVE  Rank(i, s) \in 1..Cardinality(FirstPlaces(s))
  <2> DEFINE S == {j \in FirstPlaces(s) : j <= i}
  <2>1. S \in SUBSET FirstPlaces(s) /\ i \in S
    BY <1>1
  <2> HIDE DEF S
  <2>2. IsFiniteSet(S) /\ Cardinality(S) <= Cardinality(FirstPlaces(s))
    BY <1>3, <2>1, FS_Subset
  <2>3. Cardinality(S) \in Nat /\ Cardinality(S) # 0
    BY <2>1, <2>2, FS_CardinalityType, FS_EmptySet
  <2>4. Rank(i, s) = Cardinality(S)
    BY DEF Rank, S
  <2>5. QED
    BY <1>4, <2>2, <2>3, <2>4
<1>6. QED
  BY <1>3, <1>4, <1>5

(* Whatever is in s is first somewhere.                                     *)
LEMMA FirstSomewhere ==
  ASSUME NEW X, NEW s \in Seq(X), NEW x \in ToSet(s)
  PROVE  \E i \in FirstPlaces(s) : s[i] = x
<1> DEFINE S == {i \in DOMAIN s : s[i] = x}
<1>1. S \in SUBSET Nat /\ S # {}
  BY DEF ToSet
<1>2. PICK i \in S : \A j \in S : i <= j
  <2> HIDE DEF S
  <2>1. QED
    BY <1>1, LeastNumber
<1>3. ASSUME NEW j \in 1..(i - 1) PROVE s[j] # s[i]
  <2>1. j \in DOMAIN s /\ ~(i <= j)
    BY <1>1
  <2>2. QED
    BY <1>2, <2>1
<1>4. QED
  BY <1>2, <1>3 DEF FirstPlaces

-----------------------------------------------------------------------------
(* What the loop takes                                                     *)

(* t is what the loop should have after the items s.                        *)
Collected(t, s, X, limit) ==
  /\ t \in Seq(X)
  /\ ToSet(t) \subseteq ToSet(s)
  /\ FirstDistinct(t, s, limit)

(* One item more: it is taken if it is neither known nor over the limit.    *)
LEMMA OneMoreItem ==
  ASSUME NEW X, NEW s \in Seq(X), NEW x \in X, NEW limit \in Nat,
         NEW t, Collected(t, s, X, limit)
  PROVE  Collected(IF x \in ToSet(t) \/ Len(t) = limit THEN t ELSE Append(t, x),
                   Append(s, x), X, limit)
<1> DEFINE u     == Append(s, x)
           old   == Cardinality(FirstPlaces(s))
           new   == Cardinality(FirstPlaces(u))
<1>1. /\ t \in Seq(X)
      /\ ToSet(t) \subseteq ToSet(s)
      /\ Len(t) \in Nat
      /\ Len(t) = IF old < limit THEN old ELSE limit
      /\ \A i \in FirstPlaces(s) : Rank(i, s) <= limit => t[Rank(i, s)] = s[i]
  BY DEF Collected, FirstDistinct
<1>2. u \in Seq(X) /\ ToSet(u) = ToSet(s) \cup {x}
  BY MembersOfAppend
<1>3. /\ IsFiniteSet(FirstPlaces(s)) /\ old \in Nat
      /\ \A i \in FirstPlaces(s) : Rank(i, s) \in 1..old
  BY RanksCount
<1>4. /\ FirstPlaces(u) = FirstPlaces(s)
           \cup (IF x \in ToSet(s) THEN {} ELSE {Len(s) + 1})
      /\ \A i \in FirstPlaces(s) : Rank(i, u) = Rank(i, s)
  BY PlacesOneMore
<1>5. /\ \A i \in FirstPlaces(s) : i \in 1..Len(s) /\ u[i] = s[i]
      /\ u[Len(s) + 1] = x
      /\ Len(s) + 1 \notin FirstPlaces(s)
  BY DEF FirstPlaces
<1> HIDE DEF u
<1>6. CASE x \in ToSet(s)
  <2>1. x \in ToSet(t) \/ Len(t) = limit
    <3> SUFFICES ASSUME Len(t) # limit PROVE x \in ToSet(t)
      OBVIOUS
    <3>1. PICK i \in FirstPlaces(s) : s[i] = x
      BY <1>6, FirstSomewhere
    <3>2. Rank(i, s) \in 1..Len(t) /\ Rank(i, s) <= limit
      <4> HIDE DEF old
      <4>1. QED
        BY <1>1, <1>3
    <3>3. t[Rank(i, s)] = x
      BY <1>1, <3>1, <3>2
    <3>4. QED
      BY <1>1, <3>2, <3>3 DEF ToSet
  <2>2. FirstPlaces(u) = FirstPlaces(s)
    BY <1>4, <1>6
  <2>3. FirstDistinct(t, u, limit)
    BY <1>1, <1>4, <1>5, <2>2 DEF FirstDistinct
  <2>4. QED
    BY <1>1, <1>2, <2>1, <2>3 DEF Collected, u
<1>7. CASE x \notin ToSet(s)
  <2> DEFINE n == Len(s) + 1
  <2>1. FirstPlaces(u) = FirstPlaces(s) \cup {n}
    BY <1>4, <1>7
  <2>2. new = old + 1
    BY <1>3, <1>5, <2>1, FS_AddElement
  <2>3. Rank(n, u) = new
    <3>1. {j \in FirstPlaces(u) : j <= n} = FirstPlaces(u)
      BY <1>5, <2>1
    <3>2. QED
      BY <3>1 DEF Rank
  <2>4. x \notin ToSet(t)
    BY <1>1, <1>7
  <2> HIDE DEF new, old
  <2>5. CASE Len(t) = limit
    <3>1. limit <= old
      BY <1>1, <1>3, <2>5
    <3>2. Len(t) = IF new < limit THEN new ELSE limit
      BY <1>3, <2>2, <2>5, <3>1
    <3>3. ASSUME NEW i \in FirstPlaces(u), Rank(i, u) <= limit
          PROVE  t[Rank(i, u)] = u[i]
      <4>1. i # n
        BY <1>3, <2>2, <2>3, <3>1, <3>3
      <4>2. i \in FirstPlaces(s)
        BY <2>1, <4>1
      <4>3. QED
        BY <1>1, <1>4, <1>5, <3>3, <4>2
    <3>4. FirstDistinct(t, u, limit)
      BY <3>2, <3>3 DEF FirstDistinct, new
    <3>5. QED
      BY <1>1, <1>2, <2>5, <3>4 DEF Collected, u
  <2>6. CASE Len(t) # limit
    <3> DEFINE v == Append(t, x)
    <3>1. Len(t) = old /\ old < limit
      BY <1>1, <1>3, <2>6
    <3>2. /\ v \in Seq(X)
          /\ ToSet(v) = ToSet(t) \cup {x}
          /\ Len(v) = old + 1
          /\ v[old + 1] = x
          /\ \A k \in 1..old : v[k] = t[k]
      BY <1>1, <3>1, MembersOfAppend
    <3> HIDE DEF v
    <3>3. Len(v) = IF new < limit THEN new ELSE limit
      BY <1>3, <2>2, <3>1, <3>2
    <3>4. ASSUME NEW i \in FirstPlaces(u), Rank(i, u) <= limit
          PROVE  v[Rank(i, u)] = u[i]
      <4>1. CASE i = n
        BY <1>5, <2>2, <2>3, <3>2, <4>1
      <4>2. CASE i \in FirstPlaces(s)
        <5>1. Rank(i, u) = Rank(i, s) /\ Rank(i, s) \in 1..old
          BY <1>3, <1>4, <4>2
        <5>2. t[Rank(i, s)] = s[i]
          BY <1>1, <3>4, <4>2, <5>1
        <5>3. QED
          BY <1>5, <3>2, <4>2, <5>1, <5>2
      <4>3. QED
        BY <2>1, <4>1, <4>2
    <3>5. FirstDistinct(v, u, limit)
      BY <3>3, <3>4 DEF FirstDistinct, new
    <3>6. Collected(v, u, X, limit)
      BY <1>1, <1>2, <3>2, <3>5 DEF Collected
    <3>7. QED
      BY <2>4, <2>6, <3>6 DEF u, v
  <2>7. QED
    BY <2>5, <2>6
<1>8. QED
  BY <1>6, <1>7

(* One page more: what Unknown adds to the items known before.              *)
LEMMA OnePageMore ==
  ASSUME NEW X, NEW s \in Seq(X), NEW page \in Seq(X), NEW limit \in Nat,
         NEW known, Collected(known, s, X, limit)
  PROVE  Collected(known \o Unknown(known, page, limit),
                   s \o page, X, limit)
<1>0. Len(page) \in Nat /\ known \in Seq(X)
  BY DEF Collected
<1>1. PICK new :
        /\ Loops(new, known, page, limit)
        /\ Unknown(known, page, limit) = new[Len(page)]
  BY <1>0, LoopOverItems
<1> DEFINE Good(n) ==
             /\ new[n] \in Seq(X)
             /\ Collected(known \o new[n], s \o SubSeq(page, 1, n), X, limit)
           S == {n \in Nat : n <= Len(page) => Good(n)}
<1>2. 0 \in S
  <2>1. new[0] = <<>>
    BY <1>1 DEF Loops, Taken
  <2>2. known \o <<>> = known /\ s \o SubSeq(page, 1, 0) = s
    BY <1>0
  <2>3. new[0] \in Seq(X)
    BY <2>1
  <2>4. Good(0)
    BY <2>1, <2>2, <2>3, Zenon
  <2>5. QED
    BY <2>4
<1>3. ASSUME NEW n \in S PROVE n + 1 \in S
  <2> SUFFICES ASSUME n + 1 <= Len(page) PROVE Good(n + 1)
    OBVIOUS
  <2> DEFINE before == new[n]
             t == known \o before
             prefix == SubSeq(page, 1, n)
             x == page[n + 1]
  <2>1. before \in Seq(X) /\ Collected(t, s \o prefix, X, limit)
    BY <1>3
  <2>2. /\ n + 1 \in 0..Len(page)
        /\ n + 1 # 0
        /\ (n + 1) - 1 = n
        /\ x \in X
    OBVIOUS
  <2>3. /\ s \o prefix \in Seq(X)
        /\ s \o SubSeq(page, 1, n + 1) = Append(s \o prefix, x)
    <3>1. SubSeq(page, 1, n + 1) = Append(prefix, x)
      OBVIOUS
    <3>2. prefix \in Seq(X)
      OBVIOUS
    <3> HIDE DEF prefix, x
    <3>3. s \o Append(prefix, x) = Append(s \o prefix, x)
      BY <2>2, <3>2
    <3>4. s \o prefix \in Seq(X)
      BY <3>2
    <3>5. QED
      BY <3>1, <3>3, <3>4
  <2>4. new[n + 1] = Taken(new, n + 1, known, page, limit)
    BY <1>1, <2>2 DEF Loops
  <2>5. new[n + 1] = IF x \in ToSet(t) \/ Len(t) = limit
                     THEN before ELSE Append(before, x)
    <3>1. /\ ToSet(t) = ToSet(known) \cup ToSet(before)
          /\ Len(t) = Len(known) + Len(before)
      BY <1>0, <2>1, MembersOfBoth
    <3> HIDE DEF t
    <3>2. QED
      BY <2>2, <2>4, <3>1 DEF Taken
  <2>6. Collected(IF x \in ToSet(t) \/ Len(t) = limit THEN t ELSE Append(t, x),
                  Append(s \o prefix, x), X, limit)
    <3> HIDE DEF t, prefix, x
    <3>1. QED
      BY <2>1, <2>2, <2>3, OneMoreItem
  <2>7. known \o Append(before, x) = Append(t, x) /\ Append(before, x) \in Seq(X)
    BY <1>0, <2>1, <2>2
  <2> HIDE DEF prefix, x
  <2>8. known \o new[n + 1] =
          IF x \in ToSet(t) \/ Len(t) = limit THEN t ELSE Append(t, x)
    BY <2>5, <2>7
  <2>9. new[n + 1] \in Seq(X)
    BY <2>1, <2>5, <2>7
  <2> HIDE DEF t, before
  <2>10. QED
    BY <2>3, <2>6, <2>8, <2>9
<1>4. S = Nat
  <2> HIDE DEF S
  <2>1. S \in SUBSET Nat
    BY DEF S
  <2>2. QED
    BY <1>2, <1>3, <2>1, Induction
<1>5. Good(Len(page))
  BY <1>0, <1>4
<1>6. SubSeq(page, 1, Len(page)) = page
  OBVIOUS
<1>7. QED
  BY <1>1, <1>5, <1>6

-----------------------------------------------------------------------------
(* Pages                                                                   *)

(* A checkpoint the contract accepts, within the candidate limit, whose     *)
(* cursor, unless Search is complete, was not used before.                  *)
Steady(c) ==
  /\ ValidCheckpoint(c)
  /\ Len(c.candidates) <= CandidateLimit
  /\ ~c.search_complete => c.next_cursor \notin ToSet(c.seen_cursors)

(* What a page makes of a steady checkpoint is steady.                      *)
LEMMA PageKeepsSteady ==
  ASSUME NEW c, Steady(c), ~c.search_complete,
         NEW ids \in Seq(Records), IsInjective(c.candidates \o ids),
         Len(c.candidates \o ids) <= CandidateLimit,
         NEW next \in Cursors \cup {NoCursor}, NEW n \in Nat
  PROVE  LET after == PageApplied(c, ids, next, n)
         IN /\ Steady(after)
            /\ after.candidates = c.candidates \o ids
            /\ after.seen_cursors = Append(c.seen_cursors, c.next_cursor)
            /\ after.next_cursor \in {next, NoCursor}
<1> DEFINE both  == c.candidates \o ids
           seen  == Append(c.seen_cursors, c.next_cursor)
           stops == StopsAfter(both, seen, next, n)
           after == PageApplied(c, ids, next, n)
<1>1. /\ c \in Checkpoint
      /\ c.candidates \in Seq(Records)
      /\ c.seen_cursors \in Seq(Cursors)
      /\ c.next_record_index \in 0..Len(c.candidates)
      /\ c.next_cursor \in Cursors
  BY DEF Steady, ValidCheckpoint, Checkpoint
<1>2. both \in Seq(Records) /\ Len(both) = Len(c.candidates) + Len(ids)
  BY <1>1
<1>3. seen \in Seq(Cursors) /\ IsInjective(seen)
  BY <1>1, AppendNew DEF Steady, ValidCheckpoint
<1>4. stops \in BOOLEAN /\ (~stops => next # NoCursor /\ next \notin ToSet(seen))
  BY DEF StopsAfter
<1>5. after = [c EXCEPT !.candidates = both,
                        !.seen_cursors = seen,
                        !.next_cursor = IF stops THEN NoCursor ELSE next,
                        !.search_complete = stops]
  BY DEF PageApplied
<1> HIDE DEF both, seen, stops, after
<1>6. /\ after \in Checkpoint
      /\ after.candidates = both
      /\ after.seen_cursors = seen
      /\ after.next_record_index = c.next_record_index
      /\ after.search_complete = stops
      /\ after.next_cursor = IF stops THEN NoCursor ELSE next
  BY <1>1, <1>2, <1>3, <1>4, <1>5 DEF Checkpoint
<1>7. ValidCheckpoint(after)
  <2>1. IsInjective(both)
    BY DEF both
  <2>2. after.next_record_index <= Len(both)
    BY <1>1, <1>2, <1>6
  <2>3. after.search_complete <=> after.next_cursor = NoCursor
    BY <1>4, <1>6
  <2>4. QED
    BY <1>3, <1>6, <2>1, <2>2, <2>3 DEF ValidCheckpoint
<1>8. Steady(after)
  BY <1>4, <1>6, <1>7 DEF Steady, both
<1>9. QED
  BY <1>6, <1>8 DEF after, both, seen

(* Naming no successor, or the one the page named, an entry stops Search    *)
(* exactly when its page did: the replay of what a page contributed is what *)
(* the page made of the checkpoint.                                         *)
LEMMA ReplayIsPage ==
  ASSUME NEW c, Steady(c), NEW ids \in Seq(Records),
         IsInjective(c.candidates \o ids), NEW next, NEW n,
         NEW entry, entry.candidate_ids = ids,
         entry.next_cursor = PageApplied(c, ids, next, n).next_cursor
  PROVE  ReconcileEntry(c, entry, n) = PageApplied(c, ids, next, n)
<1> DEFINE both  == c.candidates \o ids
           seen  == Append(c.seen_cursors, c.next_cursor)
           named == IF StopsAfter(both, seen, next, n) THEN NoCursor ELSE next
<1>1. c.candidates \in Seq(Records) /\ c \in Checkpoint
  BY DEF Steady, ValidCheckpoint, Checkpoint
<1>2. NewInEntry(c, entry) = ids
  BY <1>1, UnknownIsAll DEF NewInEntry
<1>3. entry.next_cursor = named
  BY <1>1 DEF PageApplied, Checkpoint
<1>4. StopsAfter(both, seen, named, n) <=> StopsAfter(both, seen, next, n)
  BY DEF StopsAfter
<1>5. StopsAfter(both, seen, named, n) = StopsAfter(both, seen, next, n)
  <2>1. /\ StopsAfter(both, seen, named, n) \in BOOLEAN
        /\ StopsAfter(both, seen, next, n) \in BOOLEAN
    BY DEF StopsAfter
  <2> HIDE DEF both, seen, named
  <2>2. QED
    BY <1>4, <2>1
<1>6. (IF StopsAfter(both, seen, named, n) THEN NoCursor ELSE named) = named
  BY <1>4
<1>7. PageApplied(c, ids, named, n) = PageApplied(c, ids, next, n)
  <2> HIDE DEF both, seen, named
  <2>1. PageApplied(c, ids, named, n)
          = [c EXCEPT !.candidates = both,
                      !.seen_cursors = seen,
                      !.next_cursor = IF StopsAfter(both, seen, named, n)
                                      THEN NoCursor ELSE named,
                      !.search_complete = StopsAfter(both, seen, named, n)]
    BY DEF PageApplied, both, seen
  <2>2. PageApplied(c, ids, next, n)
          = [c EXCEPT !.candidates = both,
                      !.seen_cursors = seen,
                      !.next_cursor = named,
                      !.search_complete = StopsAfter(both, seen, next, n)]
    BY DEF PageApplied, both, seen, named
  <2>3. QED
    BY <1>5, <1>6, <2>1, <2>2, Zenon
<1> HIDE DEF named
<1>8. ReconcileEntry(c, entry, n) = PageApplied(c, ids, named, n)
  BY <1>2, <1>3 DEF ReconcileEntry
<1>9. QED
  BY <1>7, <1>8

-----------------------------------------------------------------------------
(* The invariant                                                           *)

(* The checkpoint is steady, has used the cursors of the entries in their   *)
(* order, and holds of the items received those it should.                  *)
Pagewise ==
  /\ count \in Nat
  /\ items \in Seq(Records)
  /\ entries \in Seq(PageEntry)
  /\ Steady(checkpoint)
  /\ checkpoint.seen_cursors = [n \in 1..Len(entries) |-> entries[n].cursor]
  /\ Collected(checkpoint.candidates, items, Records, CandidateLimit)

LEMMA PagewiseAtFirst == Init => Pagewise
<1> SUFFICES ASSUME Init PROVE Pagewise
  OBVIOUS
<1>1. /\ checkpoint.candidates = <<>>
      /\ checkpoint.seen_cursors = <<>>
      /\ checkpoint.next_cursor = StartCursor
      /\ checkpoint.search_complete = FALSE
      /\ checkpoint.next_record_index = 0
      /\ checkpoint \in Checkpoint
  BY CursorsAssumption DEF Init, NewCheckpoint, Checkpoint
<1>2. Steady(checkpoint)
  <2>1. IsInjective(<<>>) /\ ToSet(<<>>) = {}
    BY DEF IsInjective, ToSet
  <2>2. StartCursor # NoCursor
    BY CursorsAssumption
  <2>3. QED
    BY <1>1, <2>1, <2>2, LimitsAssumption DEF Steady, ValidCheckpoint
<1>3. checkpoint.seen_cursors = [n \in 1..Len(entries) |-> entries[n].cursor]
  BY <1>1 DEF Init
<1>4. Collected(<<>>, <<>>, Records, CandidateLimit)
  <2>1. FirstPlaces(<<>>) = {} /\ ToSet(<<>>) = {}
    BY DEF FirstPlaces, ToSet
  <2>2. Cardinality({}) = 0
    BY FS_EmptySet
  <2>3. FirstDistinct(<<>>, <<>>, CandidateLimit)
    BY <2>1, <2>2, LimitsAssumption DEF FirstDistinct
  <2>4. QED
    BY <2>1, <2>3 DEF Collected
<1>5. QED
  BY <1>1, <1>2, <1>3, <1>4 DEF Init, Pagewise

(* What a page does, and that replaying its entry does the same.            *)
Replays ==
  /\ ValidCheckpoint(checkpoint')
  /\ checkpoint' = ReconcileEntry(checkpoint, entries'[Len(entries')], count')

LEMMA PageKeepsPagewise ==
  ASSUME Pagewise, NEW page \in Pages, NEW requests \in 1..PageLimit,
         PageArrives(page, requests)
  PROVE  Pagewise' /\ Replays
<1> DEFINE c     == checkpoint
           ids   == Unknown(c.candidates, page.items, CandidateLimit)
           next  == page.next_cursor
           after == PageApplied(c, ids, next, count + requests)
           entry == [cursor        |-> c.next_cursor,
                     next_cursor   |-> after.next_cursor,
                     candidate_ids |-> ids]
<1>1. /\ page.items \in Seq(Records)
      /\ next \in Cursors \cup {NoCursor}
      /\ count + requests \in Nat
  <2>1. page.items \in Seq(Records)
    BY DEF Pages, SeqOf
  <2>2. next \in Cursors \cup {NoCursor}
    BY DEF Pages
  <2>3. QED
    BY <2>1, <2>2, LimitsAssumption DEF Pagewise
<1>2. /\ Steady(c)
      /\ ~c.search_complete
      /\ c.candidates \in Seq(Records)
      /\ IsInjective(c.candidates)
      /\ Len(c.candidates) <= CandidateLimit
      /\ c.next_cursor \in Cursors
  BY DEF Pagewise, PageArrives, Steady, ValidCheckpoint, Checkpoint
<1>3. /\ ids \in Seq(Records)
      /\ IsInjective(c.candidates \o ids)
      /\ Len(c.candidates \o ids) <= CandidateLimit
  BY <1>1, <1>2, LimitsAssumption, UnknownAreNew
<1>4. Collected(c.candidates \o ids, items \o page.items, Records, CandidateLimit)
  BY <1>1, LimitsAssumption, OnePageMore DEF Pagewise
<1>5. /\ checkpoint' = after
      /\ entries' = Append(entries, entry)
      /\ count' = count + requests
      /\ items' = items \o page.items
  BY DEF PageArrives, AdvanceCursor
<1> HIDE DEF ids, after
<1>6. /\ Steady(after)
      /\ after.candidates = c.candidates \o ids
      /\ after.seen_cursors = Append(c.seen_cursors, c.next_cursor)
      /\ after.next_cursor \in {next, NoCursor}
  BY <1>1, <1>2, <1>3, PageKeepsSteady DEF after
<1>7. entry \in PageEntry
  BY <1>1, <1>2, <1>3, <1>6 DEF PageEntry
<1>8. Pagewise'
  <2>1. count' \in Nat /\ items' \in Seq(Records)
    BY <1>1, <1>5 DEF Pagewise
  <2>2. entries' \in Seq(PageEntry)
    BY <1>5, <1>7 DEF Pagewise
  <2>3. Steady(checkpoint)'
    BY <1>5, <1>6
  <2>4. after.seen_cursors
          = [n \in 1..Len(entries') |-> entries'[n].cursor]
    <3>1. c.seen_cursors = [n \in 1..Len(entries) |-> entries[n].cursor]
      BY DEF Pagewise
    <3>2. /\ Len(entries) \in Nat
          /\ Len(entries') = Len(entries) + 1
          /\ entries'[Len(entries) + 1] = entry
          /\ \A n \in 1..Len(entries) : entries'[n] = entries[n]
      BY <1>5, <1>7 DEF Pagewise
    <3>3. entry.cursor = c.next_cursor
      OBVIOUS
    <3> HIDE DEF entry, c
    <3>4. Append(c.seen_cursors, c.next_cursor)
            = [n \in 1..(Len(entries) + 1) |-> entries'[n].cursor]
      BY <3>1, <3>2, <3>3
    <3>5. QED
      BY <1>6, <3>2, <3>4
  <2>5. Collected(checkpoint.candidates, items, Records, CandidateLimit)'
    BY <1>4, <1>5, <1>6
  <2>6. QED
    BY <1>5, <2>1, <2>2, <2>3, <2>4, <2>5 DEF Pagewise
<1>9. Replays
  <2>1. entries'[Len(entries')] = entry
    BY <1>5, <1>7 DEF Pagewise
  <2>2. ReconcileEntry(c, entry, count + requests) = after
    <3>1. entry.candidate_ids = ids /\ entry.next_cursor = after.next_cursor
      OBVIOUS
    <3> HIDE DEF entry, next
    <3>2. QED
      BY <1>2, <1>3, <3>1, ReplayIsPage DEF after
  <2>3. ValidCheckpoint(after)
    BY <1>6 DEF Steady
  <2>4. QED
    BY <1>5, <2>1, <2>2, <2>3 DEF Replays
<1>10. QED
  BY <1>8, <1>9

LEMMA PagewiseKept == Pagewise /\ [Next]_vars => Pagewise'
<1> SUFFICES ASSUME Pagewise, [Next]_vars PROVE Pagewise'
  OBVIOUS
<1>1. ASSUME NEW page \in Pages, NEW requests \in 1..PageLimit,
             PageArrives(page, requests)
      PROVE  Pagewise'
  BY <1>1, PageKeepsPagewise
<1>2. CASE UNCHANGED vars
  BY <1>2 DEF Pagewise, vars
<1>3. QED
  BY <1>1, <1>2 DEF Next

LEMMA PagesAreTaken == Spec => []Pagewise
<1>1. QED
  BY PagewiseAtFirst, PagewiseKept, PTL DEF Spec

-----------------------------------------------------------------------------
(* What follows                                                            *)

(* The candidates are the first CandidateLimit distinct records of all that *)
(* the provider listed, however it splits and repeats them: advance_cursor  *)
(* over any number of pages of any size.                                    *)
THEOREM CandidatesAreTheFirst == Spec => []CandidatesAreFirstDistinct
<1>1. Pagewise => CandidatesAreFirstDistinct
  BY DEF Pagewise, Collected, CandidatesAreFirstDistinct
<1>2. QED
  BY <1>1, PagesAreTaken, PTL

(* No cursor is requested twice, so that cyclic cursors end Search (the     *)
(* seen_cursors test of advance_cursor).                                    *)
THEOREM CursorsStayNew == Spec => []CursorsAreNotRepeated
<1>1. Pagewise => CursorsAreNotRepeated
  <2> SUFFICES ASSUME Pagewise PROVE CursorsAreNotRepeated
    OBVIOUS
  <2>1. DOMAIN entries = 1..Len(entries)
    BY DEF Pagewise
  <2>2. IsInjective(checkpoint.seen_cursors)
    BY DEF Pagewise, Steady, ValidCheckpoint
  <2>3. checkpoint.seen_cursors = [n \in DOMAIN entries |-> entries[n].cursor]
    BY <2>1 DEF Pagewise
  <2>4. QED
    BY <2>2, <2>3, Zenon DEF CursorsAreNotRepeated
<1>2. QED
  BY <1>1, PagesAreTaken, PTL

(* Replaying the entry of a page into the checkpoint before it gives what   *)
(* receiving the page gave, a checkpoint that the contract accepts:         *)
(* _reconcile_search_entry undoes nothing that advance_cursor did.          *)
THEOREM ReplayAgrees == Spec => ReplayAgreesWithAdvance
<1>1. Pagewise /\ [Next]_vars => [Replays]_vars
  <2> SUFFICES ASSUME Pagewise, Next PROVE Replays
    OBVIOUS
  <2>1. PICK page \in Pages, requests \in 1..PageLimit : PageArrives(page, requests)
    BY DEF Next
  <2>2. QED
    BY <2>1, PageKeepsPagewise
<1>2. Spec => [][Replays]_vars
  BY <1>1, PagesAreTaken, PTL DEF Spec
<1>3. QED
  BY <1>2 DEF Replays, ReplayAgreesWithAdvance
=============================================================================
