--------------------------- MODULE SequenceProofs ---------------------------
(***************************************************************************)
(* Facts about numbers and sequences that the proofs of several components *)
(* rest on: induction over the natural numbers, for a set of them; what a  *)
(* pass over a sequence selects (Among); sequences without repeats;        *)
(* sequences one after the other (FlattenSeq); and what the loop over a    *)
(* page's items takes (Unknown), each for every sequence.                  *)
(* The induction rests on the well-foundedness of strict inclusion on      *)
(* finite sets.                                                            *)
(***************************************************************************)
EXTENDS Filtering, SequencesExt, FiniteSetTheorems, SequenceTheorems,
        WellFoundedInduction, TLAPS

-----------------------------------------------------------------------------
(* Induction                                                               *)

(* A set of natural numbers has a least one: of the sets of the numbers     *)
(* below each of them, none is strictly within all others.                  *)
LEMMA LeastNumber ==
  ASSUME NEW S \in SUBSET Nat, S # {}
  PROVE  \E n \in S : \A m \in S : n <= m
<1> DEFINE Below(n) == 0..(n - 1)
           Belows == {Below(n) : n \in S}
<1>1. Belows \subseteq FiniteSubsetsOf(Nat) /\ Belows # {}
  <2>1. ASSUME NEW n \in S PROVE Below(n) \in FiniteSubsetsOf(Nat)
    <3>1. Below(n) \in SUBSET Nat
      OBVIOUS
    <3>2. IsFiniteSet(Below(n))
      BY FS_Interval
    <3>3. QED
      BY <3>1, <3>2 DEF FiniteSubsetsOf
  <2>2. QED
    BY <2>1
<1>2. PICK b \in Belows : \A c \in Belows : <<c, b>> \notin StrictSubsetOrdering(Nat)
  <2> HIDE DEF Belows
  <2>1. QED
    BY <1>1, FS_StrictSubsetOrderingWellFounded, WFMin
<1>3. PICK n \in S : b = Below(n)
  BY <1>2
<1>4. ASSUME NEW m \in S, m < n PROVE FALSE
  <2>1. /\ Below(m) \in Belows
        /\ Below(m) \subseteq b
        /\ m \in b
        /\ m \notin Below(m)
    BY <1>3, <1>4
  <2>2. b \in SUBSET Nat /\ Below(m) \in SUBSET Nat
    BY <1>3
  <2>3. QED
    BY <1>2, <2>1, <2>2 DEF StrictSubsetOrdering
<1>5. QED
  BY <1>4

(* Induction over the natural numbers, for a set of them.                   *)
LEMMA Induction ==
  ASSUME NEW S \in SUBSET Nat, 0 \in S, \A n \in S : n + 1 \in S
  PROVE  S = Nat
<1> SUFFICES ASSUME Nat \ S # {} PROVE FALSE
  OBVIOUS
<1>1. PICK n \in Nat \ S : \A m \in Nat \ S : n <= m
  BY LeastNumber
<1>2. QED
  BY <1>1

-----------------------------------------------------------------------------
(* What a pass over a sequence selects                                     *)

(* What the loop of Among has after n members, given what it had before.    *)
KeptOf(kept, n, s, set) ==
  IF n = 0 THEN <<>>
  ELSE IF s[n] \in set THEN Append(kept[n - 1], s[n])
  ELSE kept[n - 1]

Passes(kept, s, set) == kept = [n \in 0..Len(s) |-> KeptOf(kept, n, s, set)]

(* The loop has a result after every number of members.                     *)
LEMMA PassOver ==
  ASSUME NEW s, NEW set, Len(s) \in Nat
  PROVE  \E kept : Passes(kept, s, set) /\ Among(s, set) = kept[Len(s)]
<1> DEFINE Pass(kept, k) == kept = [n \in 0..k |-> KeptOf(kept, n, s, set)]
           S == {k \in Nat : \E kept : Pass(kept, k)}
<1>1. 0 \in S
  <2>1. Pass([n \in 0..0 |-> <<>>], 0)
    BY DEF KeptOf
  <2>2. QED
    BY <2>1
<1>2. \A k \in S : k + 1 \in S
  <2> SUFFICES ASSUME NEW k \in Nat, NEW old, Pass(old, k)
               PROVE  \E kept : Pass(kept, k + 1)
    OBVIOUS
  <2> DEFINE kept == [n \in 0..(k + 1) |-> KeptOf(old, n, s, set)]
  <2>1. \A n \in 0..k : kept[n] = old[n]
    OBVIOUS
  <2>2. Pass(kept, k + 1)
    <3> SUFFICES ASSUME NEW n \in 0..(k + 1)
                 PROVE  KeptOf(old, n, s, set) = KeptOf(kept, n, s, set)
      OBVIOUS
    <3>1. n = 0 \/ kept[n - 1] = old[n - 1]
      BY <2>1
    <3>2. QED
      BY <3>1 DEF KeptOf
  <2>3. QED
    BY <2>2
<1>3. S = Nat
  <2> HIDE DEF S
  <2>1. S \in SUBSET Nat
    BY DEF S
  <2>2. QED
    BY <1>1, <1>2, <2>1, Induction
<1>4. \E kept : Pass(kept, Len(s))
  BY <1>3
<1>5. QED
  BY <1>4 DEF Among, Passes, KeptOf

(* What the pass has selected of the first n members: those in the set, and *)
(* in their order.                                                          *)
Selects(t, n, s, set) ==
  /\ ToSet(t) = {s[i] : i \in 1..n} \cap set
  /\ \A a, b \in DOMAIN t : a < b =>
       \E i, j \in 1..n : i < j /\ t[a] = s[i] /\ t[b] = s[j]

LEMMA MembersOfAppend ==
  ASSUME NEW X, NEW t \in Seq(X), NEW x \in X
  PROVE  ToSet(Append(t, x)) = ToSet(t) \cup {x}
<1>1. ASSUME NEW y \in ToSet(Append(t, x)) PROVE y \in ToSet(t) \cup {x}
  BY DEF ToSet
<1>2. ASSUME NEW y \in ToSet(t) PROVE y \in ToSet(Append(t, x))
  <2>1. PICK i \in DOMAIN t : y = t[i]
    BY DEF ToSet
  <2>2. i \in DOMAIN Append(t, x) /\ Append(t, x)[i] = y
    BY <2>1
  <2>3. QED
    BY <2>2 DEF ToSet
<1>3. x \in ToSet(Append(t, x))
  <2>1. /\ Len(t) + 1 \in DOMAIN Append(t, x)
        /\ Append(t, x)[Len(t) + 1] = x
    OBVIOUS
  <2>2. QED
    BY <2>1 DEF ToSet
<1>4. QED
  BY <1>1, <1>2, <1>3

(* One member more.                                                         *)
LEMMA SelectsOneMore ==
  ASSUME NEW X, NEW s \in Seq(X), NEW set, NEW n \in Nat, n + 1 <= Len(s),
         NEW t \in Seq(X), Selects(t, n, s, set)
  PROVE  IF s[n + 1] \in set
         THEN /\ Append(t, s[n + 1]) \in Seq(X)
              /\ Selects(Append(t, s[n + 1]), n + 1, s, set)
         ELSE Selects(t, n + 1, s, set)
<1> DEFINE x == s[n + 1]
           u == Append(t, x)
<1>1. x \in X /\ n + 1 \in 1..Len(s)
  OBVIOUS
<1>2. {s[i] : i \in 1..(n + 1)} = {s[i] : i \in 1..n} \cup {x}
  <2>1. 1..(n + 1) = 1..n \cup {n + 1}
    OBVIOUS
  <2>2. QED
    BY <2>1
<1>3. CASE x \in set
  <2>1. u \in Seq(X)
    BY <1>1
  <2>2. ToSet(u) = {s[i] : i \in 1..(n + 1)} \cap set
    <3>1. ToSet(u) = ToSet(t) \cup {x}
      BY <1>1, MembersOfAppend
    <3>2. ToSet(t) = {s[i] : i \in 1..n} \cap set
      BY DEF Selects
    <3> HIDE DEF u, x
    <3>3. QED
      BY <1>2, <1>3, <3>1, <3>2
  <2>3. ASSUME NEW a \in DOMAIN u, NEW b \in DOMAIN u, a < b
        PROVE  \E i, j \in 1..(n + 1) : i < j /\ u[a] = s[i] /\ u[b] = s[j]
    <3>1. a \in DOMAIN t /\ u[a] = t[a]
      BY <1>1, <2>3
    <3>2. CASE b \in DOMAIN t
      <4>1. u[b] = t[b]
        BY <1>1, <3>2
      <4>2. PICK i \in 1..n, j \in 1..n : i < j /\ t[a] = s[i] /\ t[b] = s[j]
        BY <2>3, <3>1, <3>2 DEF Selects
      <4>3. i \in 1..(n + 1) /\ j \in 1..(n + 1)
        OBVIOUS
      <4> HIDE DEF u
      <4>4. QED
        BY <3>1, <4>1, <4>2, <4>3
    <3>3. CASE b \notin DOMAIN t
      <4>1. u[b] = x
        BY <1>1, <3>3
      <4>2. t[a] \in ToSet(t)
        BY <3>1 DEF ToSet
      <4>3. PICK i \in 1..n : t[a] = s[i]
        BY <4>2 DEF Selects
      <4>4. i \in 1..(n + 1) /\ n + 1 \in 1..(n + 1) /\ i < n + 1
        OBVIOUS
      <4> HIDE DEF u
      <4>5. QED
        BY <3>1, <4>1, <4>3, <4>4
    <3>4. QED
      BY <3>2, <3>3
  <2> HIDE DEF u
  <2>4. Selects(u, n + 1, s, set)
    BY <2>2, <2>3 DEF Selects
  <2>5. QED
    BY <1>3, <2>1, <2>4 DEF u
<1>4. CASE x \notin set
  <2>1. ToSet(t) = {s[i] : i \in 1..(n + 1)} \cap set
    <3>1. ToSet(t) = {s[i] : i \in 1..n} \cap set
      BY DEF Selects
    <3> HIDE DEF x
    <3>2. QED
      BY <1>2, <1>4, <3>1
  <2>2. 1..n \subseteq 1..(n + 1)
    OBVIOUS
  <2>3. Selects(t, n + 1, s, set)
    BY <2>1, <2>2, Zenon DEF Selects
  <2>4. QED
    BY <1>4, <2>3
<1>5. QED
  BY <1>3, <1>4

(* What Among returns: the members that are in the set, in their order.     *)
LEMMA AmongSelects ==
  ASSUME NEW X, NEW s \in Seq(X), NEW set
  PROVE  Among(s, set) \in Seq(X) /\ Selects(Among(s, set), Len(s), s, set)
<1>0. Len(s) \in Nat
  OBVIOUS
<1>1. PICK kept : Passes(kept, s, set) /\ Among(s, set) = kept[Len(s)]
  BY <1>0, PassOver
<1> DEFINE Good(n) == kept[n] \in Seq(X) /\ Selects(kept[n], n, s, set)
           S == {n \in Nat : n <= Len(s) => Good(n)}
<1>2. 0 \in S
  <2>1. kept[0] = <<>>
    BY <1>1 DEF Passes, KeptOf
  <2>2. <<>> \in Seq(X) /\ Selects(<<>>, 0, s, set)
    BY DEF Selects, ToSet
  <2>3. QED
    BY <2>1, <2>2
<1>3. ASSUME NEW n \in S PROVE n + 1 \in S
  <2> SUFFICES ASSUME n + 1 <= Len(s) PROVE Good(n + 1)
    OBVIOUS
  <2>1. Good(n)
    BY <1>3
  <2>2. n + 1 \in 0..Len(s) /\ n + 1 # 0 /\ (n + 1) - 1 = n
    OBVIOUS
  <2>3. kept[n + 1] = KeptOf(kept, n + 1, s, set)
    BY <1>1, <2>2 DEF Passes
  <2>4. kept[n + 1] = IF s[n + 1] \in set THEN Append(kept[n], s[n + 1]) ELSE kept[n]
    BY <2>2, <2>3 DEF KeptOf
  <2>5. n \in Nat
    OBVIOUS
  <2>6. IF s[n + 1] \in set
        THEN /\ Append(kept[n], s[n + 1]) \in Seq(X)
             /\ Selects(Append(kept[n], s[n + 1]), n + 1, s, set)
        ELSE Selects(kept[n], n + 1, s, set)
    BY <2>1, <2>5, SelectsOneMore
  <2>7. QED
    BY <2>1, <2>4, <2>6, Zenon
<1>4. S = Nat
  <2> HIDE DEF S
  <2>1. S \in SUBSET Nat
    BY DEF S
  <2>2. QED
    BY <1>2, <1>3, <2>1, Induction
<1>5. Good(Len(s))
  BY <1>0, <1>4
<1>6. QED
  BY <1>1, <1>5

(* Whose members they are.                                                  *)
LEMMA AmongMembers ==
  ASSUME NEW X, NEW s \in Seq(X), NEW set
  PROVE  ToSet(Among(s, set)) = ToSet(s) \cap set
<1>1. {s[i] : i \in 1..Len(s)} = ToSet(s)
  BY DEF ToSet
<1>2. QED
  BY <1>1, AmongSelects DEF Selects

(* Nothing is selected twice.                                               *)
LEMMA AmongInjective ==
  ASSUME NEW X, NEW s \in Seq(X), NEW set, IsInjective(s)
  PROVE  IsInjective(Among(s, set))
<1> DEFINE t == Among(s, set)
<1>1. t \in Seq(X) /\ Selects(t, Len(s), s, set)
  BY AmongSelects
<1> HIDE DEF t
<1>2. ASSUME NEW a \in DOMAIN t, NEW b \in DOMAIN t, a < b PROVE t[a] # t[b]
  <2>1. PICK i \in 1..Len(s), j \in 1..Len(s) : i < j /\ t[a] = s[i] /\ t[b] = s[j]
    BY <1>1, <1>2 DEF Selects
  <2>2. QED
    BY <2>1 DEF IsInjective
<1>3. \A a, b \in DOMAIN t : a < b \/ b < a \/ a = b
  BY <1>1
<1>4. IsInjective(t)
  BY <1>2, <1>3 DEF IsInjective
<1>5. QED
  BY <1>4 DEF t

(* If all are in the set, all are selected.                                 *)
LEMMA AmongAll ==
  ASSUME NEW X, NEW s \in Seq(X), NEW set, ToSet(s) \subseteq set
  PROVE  Among(s, set) = s
<1>0. Len(s) \in Nat
  OBVIOUS
<1>1. PICK kept : Passes(kept, s, set) /\ Among(s, set) = kept[Len(s)]
  BY <1>0, PassOver
<1> DEFINE S == {n \in Nat : n <= Len(s) => kept[n] = SubSeq(s, 1, n)}
<1>2. 0 \in S
  BY <1>1 DEF Passes, KeptOf
<1>3. ASSUME NEW n \in S PROVE n + 1 \in S
  <2> SUFFICES ASSUME n + 1 <= Len(s) PROVE kept[n + 1] = SubSeq(s, 1, n + 1)
    OBVIOUS
  <2>1. n + 1 \in 0..Len(s) /\ n + 1 # 0 /\ (n + 1) - 1 = n
    OBVIOUS
  <2>2. kept[n] = SubSeq(s, 1, n)
    BY <1>3
  <2>3. s[n + 1] \in set
    BY DEF ToSet
  <2>4. kept[n + 1] = Append(kept[n], s[n + 1])
    BY <1>1, <2>1, <2>3 DEF Passes, KeptOf
  <2>5. Append(SubSeq(s, 1, n), s[n + 1]) = SubSeq(s, 1, n + 1)
    OBVIOUS
  <2>6. QED
    BY <2>2, <2>4, <2>5
<1>4. S = Nat
  <2> HIDE DEF S
  <2>1. S \in SUBSET Nat
    BY DEF S
  <2>2. QED
    BY <1>2, <1>3, <2>1, Induction
<1>5. kept[Len(s)] = SubSeq(s, 1, Len(s))
  BY <1>0, <1>4
<1>6. SubSeq(s, 1, Len(s)) = s
  OBVIOUS
<1>7. QED
  BY <1>1, <1>5, <1>6

(* A sequence without repeats is as long as its members are many.           *)
LEMMA LengthOfInjective ==
  ASSUME NEW X, NEW s \in Seq(X), IsInjective(s)
  PROVE  IsFiniteSet(ToSet(s)) /\ Cardinality(ToSet(s)) = Len(s)
<1>1. s \in Bijection(1..Len(s), ToSet(s))
  BY DEF Bijection, Injection, Surjection, ToSet, IsInjective
<1>2. IsFiniteSet(1..Len(s)) /\ Cardinality(1..Len(s)) = Len(s)
  <2>1. Len(s) \in Nat /\ 1 \in Int /\ Len(s) \in Int
    OBVIOUS
  <2>2. QED
    BY <2>1, FS_Interval
<1>3. ExistsBijection(1..Len(s), ToSet(s))
  BY <1>1, Zenon DEF ExistsBijection
<1>4. /\ IsFiniteSet(ToSet(s))
      /\ Cardinality(ToSet(s)) = Cardinality(1..Len(s))
  BY <1>2, <1>3, FS_Bijection, Zenon
<1>5. QED
  BY <1>2, <1>4

-----------------------------------------------------------------------------
(* Sequences without repeats                                               *)

(* Appending what is new keeps a sequence free of repeats.                  *)
LEMMA AppendNew ==
  ASSUME NEW X, NEW s \in Seq(X), NEW x \in X, IsInjective(s),
         x \notin ToSet(s)
  PROVE  IsInjective(Append(s, x))
BY DEF IsInjective, ToSet

(* So does stopping early.                                                  *)
LEMMA PrefixOfInjective ==
  ASSUME NEW X, NEW s \in Seq(X), NEW t \in Seq(X), IsInjective(s \o t)
  PROVE  IsInjective(s)
<1>1. \A i \in DOMAIN s : i \in DOMAIN (s \o t) /\ (s \o t)[i] = s[i]
  OBVIOUS
<1>2. QED
  BY <1>1 DEF IsInjective

(* The members of a concatenation.                                          *)
LEMMA MembersOfBoth ==
  ASSUME NEW X, NEW s \in Seq(X), NEW t \in Seq(X)
  PROVE  ToSet(s \o t) = ToSet(s) \cup ToSet(t)
<1>1. ASSUME NEW x \in ToSet(s \o t) PROVE x \in ToSet(s) \cup ToSet(t)
  BY DEF ToSet
<1>2. ASSUME NEW x \in ToSet(s) PROVE x \in ToSet(s \o t)
  <2>1. PICK i \in DOMAIN s : x = s[i]
    BY DEF ToSet
  <2>2. i \in DOMAIN (s \o t) /\ (s \o t)[i] = x
    BY <2>1
  <2>3. QED
    BY <2>2 DEF ToSet
<1>3. ASSUME NEW x \in ToSet(t) PROVE x \in ToSet(s \o t)
  <2>1. PICK i \in DOMAIN t : x = t[i]
    BY DEF ToSet
  <2>2. Len(s) + i \in DOMAIN (s \o t) /\ (s \o t)[Len(s) + i] = x
    BY <2>1
  <2>3. QED
    BY <2>2 DEF ToSet
<1>4. QED
  BY <1>1, <1>2, <1>3

(* Of a concatenation without repeats, no later member is an earlier one.   *)
LEMMA InjectiveBoth ==
  ASSUME NEW X, NEW s \in Seq(X), NEW t \in Seq(X), IsInjective(s \o t),
         NEW i \in 1..Len(t)
  PROVE  /\ t[i] \notin ToSet(s)
         /\ \A j \in 1..Len(t) : t[j] = t[i] => j = i
<1>1. \A k \in 1..Len(s) : k \in DOMAIN (s \o t) /\ (s \o t)[k] = s[k]
  OBVIOUS
<1>2. \A k \in 1..Len(t) :
        Len(s) + k \in DOMAIN (s \o t) /\ (s \o t)[Len(s) + k] = t[k]
  OBVIOUS
<1>3. t[i] \notin ToSet(s)
  <2> SUFFICES ASSUME NEW k \in 1..Len(s), s[k] = t[i] PROVE FALSE
    BY DEF ToSet
  <2>1. Len(s) + i = k
    BY <1>1, <1>2 DEF IsInjective
  <2>2. QED
    BY <2>1
<1>4. ASSUME NEW j \in 1..Len(t), t[j] = t[i] PROVE j = i
  <2>1. Len(s) + i = Len(s) + j
    BY <1>2, <1>4 DEF IsInjective
  <2>2. QED
    BY <2>1
<1>5. QED
  BY <1>3, <1>4

-----------------------------------------------------------------------------
(* Sequences one after the other                                           *)

First(s, k) == [i \in 1..k |-> s[i]]

(* What FlattenSeq has after each of the first k sequences of s.            *)
Joins(joined, s, k) ==
  joined = [i \in 1..k |-> IF i = 1 THEN s[i] ELSE joined[i - 1] \o s[i]]

LEMMA JoinsExist ==
  ASSUME NEW s, NEW k \in Nat
  PROVE  \E joined : Joins(joined, s, k)
<1> DEFINE S == {n \in Nat : \E joined : Joins(joined, s, n)}
<1>1. 0 \in S
  <2> DEFINE none == [i \in 1..0 |-> s[i]]
  <2>1. \A i \in 1..0 : s[i] = IF i = 1 THEN s[i] ELSE none[i - 1] \o s[i]
    OBVIOUS
  <2>2. none = [i \in 1..0 |-> IF i = 1 THEN s[i] ELSE none[i - 1] \o s[i]]
    BY <2>1, Zenon
  <2>3. Joins(none, s, 0)
    BY <2>2, Zenon DEF Joins
  <2>4. QED
    BY <2>3
<1>2. ASSUME NEW n \in S PROVE n + 1 \in S
  <2>1. PICK old : Joins(old, s, n)
    OBVIOUS
  <2> DEFINE new == [i \in 1..(n + 1) |->
                       IF i = 1 THEN s[i] ELSE old[i - 1] \o s[i]]
  <2>2. \A i \in 1..n : new[i] = old[i]
    <3> SUFFICES ASSUME NEW i \in 1..n PROVE new[i] = old[i]
      OBVIOUS
    <3>1. i \in 1..(n + 1)
      OBVIOUS
    <3>2. old[i] = IF i = 1 THEN s[i] ELSE old[i - 1] \o s[i]
      BY <2>1, Zenon DEF Joins
    <3>3. QED
      BY <3>1, <3>2, Zenon
  <2>3. \A i \in 1..(n + 1) : i # 1 => new[i - 1] = old[i - 1]
    <3> SUFFICES ASSUME NEW i \in 1..(n + 1), i # 1 PROVE new[i - 1] = old[i - 1]
      OBVIOUS
    <3>1. i - 1 \in 1..n
      OBVIOUS
    <3>2. QED
      BY <2>2, <3>1
  <2>4. Joins(new, s, n + 1)
    BY <2>3 DEF Joins
  <2>5. QED
    BY <2>4
<1>3. S = Nat
  <2> HIDE DEF S
  <2>1. S \in SUBSET Nat
    BY DEF S
  <2>2. QED
    BY <1>1, <1>2, <2>1, Induction
<1>4. QED
  BY <1>3

(* Joining more sequences gives the same after the first ones.              *)
LEMMA JoinsAgree ==
  ASSUME NEW s, NEW t, NEW k \in Nat, NEW l \in Nat, k <= l,
         \A i \in 1..k : s[i] = t[i],
         NEW f, Joins(f, s, k), NEW g, Joins(g, t, l)
  PROVE  \A i \in 1..k : f[i] = g[i]
<1> DEFINE S == {n \in Nat : n \in 1..k => f[n] = g[n]}
<1>1. 0 \in S
  OBVIOUS
<1>2. ASSUME NEW n \in S PROVE n + 1 \in S
  <2> SUFFICES ASSUME n + 1 \in 1..k PROVE f[n + 1] = g[n + 1]
    OBVIOUS
  <2>1. n + 1 \in 1..l /\ (n + 1) - 1 = n
    OBVIOUS
  <2>2. /\ f[n + 1] = IF n + 1 = 1 THEN s[n + 1] ELSE f[n] \o s[n + 1]
        /\ g[n + 1] = IF n + 1 = 1 THEN t[n + 1] ELSE g[n] \o t[n + 1]
    BY <2>1 DEF Joins
  <2>3. n + 1 # 1 => f[n] = g[n]
    BY <1>2
  <2>4. QED
    BY <2>2, <2>3
<1>3. S = Nat
  <2> HIDE DEF S
  <2>1. S \in SUBSET Nat
    BY DEF S
  <2>2. QED
    BY <1>1, <1>2, <2>1, Induction
<1>4. QED
  BY <1>3

(* The last of them is the result.                                          *)
LEMMA FlattenIsLast ==
  ASSUME NEW s, NEW k \in Nat \ {0}
  PROVE  \E joined :
           /\ Joins(joined, s, k)
           /\ FlattenSeq(First(s, k)) = joined[k]
<1> DEFINE t == First(s, k)
           last == CHOOSE joined : Joins(joined, t, k)
<1>1. Joins(last, t, k)
  BY JoinsExist
<1>2. Len(t) = k
  BY DEF First
<1>3. FlattenSeq(t) = last[k]
  BY <1>2 DEF FlattenSeq, Joins
<1>4. Joins(last, s, k)
  BY <1>1 DEF Joins, First
<1>5. QED
  BY <1>3, <1>4

(* Another page adds its identifiers at the end.                            *)
LEMMA FlattenOneMore ==
  ASSUME NEW s, NEW k \in Nat, NEW X, s[k + 1] \in Seq(X)
  PROVE  FlattenSeq(First(s, k + 1))
           = FlattenSeq(First(s, k)) \o s[k + 1]
<1>1. PICK new :
        /\ Joins(new, s, k + 1)
        /\ FlattenSeq(First(s, k + 1)) = new[k + 1]
  BY FlattenIsLast
<1>2. new[k + 1] = IF k + 1 = 1 THEN s[k + 1] ELSE new[k] \o s[k + 1]
  <2>1. k + 1 \in 1..(k + 1) /\ (k + 1) - 1 = k
    OBVIOUS
  <2>2. QED
    BY <1>1, <2>1 DEF Joins
<1>3. CASE k = 0
  <2>1. FlattenSeq(First(s, k)) = <<>>
    BY <1>3 DEF FlattenSeq, First
  <2>2. QED
    BY <1>1, <1>2, <1>3, <2>1
<1>4. CASE k # 0
  <2>1. PICK old : /\ Joins(old, s, k)
                   /\ FlattenSeq(First(s, k)) = old[k]
    BY <1>4, FlattenIsLast
  <2>2. new[k] = old[k]
    BY <1>1, <1>4, <2>1, JoinsAgree
  <2>3. new[k + 1] = new[k] \o s[k + 1]
    <3>1. k + 1 # 1
      BY <1>4
    <3>2. QED
      BY <1>2, <3>1, Zenon
  <2>4. QED
    BY <1>1, <2>1, <2>2, <2>3
<1>5. QED
  BY <1>3, <1>4

-----------------------------------------------------------------------------
(* The items of a page                                                     *)

(* What the loop of Unknown has after n items, given what it had before.    *)
Taken(new, n, known, items, limit) ==
  IF n = 0 THEN <<>>
  ELSE LET before == new[n - 1]
       IN IF \/ items[n] \in ToSet(known) \cup ToSet(before)
             \/ Len(known) + Len(before) = limit
          THEN before
          ELSE Append(before, items[n])

Loops(new, known, items, limit) ==
  new = [n \in 0..Len(items) |-> Taken(new, n, known, items, limit)]

(* The loop has a result after every number of items.                       *)
LEMMA LoopOverItems ==
  ASSUME NEW known, NEW items, NEW limit, Len(items) \in Nat
  PROVE  \E new :
           /\ Loops(new, known, items, limit)
           /\ Unknown(known, items, limit) = new[Len(items)]
<1> DEFINE Loop(new, k) ==
             new = [n \in 0..k |-> Taken(new, n, known, items, limit)]
           S == {k \in Nat : \E new : Loop(new, k)}
<1>1. 0 \in S
  <2>1. Loop([n \in 0..0 |-> <<>>], 0)
    BY DEF Taken
  <2>2. QED
    BY <2>1
<1>2. \A k \in S : k + 1 \in S
  <2> SUFFICES ASSUME NEW k \in Nat, NEW old, Loop(old, k)
               PROVE  \E new : Loop(new, k + 1)
    OBVIOUS
  <2> DEFINE new == [n \in 0..(k + 1) |-> Taken(old, n, known, items, limit)]
  <2>1. \A n \in 0..k : new[n] = old[n]
    OBVIOUS
  <2>2. Loop(new, k + 1)
    <3> SUFFICES ASSUME NEW n \in 0..(k + 1)
                 PROVE  Taken(old, n, known, items, limit)
                          = Taken(new, n, known, items, limit)
      OBVIOUS
    <3>1. n = 0 \/ new[n - 1] = old[n - 1]
      BY <2>1
    <3>2. QED
      BY <3>1 DEF Taken
  <2>3. QED
    BY <2>2
<1>3. S = Nat
  <2> HIDE DEF S
  <2>1. S \in SUBSET Nat
    BY DEF S
  <2>2. QED
    BY <1>1, <1>2, <2>1, Induction
<1>4. \E new : Loop(new, Len(items))
  BY <1>3
<1>5. QED
  BY <1>4 DEF Unknown, Loops, Taken

(* advance_cursor adds records that are not yet candidates, each once, and  *)
(* never more than the limit leaves room for.                               *)
LEMMA UnknownAreNew ==
  ASSUME NEW X, NEW known \in Seq(X), NEW items \in Seq(X), NEW limit \in Nat,
         IsInjective(known), Len(known) <= limit
  PROVE  LET new == Unknown(known, items, limit)
         IN /\ new \in Seq(X)
            /\ IsInjective(known \o new)
            /\ Len(known \o new) <= limit
<1>0. Len(items) \in Nat
  OBVIOUS
<1>1. PICK new :
        /\ Loops(new, known, items, limit)
        /\ Unknown(known, items, limit) = new[Len(items)]
  BY <1>0, LoopOverItems
<1> DEFINE Good(t) == /\ t \in Seq(X)
                      /\ IsInjective(known \o t)
                      /\ Len(known \o t) <= limit
           S == {n \in Nat : n <= Len(items) => Good(new[n])}
<1>2. 0 \in S
  <2>1. new[0] = <<>>
    BY <1>1 DEF Loops, Taken
  <2>2. known \o <<>> = known
    OBVIOUS
  <2>3. Good(<<>>)
    BY <2>2
  <2>4. QED
    BY <2>1, <2>3
<1>3. ASSUME NEW n \in S PROVE n + 1 \in S
  <2> SUFFICES ASSUME n + 1 <= Len(items) PROVE Good(new[n + 1])
    OBVIOUS
  <2> DEFINE before == new[n]
  <2>1. Good(before)
    BY <1>3
  <2>2. /\ n + 1 \in 0..Len(items)
        /\ n + 1 # 0
        /\ (n + 1) - 1 = n
        /\ items[n + 1] \in X
    OBVIOUS
  <2>3. new[n + 1] = Taken(new, n + 1, known, items, limit)
    BY <1>1, <2>2 DEF Loops
  <2>4. CASE new[n + 1] = before
    BY <2>1, <2>4
  <2>5. CASE /\ new[n + 1] = Append(before, items[n + 1])
             /\ items[n + 1] \notin ToSet(known) \cup ToSet(before)
             /\ Len(known) + Len(before) # limit
    <3> HIDE DEF before
    <3> DEFINE x == items[n + 1]
    <3>1. known \o Append(before, x) = Append(known \o before, x)
      BY <2>1, <2>2
    <3>2. known \o before \in Seq(X) /\ x \notin ToSet(known \o before)
      BY <2>1, <2>5, MembersOfBoth
    <3>3. IsInjective(Append(known \o before, x))
      BY <2>1, <2>2, <3>2, AppendNew
    <3>4. Len(known \o Append(before, x)) <= limit
      <4>1. Len(known \o before) = Len(known) + Len(before)
        BY <2>1
      <4>2. Len(Append(known \o before, x)) = Len(known \o before) + 1
        BY <3>2
      <4>3. /\ Len(known) + Len(before) \in Nat
            /\ Len(known) + Len(before) <= limit
        BY <2>1, <4>1
      <4>4. Len(known) + Len(before) # limit
        BY <2>5
      <4>5. Len(Append(known \o before, x)) <= limit
        <5>1. PICK k \in Nat : k = Len(known) + Len(before)
          BY <4>3
        <5>2. k + 1 <= limit
          BY <4>3, <4>4, <5>1
        <5>3. Len(Append(known \o before, x)) = k + 1
          BY <4>1, <4>2, <5>1
        <5>4. QED
          BY <5>2, <5>3
      <4>6. QED
        BY <3>1, <4>5
    <3>5. QED
      BY <2>1, <2>2, <2>5, <3>1, <3>3, <3>4
  <2>6. QED
    BY <2>2, <2>3, <2>4, <2>5 DEF Taken
<1>4. S = Nat
  <2> HIDE DEF S
  <2>1. S \in SUBSET Nat
    BY DEF S
  <2>2. QED
    BY <1>2, <1>3, <2>1, Induction
<1>5. Good(new[Len(items)])
  BY <1>0, <1>4
<1>6. QED
  BY <1>1, <1>5

(* _reconcile_search_entry takes an entry's identifiers as they are, when   *)
(* none of them is a candidate already.                                     *)
LEMMA UnknownIsAll ==
  ASSUME NEW X, NEW known \in Seq(X), NEW items \in Seq(X),
         IsInjective(known \o items)
  PROVE  Unknown(known, items, Len(known) + Len(items)) = items
<1>0. Len(items) \in Nat
  OBVIOUS
<1> DEFINE limit == Len(known) + Len(items)
<1>1. PICK new :
        /\ Loops(new, known, items, limit)
        /\ Unknown(known, items, limit) = new[Len(items)]
  BY <1>0, LoopOverItems
<1> DEFINE S == {n \in Nat : n <= Len(items) => new[n] = SubSeq(items, 1, n)}
<1>2. 0 \in S
  BY <1>1 DEF Loops, Taken
<1>3. ASSUME NEW n \in S PROVE n + 1 \in S
  <2> SUFFICES ASSUME n + 1 <= Len(items)
               PROVE  new[n + 1] = SubSeq(items, 1, n + 1)
    OBVIOUS
  <2> DEFINE before == SubSeq(items, 1, n)
             x == items[n + 1]
  <2>1. /\ n + 1 \in 0..Len(items)
        /\ n + 1 # 0
        /\ (n + 1) - 1 = n
        /\ n + 1 \in 1..Len(items)
    OBVIOUS
  <2>2. new[n] = before
    BY <1>3
  <2>3. before \in Seq(X) /\ Len(before) = n
    OBVIOUS
  <2>4. x \notin ToSet(known)
    BY <2>1, InjectiveBoth
  <2>5. x \notin ToSet(before)
    <3> SUFFICES ASSUME NEW j \in 1..n, items[j] = x PROVE FALSE
      BY <2>3 DEF ToSet
    <3>1. j = n + 1
      BY <2>1, InjectiveBoth
    <3>2. QED
      BY <3>1
  <2>6. Len(known) + Len(before) # limit
    BY <2>3
  <2>7. new[n + 1] = Append(before, x)
    <3> HIDE DEF before, x, limit
    <3>1. new[n + 1] = Taken(new, n + 1, known, items, limit)
      BY <1>1, <2>1 DEF Loops
    <3>2. QED
      BY <2>1, <2>2, <2>4, <2>5, <2>6, <3>1 DEF Taken, x
  <2>8. Append(before, x) = SubSeq(items, 1, n + 1)
    OBVIOUS
  <2>9. QED
    BY <2>7, <2>8
<1>4. S = Nat
  <2> HIDE DEF S
  <2>1. S \in SUBSET Nat
    BY DEF S
  <2>2. QED
    BY <1>2, <1>3, <2>1, Induction
<1>5. new[Len(items)] = SubSeq(items, 1, Len(items))
  BY <1>0, <1>4
<1>6. SubSeq(items, 1, Len(items)) = items
  OBVIOUS
<1>7. QED
  BY <1>1, <1>5, <1>6

=============================================================================
