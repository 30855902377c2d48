------------------------------- MODULE Ledger -------------------------------
(***************************************************************************)
(* What a manifest promises about a run (RunManifest and ManifestEntry of  *)
(* ingestion/contracts.py): it is a ledger, in which every call to the     *)
(* provider was booked before it was made, and every entry is what one     *)
(* call brought, entered once and never touched again.                     *)
(* It forgets how: checkpoints, replay, retries, statuses and evidence.    *)
(***************************************************************************)
EXTENDS Naturals

CONSTANTS
  RunIds,
  Kinds,    \* the two budgets, of Search and of Record calls
  Limit,    \* [Kinds -> Nat], how many calls of a kind a run may make
  Blank,    \* [Kinds -> the entries of a run that has none]
  NoEntry,
  Nobody

VARIABLES
  opened,   \* the runs that have a manifest
  entries,  \* [Kinds -> [RunIds -> entries by position]]
  booked,   \* [Kinds -> [RunIds -> calls the manifest accounts for]]
  made,     \* [Kinds -> [RunIds -> calls the provider received]]
  in_hand   \* the kind and the run whose answer is not yet entered

vars == <<opened, entries, booked, made, in_hand>>

Init ==
  /\ opened = {}
  /\ entries = [k \in Kinds |-> [r \in RunIds |-> Blank[k]]]
  /\ booked = [k \in Kinds |-> [r \in RunIds |-> 0]]
  /\ made = [k \in Kinds |-> [r \in RunIds |-> 0]]
  /\ in_hand = Nobody

(* create of the manifest.                                                  *)
Open(r) ==
  /\ r \notin opened
  /\ opened' = opened \cup {r}
  /\ UNCHANGED <<entries, booked, made, in_hand>>

(* A call is booked; the answer to an earlier one, a failure, is dropped.   *)
Book(k, r) ==
  /\ r \in opened
  /\ booked[k][r] < Limit[k]
  /\ booked' = [booked EXCEPT ![k][r] = @ + 1]
  /\ in_hand' = Nobody
  /\ UNCHANGED <<opened, entries, made>>

(* The call that was booked: it may bring something to enter.               *)
Call(k, r) ==
  /\ made[k][r] < booked[k][r]
  /\ made' = [made EXCEPT ![k][r] = @ + 1]
  /\ in_hand' \in {<<k, r>>, Nobody}
  /\ UNCHANGED <<opened, entries, booked>>

(* _append_entry: at a free position, whatever the outcome was.             *)
Enter(k, r) ==
  /\ in_hand = <<k, r>>
  /\ \E i \in DOMAIN entries[k][r] :
       /\ entries[k][r][i] = NoEntry
       /\ entries'[k][r][i] # NoEntry
       /\ entries' = [entries EXCEPT ![k][r][i] = entries'[k][r][i]]
  /\ in_hand' = Nobody
  /\ UNCHANGED <<opened, booked, made>>

(* A crash, an interrupt or an exception.                                   *)
Forget ==
  /\ in_hand # Nobody
  /\ in_hand' = Nobody
  /\ UNCHANGED <<opened, entries, booked, made>>

Next ==
  \/ \E r \in RunIds : Open(r)
  \/ \E k \in Kinds, r \in RunIds : Book(k, r) \/ Call(k, r) \/ Enter(k, r)
  \/ Forget

Spec == Init /\ [][Next]_vars
=============================================================================
