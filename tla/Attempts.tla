------------------------------ MODULE Attempts ------------------------------
(***************************************************************************)
(* What the orchestrator takes for granted of execute_with_retry           *)
(* (ingestion/retry.py) for one operation: every attempt is booked before  *)
(* it is made, another follows only a transient failure and at most        *)
(* max_attempts are made; a permanent failure ends it, and a transient one *)
(* may end it at any attempt.  It forgets delays, jitter, Retry-After and  *)
(* what makes a failure transient.  Retry shows that the loop keeps this.  *)
(***************************************************************************)
EXTENDS Naturals

CONSTANT Ceiling  \* the run's ceiling of calls to the provider

VARIABLES
  at,            \* where the operation is, or how it ended
  attempt,       \* attempts booked for it
  max_attempts,  \* of its retry policy
  booked,        \* calls the manifest accounts for
  made           \* attempts the provider saw

vars == <<at, attempt, max_attempts, booked, made>>

Init ==
  /\ at = "start"
  /\ attempt = 0
  /\ max_attempts \in Nat \ {0}
  /\ booked \in 0..Ceiling
  /\ made = 0

(* before_attempt is due: at first, and after each transient failure.       *)
MayBook ==
  /\ at \in {"start", "backing_off"}
  /\ attempt < max_attempts
  /\ UNCHANGED <<max_attempts, made>>

Book ==
  /\ MayBook
  /\ booked < Ceiling
  /\ booked' = booked + 1
  /\ attempt' = attempt + 1
  /\ at' = "calling"

(* AttemptBudgetExhaustedError.                                             *)
Refuse ==
  /\ MayBook
  /\ booked >= Ceiling
  /\ at' = "out_of_budget"
  /\ UNCHANGED <<attempt, booked>>

(* The save of the count raises: it may have been counted.                  *)
BookFails ==
  /\ MayBook
  /\ booked' \in {booked, booked + 1} \cap 0..Ceiling
  /\ at' = "raised"
  /\ UNCHANGED attempt

Call ==
  /\ at = "calling"
  /\ made' = made + 1
  /\ at' \in {"returned", "permanent", "backing_off", "raised"}
  /\ UNCHANGED <<attempt, max_attempts, booked>>

(* _retry_exhausted, or an exception of what computes the delay.            *)
GiveUp ==
  /\ at = "backing_off"
  /\ at' \in {"exhausted", "raised"}
  /\ UNCHANGED <<attempt, max_attempts, booked, made>>

Next == Book \/ Refuse \/ BookFails \/ Call \/ GiveUp

Spec == Init /\ [][Next]_vars
=============================================================================
