------------------------------- MODULE Retry --------------------------------
(***************************************************************************)
(* execute_with_retry (ingestion/retry.py): one provider operation of the  *)
(* ingestion run, tried again within an attempt, a delay and a call        *)
(* budget.  Delays are whole ticks; a jittered delay is rounded down to    *)
(* one.  The sum total_delay + delay that is compared with the budget is   *)
(* the very number total_delay becomes, so rounding does not matter to it. *)
(***************************************************************************)
EXTENDS Client

CONSTANTS
  Policies,      \* the retry policies considered
  Fractions,     \* what the jitter source may return, in hundredths
  RequestLimit,  \* the run's ceiling of calls to the provider
  FloatLimit     \* the least integer Python's float refuses

(* RetryPolicy: delays in ticks, jitter_ratio in hundredths.                *)
ValidPolicy(p) ==
  /\ p.max_attempts \in 1..5
  /\ p.base_delay <= p.max_delay
  /\ p.jitter_ratio \in 0..100

RetryPolicy ==
  [max_attempts : Nat, max_total_delay : Nat, base_delay : Nat,
   max_delay : Nat, jitter_ratio : Nat]

ASSUME PoliciesAssumption ==
  Policies \subseteq RetryPolicy /\ \A p \in Policies : ValidPolicy(p)
ASSUME FractionsAssumption == Fractions \subseteq Int
ASSUME RequestLimitAssumption == RequestLimit \in Nat
ASSUME FloatLimitAssumption == FloatLimit \in Nat

VARIABLES
  policy,       \* the retry policy, fixed
  pc,           \* where execute_with_retry is, or how it left
  attempt,      \* the loop's counter
  total_delay,  \* ticks slept by this operation
  failure,      \* FailureDetail of the last failed attempt
  delay,        \* the delay computed after it
  earlier,      \* calls the run reserved for its earlier operations
  reserved,     \* calls before_attempt has reserved on disk, these included
  calls,        \* history variable: calls the provider received
  exchange,     \* history variable: how the last call went
  waited        \* history variable: ticks slept since then

vars == <<policy, pc, attempt, total_delay, failure, delay, earlier, reserved,
          calls, exchange, waited>>

(* How it leaves: with a value, with OperationFailedError, with             *)
(* AttemptBudgetExhaustedError, or with any other exception.                *)
Left == {"returned", "failed", "out_of_budget", "raised"}

Points == {"before_attempt", "operation", "handling", "sleeping"} \cup Left

NoFailure == Detail("unknown", FALSE)

Init ==
  /\ policy \in Policies
  /\ pc = "before_attempt"
  /\ attempt = 1
  /\ total_delay = 0
  /\ failure = NoFailure
  /\ delay = 0
  /\ earlier \in 0..RequestLimit
  /\ reserved = earlier
  /\ calls = 0
  /\ exchange = [kind |-> "other_error"]
  /\ waited = 0

-----------------------------------------------------------------------------

Fails(detail) ==
  /\ pc' = "failed"
  /\ failure' = detail

(* before_attempt: reserve the call durably, or refuse it; the save may     *)
(* raise before or after it took effect.                                    *)
ReserveAttempt ==
  /\ pc = "before_attempt"
  /\ IF reserved >= RequestLimit
     THEN /\ pc' = "out_of_budget"
          /\ UNCHANGED reserved
     ELSE \/ /\ pc' = "operation"
             /\ reserved' = reserved + 1
          \/ /\ pc' = "raised"
             /\ reserved' \in {reserved, reserved + 1}
  /\ UNCHANGED <<policy, earlier, attempt, total_delay, failure, delay, calls,
                 exchange, waited>>

(* operation(), and classify_failure in the handler: the detail may be      *)
(* refused by its own contract.                                             *)
Operate ==
  /\ pc = "operation"
  /\ \E e \in Exchange :
       LET detail == ClassifyFailure(Get(e))
       IN /\ exchange' = e
          /\ IF Get(e) = Returned
             THEN pc' = "returned" /\ UNCHANGED failure
             ELSE IF ~ValidDetail(detail)
             THEN pc' = "raised" /\ UNCHANGED failure
             ELSE pc' = "handling" /\ failure' = detail
  /\ calls' = calls + 1
  /\ waited' = 0
  /\ UNCHANGED <<policy, earlier, attempt, total_delay, delay, reserved>>

Least(a, b) == IF a <= b THEN a ELSE b

(* 2 ** (attempt - 1), for the attempts a policy may allow.                 *)
Growth == <<1, 2, 4, 8, 16>>

Exponential == Least(policy.max_delay, policy.base_delay * Growth[attempt])

Jittered(fraction) ==
  Least(policy.max_delay,
        (Exponential * (10000 + policy.jitter_ratio * fraction)) \div 10000)

RetryDelaysCapped ==
  IF failure.retry_after_seconds # None
  THEN {Least(failure.retry_after_seconds, policy.max_delay)}
  ELSE {Jittered(fraction) : fraction \in Fractions \cap 0..100}

(* _retry_delay, when it returns.                                           *)
RetryDelays ==
  IF failure.retry_after_seconds # None
  THEN {failure.retry_after_seconds} \cap 0..(FloatLimit - 1)
  ELSE {Jittered(fraction) : fraction \in Fractions \cap 0..100}

(* _retry_delay raises on a Retry-After that float refuses and on a         *)
(* fraction out of range.                                                   *)
DelayRaises ==
  IF failure.retry_after_seconds # None
  THEN failure.retry_after_seconds >= FloatLimit
  ELSE Fractions \ 0..100 # {}

CanRetryAnything == attempt < policy.max_attempts

CanRetry == failure.retryable /\ attempt < policy.max_attempts

OverBudgetForTheWait(wait) == wait > policy.max_total_delay

OverBudgetOrOnIt(wait) == total_delay + wait >= policy.max_total_delay

OverBudget(wait) == total_delay + wait > policy.max_total_delay

GiveUp ==
  /\ pc = "handling"
  /\ ~CanRetry
  /\ Fails(IF failure.retryable THEN RetryExhausted ELSE failure)
  /\ UNCHANGED <<policy, earlier, attempt, total_delay, delay, reserved, calls,
                 exchange, waited>>

ChooseDelay ==
  /\ pc = "handling"
  /\ CanRetry
  /\ \/ /\ DelayRaises
        /\ pc' = "raised"
        /\ UNCHANGED <<failure, delay>>
     \/ \E wait \in RetryDelays :
          /\ delay' = wait
          /\ IF OverBudget(wait)
             THEN Fails(RetryExhausted)
             ELSE pc' = "sleeping" /\ UNCHANGED failure
  /\ UNCHANGED <<policy, earlier, attempt, total_delay, reserved, calls,
                 exchange, waited>>

Sleep ==
  /\ pc = "sleeping"
  /\ total_delay' = total_delay + delay
  /\ waited' = waited + delay
  /\ attempt' = attempt + 1
  /\ pc' = "before_attempt"
  /\ UNCHANGED <<policy, earlier, failure, delay, reserved, calls, exchange>>

Finished ==
  /\ pc \in Left
  /\ UNCHANGED vars

Attempt == ReserveAttempt \/ Operate \/ GiveUp \/ ChooseDelay \/ Sleep

Next == Attempt \/ Finished

Spec == Init /\ [][Next]_vars

-----------------------------------------------------------------------------
(* Types                                                                   *)

FailureDetail ==
  [category : Categories, retryable : BOOLEAN,
   status_code : {None} \cup 100..599, retry_after_seconds : {None} \cup Nat]

(* The loop's variables have their types.                                   *)
TypeOK ==
  /\ policy \in Policies
  /\ pc \in Points
  /\ attempt \in 1..policy.max_attempts
  /\ total_delay \in Nat
  /\ failure \in FailureDetail
  /\ delay \in Nat
  /\ earlier \in 0..RequestLimit
  /\ reserved \in 0..RequestLimit
  /\ calls \in Nat
  /\ exchange \in Exchange
  /\ waited \in Nat

-----------------------------------------------------------------------------
(* Safety                                                                  *)

(* One operation makes no more calls than attempts, no call that was not    *)
(* reserved first, and sleeps no longer in all than the policy allows.      *)
WithinBudgets ==
  /\ calls <= policy.max_attempts
  /\ earlier + calls <= reserved
  /\ reserved <= RequestLimit
  /\ total_delay <= policy.max_total_delay

IsRateLimited(e) == e.kind = "response" /\ e.status = 429

IsNumeric(e) == IsRateLimited(e) /\ e.retry_after.kind = "digits"

(* The failures Phase 4 calls retryable: a timeout or connection failure,   *)
(* HTTP 429, HTTP 5xx.                                                      *)
IsTransient(e) ==
  \/ e.kind \in {"timeout", "request_error"}
  \/ e.kind = "response" /\ (e.status = 429 \/ e.status \in 500..599)

(* The provider is asked again only after a transient failure, and after a  *)
(* numeric Retry-After only once that long has passed; otherwise after the  *)
(* base delay at least (classify_failure, _retry_delay and the loop).       *)
RetriesAreDue ==
  [][calls' > calls /\ calls > 0 =>
       /\ IsTransient(exchange)
       /\ IF IsNumeric(exchange)
          THEN waited >= exchange.retry_after.seconds
          ELSE waited >= policy.base_delay]_vars

(* A wait that answers the last exchange: the provider's own, or else the   *)
(* back-off of this attempt, which jitter may lengthen up to the maximum.   *)
Prescribed(wait) ==
  IF IsNumeric(exchange)
  THEN wait = exchange.retry_after.seconds
  ELSE Exponential <= wait /\ wait <= policy.max_delay

(* An operation reported as exhausted has spent its attempts, or was about  *)
(* to wait as the last exchange prescribes and what it had slept so far     *)
(* left too little of the delay budget for that very wait (no surrender on  *)
(* a wait that still fits, none for a wait nobody asked for).               *)
ExhaustedIsSpent ==
  pc = "failed" /\ failure.category = "retry_exhausted" =>
    \/ calls = policy.max_attempts
    \/ Prescribed(delay) /\ total_delay + delay > policy.max_total_delay

(* The failure a manifest keeps for a later recovery is retryable exactly   *)
(* when the provider's last answer was transient, but for a Retry-After     *)
(* int refuses.                                                             *)
VerdictIsRight ==
  pc = "failed" =>
    (failure.retryable <=>
       /\ IsTransient(exchange)
       /\ IsRateLimited(exchange) => exchange.retry_after.kind # "odd_digits")

-----------------------------------------------------------------------------
(* Refinement                                                              *)

(* A failure in hand that is not retryable has ended the operation already; *)
(* one that is retryable has not until the loop gives up.                   *)
Standing ==
  IF pc = "before_attempt" THEN IF attempt = 1 THEN "start" ELSE "backing_off"
  ELSE IF pc = "operation" THEN "calling"
  ELSE IF pc = "sleeping" THEN "backing_off"
  ELSE IF pc \in {"handling", "failed"} /\ ~failure.retryable THEN "permanent"
  ELSE IF pc = "handling" THEN "backing_off"
  ELSE IF pc = "failed" THEN "exhausted"
  ELSE pc

(* The loop's counter runs ahead while before_attempt is due or refuses;    *)
(* what raises may have come before the booking or after the call.          *)
AttemptsBooked ==
  IF pc \in {"before_attempt", "out_of_budget"} THEN attempt - 1
  ELSE IF pc = "raised" THEN calls
  ELSE attempt

Loop == INSTANCE Attempts WITH
  Ceiling      <- RequestLimit,
  at           <- Standing,
  attempt      <- AttemptsBooked,
  max_attempts <- policy.max_attempts,
  booked       <- reserved,
  made         <- calls

(* Under every policy, jitter and answer the loop is what Orchestrator      *)
(* assumes of it: it books and calls in turn, repeats a call only after a   *)
(* transient failure and within the policy's attempts, and ends as          *)
(* exhausted, permanent, refused or raised for the reason it says.          *)
ImplementsAttempts == Loop!Spec

-----------------------------------------------------------------------------
(* What documents say and the code does not do                             *)

(* "Retryable: ... HTTP 429, using numeric Retry-After when available"      *)
(* (Phase 4 notes): a rate limit is never recorded as permanent.            *)
RateLimitIsRetryable ==
  pc = "failed" /\ IsRateLimited(exchange) => failure.retryable

(* "Permanent: ... other unclassified HTTP failures" (Phase 4 notes): an    *)
(* answer that is neither a success nor transient fails the operation, not  *)
(* the run.                                                                 *)
OtherStatusesArePermanent ==
  pc = "raised" /\ exchange.kind = "response" => IsTransient(exchange)
=============================================================================
