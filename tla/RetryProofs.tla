---------------------------- MODULE RetryProofs -----------------------------
(***************************************************************************)
(* What holds of execute_with_retry for every retry policy, every source   *)
(* of jitter and every answer of the provider.                             *)
(***************************************************************************)
EXTENDS Retry, TLAPS

(* How a failure that reaches the handler came about.                       *)
Handled ==
  pc = "handling" =>
    /\ Get(exchange) # Returned
    /\ ValidDetail(ClassifyFailure(Get(exchange)))
    /\ failure = ClassifyFailure(Get(exchange))

(* What the program counter says of the counters.                           *)
Counted ==
  /\ pc \in {"before_attempt", "operation"} => calls = attempt - 1
  /\ pc = "operation" => earlier + calls + 1 <= reserved
  /\ pc \in {"handling", "sleeping"} => calls = attempt
  /\ pc = "sleeping" => attempt < policy.max_attempts
  /\ pc = "sleeping" => total_delay + delay <= policy.max_total_delay

(* How long the wait before the next call is.                               *)
IsDue(wait) ==
  IF IsNumeric(exchange)
  THEN wait = exchange.retry_after.seconds
  ELSE policy.base_delay <= wait /\ wait <= policy.max_delay

Timed ==
  /\ pc \in {"handling", "sleeping"} => waited = 0
  /\ pc = "sleeping" => IsTransient(exchange) /\ IsDue(delay)
  /\ pc \in {"before_attempt", "operation"} /\ calls > 0 =>
       IsTransient(exchange) /\ IsDue(waited)

IInv ==
  /\ TypeOK
  /\ Handled
  /\ Counted
  /\ Timed
  /\ WithinBudgets
  /\ ExhaustedIsSpent
  /\ VerdictIsRight

-----------------------------------------------------------------------------
(* Lemmas about classification and delays                                  *)

LEMMA HeaderFacts ==
  ASSUME NEW h \in RetryAfterHeader
  PROVE  /\ h.kind \in {"digits", "not_digits", "odd_digits"}
         /\ h.kind = "digits" => h.seconds \in Nat /\ h.seconds # None
<1>1. CASE h \in Digits
  <2>1. h.kind \in {"digits"} /\ h.seconds \in Seconds
    BY <1>1 DEF Digits
  <2>2. h.seconds \in Nat
    BY <2>1, SecondsAssumption
  <2>3. h.seconds # None
    BY <2>2, NoneAssumption
  <2> QED
    BY <2>1, <2>2, <2>3
<1>2. CASE h \notin Digits
  BY <1>2 DEF RetryAfterHeader
<1> QED
  BY <1>1, <1>2

(* The exchange an exception came from, read off the exception.             *)
LEMMA Classified ==
  ASSUME NEW e \in Exchange, Get(e) # Returned, ValidDetail(ClassifyFailure(Get(e)))
  PROVE  LET detail == ClassifyFailure(Get(e))
         IN /\ detail \in FailureDetail
            /\ detail.category # "retry_exhausted"
            /\ detail.retryable <=>
                 /\ IsTransient(e)
                 /\ IsRateLimited(e) => e.retry_after.kind # "odd_digits"
            /\ detail.retry_after_seconds # None <=> IsNumeric(e)
            /\ IsNumeric(e) => detail.retry_after_seconds = e.retry_after.seconds
<1> DEFINE error == Get(e)
           detail == ClassifyFailure(error)
<1> USE StatusesAssumption, SecondsAssumption, NoneAssumption
<1>1. CASE e.kind = "timeout"
  BY <1>1 DEF Exchange, Response, Get, Raises, ClassifyFailure, Detail, FailureDetail, HttpDetail,
       Categories, IsTransient, IsRateLimited, IsNumeric
<1>2. CASE e.kind = "request_error"
  BY <1>2 DEF Exchange, Response, Get, Raises, ClassifyFailure, Detail, FailureDetail, HttpDetail,
       Categories, IsTransient, IsRateLimited, IsNumeric
<1>3. CASE e.kind = "other_error"
  BY <1>3 DEF Exchange, Response, Get, Raises, ClassifyFailure, Detail, FailureDetail, HttpDetail,
       Categories, IsTransient, IsRateLimited, IsNumeric
<1>4. CASE e.kind = "response"
  <2>0. e \in Response
    BY <1>4 DEF Exchange
  <2>1. /\ e.status \in HttpStatuses
        /\ e.retry_after \in RetryAfterHeader
        /\ e.body \in Bodies
    BY <2>0 DEF Response
  <2>10. e.status \in 100..999
    BY <2>1
  <2>2. error = OfResponse(e)
    BY <1>4 DEF Get
  <2>3. CASE e.status \in 200..299
    <3>1. error = ParsePayload(e.body)
      BY <2>2, <2>3 DEF OfResponse
    <3>2. error = Raises("InvalidJson") \/ error = Raises("InvalidResponse")
      BY <2>1, <3>1 DEF ParsePayload, Bodies, Returned, Raises
    <3> QED
      BY <1>4, <2>1, <2>3, <3>2 DEF Raises, ClassifyFailure, Detail, HttpDetail,
           FailureDetail, Categories, IsTransient, IsRateLimited, IsNumeric
  <2>4. CASE e.status \in {401, 403}
    <3>1. error = Raises("Authentication")
      BY <2>2, <2>4 DEF OfResponse
    <3> QED
      BY <1>4, <2>4, <3>1 DEF Raises, ClassifyFailure, Detail, HttpDetail,
           FailureDetail, Categories, IsTransient, IsRateLimited, IsNumeric
  <2>5. CASE e.status = 404
    <3>1. error = Raises("RecordNotFound")
      BY <2>2, <2>5 DEF OfResponse
    <3> QED
      BY <1>4, <2>5, <3>1 DEF Raises, ClassifyFailure, Detail, HttpDetail,
           FailureDetail, Categories, IsTransient, IsRateLimited, IsNumeric
  <2>6. CASE e.status = 429
    <3>1. error = RateLimited(e.retry_after)
      BY <2>2, <2>6 DEF OfResponse
    <3>2. CASE e.retry_after.kind = "digits"
      <4>1. e.retry_after.seconds \in Nat /\ e.retry_after.seconds # None
        BY <2>1, <3>2, HeaderFacts
      <4>2. /\ error.class = "RateLimit"
            /\ error.retry_after_seconds = e.retry_after.seconds
        BY <3>1, <3>2 DEF RateLimited
      <4> QED
        BY <1>4, <2>6, <3>2, <4>1, <4>2 DEF ClassifyFailure, Detail, HttpDetail,
             FailureDetail, Categories, IsTransient, IsRateLimited, IsNumeric
    <3>3. CASE e.retry_after.kind = "not_digits"
      <4>1. error.class = "RateLimit" /\ error.retry_after_seconds = None
        BY <3>1, <3>3 DEF RateLimited
      <4> QED
        BY <1>4, <2>6, <3>3, <4>1 DEF ClassifyFailure, Detail, HttpDetail,
             FailureDetail, Categories, IsTransient, IsRateLimited, IsNumeric
    <3>4. CASE e.retry_after.kind = "odd_digits"
      <4>1. error = Raises("ValueError")
        BY <3>1, <3>4 DEF RateLimited
      <4> QED
        BY <1>4, <2>6, <3>4, <4>1 DEF Raises, ClassifyFailure, Detail, HttpDetail,
             FailureDetail, Categories, IsTransient, IsRateLimited, IsNumeric
    <3> QED
      BY <2>1, <3>2, <3>3, <3>4, HeaderFacts
  <2>7. CASE ~(\/ e.status \in 200..299
               \/ e.status \in {401, 403}
               \/ e.status = 404
               \/ e.status = 429)
    <3>1. error.class = "HttpStatus" /\ error.status_code = e.status
      BY <2>2, <2>7 DEF OfResponse
    <3>2. CASE e.status \in 500..599
      BY <1>4, <2>7, <3>1, <3>2 DEF ClassifyFailure, ServerErrors, Detail, HttpDetail,
           FailureDetail, Categories, IsTransient, IsRateLimited, IsNumeric
    <3>3. CASE e.status \notin 500..599
      <4>1. /\ detail.status_code = e.status
            /\ detail.category = "unknown" /\ detail.retryable = FALSE
            /\ detail.retry_after_seconds = None
            /\ detail = [category |-> "unknown", retryable |-> FALSE,
                         status_code |-> e.status, retry_after_seconds |-> None]
        BY <3>1, <3>3 DEF ClassifyFailure, ServerErrors, Detail, HttpDetail
      <4>2. e.status \in 100..599
        BY <2>10, <4>1 DEF ValidDetail
      <4> QED
        BY <1>4, <2>7, <3>3, <4>1, <4>2 DEF FailureDetail, Categories,
             IsTransient, IsRateLimited, IsNumeric
    <3> QED
      BY <3>2, <3>3
  <2> QED
    BY <2>3, <2>4, <2>5, <2>6, <2>7
<1> QED
  BY <1>1, <1>2, <1>3, <1>4 DEF Exchange, Response

(* What a retry policy and a type-correct state give to reason with.        *)
LEMMA PolicyFacts ==
  ASSUME TypeOK
  PROVE  /\ policy.max_attempts \in 1..5
         /\ policy.base_delay \in Nat
         /\ policy.max_delay \in Nat
         /\ policy.base_delay <= policy.max_delay
         /\ policy.max_total_delay \in Nat
         /\ policy.jitter_ratio \in 0..100
         /\ attempt \in 1..5
BY PoliciesAssumption DEF TypeOK, RetryPolicy, ValidPolicy

(* A capped exponential delay lies between the base and the maximum.        *)
LEMMA ExponentialBounds ==
  ASSUME TypeOK
  PROVE  /\ Exponential \in Nat
         /\ policy.base_delay <= Exponential
         /\ Exponential <= policy.max_delay
<1>1. Growth[attempt] \in {1, 2, 4, 8, 16}
  BY PolicyFacts DEF Growth
<1> DEFINE b == policy.base_delay
           g == Growth[attempt]
<1>2. b * g \in Nat /\ b <= b * g
  <2>1. b \in Nat
    BY PolicyFacts
  <2> QED
    BY <1>1, <2>1
<1> QED
  BY <1>2, PolicyFacts DEF Exponential, Least

(* Jitter only lengthens a delay, and not past the maximum.                 *)
LEMMA JitterBounds ==
  ASSUME TypeOK, NEW fraction \in 0..100
  PROVE  /\ Jittered(fraction) \in Nat
         /\ policy.base_delay <= Jittered(fraction)
         /\ Exponential <= Jittered(fraction)
         /\ Jittered(fraction) <= policy.max_delay
<1> DEFINE x == Exponential
           k == policy.jitter_ratio * fraction
           q == (x * (10000 + k)) \div 10000
<1>1. x \in Nat /\ k \in Nat
  BY ExponentialBounds, PolicyFacts
<1>2. x * (10000 + k) = 10000 * x + x * k /\ x * k \in Nat
  BY <1>1
<1>3. q \in Nat /\ x <= q
  <2> DEFINE y == x * k
  <2>1. y \in Nat /\ q = (10000 * x + y) \div 10000
    BY <1>2
  <2> HIDE DEF y, x, q
  <2> QED
    BY <1>1, <2>1
<1>4. Jittered(fraction) = Least(policy.max_delay, q)
  BY DEF Jittered
<1> HIDE DEF x, k, q
<1> QED
  <2>1. policy.base_delay <= x /\ x <= policy.max_delay /\ x = Exponential
    BY ExponentialBounds DEF x
  <2> QED
    BY <1>1, <1>3, <1>4, <2>1, PolicyFacts DEF Least

-----------------------------------------------------------------------------
(* The inductive invariant                                                 *)

(* What the handler may rely on.                                            *)
LEMMA Provenance ==
  ASSUME IInv, pc = "handling"
  PROVE  /\ failure.category # "retry_exhausted"
         /\ failure.retryable \in BOOLEAN
         /\ failure.retryable <=>
              /\ IsTransient(exchange)
              /\ IsRateLimited(exchange) =>
                   exchange.retry_after.kind # "odd_digits"
         /\ failure.retry_after_seconds # None <=> IsNumeric(exchange)
         /\ IsNumeric(exchange) =>
              failure.retry_after_seconds = exchange.retry_after.seconds
<1>1. /\ exchange \in Exchange
      /\ Get(exchange) # Returned
      /\ ValidDetail(ClassifyFailure(Get(exchange)))
      /\ failure = ClassifyFailure(Get(exchange))
      /\ failure \in FailureDetail
  BY DEF IInv, TypeOK, Handled
<1>2. failure.retryable \in BOOLEAN
  BY <1>1 DEF FailureDetail
<1> QED
  BY <1>1, <1>2, Classified

LEMMA InitIsGood == Init => IInv
<1> SUFFICES ASSUME Init PROVE IInv
  OBVIOUS
<1>1. policy.max_attempts \in 1..5 /\ policy.max_total_delay \in Nat
  BY PoliciesAssumption DEF Init, RetryPolicy, ValidPolicy
<1>2. NoFailure \in FailureDetail /\ exchange \in Exchange
  BY DEF Init, NoFailure, Detail, HttpDetail, FailureDetail, Categories, Exchange
<1>3. TypeOK
  BY <1>1, <1>2, RequestLimitAssumption DEF Init, TypeOK, Points
<1> QED
  BY <1>1, <1>3, RequestLimitAssumption DEF Init, IInv, Handled, Counted,
       Timed, WithinBudgets, ExhaustedIsSpent, VerdictIsRight

LEMMA ReserveKeeps == IInv /\ ReserveAttempt => IInv'
<1> SUFFICES ASSUME IInv, ReserveAttempt PROVE IInv'
  OBVIOUS
<1> USE DEF IInv
<1>1. PICK p \in {"out_of_budget", "operation", "raised"} :
        /\ pc' = p
        /\ reserved' \in {reserved, reserved + 1}
        /\ p = "operation" => reserved' = reserved + 1
        /\ reserved' <= RequestLimit
  BY RequestLimitAssumption DEF ReserveAttempt, TypeOK
<1>2. /\ UNCHANGED <<policy, earlier, attempt, total_delay, failure, delay,
                     calls, exchange, waited>>
      /\ pc = "before_attempt"
  BY DEF ReserveAttempt
<1>3. TypeOK'
  BY <1>1, <1>2, RequestLimitAssumption DEF TypeOK, Points, Left
<1>4. Handled'
  BY <1>1 DEF Handled
<1>5. Counted' /\ WithinBudgets'
  BY <1>1, <1>2, RequestLimitAssumption DEF Counted, WithinBudgets, TypeOK
<1>6. Timed'
  BY <1>1, <1>2 DEF Timed, IsDue
<1>7. ExhaustedIsSpent' /\ VerdictIsRight'
  BY <1>1 DEF ExhaustedIsSpent, VerdictIsRight
<1> QED
  BY <1>3, <1>4, <1>5, <1>6, <1>7

LEMMA OperateKeeps == IInv /\ Operate => IInv'
<1> SUFFICES ASSUME IInv, Operate PROVE IInv'
  OBVIOUS
<1> USE DEF IInv
<1>1. /\ pc = "operation"
      /\ exchange' \in Exchange
      /\ calls' = calls + 1
      /\ waited' = 0
      /\ UNCHANGED <<policy, earlier, attempt, total_delay, delay, reserved>>
  BY DEF Operate
<1>2. \/ pc' \in {"returned", "raised"} /\ failure' = failure
      \/ /\ pc' = "handling"
         /\ Get(exchange') # Returned
         /\ ValidDetail(ClassifyFailure(Get(exchange')))
         /\ failure' = ClassifyFailure(Get(exchange'))
  BY DEF Operate
<1>3. pc' = "handling" => failure' \in FailureDetail
  BY <1>1, <1>2, Classified
<1>4. TypeOK'
  BY <1>1, <1>2, <1>3 DEF TypeOK, Points, Left
<1>5. Handled'
  BY <1>2 DEF Handled
<1>6. Counted'
  BY <1>1, <1>2, PolicyFacts DEF Counted, TypeOK
<1>7. WithinBudgets'
  BY <1>1, PolicyFacts, RequestLimitAssumption DEF WithinBudgets, Counted, TypeOK
<1>8. Timed' /\ ExhaustedIsSpent' /\ VerdictIsRight'
  BY <1>1, <1>2 DEF Timed, ExhaustedIsSpent, VerdictIsRight
<1> QED
  BY <1>4, <1>5, <1>6, <1>7, <1>8

LEMMA GiveUpKeeps == IInv /\ GiveUp => IInv'
<1> SUFFICES ASSUME IInv, GiveUp PROVE IInv'
  OBVIOUS
<1> USE DEF IInv
<1>1. /\ pc = "handling"
      /\ pc' = "failed"
      /\ UNCHANGED <<policy, earlier, attempt, total_delay, delay, reserved,
                     calls, exchange, waited>>
  BY DEF GiveUp, Fails
<1>2. failure.retryable => attempt = policy.max_attempts
  BY PolicyFacts DEF GiveUp, CanRetry, TypeOK
<1>3. failure' = IF failure.retryable THEN RetryExhausted ELSE failure
  BY DEF GiveUp, Fails
<1>4. failure' \in FailureDetail
  BY <1>3 DEF RetryExhausted, Detail, HttpDetail, FailureDetail, Categories, TypeOK
<1>5. TypeOK'
  BY <1>1, <1>4 DEF TypeOK, Points, Left
<1>6. failure.category = "retry_exhausted" => FALSE
  BY <1>1, Provenance
<1>7. CASE failure.retryable
  <2>1. /\ failure'.category = "retry_exhausted"
        /\ failure'.retryable = TRUE
    BY <1>3, <1>7 DEF RetryExhausted, Detail, HttpDetail
  <2> QED
    BY <1>1, <1>2, <1>5, <1>7, <2>1, Provenance
       DEF Handled, Counted, Timed, WithinBudgets, ExhaustedIsSpent, VerdictIsRight
<1>8. CASE ~failure.retryable
  BY <1>1, <1>3, <1>5, <1>6, <1>8, Provenance
     DEF Handled, Counted, Timed, WithinBudgets, ExhaustedIsSpent, VerdictIsRight
<1> QED
  BY <1>7, <1>8

LEMMA ChooseDelayKeeps == IInv /\ ChooseDelay => IInv'
<1> SUFFICES ASSUME IInv, ChooseDelay PROVE IInv'
  OBVIOUS
<1> USE DEF IInv
<1>1. /\ pc = "handling"
      /\ UNCHANGED <<policy, earlier, attempt, total_delay, reserved, calls,
                     exchange, waited>>
  BY DEF ChooseDelay
<1>2. failure.retryable /\ attempt < policy.max_attempts
  BY DEF ChooseDelay, CanRetry
<1>3. IsTransient(exchange)
  BY <1>1, <1>2, Provenance
<1>4. CASE pc' = "raised" /\ UNCHANGED <<failure, delay>>
  <2>1. TypeOK'
    BY <1>1, <1>4 DEF TypeOK, Points, Left
  <2> QED
    BY <1>1, <1>4, <2>1
       DEF Handled, Counted, Timed, WithinBudgets, ExhaustedIsSpent, VerdictIsRight
<1>5. ASSUME NEW wait \in RetryDelays,
             delay' = wait,
             IF OverBudget(wait)
             THEN Fails(RetryExhausted)
             ELSE pc' = "sleeping" /\ UNCHANGED failure
      PROVE  IInv'
  <2>1. wait \in Nat /\ IsDue(wait) /\ Prescribed(wait)
    <3>1. CASE failure.retry_after_seconds # None
      <4>1. /\ wait = failure.retry_after_seconds
            /\ wait \in 0..(FloatLimit - 1)
        BY <1>5, <3>1 DEF RetryDelays
      <4>2. IsNumeric(exchange) /\ wait = exchange.retry_after.seconds
        BY <1>1, <3>1, <4>1, Provenance
      <4> QED
        BY <4>1, <4>2, FloatLimitAssumption DEF IsDue, Prescribed
    <3>2. CASE failure.retry_after_seconds = None
      <4>1. PICK fraction \in Fractions \cap 0..100 : wait = Jittered(fraction)
        BY <1>5, <3>2 DEF RetryDelays
      <4>2. ~IsNumeric(exchange)
        BY <1>1, <3>2, Provenance
      <4> QED
        BY <4>1, <4>2, JitterBounds DEF IsDue, Prescribed
    <3> QED
      BY <3>1, <3>2
  <2>2. CASE OverBudget(wait)
    <3>1. /\ pc' = "failed"
          /\ failure' = RetryExhausted
          /\ total_delay + wait > policy.max_total_delay
      BY <1>5, <2>2 DEF Fails, OverBudget
    <3>2. /\ failure'.category = "retry_exhausted"
          /\ failure'.retryable = TRUE
          /\ failure' \in FailureDetail
      BY <3>1 DEF RetryExhausted, Detail, HttpDetail, FailureDetail, Categories
    <3>3. TypeOK'
      BY <1>1, <1>5, <2>1, <3>1, <3>2 DEF TypeOK, Points, Left
    <3>4. ExhaustedIsSpent'
      <4>1. Prescribed(delay)'
        BY <1>1, <1>5, <2>1 DEF Prescribed, Exponential, IsNumeric, IsRateLimited
      <4>2. total_delay' + delay' > policy'.max_total_delay
        BY <1>1, <1>5, <3>1
      <4> QED
        BY <4>1, <4>2 DEF ExhaustedIsSpent
    <3>5. VerdictIsRight'
      BY <1>1, <1>2, <3>1, <3>2, Provenance DEF VerdictIsRight
    <3> QED
      BY <1>1, <3>1, <3>2, <3>3, <3>4, <3>5
         DEF Handled, Counted, Timed, WithinBudgets
  <2>3. CASE ~OverBudget(wait)
    <3>1. /\ pc' = "sleeping"
          /\ failure' = failure
          /\ total_delay + wait <= policy.max_total_delay
      BY <1>5, <2>1, <2>3, PolicyFacts DEF OverBudget, TypeOK
    <3>2. TypeOK'
      BY <1>1, <1>5, <2>1, <3>1 DEF TypeOK, Points
    <3>3. Timed' /\ Counted'
      BY <1>1, <1>2, <1>3, <1>5, <2>1, <3>1 DEF Timed, Counted, IsDue
    <3> QED
      BY <1>1, <3>1, <3>2, <3>3
         DEF Handled, WithinBudgets, ExhaustedIsSpent, VerdictIsRight
  <2> QED
    BY <2>2, <2>3
<1> QED
  BY <1>4, <1>5 DEF ChooseDelay

LEMMA SleepKeeps == IInv /\ Sleep => IInv'
<1> SUFFICES ASSUME IInv, Sleep PROVE IInv'
  OBVIOUS
<1> USE DEF IInv
<1>1. /\ pc = "sleeping"
      /\ pc' = "before_attempt"
      /\ total_delay' = total_delay + delay
      /\ waited' = waited + delay
      /\ attempt' = attempt + 1
      /\ UNCHANGED <<policy, earlier, failure, delay, reserved, calls, exchange>>
  BY DEF Sleep
<1>2. TypeOK'
  BY <1>1, PolicyFacts DEF TypeOK, Points, Counted
<1>3. Counted' /\ WithinBudgets'
  BY <1>1, PolicyFacts DEF Counted, WithinBudgets, TypeOK
<1>4. waited' = delay
  BY <1>1 DEF Timed, TypeOK
<1>5. Timed'
  BY <1>1, <1>4 DEF Timed, IsDue
<1> QED
  BY <1>1, <1>2, <1>3, <1>5 DEF Handled, ExhaustedIsSpent, VerdictIsRight

LEMMA NextKeeps == IInv /\ [Next]_vars => IInv'
<1> SUFFICES ASSUME IInv, [Next]_vars PROVE IInv'
  OBVIOUS
<1>1. CASE UNCHANGED vars
  BY <1>1 DEF vars, IInv, TypeOK, Handled, Counted, Timed, IsDue, Prescribed,
       Exponential, WithinBudgets, ExhaustedIsSpent, VerdictIsRight
<1> QED
  BY <1>1, ReserveKeeps, OperateKeeps, GiveUpKeeps, ChooseDelayKeeps, SleepKeeps
     DEF Next, Attempt, Finished

LEMMA Invariance == Spec => []IInv
BY InitIsGood, NextKeeps, PTL DEF Spec

-----------------------------------------------------------------------------
(* Theorems                                                                *)

(* The loop's variables keep their types under every policy.                *)
THEOREM TypeCorrect == Spec => []TypeOK
<1>1. IInv => TypeOK
  BY DEF IInv
<1> QED
  BY <1>1, Invariance, PTL

(* No operation exceeds its attempts, its delay budget or the run's         *)
(* ceiling, or calls the provider without a reservation.                    *)
THEOREM BudgetsAreKept == Spec => []WithinBudgets
<1>1. IInv => WithinBudgets
  BY DEF IInv
<1> QED
  BY <1>1, Invariance, PTL

(* An operation is reported as exhausted only when its attempts are spent,  *)
(* or its delay budget is too small for the wait it was about to make,      *)
(* which is the one the last exchange prescribes.                           *)
THEOREM ExhaustionIsHonest == Spec => []ExhaustedIsSpent
<1>1. IInv => ExhaustedIsSpent
  BY DEF IInv
<1> QED
  BY <1>1, Invariance, PTL

(* The verdict kept for recovery is the one the provider's last answer      *)
(* deserves, for every status code and header.                              *)
THEOREM VerdictsAreRight == Spec => []VerdictIsRight
<1>1. IInv => VerdictIsRight
  BY DEF IInv
<1> QED
  BY <1>1, Invariance, PTL

(* Every repeated call follows a transient failure and a wait that was due. *)
THEOREM RetriesComeWhenDue == Spec => RetriesAreDue
<1> DEFINE Due ==
      calls' > calls /\ calls > 0 =>
        /\ IsTransient(exchange)
        /\ IF IsNumeric(exchange)
           THEN waited >= exchange.retry_after.seconds
           ELSE waited >= policy.base_delay
<1>1. ASSUME IInv, [Next]_vars PROVE Due
  <2> USE DEF IInv
  <2>1. SUFFICES ASSUME calls' > calls, calls > 0 PROVE Due
    OBVIOUS
  <2>2. pc = "operation"
    BY <1>1, <2>1 DEF Next, Attempt, Finished, ReserveAttempt, GiveUp,
         ChooseDelay, Sleep, Operate, vars, TypeOK
  <2>3. IsTransient(exchange) /\ IsDue(waited)
    BY <1>1, <2>1, <2>2 DEF Timed
  <2> QED
    BY <1>1, <2>3, PolicyFacts DEF IsDue, TypeOK
<1>2. IInv /\ [Next]_vars => [Due]_vars
  BY <1>1
<1> QED
  BY <1>2, Invariance, PTL DEF Spec, RetriesAreDue

-----------------------------------------------------------------------------
(* Refinement                                                              *)

(* Where the abstract loop is, read off the detailed one.                   *)
LEMMA StandingIs ==
  ASSUME IInv
  PROVE  /\ pc = "before_attempt" =>
              /\ Standing \in {"start", "backing_off"}
              /\ AttemptsBooked = attempt - 1
              /\ AttemptsBooked = calls
         /\ pc = "operation" => Standing = "calling" /\ AttemptsBooked = attempt
         /\ pc = "handling" /\ failure.retryable =>
              Standing = "backing_off" /\ AttemptsBooked = attempt
BY DEF Standing, AttemptsBooked, IInv, Counted

(* The detailed loop starts as the abstract one does.                       *)
LEMMA StartsAsLoop == Init => Loop!Init
<1> SUFFICES ASSUME Init PROVE Loop!Init
  OBVIOUS
<1>1. IInv
  BY InitIsGood
<1>2. policy.max_attempts \in Nat \ {0}
  BY <1>1, PolicyFacts DEF IInv
<1>3. Standing = "start" /\ AttemptsBooked = 0 /\ calls = 0
  BY DEF Init, Standing, AttemptsBooked
<1> QED
  BY <1>2, <1>3 DEF Init, Loop!Init

(* before_attempt books, refuses or raises.                                 *)
LEMMA ReserveRefines ==
  ASSUME IInv, IInv', ReserveAttempt
  PROVE  Loop!Book \/ Loop!Refuse \/ Loop!BookFails
<1>1. /\ pc = "before_attempt"
      /\ UNCHANGED <<policy, earlier, attempt, total_delay, failure, delay,
                     calls, exchange, waited>>
  BY DEF ReserveAttempt
<1>2. /\ AttemptsBooked = attempt - 1
      /\ AttemptsBooked = calls
      /\ attempt \in Nat
      /\ attempt - 1 < policy.max_attempts
  BY <1>1, StandingIs, PolicyFacts DEF IInv, TypeOK, Counted
<1>3. Standing \in {"start", "backing_off"}
  BY <1>1, StandingIs
<1>4. Loop!MayBook
  BY <1>1, <1>2, <1>3 DEF Loop!MayBook
<1>5. reserved \in 0..RequestLimit /\ reserved' \in 0..RequestLimit
  BY DEF IInv, TypeOK
<1>6. CASE reserved >= RequestLimit
  <2>1. pc' = "out_of_budget" /\ reserved' = reserved
    BY <1>6 DEF ReserveAttempt
  <2>2. Standing' = "out_of_budget" /\ AttemptsBooked' = AttemptsBooked
    BY <1>1, <1>2, <2>1 DEF Standing, AttemptsBooked
  <2> QED
    BY <1>4, <1>6, <2>1, <2>2 DEF Loop!Refuse
<1>7. CASE ~(reserved >= RequestLimit)
  <2>1. reserved < RequestLimit
    BY <1>5, <1>7, RequestLimitAssumption
  <2>2. CASE pc' = "operation" /\ reserved' = reserved + 1
    <3>1. Standing' = "calling" /\ AttemptsBooked' = AttemptsBooked + 1
      BY <1>1, <1>2, <2>2 DEF Standing, AttemptsBooked
    <3> QED
      BY <1>4, <2>1, <2>2, <3>1 DEF Loop!Book
  <2>3. CASE pc' = "raised" /\ reserved' \in {reserved, reserved + 1}
    <3>1. Standing' = "raised" /\ AttemptsBooked' = AttemptsBooked
      BY <1>1, <1>2, <2>3 DEF Standing, AttemptsBooked
    <3> QED
      BY <1>4, <1>5, <2>3, <3>1 DEF Loop!BookFails
  <2> QED
    BY <1>7, <2>2, <2>3 DEF ReserveAttempt
<1> QED
  BY <1>6, <1>7

(* A call ends the operation or leads to the handler.                       *)
LEMMA OperateRefines ==
  ASSUME IInv, IInv', Operate
  PROVE  Loop!Call
<1>1. /\ pc = "operation"
      /\ calls' = calls + 1
      /\ UNCHANGED <<policy, attempt, reserved>>
      /\ pc' \in {"returned", "raised", "handling"}
  BY DEF Operate
<1>2. Standing = "calling" /\ AttemptsBooked = attempt
  BY <1>1, StandingIs
<1>3. calls' = attempt
  BY <1>1, PolicyFacts DEF IInv, Counted, TypeOK
<1>4. AttemptsBooked' = attempt
  BY <1>1, <1>3 DEF AttemptsBooked
<1>5. Standing' \in {"returned", "permanent", "backing_off", "raised"}
  BY <1>1 DEF Standing
<1> QED
  BY <1>1, <1>2, <1>4, <1>5 DEF Loop!Call

(* The handler's own steps: what it gives up as exhausted was transient.    *)
LEMMA HandlerRefines ==
  ASSUME IInv, IInv', GiveUp \/ ChooseDelay \/ Sleep
  PROVE  Loop!GiveUp \/ UNCHANGED Loop!vars
<1>1. UNCHANGED <<policy, reserved, calls>>
  BY DEF GiveUp, ChooseDelay, Sleep
<1>2. failure.retryable \in BOOLEAN
  BY DEF IInv, TypeOK, FailureDetail
<1>3. RetryExhausted.retryable = TRUE
  BY DEF RetryExhausted, Detail, HttpDetail
<1>4. CASE GiveUp
  <2>1. /\ pc = "handling"
        /\ pc' = "failed"
        /\ UNCHANGED attempt
        /\ failure' = IF failure.retryable THEN RetryExhausted ELSE failure
    BY <1>4 DEF GiveUp, Fails
  <2>2. AttemptsBooked' = AttemptsBooked
    BY <2>1 DEF AttemptsBooked
  <2>3. CASE failure.retryable
    <3>1. Standing = "backing_off" /\ Standing' = "exhausted"
      BY <1>3, <2>1, <2>3 DEF Standing
    <3> QED
      BY <1>1, <2>2, <3>1 DEF Loop!GiveUp
  <2>4. CASE ~failure.retryable
    <3>1. Standing = "permanent" /\ Standing' = "permanent"
      BY <2>1, <2>4 DEF Standing
    <3> QED
      BY <1>1, <2>2, <3>1 DEF Loop!vars
  <2> QED
    BY <2>3, <2>4
<1>5. CASE ChooseDelay
  <2>1. pc = "handling" /\ failure.retryable /\ UNCHANGED attempt
    BY <1>5 DEF ChooseDelay, CanRetry
  <2>2. Standing = "backing_off" /\ AttemptsBooked = attempt /\ calls = attempt
    BY <2>1, StandingIs DEF IInv, Counted
  <2>3. \/ pc' = "raised"
        \/ pc' = "failed" /\ failure' = RetryExhausted
        \/ pc' = "sleeping" /\ failure' = failure
    BY <1>5 DEF ChooseDelay, Fails
  <2>4. AttemptsBooked' = attempt
    BY <1>1, <2>1, <2>2, <2>3 DEF AttemptsBooked
  <2>5. Standing' \in {"exhausted", "raised", "backing_off"}
    BY <1>3, <2>3 DEF Standing
  <2> QED
    BY <1>1, <2>2, <2>4, <2>5 DEF Loop!GiveUp, Loop!vars
<1>6. CASE Sleep
  <2>1. pc = "sleeping" /\ pc' = "before_attempt" /\ attempt' = attempt + 1
    BY <1>6 DEF Sleep
  <2>2. attempt \in Nat \ {0}
    BY PolicyFacts DEF IInv
  <2>3. AttemptsBooked' = AttemptsBooked
    BY <2>1, <2>2 DEF AttemptsBooked
  <2>4. Standing = "backing_off" /\ Standing' = "backing_off"
    BY <2>1, <2>2 DEF Standing
  <2> QED
    BY <1>1, <2>3, <2>4 DEF Loop!vars
<1> QED
  BY <1>4, <1>5, <1>6

LEMMA StepsAsLoop ==
  ASSUME IInv, IInv', [Next]_vars
  PROVE  [Loop!Next]_(Loop!vars)
<1>1. CASE UNCHANGED vars
  BY <1>1 DEF vars, Loop!vars, Standing, AttemptsBooked
<1>2. CASE Next
  BY <1>1, <1>2, ReserveRefines, OperateRefines, HandlerRefines
     DEF Next, Attempt, Finished, Loop!Next
<1> QED
  BY <1>1, <1>2

(* The loop is what the orchestrator takes it for, whatever the policy.     *)
THEOREM ImplementsTheLoop == Spec => ImplementsAttempts
<1>1. IInv /\ IInv' /\ [Next]_vars => [Loop!Next]_(Loop!vars)
  BY StepsAsLoop
<1> QED
  BY StartsAsLoop, <1>1, Invariance, PTL DEF Spec, Loop!Spec, ImplementsAttempts
=============================================================================
