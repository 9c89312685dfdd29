-------------------------- MODULE SAPClientProofs --------------------------
(***************************************************************************)
(* SAPClient for any number of callers, any threshold and any number of    *)
(* retries, in sandbox mode or not, with OAuth2 or not.                    *)
(***************************************************************************)
EXTENDS SAPClient, FiniteSetTheorems, TLAPS

USE ThresholdAssumption, RetriesAssumption, ModeAssumption, BudgetAssumption

(* What an answer does to the counters.                                     *)
LEMMA FailureEffect ==
  ASSUME NEW m \in Metrics, NEW type \in ErrorTypes
  PROVE  /\ Failure(m, type) \in Metrics
         /\ Failure(m, type).total = m.total + 1
         /\ Failure(m, type).successful = m.successful
         /\ Failure(m, type).failed = m.failed + 1
         /\ Failure(m, type).errors = [m.errors EXCEPT ![type] = @ + 1]
  BY DEF Failure, Metrics

LEMMA SuccessEffect ==
  ASSUME NEW m \in Metrics
  PROVE  /\ Success(m) \in Metrics
         /\ Success(m).total = m.total + 1
         /\ Success(m).successful = m.successful + 1
         /\ Success(m).failed = m.failed
         /\ Success(m).errors = m.errors
  BY DEF Success, Metrics

LEMMA IdleCall == Idle \in Call /\ CallInOrder(Idle)
  BY DEF Idle, Call, CallInOrder

(* A call that is about to send.                                            *)
LEMMA SendingEffect ==
  ASSUME NEW k \in Call
  PROVE  /\ Sending(k) \in Call
         /\ Sending(k).pc = "sent"
         /\ Sending(k).attempt = k.attempt
         /\ Sending(k).outer = k.outer
         /\ Sending(k).retried = k.retried
         /\ Sending(k).sent <= k.sent + 1
<1> DEFINE n == IF k.sent > SendLimit THEN k.sent ELSE k.sent + 1
<1>1. n \in Nat /\ n <= k.sent + 1
  BY DEF Call, SendLimit
<1>2. Sending(k) = [k EXCEPT !.pc = "sent", !.sent = n]
  BY DEF Sending
<1> HIDE DEF n
<1>3. QED
  BY <1>1, <1>2 DEF Call

(* A call that has just passed the breaker.                                 *)
LEMMA EnteredEffect ==
  ASSUME NEW k \in Call, fresh \in BOOLEAN
  PROVE  /\ Entered(k) \in Call
         /\ Entered(k).pc \in {"auth", "sent"}
         /\ Entered(k).attempt = k.attempt
         /\ Entered(k).outer = k.outer
         /\ Entered(k).retried = k.retried
         /\ Entered(k).pc = "auth" => Entered(k).sent = k.sent
         /\ Entered(k).sent <= k.sent + 1
<1>1. CASE UseOAuth /\ ~ fresh
  <2>1. Entered(k) = [k EXCEPT !.pc = "auth"]
    BY <1>1 DEF Entered
  <2>2. QED
    BY <2>1 DEF Call
<1>2. CASE ~ (UseOAuth /\ ~ fresh)
  <2>1. Entered(k) = Sending(k)
    BY <1>2 DEF Entered
  <2>2. QED
    BY <2>1, SendingEffect DEF Call
<1>3. QED
  BY <1>1, <1>2

-----------------------------------------------------------------------------
(* Calls.                                                                   *)

AllInOrder == \A c \in Callers : CallInOrder(call[c])

LEMMA Parts ==
  ASSUME Consistent
  PROVE  TypeOK /\ BreakerCounts /\ MetricsAddUp /\ AllInOrder
  BY DEF Consistent, AllInOrder

LEMMA SetInOrder ==
  ASSUME TypeOK, AllInOrder, NEW c \in Callers, NEW k \in Call, CallInOrder(k), Set(c, k)
  PROVE  call' \in [Callers -> Call] /\ AllInOrder'
  BY DEF TypeOK, Set, AllInOrder, CallInOrder

(* A call that enters the request anew, from scratch or after a 403.        *)
LEMMA EnteredInOrder ==
  ASSUME TypeOK, NEW k \in Call, k.attempt = 0, k.outer <= MaxRetries,
         k.sent <= (IF k.retried THEN k.outer + 1 ELSE 0)
  PROVE  Entered(k) \in Call /\ CallInOrder(Entered(k))
<1>1. k.outer \in Nat /\ k.sent \in Nat /\ Entered(k).sent \in Nat
  BY EnteredEffect DEF Call, TypeOK
<1>2. QED
  BY <1>1, EnteredEffect DEF TypeOK, CallInOrder

(* The call a 403 leads to.                                                 *)
Recursing(k) == [k EXCEPT !.retried = TRUE, !.outer = k.attempt, !.attempt = 0]

LEMMA RecursingInOrder ==
  ASSUME TypeOK, NEW k \in Call, CallInOrder(k), k.pc = "sent", ~ k.retried
  PROVE  Entered(Recursing(k)) \in Call /\ CallInOrder(Entered(Recursing(k)))
<1>1. /\ Recursing(k) \in Call /\ Recursing(k).attempt = 0
      /\ Recursing(k).outer = k.attempt /\ Recursing(k).retried
      /\ Recursing(k).sent = k.sent
  BY DEF Recursing, Call
<1>2. k.attempt <= MaxRetries /\ k.sent <= k.attempt + 1
  BY DEF Call, CallInOrder
<1>3. QED
  BY <1>1, <1>2, EnteredInOrder

(* The call that goes back to the outer loop when the token fails.          *)
Returning(k) == [k EXCEPT !.attempt = k.outer, !.retried = FALSE]

LEMMA ReturningInOrder ==
  ASSUME NEW k \in Call, CallInOrder(k), k.pc = "auth", k.retried
  PROVE  /\ Returning(k) \in Call
         /\ Returning(k).attempt <= MaxRetries
         /\ Returning(k).outer <= MaxRetries
         /\ ~ Returning(k).retried
         /\ Returning(k).sent <= Returning(k).attempt + 1
  BY DEF Returning, Call, CallInOrder

LEMMA BackoffInOrder ==
  ASSUME NEW k \in Call, k.attempt < MaxRetries, k.outer <= MaxRetries,
         k.sent <= k.attempt + 1 + (IF k.retried THEN k.outer + 1 ELSE 0)
  PROVE  [k EXCEPT !.pc = "backoff"] \in Call /\ CallInOrder([k EXCEPT !.pc = "backoff"])
<1> DEFINE b == [k EXCEPT !.pc = "backoff"]
<1>1. /\ b \in Call /\ b.pc = "backoff" /\ b.attempt = k.attempt
      /\ b.outer = k.outer /\ b.retried = k.retried /\ b.sent = k.sent
  BY DEF Call
<1>2. k.attempt \in Nat
  BY DEF Call
<1> HIDE DEF b
<1>3. CallInOrder(b)
  BY <1>1, <1>2 DEF CallInOrder
<1>4. QED
  BY <1>1, <1>3 DEF b

LEMMA RetryInOrder ==
  ASSUME TypeOK, AllInOrder, NEW c \in Callers, NEW k \in Call, RetryOrGiveUp(c, k),
         k.attempt <= MaxRetries, k.outer <= MaxRetries,
         k.sent <= k.attempt + 1 + (IF k.retried THEN k.outer + 1 ELSE 0)
  PROVE  call' \in [Callers -> Call] /\ AllInOrder'
<1>1. CASE RetriesLeft(k)
  <2>1. Set(c, [k EXCEPT !.pc = "backoff"])
    BY <1>1 DEF RetryOrGiveUp
  <2>2. QED
    BY <1>1, <2>1, BackoffInOrder, SetInOrder DEF RetriesLeft
<1>2. CASE ~ RetriesLeft(k)
  <2>1. Set(c, Idle)
    BY <1>2 DEF RetryOrGiveUp
  <2>2. QED
    BY <2>1, IdleCall, SetInOrder
<1>3. QED
  BY <1>1, <1>2

LEMMA CallStep ==
  ASSUME Consistent, [Next]_vars
  PROVE  call' \in [Callers -> Call] /\ AllInOrder'
<1>0. TypeOK /\ AllInOrder /\ \A c \in Callers : call[c] \in Call /\ CallInOrder(call[c])
  BY Parts DEF TypeOK, AllInOrder
<1>1. ASSUME NEW c \in Callers, Begin(c) PROVE call' \in [Callers -> Call] /\ AllInOrder'
  <2>1. /\ Idle \in Call /\ Idle.attempt = 0 /\ Idle.outer = 0 /\ Idle.sent = 0
        /\ ~ Idle.retried
    BY IdleCall DEF Idle
  <2>2. Entered(Idle) \in Call /\ CallInOrder(Entered(Idle))
    BY <1>0, <2>1, EnteredInOrder
  <2>3. QED
    BY <1>0, <1>1, <2>2, SetInOrder DEF Begin
<1>2. ASSUME NEW c \in Callers, GotToken(c) PROVE call' \in [Callers -> Call] /\ AllInOrder'
  <2>1. Sending(call[c]) \in Call /\ Sending(call[c]).sent \in Nat
    BY <1>0, SendingEffect DEF Call
  <2>2. call[c].sent \in Nat /\ call[c].outer \in Nat
    BY <1>0 DEF Call
  <2>3. CallInOrder(Sending(call[c]))
    BY <1>0, <1>2, <2>1, <2>2, SendingEffect DEF GotToken, CallInOrder
  <2>4. QED
    BY <1>0, <1>2, <2>1, <2>3, SetInOrder DEF GotToken
<1>3. ASSUME NEW c \in Callers, NoTokenAfter403(c)
      PROVE  call' \in [Callers -> Call] /\ AllInOrder'
  <2>1. RetryOrGiveUp(c, Returning(call[c]))
    BY <1>3 DEF NoTokenAfter403, Returning
  <2>2. call[c] \in Call /\ CallInOrder(call[c]) /\ call[c].pc = "auth" /\ call[c].retried
    BY <1>0, <1>3 DEF NoTokenAfter403
  <2> DEFINE k == Returning(call[c])
  <2>3. /\ k \in Call /\ k.attempt <= MaxRetries /\ k.outer <= MaxRetries
        /\ ~ k.retried /\ k.sent <= k.attempt + 1
    BY <2>2, ReturningInOrder
  <2>4. RetryOrGiveUp(c, k)
    BY <2>1
  <2> HIDE DEF k
  <2>5. k.sent <= k.attempt + 1 + (IF k.retried THEN k.outer + 1 ELSE 0)
    BY <2>3 DEF Call
  <2>6. QED
    BY <1>0, <2>3, <2>4, <2>5, RetryInOrder
<1>4. ASSUME NEW c \in Callers, Answer403(c) PROVE call' \in [Callers -> Call] /\ AllInOrder'
  <2>1. CASE MayEnter
    <3>1. Set(c, Entered(Recursing(call[c])))
      BY <1>4, <2>1 DEF Answer403, Recursing
    <3>2. QED
      BY <1>0, <1>4, <3>1, RecursingInOrder, SetInOrder DEF Answer403
  <2>2. CASE ~ MayEnter
    BY <1>0, <1>4, <2>2, IdleCall, SetInOrder DEF Answer403
  <2>3. QED
    BY <2>1, <2>2
<1>5. ASSUME NEW c \in Callers, AnswerRetryable(c)
      PROVE  call' \in [Callers -> Call] /\ AllInOrder'
  BY <1>0, <1>5, RetryInOrder DEF AnswerRetryable, CallInOrder
<1>6. ASSUME NEW c \in Callers, Wake(c) PROVE call' \in [Callers -> Call] /\ AllInOrder'
  <2> DEFINE k == [call[c] EXCEPT !.attempt = @ + 1]
  <2>1. /\ k \in Call /\ k.attempt = call[c].attempt + 1 /\ k.outer = call[c].outer
        /\ k.retried = call[c].retried /\ k.sent = call[c].sent
    BY <1>0 DEF Call
  <2>2. /\ call[c].attempt \in Nat /\ call[c].sent \in Nat /\ call[c].outer \in Nat
    BY <1>0 DEF Call
  <2>3. Set(c, Sending(k))
    BY <1>6 DEF Wake
  <2> HIDE DEF k
  <2>4. Sending(k) \in Call /\ Sending(k).sent \in Nat
    BY <2>1, SendingEffect DEF Call
  <2>5. CallInOrder(Sending(k))
    BY <1>0, <1>6, <2>1, <2>2, <2>4, SendingEffect DEF Wake, CallInOrder
  <2>6. QED
    BY <1>0, <2>3, <2>4, <2>5, SetInOrder
<1>7. ASSUME NEW c \in Callers, NoToken(c) \/ AnswerOk(c) \/ AnswerRefused(c) \/ Broken(c)
      PROVE  call' \in [Callers -> Call] /\ AllInOrder'
  BY <1>0, <1>7, IdleCall, SetInOrder DEF NoToken, AnswerOk, AnswerRefused, Broken
<1>8. CASE UNCHANGED call
  BY <1>0, <1>8 DEF TypeOK, AllInOrder, CallInOrder
<1>9. QED
  BY <1>1, <1>2, <1>3, <1>4, <1>5, <1>6, <1>7, <1>8
     DEF Next, Step, RecoveryTimeout, HealthCheck, TokenExpires, vars

-----------------------------------------------------------------------------
(* The breaker and the counters.                                            *)

BreakerOK ==
  /\ state \in {"CLOSED", "OPEN", "HALF_OPEN"}
  /\ failures \in Nat
  /\ elapsed \in BOOLEAN
  /\ BreakerCounts

MetricsOK == metrics \in Metrics /\ MetricsAddUp

LEMMA LookKeepsBreaker ==
  ASSUME BreakerOK, Look
  PROVE  BreakerOK'
  BY DEF BreakerOK, Look, CurrentState, BreakerCounts

LEMMA SuccessKeepsBreaker ==
  ASSUME BreakerOK, RecordSuccess
  PROVE  BreakerOK'
  BY DEF BreakerOK, RecordSuccess, BreakerCounts

(* A failure while half-open finds the count at the threshold still: no     *)
(* half-open breaker has forgotten why it opened.                           *)
LEMMA FailureKeepsBreaker ==
  ASSUME BreakerOK, RecordFailure
  PROVE  BreakerOK'
<1>1. /\ failures' = failures + 1 /\ failures' \in Nat
      /\ (state = "CLOSED") <=> (failures < Threshold)
  BY DEF BreakerOK, RecordFailure, BreakerCounts
<1>2. CASE state = "HALF_OPEN" \/ failures + 1 >= Threshold
  <2>1. state' = "OPEN" /\ elapsed' = FALSE
    BY <1>2 DEF RecordFailure
  <2>2. ~ (failures' < Threshold)
    BY <1>1, <1>2 DEF BreakerOK
  <2>3. QED
    BY <1>1, <2>1, <2>2 DEF BreakerOK, BreakerCounts
<1>3. CASE ~ (state = "HALF_OPEN" \/ failures + 1 >= Threshold)
  <2>1. state' = state /\ elapsed' = elapsed
    BY <1>3 DEF RecordFailure
  <2>2. failures < Threshold /\ failures' < Threshold
    BY <1>1, <1>3 DEF BreakerOK
  <2>3. QED
    BY <1>1, <2>1, <2>2 DEF BreakerOK, BreakerCounts
<1>4. QED
  BY <1>2, <1>3

LEMMA SameBreaker ==
  ASSUME BreakerOK, UNCHANGED <<state, failures>>, elapsed' \in BOOLEAN
  PROVE  BreakerOK'
  BY DEF BreakerOK, BreakerCounts

LEMMA SuccessAddsUp ==
  ASSUME MetricsOK, RecordSuccess, metrics' = Success(metrics)
  PROVE  MetricsOK'
<1>1. metrics.errors["refused"] \in Nat /\ metrics.errors["retryable"] \in Nat
      /\ metrics.total \in Nat /\ metrics.successful \in Nat /\ metrics.failed \in Nat
  BY DEF MetricsOK, Metrics, ErrorTypes
<1>2. QED
  BY <1>1, SuccessEffect DEF MetricsOK, MetricsAddUp, RecordSuccess

LEMMA FailureAddsUp ==
  ASSUME MetricsOK, failures \in Nat, failures' = failures + 1,
         NEW type \in {"refused", "retryable"}, metrics' = Failure(metrics, type)
  PROVE  MetricsOK'
<1>1. /\ metrics \in Metrics /\ type \in ErrorTypes
      /\ metrics.errors \in [ErrorTypes -> Nat]
      /\ metrics.total \in Nat /\ metrics.successful \in Nat /\ metrics.failed \in Nat
  BY DEF MetricsOK, Metrics, ErrorTypes
<1>2. /\ metrics.errors["refused"] \in Nat /\ metrics.errors["retryable"] \in Nat
      /\ metrics.errors["max_retries"] \in Nat
  BY <1>1 DEF ErrorTypes
<1>3. /\ metrics' \in Metrics
      /\ metrics'.total = metrics.total + 1
      /\ metrics'.successful = metrics.successful
      /\ metrics'.failed = metrics.failed + 1
      /\ metrics'.errors = [metrics.errors EXCEPT ![type] = @ + 1]
  BY <1>1, FailureEffect
<1>4. metrics'.errors["refused"] + metrics'.errors["retryable"]
        = metrics.errors["refused"] + metrics.errors["retryable"] + 1
  BY <1>1, <1>2, <1>3 DEF ErrorTypes
<1>5. metrics'.errors["max_retries"] = metrics.errors["max_retries"]
  BY <1>1, <1>3 DEF ErrorTypes
<1>6. metrics'.errors["refused"] \in Nat /\ metrics'.errors["retryable"] \in Nat
  BY <1>3 DEF Metrics, ErrorTypes
<1>7. QED
  BY <1>1, <1>2, <1>3, <1>4, <1>5, <1>6 DEF MetricsOK, MetricsAddUp

LEMMA GivingUpAddsUp ==
  ASSUME MetricsOK, failures \in Nat, failures' = failures + 1,
         metrics' = Failure(Failure(metrics, "retryable"), "max_retries")
  PROVE  MetricsOK'
<1> DEFINE m == Failure(metrics, "retryable")
<1>1. /\ metrics \in Metrics /\ metrics.errors \in [ErrorTypes -> Nat]
      /\ metrics.total \in Nat /\ metrics.successful \in Nat /\ metrics.failed \in Nat
  BY DEF MetricsOK, Metrics
<1>2. /\ metrics.errors["refused"] \in Nat /\ metrics.errors["retryable"] \in Nat
      /\ metrics.errors["max_retries"] \in Nat
  BY <1>1 DEF ErrorTypes
<1>3. /\ m \in Metrics
      /\ m.total = metrics.total + 1 /\ m.successful = metrics.successful
      /\ m.failed = metrics.failed + 1
      /\ m.errors = [metrics.errors EXCEPT !["retryable"] = @ + 1]
  BY <1>1, FailureEffect DEF ErrorTypes
<1>4. /\ m.errors["refused"] = metrics.errors["refused"]
      /\ m.errors["retryable"] = metrics.errors["retryable"] + 1
      /\ m.errors["max_retries"] = metrics.errors["max_retries"]
  BY <1>1, <1>3 DEF ErrorTypes
<1>5. metrics' = Failure(m, "max_retries")
  OBVIOUS
<1> HIDE DEF m
<1>6. /\ metrics' \in Metrics
      /\ metrics'.total = m.total + 1 /\ metrics'.successful = m.successful
      /\ metrics'.failed = m.failed + 1
      /\ metrics'.errors = [m.errors EXCEPT !["max_retries"] = @ + 1]
  BY <1>3, <1>5, FailureEffect DEF ErrorTypes
<1>7. /\ metrics'.errors["refused"] = m.errors["refused"]
      /\ metrics'.errors["retryable"] = m.errors["retryable"]
      /\ metrics'.errors["max_retries"] = m.errors["max_retries"] + 1
  BY <1>3, <1>6 DEF Metrics, ErrorTypes
<1>8. QED
  BY <1>1, <1>2, <1>3, <1>4, <1>6, <1>7 DEF MetricsOK, MetricsAddUp

LEMMA SameMetrics ==
  ASSUME MetricsOK, UNCHANGED <<failures, metrics>>
  PROVE  MetricsOK'
  BY DEF MetricsOK, MetricsAddUp

LEMMA RetryKeepsCounts ==
  ASSUME BreakerOK, MetricsOK, NEW c, NEW k, RetryOrGiveUp(c, k)
  PROVE  BreakerOK' /\ MetricsOK' /\ fresh' = fresh /\ begun' = begun
<1>1. RecordFailure /\ failures \in Nat /\ failures' = failures + 1
      /\ fresh' = fresh /\ begun' = begun
  BY DEF RetryOrGiveUp, RecordFailure, BreakerOK
<1>2. CASE RetriesLeft(k)
  BY <1>1, <1>2, FailureKeepsBreaker, FailureAddsUp DEF RetryOrGiveUp
<1>3. CASE ~ RetriesLeft(k)
  BY <1>1, <1>3, FailureKeepsBreaker, GivingUpAddsUp DEF RetryOrGiveUp
<1>4. QED
  BY <1>2, <1>3

LEMMA CountsStep ==
  ASSUME BreakerOK, MetricsOK, fresh \in BOOLEAN, begun \in 0..CallBudget, [Next]_vars
  PROVE  BreakerOK' /\ MetricsOK' /\ fresh' \in BOOLEAN /\ begun' \in 0..CallBudget
<1> DEFINE Kept ==
      BreakerOK' /\ MetricsOK' /\ fresh' \in BOOLEAN /\ begun' \in 0..CallBudget
<1>1. ASSUME NEW c \in Callers, Begin(c) PROVE Kept
  <2>1. BreakerOK'
    BY <1>1, LookKeepsBreaker DEF Begin
  <2>2. MetricsOK'
    BY <1>1, SameMetrics DEF Begin, Look
  <2>3. QED
    BY <1>1, <2>1, <2>2 DEF Begin
<1>2. ASSUME NEW c \in Callers, GotToken(c) \/ NoToken(c) \/ Broken(c) \/ Wake(c) PROVE Kept
  <2>1. UNCHANGED <<breaker, metrics, begun>> /\ fresh' \in BOOLEAN
    BY <1>2 DEF GotToken, NoToken, Broken, Wake, breaker
  <2>2. QED
    BY <2>1, SameBreaker, SameMetrics DEF breaker, BreakerOK
<1>3. ASSUME NEW c \in Callers, NoTokenAfter403(c) PROVE Kept
  BY <1>3, RetryKeepsCounts DEF NoTokenAfter403
<1>4. ASSUME NEW c \in Callers, AnswerRetryable(c) PROVE Kept
  BY <1>4, RetryKeepsCounts DEF AnswerRetryable
<1>5. ASSUME NEW c \in Callers, AnswerOk(c) PROVE Kept
  BY <1>5, SuccessKeepsBreaker, SuccessAddsUp DEF AnswerOk
<1>6. ASSUME NEW c \in Callers, AnswerRefused(c) PROVE Kept
  <2>1. RecordFailure /\ failures \in Nat /\ failures' = failures + 1
        /\ metrics' = Failure(metrics, "refused") /\ UNCHANGED <<fresh, begun>>
    BY <1>6 DEF AnswerRefused, RecordFailure, BreakerOK
  <2>2. QED
    BY <2>1, FailureKeepsBreaker, FailureAddsUp
<1>7. ASSUME NEW c \in Callers, Answer403(c) PROVE Kept
  <2>1. Look /\ UNCHANGED <<fresh, metrics, begun>>
    BY <1>7 DEF Answer403
  <2>2. QED
    BY <2>1, LookKeepsBreaker, SameMetrics DEF Look
<1>8. CASE HealthCheck
  BY <1>8, LookKeepsBreaker, SameMetrics DEF HealthCheck, Look
<1>9. CASE RecoveryTimeout \/ TokenExpires \/ UNCHANGED vars
  <2>1. UNCHANGED <<state, failures, metrics, begun>> /\ elapsed' \in BOOLEAN
        /\ fresh' \in BOOLEAN
    BY <1>9 DEF RecoveryTimeout, TokenExpires, vars, breaker, BreakerOK
  <2>2. QED
    BY <2>1, SameBreaker, SameMetrics
<1>10. QED
  BY <1>1, <1>2, <1>3, <1>4, <1>5, <1>6, <1>7, <1>8, <1>9 DEF Next, Step

-----------------------------------------------------------------------------
LEMMA InitConsistent == Init => Consistent
<1> SUFFICES ASSUME Init PROVE Consistent
  OBVIOUS
<1>1. TypeOK
  <2>1. [type \in ErrorTypes |-> 0] \in [ErrorTypes -> Nat]
    OBVIOUS
  <2>2. metrics \in Metrics
    BY <2>1 DEF Init, Metrics
  <2>3. call \in [Callers -> Call]
    BY IdleCall DEF Init
  <2>4. begun \in 0..CallBudget
    BY DEF Init
  <2>5. QED
    BY <2>2, <2>3, <2>4 DEF Init, TypeOK
<1>2. BreakerCounts /\ MetricsAddUp
  BY DEF Init, BreakerCounts, MetricsAddUp, ErrorTypes
<1>3. \A c \in Callers : CallInOrder(call[c])
  BY IdleCall DEF Init
<1>4. QED
  BY <1>1, <1>2, <1>3 DEF Consistent

LEMMA NextConsistent == Consistent /\ [Next]_vars => Consistent'
<1> SUFFICES ASSUME Consistent, [Next]_vars PROVE Consistent'
  OBVIOUS
<1>1. call' \in [Callers -> Call] /\ AllInOrder'
  BY CallStep
<1>2. BreakerOK /\ MetricsOK /\ fresh \in BOOLEAN /\ begun \in 0..CallBudget
  BY Parts DEF TypeOK, BreakerOK, MetricsOK
<1>3. BreakerOK' /\ MetricsOK' /\ fresh' \in BOOLEAN /\ begun' \in 0..CallBudget
  BY <1>2, CountsStep
<1>4. QED
  BY <1>1, <1>3 DEF Consistent, TypeOK, BreakerOK, MetricsOK, AllInOrder

(* In every reachable state the breaker, the counters and the loop counters *)
(* of every call in flight fit together.                                    *)
THEOREM AlwaysConsistent == Spec => []Consistent
  BY InitConsistent, NextConsistent, PTL DEF Spec

(* Every variable stays within its type.                                    *)
THEOREM TypeCorrect == Spec => []TypeOK
<1>1. Consistent => TypeOK
  BY DEF Consistent
<1>2. QED
  BY <1>1, AlwaysConsistent, PTL

(* The breaker is closed exactly while the failures since the last success  *)
(* are below the threshold, for any number of concurrent calls.             *)
THEOREM BreakerCountsRight == Spec => []BreakerCounts
<1>1. Consistent => BreakerCounts
  BY DEF Consistent
<1>2. QED
  BY <1>1, AlwaysConsistent, PTL

(* The counters of /health add up and cover the failures of the breaker.    *)
THEOREM CountersAddUp == Spec => []MetricsAddUp
<1>1. Consistent => MetricsAddUp
  BY DEF Consistent
<1>2. QED
  BY <1>1, AlwaysConsistent, PTL

(* A call sends at most two rounds of MaxRetries + 1 GETs.                  *)
THEOREM RetryBudget == Spec => []SendsBounded
<1>1. Consistent => SendsBounded
  <2> SUFFICES ASSUME Consistent, NEW c \in Callers PROVE call[c].sent <= SendLimit
    BY DEF SendsBounded
  <2>1. call[c] \in Call /\ CallInOrder(call[c])
    BY DEF Consistent, TypeOK
  <2> DEFINE k == call[c]
  <2>2. /\ k.pc \in {"idle", "auth", "sent", "backoff"} /\ k.attempt \in Nat
        /\ k.outer \in Nat /\ k.sent \in Nat /\ CallInOrder(k)
    BY <2>1 DEF Call
  <2> HIDE DEF k
  <2>3. k.attempt <= MaxRetries /\ k.outer <= MaxRetries
    BY <2>2 DEF CallInOrder
  <2>4. k.sent <= k.attempt + k.outer + 2
    BY <2>2 DEF CallInOrder
  <2>5. k.sent <= SendLimit
    BY <2>2, <2>3, <2>4 DEF SendLimit
  <2>6. QED
    BY <2>5 DEF k
<1>2. QED
  BY <1>1, AlwaysConsistent, PTL

-----------------------------------------------------------------------------
(* The open breaker drains.                                                 *)

LEMMA PermitsRange ==
  ASSUME NEW k \in Call, CallInOrder(k)
  PROVE  Permits(k) \in Nat
  BY DEF Permits, Call, CallInOrder

LEMMA SetDrains ==
  ASSUME Consistent, NEW c \in Callers, NEW k, Set(c, k), Permits(k) <= Permits(call[c])
  PROVE  \A d \in Callers : Permits(call'[d]) <= Permits(call[d])
<1> SUFFICES ASSUME NEW d \in Callers PROVE Permits(call'[d]) <= Permits(call[d])
  OBVIOUS
<1>1. call \in [Callers -> Call] /\ CallInOrder(call[d]) /\ CallInOrder(call[c])
  BY DEF Consistent, TypeOK
<1>2. call' = [call EXCEPT ![c] = k]
  BY DEF Set
<1>3. Permits(call[d]) \in Nat
  BY <1>1, PermitsRange
<1>4. CASE c = d
  BY <1>1, <1>2, <1>4
<1>5. CASE c # d
  <2>1. call'[d] = call[d]
    BY <1>1, <1>2, <1>5
  <2>2. QED
    BY <1>3, <2>1
<1>6. QED
  BY <1>4, <1>5

LEMMA IdleDrains ==
  ASSUME Consistent, NEW c \in Callers, Set(c, Idle)
  PROVE  \A d \in Callers : Permits(call'[d]) <= Permits(call[d])
<1>1. Permits(Idle) = 0
  BY DEF Permits, Idle
<1>2. Permits(call[c]) \in Nat
  BY PermitsRange DEF Consistent, TypeOK
<1>3. QED
  BY <1>1, <1>2, SetDrains

LEMMA RetryDrains ==
  ASSUME Consistent, NEW c \in Callers, NEW k \in Call, RetryOrGiveUp(c, k),
         MaxRetries - k.attempt <= Permits(call[c])
  PROVE  \A d \in Callers : Permits(call'[d]) <= Permits(call[d])
<1>1. CASE RetriesLeft(k)
  <2> DEFINE b == [k EXCEPT !.pc = "backoff"]
  <2>1. Set(c, b)
    BY <1>1 DEF RetryOrGiveUp
  <2>2. b.pc = "backoff" /\ b.attempt = k.attempt
    BY DEF Call
  <2> HIDE DEF b
  <2>3. Permits(b) = MaxRetries - k.attempt
    BY <2>2 DEF Permits
  <2>4. QED
    BY <2>1, <2>3, SetDrains
<1>2. CASE ~ RetriesLeft(k)
  BY <1>2, IdleDrains DEF RetryOrGiveUp
<1>3. QED
  BY <1>1, <1>2

LEMMA StepDrains ==
  ASSUME Consistent, [Next]_vars, Shut
  PROVE  \A d \in Callers : Permits(call'[d]) <= Permits(call[d])
<1> DEFINE Drained == \A d \in Callers : Permits(call'[d]) <= Permits(call[d])
<1>0. ~ MayEnter /\ \A c \in Callers : call[c] \in Call /\ CallInOrder(call[c])
  BY DEF Shut, MayEnter, Consistent, TypeOK
<1>1. ASSUME NEW c \in Callers, Begin(c) PROVE Drained
  BY <1>0, <1>1 DEF Begin
<1>2. ASSUME NEW c \in Callers, GotToken(c) PROVE Drained
  <2>1. Permits(call[c]) = MaxRetries + 1
    BY <1>2 DEF GotToken, Permits
  <2>2. Sending(call[c]).pc = "sent" /\ Sending(call[c]).attempt = call[c].attempt
        /\ call[c].attempt \in Nat
    BY <1>0, SendingEffect DEF Call
  <2>3. Permits(Sending(call[c])) <= Permits(call[c])
    BY <2>1, <2>2 DEF Permits
  <2>4. QED
    BY <1>2, <2>3, SetDrains DEF GotToken
<1>3. ASSUME NEW c \in Callers, NoTokenAfter403(c) PROVE Drained
  <2>1. RetryOrGiveUp(c, Returning(call[c])) /\ Permits(call[c]) = MaxRetries + 1
    BY <1>3 DEF NoTokenAfter403, Returning, Permits
  <2>2. Returning(call[c]) \in Call /\ Returning(call[c]).attempt \in Nat
    BY <1>0, <1>3, ReturningInOrder DEF NoTokenAfter403, Call
  <2> DEFINE k == Returning(call[c])
  <2>3. k \in Call /\ k.attempt \in Nat /\ RetryOrGiveUp(c, k)
    BY <2>1, <2>2
  <2> HIDE DEF k
  <2>4. MaxRetries - k.attempt <= Permits(call[c])
    BY <2>1, <2>3
  <2>5. QED
    BY <2>3, <2>4, RetryDrains
<1>4. ASSUME NEW c \in Callers, Answer403(c) PROVE Drained
  BY <1>0, <1>4, IdleDrains DEF Answer403
<1>5. ASSUME NEW c \in Callers, AnswerRetryable(c) PROVE Drained
  <2>1. Permits(call[c]) = MaxRetries - call[c].attempt
    BY <1>5 DEF AnswerRetryable, Permits
  <2>2. MaxRetries - call[c].attempt <= Permits(call[c])
    BY <1>0, <2>1 DEF Call
  <2>3. QED
    BY <1>0, <1>5, <2>2, RetryDrains DEF AnswerRetryable
<1>6. ASSUME NEW c \in Callers, Wake(c) PROVE Drained
  <2> DEFINE k == [call[c] EXCEPT !.attempt = @ + 1]
  <2>1. k \in Call /\ k.attempt = call[c].attempt + 1 /\ call[c].attempt \in Nat
    BY <1>0 DEF Call
  <2>2. Set(c, Sending(k)) /\ Permits(call[c]) = MaxRetries - call[c].attempt
    BY <1>6 DEF Wake, Permits
  <2> HIDE DEF k
  <2>3. Sending(k).pc = "sent" /\ Sending(k).attempt = k.attempt
    BY <2>1, SendingEffect
  <2>4. Permits(Sending(k)) <= Permits(call[c])
    BY <2>1, <2>2, <2>3 DEF Permits
  <2>5. QED
    BY <2>2, <2>4, SetDrains
<1>7. ASSUME NEW c \in Callers, NoToken(c) \/ AnswerOk(c) \/ AnswerRefused(c) \/ Broken(c)
      PROVE  Drained
  BY <1>7, IdleDrains DEF NoToken, AnswerOk, AnswerRefused, Broken
<1>8. CASE UNCHANGED call
  <2>1. \A d \in Callers : Permits(call[d]) \in Nat
    BY <1>0, PermitsRange
  <2>2. \A d \in Callers : call'[d] = call[d]
    BY <1>8
  <2>3. QED
    BY <2>1, <2>2
<1>9. QED
  BY <1>1, <1>2, <1>3, <1>4, <1>5, <1>6, <1>7, <1>8
     DEF Next, Step, RecoveryTimeout, HealthCheck, TokenExpires, vars

(* While the breaker is open and its timeout runs, no call of any number    *)
(* gains the right to send another GET.                                     *)
THEOREM OpenDrains == Spec => OpenBreakerDrains
<1>1. Consistent /\ [Next]_vars =>
        (Shut /\ Shut' => \A c \in Callers : Permits(call'[c]) <= Permits(call[c]))
  BY StepDrains
<1>2. Spec => [][Shut /\ Shut' =>
                 \A c \in Callers : Permits(call'[c]) <= Permits(call[c])]_vars
  BY <1>1, AlwaysConsistent, PTL DEF Spec
<1>3. QED
  BY <1>2 DEF OpenBreakerDrains

-----------------------------------------------------------------------------
(* Giving up.  The failed attempts a call has behind it in the loop it is   *)
(* in, or will return to if the token for its second round cannot be had.   *)
Credit(k) ==
  IF k.pc = "sent" THEN k.attempt
  ELSE IF k.pc = "backoff" THEN k.attempt + 1
  ELSE IF k.pc = "auth" /\ k.retried THEN k.outer ELSE 0

(* All of them, one by one: what the counters hold in store for the calls   *)
(* that may still give up.                                                  *)
Credits == {p \in Callers \X Nat : p[2] < Credit(call[p[1]])}

GivenUp == metrics.errors["max_retries"]
Failed == metrics.errors["retryable"]

CreditsLeft ==
  /\ IsFiniteSet(Credits)
  /\ GivenUp * (MaxRetries + 1) + Cardinality(Credits) <= Failed

LEMMA CreditType == ASSUME NEW k \in Call PROVE Credit(k) \in Nat
  BY DEF Credit, Call

LEMMA CreditsAfter ==
  ASSUME TypeOK, NEW c \in Callers, NEW k \in Call, Set(c, k)
  PROVE  Credits' = {p \in Callers \X Nat :
                       p[2] < IF p[1] = c THEN Credit(k) ELSE Credit(call[p[1]])}
  BY DEF TypeOK, Set, Credits

LEMMA CounterTypes ==
  ASSUME metrics \in Metrics
  PROVE  GivenUp \in Nat /\ Failed \in Nat
  BY DEF GivenUp, Failed, Metrics, ErrorTypes

(* A call that loses credits, while the counters stay.                      *)
LEMMA LosesCredits ==
  ASSUME Consistent, CreditsLeft, NEW c \in Callers, NEW k \in Call, Set(c, k),
         Credit(k) <= Credit(call[c]), GivenUp' = GivenUp, Failed' = Failed
  PROVE  CreditsLeft'
<1>0. TypeOK /\ call[c] \in Call /\ GivenUp \in Nat /\ Failed \in Nat
  BY CounterTypes DEF Consistent, TypeOK
<1>1. Credit(k) \in Nat /\ Credit(call[c]) \in Nat
  BY <1>0, CreditType
<1>2. \A i \in Nat : i < Credit(k) => i < Credit(call[c])
  BY <1>1
<1>3. Credits' \in SUBSET Credits
  <2>1. \A p \in Callers \X Nat : p[1] \in Callers /\ p[2] \in Nat
    OBVIOUS
  <2>2. QED
    BY <1>0, <1>2, <2>1, CreditsAfter DEF Credits
<1>4. IsFiniteSet(Credits') /\ Cardinality(Credits') <= Cardinality(Credits)
  BY <1>3, FS_Subset DEF CreditsLeft
<1>5. Cardinality(Credits') \in Nat /\ Cardinality(Credits) \in Nat
  BY <1>4, FS_CardinalityType DEF CreditsLeft
<1> DEFINE g == GivenUp * (MaxRetries + 1)
<1>6. g \in Nat /\ g' = g
  BY <1>0
<1>7. g + Cardinality(Credits) <= Failed
  BY DEF CreditsLeft
<1> HIDE DEF g
<1>8. g' + Cardinality(Credits') <= Failed'
  BY <1>0, <1>4, <1>5, <1>6, <1>7
<1>9. QED
  BY <1>4, <1>8 DEF CreditsLeft, g

(* A failed attempt is counted and earns the call a credit.                 *)
LEMMA EarnsCredit ==
  ASSUME Consistent, CreditsLeft, NEW c \in Callers, NEW k \in Call, Set(c, k),
         Credit(k) = Credit(call[c]) + 1, GivenUp' = GivenUp, Failed' = Failed + 1
  PROVE  CreditsLeft'
<1>0. TypeOK /\ call[c] \in Call /\ GivenUp \in Nat /\ Failed \in Nat
  BY CounterTypes DEF Consistent, TypeOK
<1> DEFINE n == Credit(call[c])
<1>1. n \in Nat /\ Credit(k) = n + 1
  BY <1>0, CreditType
<1> HIDE DEF n
<1>2. \A i \in Nat : i < Credit(k) <=> i < n \/ i = n
  BY <1>1
<1>3. Credits' = Credits \cup {<<c, n>>}
  <2>1. ASSUME NEW p \in Callers \X Nat
        PROVE  p \in Credits' <=> p \in Credits \/ p = <<c, n>>
    <3>1. p[1] \in Callers /\ p[2] \in Nat /\ p = <<p[1], p[2]>>
      OBVIOUS
    <3>2. p \in Credits' <=> p[2] < IF p[1] = c THEN Credit(k) ELSE Credit(call[p[1]])
      BY <1>0, CreditsAfter
    <3>3. p \in Credits <=> p[2] < Credit(call[p[1]])
      BY DEF Credits
    <3>4. p = <<c, n>> <=> p[1] = c /\ p[2] = n
      BY <3>1
    <3>5. CASE p[1] = c
      BY <1>2, <3>1, <3>2, <3>3, <3>4, <3>5 DEF n
    <3>6. CASE p[1] # c
      BY <3>2, <3>3, <3>4, <3>6
    <3>7. QED
      BY <3>5, <3>6
  <2>2. Credits \subseteq Callers \X Nat /\ Credits' \subseteq Callers \X Nat
    BY <1>0, CreditsAfter DEF Credits
  <2>3. <<c, n>> \in Callers \X Nat
    BY <1>1
  <2>4. QED
    BY <2>1, <2>2, <2>3
<1>4. /\ IsFiniteSet(Credits')
      /\ Cardinality(Credits') = IF <<c, n>> \in Credits THEN Cardinality(Credits)
                                                        ELSE Cardinality(Credits) + 1
  BY <1>3, FS_AddElement DEF CreditsLeft
<1>5. Cardinality(Credits) \in Nat /\ Cardinality(Credits') \in Nat
  BY <1>4, FS_CardinalityType DEF CreditsLeft
<1>6. Cardinality(Credits') <= Cardinality(Credits) + 1
  BY <1>4, <1>5
<1> DEFINE g == GivenUp * (MaxRetries + 1)
<1>7. g \in Nat /\ g' = g /\ g + Cardinality(Credits) <= Failed
  BY <1>0 DEF CreditsLeft
<1> HIDE DEF g
<1>8. g' + Cardinality(Credits') <= Failed'
  BY <1>0, <1>5, <1>6, <1>7
<1>9. QED
  BY <1>4, <1>8 DEF CreditsLeft, g

(* The last attempt fails too: the call gives up and takes its credits.     *)
LEMMA SpendsCredits ==
  ASSUME Consistent, CreditsLeft, NEW c \in Callers, Set(c, Idle),
         Credit(call[c]) = MaxRetries, GivenUp' = GivenUp + 1, Failed' = Failed + 1
  PROVE  CreditsLeft'
<1>0. /\ TypeOK /\ call[c] \in Call /\ Idle \in Call
      /\ GivenUp \in Nat /\ Failed \in Nat
  BY CounterTypes, IdleCall DEF Consistent, TypeOK
<1> DEFINE Mine == {c} \X (0..(MaxRetries - 1))
<1>1. Credit(Idle) = 0
  BY DEF Credit, Idle
<1>2. Credits = Credits' \cup Mine /\ Credits' \cap Mine = {}
  <2>1. ASSUME NEW p \in Callers \X Nat
        PROVE  /\ p \in Credits <=> p \in Credits' \/ p \in Mine
               /\ ~ (p \in Credits' /\ p \in Mine)
    <3>1. p[1] \in Callers /\ p[2] \in Nat /\ p = <<p[1], p[2]>>
      OBVIOUS
    <3>2. p \in Credits' <=> p[2] < IF p[1] = c THEN 0 ELSE Credit(call[p[1]])
      BY <1>0, <1>1, CreditsAfter
    <3>3. p \in Credits <=> p[2] < Credit(call[p[1]])
      BY DEF Credits
    <3>4. p \in Mine <=> p[1] = c /\ p[2] < MaxRetries
      BY <3>1
    <3>5. QED
      BY <3>1, <3>2, <3>3, <3>4
  <2>2. Credits \subseteq Callers \X Nat /\ Credits' \subseteq Callers \X Nat
    BY <1>0, CreditsAfter DEF Credits
  <2>3. Mine \subseteq Callers \X Nat
    OBVIOUS
  <2>4. QED
    BY <2>1, <2>2, <2>3
<1>3. IsFiniteSet(Mine) /\ Cardinality(Mine) = MaxRetries
  <2> DEFINE I == 0..(MaxRetries - 1)
             f == [i \in I |-> <<c, i>>]
  <2>1. IsFiniteSet(I) /\ Cardinality(I) = MaxRetries
    BY FS_Interval
  <2>2. f \in Bijection(I, Mine)
    <3>1. f \in [I -> Mine]
      OBVIOUS
    <3>2. \A i, j \in I : f[i] = f[j] => i = j
      OBVIOUS
    <3>3. \A p \in Mine : \E i \in I : f[i] = p
      <4>1. ASSUME NEW p \in Mine PROVE p[2] \in I /\ f[p[2]] = p
        OBVIOUS
      <4>2. QED
        BY <4>1
    <3>4. QED
      BY <3>1, <3>2, <3>3 DEF Bijection, Injection, Surjection, IsInjective
  <2>3. ExistsBijection(I, Mine)
    BY <2>2 DEF ExistsBijection
  <2>4. QED
    BY <2>1, <2>3, FS_Bijection
<1>4. IsFiniteSet(Credits')
  <2>1. Credits' \in SUBSET Credits
    BY <1>2
  <2>2. QED
    BY <2>1, FS_Subset DEF CreditsLeft
<1> HIDE DEF Mine
<1>5. Cardinality(Credits) = Cardinality(Credits') + MaxRetries
  <2>1. Cardinality(Credits' \cup Mine)
          = Cardinality(Credits') + Cardinality(Mine) - Cardinality(Credits' \cap Mine)
    BY <1>3, <1>4, FS_Union
  <2>2. Cardinality({}) = 0 /\ Cardinality(Credits') \in Nat
    BY <1>4, FS_EmptySet, FS_CardinalityType
  <2>3. Cardinality(Credits) = Cardinality(Credits' \cup Mine)
    BY <1>2
  <2>4. Cardinality(Credits' \cap Mine) = 0
    BY <1>2, <2>2
  <2>5. QED
    BY <1>3, <2>1, <2>2, <2>3, <2>4
<1>6. Cardinality(Credits') \in Nat
  BY <1>4, FS_CardinalityType
<1> DEFINE g == GivenUp * (MaxRetries + 1)
<1>7. g \in Nat /\ g + Cardinality(Credits) <= Failed
  BY <1>0 DEF CreditsLeft
<1>8. g' = g + MaxRetries + 1
  BY <1>0
<1> HIDE DEF g
<1>9. g' + Cardinality(Credits') <= Failed'
  BY <1>0, <1>5, <1>6, <1>7, <1>8
<1>10. QED
  BY <1>4, <1>9 DEF CreditsLeft, g

(* What an answer does to the two counters in question.                     *)
LEMMA CounterEffects ==
  ASSUME metrics \in Metrics
  PROVE  /\ metrics' = Success(metrics) \/ metrics' = Failure(metrics, "refused")
              \/ metrics' = metrics
            => GivenUp' = GivenUp /\ Failed' = Failed
         /\ metrics' = Failure(metrics, "retryable")
            => GivenUp' = GivenUp /\ Failed' = Failed + 1
         /\ metrics' = Failure(Failure(metrics, "retryable"), "max_retries")
            => GivenUp' = GivenUp + 1 /\ Failed' = Failed + 1
<1>0. metrics.errors \in [ErrorTypes -> Nat]
  BY DEF Metrics
<1>1. metrics' = Success(metrics) => metrics'.errors = metrics.errors
  BY SuccessEffect
<1>2. metrics' = Failure(metrics, "refused")
      => metrics'.errors = [metrics.errors EXCEPT !["refused"] = @ + 1]
  BY FailureEffect DEF ErrorTypes
<1> DEFINE m == Failure(metrics, "retryable")
<1>3. m \in Metrics /\ m.errors = [metrics.errors EXCEPT !["retryable"] = @ + 1]
  BY FailureEffect DEF ErrorTypes
<1>4. metrics' = Failure(m, "max_retries")
      => metrics'.errors = [m.errors EXCEPT !["max_retries"] = @ + 1]
  BY <1>3, FailureEffect DEF ErrorTypes
<1>5. metrics' = m => metrics'.errors = [metrics.errors EXCEPT !["retryable"] = @ + 1]
  BY <1>3
<1> HIDE DEF m
<1>6. metrics' = Failure(m, "max_retries") => GivenUp' = GivenUp + 1 /\ Failed' = Failed + 1
  BY <1>0, <1>3, <1>4 DEF GivenUp, Failed, ErrorTypes
<1>7. metrics' = m => GivenUp' = GivenUp /\ Failed' = Failed + 1
  BY <1>0, <1>5 DEF GivenUp, Failed, ErrorTypes
<1>8. metrics' = Failure(metrics, "refused") => GivenUp' = GivenUp /\ Failed' = Failed
  BY <1>0, <1>2 DEF GivenUp, Failed, ErrorTypes
<1>9. metrics' = Success(metrics) \/ metrics' = metrics
      => GivenUp' = GivenUp /\ Failed' = Failed
  BY <1>1 DEF GivenUp, Failed
<1>10. QED
  BY <1>6, <1>7, <1>8, <1>9 DEF m

LEMMA FailedAttempt ==
  ASSUME Consistent, CreditsLeft, NEW c \in Callers, NEW k \in Call, RetryOrGiveUp(c, k),
         k.attempt <= MaxRetries, Credit(call[c]) = k.attempt
  PROVE  CreditsLeft'
<1>0. metrics \in Metrics /\ k.attempt \in Nat
  BY DEF Consistent, TypeOK, Call
<1>1. CASE RetriesLeft(k)
  <2> DEFINE b == [k EXCEPT !.pc = "backoff"]
  <2>1. b \in Call /\ b.pc = "backoff" /\ b.attempt = k.attempt
    BY DEF Call
  <2>2. Set(c, b) /\ metrics' = Failure(metrics, "retryable")
    BY <1>1 DEF RetryOrGiveUp
  <2> HIDE DEF b
  <2>3. Credit(b) = Credit(call[c]) + 1
    BY <2>1 DEF Credit
  <2>4. QED
    BY <1>0, <2>1, <2>2, <2>3, CounterEffects, EarnsCredit
<1>2. CASE ~ RetriesLeft(k)
  <2>1. Set(c, Idle) /\ metrics' = Failure(Failure(metrics, "retryable"), "max_retries")
    BY <1>2 DEF RetryOrGiveUp
  <2>2. Credit(call[c]) = MaxRetries
    BY <1>0, <1>2 DEF RetriesLeft
  <2>3. QED
    BY <1>0, <2>1, <2>2, CounterEffects, SpendsCredits
<1>3. QED
  BY <1>1, <1>2

LEMMA CreditsStep ==
  ASSUME Consistent, CreditsLeft, [Next]_vars
  PROVE  CreditsLeft'
<1>0. /\ TypeOK /\ metrics \in Metrics /\ fresh \in BOOLEAN
      /\ \A c \in Callers : call[c] \in Call /\ CallInOrder(call[c])
  BY DEF Consistent, TypeOK
<1>1. Idle \in Call /\ Credit(Idle) = 0 /\ Idle.attempt = 0 /\ ~ Idle.retried
  BY IdleCall DEF Credit, Idle
<1>2. ASSUME NEW c \in Callers, NEW k \in Call, Set(c, k), Credit(k) <= Credit(call[c]),
             \/ metrics' = Success(metrics) \/ metrics' = Failure(metrics, "refused")
             \/ metrics' = metrics
      PROVE  CreditsLeft'
  BY <1>0, <1>2, CounterEffects, LosesCredits
<1>3. \A c \in Callers : Credit(call[c]) \in Nat /\ 0 <= Credit(call[c])
  BY <1>0, CreditType
<1>4. ASSUME NEW c \in Callers, Begin(c) PROVE CreditsLeft'
  <2>1. Set(c, Entered(Idle)) /\ metrics' = metrics
    BY <1>4 DEF Begin
  <2>2. Entered(Idle) \in Call /\ Credit(Entered(Idle)) = 0
    BY <1>0, <1>1, EnteredEffect DEF Credit
  <2>3. QED
    BY <1>2, <1>3, <2>1, <2>2
<1>5. ASSUME NEW c \in Callers, GotToken(c) PROVE CreditsLeft'
  <2>1. Set(c, Sending(call[c])) /\ metrics' = metrics
    BY <1>5 DEF GotToken
  <2>2. Sending(call[c]) \in Call /\ Credit(Sending(call[c])) = 0
    BY <1>0, <1>5, SendingEffect DEF Credit, GotToken, CallInOrder
  <2>3. QED
    BY <1>2, <1>3, <2>1, <2>2
<1>6. ASSUME NEW c \in Callers, NoTokenAfter403(c) PROVE CreditsLeft'
  <2>1. RetryOrGiveUp(c, Returning(call[c]))
    BY <1>6 DEF NoTokenAfter403, Returning
  <2>2. call[c].pc = "auth" /\ call[c].retried
    BY <1>6 DEF NoTokenAfter403
  <2>3. /\ Returning(call[c]) \in Call /\ Returning(call[c]).attempt <= MaxRetries
        /\ Returning(call[c]).attempt = call[c].outer
    BY <1>0, <2>2, ReturningInOrder DEF Returning, Call
  <2>4. Credit(call[c]) = Returning(call[c]).attempt
    BY <2>2, <2>3 DEF Credit
  <2>5. QED
    BY <2>1, <2>3, <2>4, FailedAttempt
<1>7. ASSUME NEW c \in Callers, Answer403(c) PROVE CreditsLeft'
  <2>0. /\ metrics' = metrics /\ call[c].pc = "sent"
        /\ Set(c, Entered(Recursing(call[c]))) \/ Set(c, Idle)
    BY <1>7 DEF Answer403, Recursing
  <2> DEFINE k == Recursing(call[c])
  <2>1. k \in Call /\ k.attempt = 0 /\ k.outer = call[c].attempt
    BY <1>0 DEF Recursing, Call
  <2> HIDE DEF k
  <2>2. Credit(call[c]) = call[c].attempt /\ call[c].attempt \in Nat
    BY <1>0, <2>0 DEF Credit, Call
  <2>3. /\ Entered(k) \in Call
        /\ Credit(Entered(k)) \in {0, call[c].attempt}
    BY <1>0, <2>1, EnteredEffect DEF Credit
  <2>4. Credit(Entered(k)) <= Credit(call[c])
    BY <2>2, <2>3
  <2>5. QED
    BY <1>1, <1>2, <1>3, <2>0, <2>3, <2>4 DEF k
<1>8. ASSUME NEW c \in Callers, AnswerRetryable(c) PROVE CreditsLeft'
  <2>1. RetryOrGiveUp(c, call[c]) /\ Credit(call[c]) = call[c].attempt
    BY <1>8 DEF AnswerRetryable, Credit
  <2>2. QED
    BY <1>0, <2>1, FailedAttempt DEF CallInOrder
<1>9. ASSUME NEW c \in Callers, Wake(c) PROVE CreditsLeft'
  <2> DEFINE k == [call[c] EXCEPT !.attempt = @ + 1]
  <2>1. k \in Call /\ k.attempt = call[c].attempt + 1 /\ call[c].attempt \in Nat
    BY <1>0 DEF Call
  <2>2. Set(c, Sending(k)) /\ metrics' = metrics /\ call[c].pc = "backoff"
    BY <1>9 DEF Wake
  <2> HIDE DEF k
  <2>3. Sending(k) \in Call /\ Credit(Sending(k)) = call[c].attempt + 1
    BY <2>1, SendingEffect DEF Credit
  <2>4. Credit(Sending(k)) <= Credit(call[c])
    BY <2>1, <2>2, <2>3 DEF Credit
  <2>5. QED
    BY <1>2, <2>2, <2>3, <2>4
<1>10. ASSUME NEW c \in Callers, NoToken(c) \/ AnswerOk(c) \/ AnswerRefused(c) \/ Broken(c)
       PROVE  CreditsLeft'
  <2>1. /\ Set(c, Idle)
        /\ \/ metrics' = Success(metrics) \/ metrics' = Failure(metrics, "refused")
           \/ metrics' = metrics
    BY <1>10 DEF NoToken, AnswerOk, AnswerRefused, Broken
  <2>2. QED
    BY <1>1, <1>2, <1>3, <2>1
<1>11. CASE UNCHANGED <<call, metrics>>
  BY <1>11 DEF CreditsLeft, Credits, GivenUp, Failed
<1>12. QED
  BY <1>4, <1>5, <1>6, <1>7, <1>8, <1>9, <1>10, <1>11
     DEF Next, Step, RecoveryTimeout, HealthCheck, TokenExpires, vars

(* A call is counted as given up only after all its attempts were counted   *)
(* as failed, whatever 403 made it start again half-way.                    *)
THEOREM GivesUpLast == Spec => []GaveUpAfterAllAttempts
<1>1. Init => CreditsLeft
  <2> SUFFICES ASSUME Init PROVE CreditsLeft
    OBVIOUS
  <2>1. \A c \in Callers : Credit(call[c]) = 0
    BY DEF Init, Credit, Idle
  <2>2. Credits = {}
    BY <2>1 DEF Credits
  <2>3. GivenUp = 0 /\ Failed = 0
    BY DEF Init, GivenUp, Failed, ErrorTypes
  <2>4. QED
    BY <2>2, <2>3, FS_EmptySet DEF CreditsLeft
<1>2. Consistent /\ CreditsLeft => GaveUpAfterAllAttempts
  <2> SUFFICES ASSUME Consistent, CreditsLeft PROVE GaveUpAfterAllAttempts
    OBVIOUS
  <2>1. Cardinality(Credits) \in Nat
    BY FS_CardinalityType DEF CreditsLeft
  <2>2. GivenUp \in Nat /\ Failed \in Nat
    BY CounterTypes DEF Consistent, TypeOK
  <2> DEFINE g == GivenUp * (MaxRetries + 1)
  <2>3. g \in Nat /\ g + Cardinality(Credits) <= Failed
    BY <2>2 DEF CreditsLeft
  <2> HIDE DEF g
  <2>4. g <= Failed
    BY <2>1, <2>2, <2>3
  <2>5. QED
    BY <2>4 DEF g, GaveUpAfterAllAttempts, GivenUp, Failed
<1>3. QED
  BY <1>1, <1>2, CreditsStep, AlwaysConsistent, PTL DEF Spec
-----------------------------------------------------------------------------
(* Every step of a call brings its end nearer.                              *)

MayShrinkTo(k) == 0 .. (IF k.pc = "idle" THEN 5 * MaxRetries + 4 ELSE Left(k) - 1)

AllShrink == \A c \in Callers : call'[c] # call[c] => Left(call'[c]) \in MayShrinkTo(call[c])

LEMMA LeftIdle == Left(Idle) = 0
  BY DEF Left, Idle

LEMMA LeftFirst ==
  ASSUME NEW k \in Call, ~ k.retried, k.pc # "idle"
  PROVE  Left(k) = IF k.pc = "auth" THEN 5 * MaxRetries + 4
                   ELSE IF k.pc = "sent" THEN 5 * MaxRetries + 3 - 3 * k.attempt
                   ELSE 5 * MaxRetries + 1 - 3 * k.attempt
  BY DEF Left, Call

LEMMA LeftAgain ==
  ASSUME NEW k \in Call, k.retried, k.pc # "idle"
  PROVE  Left(k) = IF k.pc = "auth" THEN 5 * MaxRetries + 2 - 3 * k.outer
                   ELSE IF k.pc = "sent" THEN 2 * MaxRetries + 1 - 2 * k.attempt
                   ELSE 2 * MaxRetries - 2 * k.attempt
  BY DEF Left, Call

(* A call in flight has a wait left.                                        *)
LEMMA LeftInFlight ==
  ASSUME NEW k \in Call, CallInOrder(k), k.pc # "idle"
  PROVE  Left(k) \in Nat \ {0}
<1>1. /\ k.attempt \in Nat /\ k.outer \in Nat /\ MaxRetries \in Nat
      /\ k.attempt <= MaxRetries /\ k.outer <= MaxRetries
      /\ k.pc = "backoff" => k.attempt < MaxRetries
  BY RetriesAssumption DEF Call, CallInOrder
<1>3. CASE k.retried
  <2>1. CASE k.pc = "auth"
    <3>1. Left(k) = 5 * MaxRetries + 2 - 3 * k.outer
      BY <1>3, <2>1, LeftAgain
    <3>2. QED
      BY <1>1, <3>1
  <2>2. CASE k.pc = "sent"
    <3>1. Left(k) = 2 * MaxRetries + 1 - 2 * k.attempt
      BY <1>3, <2>2, LeftAgain
    <3>2. QED
      BY <1>1, <3>1
  <2>3. CASE k.pc = "backoff"
    <3>1. Left(k) = 2 * MaxRetries - 2 * k.attempt
      BY <1>3, <2>3, LeftAgain
    <3>2. QED
      BY <1>1, <2>3, <3>1
  <2>4. QED
    BY <2>1, <2>2, <2>3 DEF Call
<1>4. CASE ~ k.retried
  BY <1>1, <1>4, LeftFirst
<1>5. QED
  BY <1>3, <1>4

LEMMA SetShrinks ==
  ASSUME Consistent, NEW c \in Callers, NEW k, Set(c, k), Left(k) \in MayShrinkTo(call[c])
  PROVE  AllShrink
<1>1. call \in [Callers -> Call] /\ call' = [call EXCEPT ![c] = k]
  BY DEF Consistent, TypeOK, Set
<1>2. call'[c] = k /\ \A d \in Callers \ {c} : call'[d] = call[d]
  BY <1>1
<1>3. QED
  BY <1>2 DEF AllShrink

LEMMA EndShrinks ==
  ASSUME Consistent, NEW c \in Callers, call[c].pc # "idle", Set(c, Idle)
  PROVE  AllShrink
<1>1. Left(call[c]) \in Nat \ {0}
  BY LeftInFlight DEF Consistent, TypeOK
<1>2. Left(Idle) \in MayShrinkTo(call[c])
  BY <1>1, LeftIdle DEF MayShrinkTo
<1>3. QED
  BY <1>2, SetShrinks

(* A failed attempt goes on to a backoff, if its wait is bounded.           *)
LEMMA RetryShrinks ==
  ASSUME Consistent, NEW c \in Callers, call[c].pc # "idle",
         NEW k \in Call, RetryOrGiveUp(c, k), k.pc # "idle",
         RetriesLeft(k) => Left([k EXCEPT !.pc = "backoff"]) \in MayShrinkTo(call[c])
  PROVE  AllShrink
<1>1. CASE RetriesLeft(k)
  <2>1. Set(c, [k EXCEPT !.pc = "backoff"])
    BY <1>1 DEF RetryOrGiveUp
  <2>2. QED
    BY <1>1, <2>1, SetShrinks
<1>2. CASE ~ RetriesLeft(k)
  BY <1>2, EndShrinks DEF RetryOrGiveUp
<1>3. QED
  BY <1>1, <1>2

(* The call a failed attempt leaves to sleep.                               *)
Resting(k) == [k EXCEPT !.pc = "backoff"]

LEMMA RestingEffect ==
  ASSUME NEW k \in Call
  PROVE  /\ Resting(k) \in Call /\ Resting(k).pc = "backoff"
         /\ Resting(k).attempt = k.attempt /\ Resting(k).retried = k.retried
  BY DEF Resting, Call

LEMMA ShrinkStep ==
  ASSUME Consistent, [Next]_vars
  PROVE  AllShrink
<1>0. /\ MaxRetries \in Nat
      /\ \A c \in Callers : call[c] \in Call /\ CallInOrder(call[c])
  BY RetriesAssumption DEF Consistent, TypeOK
<1>1. ASSUME NEW c \in Callers, Begin(c) PROVE AllShrink
  <2>1. /\ Idle \in Call /\ Idle.attempt = 0 /\ Idle.outer = 0 /\ Idle.sent = 0
        /\ ~ Idle.retried
    BY IdleCall DEF Idle
  <2>2. /\ Entered(Idle) \in Call /\ Entered(Idle).pc \in {"auth", "sent"}
        /\ Entered(Idle).attempt = 0 /\ ~ Entered(Idle).retried
    BY <2>1, EnteredEffect DEF Consistent, TypeOK
  <2>3. Left(Entered(Idle)) \in 0 .. (5 * MaxRetries + 4)
    BY <1>0, <2>2, LeftFirst
  <2>4. QED
    BY <1>1, <2>3, SetShrinks DEF Begin, MayShrinkTo
<1>2. ASSUME NEW c \in Callers, GotToken(c) PROVE AllShrink
  <2>1. call[c] \in Call /\ CallInOrder(call[c]) /\ call[c].pc = "auth"
    BY <1>0, <1>2 DEF GotToken
  <2> DEFINE k == call[c]
             s == Sending(k)
  <2>2. /\ k.attempt = 0 /\ k.outer \in Nat /\ k.outer <= MaxRetries
        /\ s \in Call /\ s.pc = "sent" /\ s.attempt = k.attempt /\ s.retried = k.retried
    BY <2>1, SendingEffect DEF Call, CallInOrder
  <2>3. k \in Call /\ k.pc = "auth" /\ Set(c, s)
    BY <1>2, <2>1 DEF GotToken
  <2> HIDE DEF k, s
  <2>4. Left(s) \in 0 .. (Left(k) - 1)
    <3>1. CASE k.retried
      <4>1. Left(k) = 5 * MaxRetries + 2 - 3 * k.outer
        BY <2>3, <3>1, LeftAgain
      <4>2. Left(s) = 2 * MaxRetries + 1 - 2 * s.attempt
        BY <2>2, <3>1, LeftAgain
      <4>3. QED
        BY <1>0, <2>2, <4>1, <4>2
    <3>2. CASE ~ k.retried
      BY <1>0, <2>2, <2>3, <3>2, LeftFirst
    <3>3. QED
      BY <3>1, <3>2
  <2>5. Left(s) \in MayShrinkTo(k)
    BY <2>3, <2>4 DEF MayShrinkTo
  <2>6. QED
    BY <2>3, <2>5, SetShrinks DEF k
<1>3. ASSUME NEW c \in Callers, NoTokenAfter403(c) PROVE AllShrink
  <2>1. call[c] \in Call /\ CallInOrder(call[c]) /\ call[c].pc = "auth" /\ call[c].retried
    BY <1>0, <1>3 DEF NoTokenAfter403
  <2>2. RetryOrGiveUp(c, Returning(call[c]))
    BY <1>3 DEF NoTokenAfter403, Returning
  <2> DEFINE k == call[c]
             r == Returning(k)
             b == Resting(r)
  <2>3. /\ k.outer \in Nat /\ r \in Call /\ r.attempt = k.outer /\ ~ r.retried
        /\ r.pc = "auth" /\ k \in Call /\ k.pc = "auth" /\ k.retried
    BY <2>1 DEF Returning, Call
  <2>4. b \in Call /\ b.pc = "backoff" /\ b.attempt = k.outer /\ ~ b.retried
    BY <2>3, RestingEffect
  <2>5. RetryOrGiveUp(c, r)
    BY <2>2
  <2>6. b = [r EXCEPT !.pc = "backoff"]
    BY DEF Resting
  <2> HIDE DEF k, r, b
  <2>7. ASSUME RetriesLeft(r) PROVE Left(b) \in MayShrinkTo(k)
    <3>1. k.outer < MaxRetries
      BY <2>3, <2>7 DEF RetriesLeft
    <3>2. Left(b) = 5 * MaxRetries + 1 - 3 * k.outer
      BY <2>4, LeftFirst
    <3>3. Left(k) = 5 * MaxRetries + 2 - 3 * k.outer
      BY <2>3, LeftAgain
    <3>4. QED
      BY <1>0, <2>3, <2>5, <3>1, <3>2, <3>3 DEF MayShrinkTo
  <2>8. QED
    BY <2>1, <2>3, <2>5, <2>6, <2>7, RetryShrinks DEF k
<1>4. ASSUME NEW c \in Callers, Answer403(c) PROVE AllShrink
  <2>1. call[c] \in Call /\ CallInOrder(call[c]) /\ call[c].pc = "sent" /\ ~ call[c].retried
    BY <1>0, <1>4 DEF Answer403
  <2>2. CASE MayEnter
    <3> DEFINE k == call[c]
               r == Recursing(k)
               e == Entered(r)
    <3>1. /\ k \in Call /\ k.pc = "sent" /\ ~ k.retried /\ k.attempt \in Nat
          /\ k.attempt <= MaxRetries
      BY <2>1 DEF Call, CallInOrder
    <3>2. r \in Call /\ r.attempt = 0 /\ r.outer = k.attempt /\ r.retried
      BY <3>1 DEF Recursing, Call
    <3>3. /\ e \in Call /\ e.pc \in {"auth", "sent"} /\ e.attempt = 0
          /\ e.outer = k.attempt /\ e.retried
      BY <3>2, EnteredEffect DEF Consistent, TypeOK
    <3>4. Set(c, e)
      BY <1>4, <2>2 DEF Answer403, Recursing
    <3> HIDE DEF k, r, e
    <3>5. Left(k) = 5 * MaxRetries + 3 - 3 * k.attempt
      BY <3>1, LeftFirst
    <3>6. Left(e) \in {5 * MaxRetries + 2 - 3 * k.attempt, 2 * MaxRetries + 1}
      BY <1>0, <3>3, LeftAgain
    <3>7. Left(e) \in MayShrinkTo(k)
      BY <1>0, <3>1, <3>5, <3>6 DEF MayShrinkTo
    <3>8. QED
      BY <3>4, <3>7, SetShrinks DEF k
  <2>3. CASE ~ MayEnter
    BY <1>4, <2>1, <2>3, EndShrinks DEF Answer403
  <2>4. QED
    BY <2>2, <2>3
<1>5. ASSUME NEW c \in Callers, AnswerRetryable(c) PROVE AllShrink
  <2> DEFINE k == call[c]
             b == Resting(k)
  <2>1. k \in Call /\ CallInOrder(k) /\ k.pc = "sent" /\ RetryOrGiveUp(c, k)
    BY <1>0, <1>5 DEF AnswerRetryable
  <2>2. b \in Call /\ b.pc = "backoff" /\ b.attempt = k.attempt /\ b.retried = k.retried
    BY <2>1, RestingEffect
  <2>3. b = [k EXCEPT !.pc = "backoff"] /\ k.attempt \in Nat
    BY <2>1 DEF Resting, Call
  <2> HIDE DEF b
  <2>4. ASSUME RetriesLeft(k) PROVE Left(b) \in MayShrinkTo(k)
    <3> HIDE DEF k
    <3>1. k.attempt < MaxRetries
      BY <2>4 DEF RetriesLeft
    <3>2. CASE k.retried
      <4>1. Left(k) = 2 * MaxRetries + 1 - 2 * k.attempt
        BY <2>1, <3>2, LeftAgain
      <4>2. Left(b) = 2 * MaxRetries - 2 * k.attempt
        BY <2>2, <3>2, LeftAgain
      <4>3. QED
        BY <1>0, <2>1, <2>3, <3>1, <4>1, <4>2 DEF MayShrinkTo
    <3>3. CASE ~ k.retried
      <4>1. Left(k) = 5 * MaxRetries + 3 - 3 * k.attempt
        BY <2>1, <3>3, LeftFirst
      <4>2. Left(b) = 5 * MaxRetries + 1 - 3 * k.attempt
        BY <2>2, <3>3, LeftFirst
      <4>3. QED
        BY <1>0, <2>1, <2>3, <3>1, <4>1, <4>2 DEF MayShrinkTo
    <3>4. QED
      BY <3>2, <3>3
  <2>5. QED
    BY <2>1, <2>3, <2>4, RetryShrinks
<1>6. ASSUME NEW c \in Callers, Wake(c) PROVE AllShrink
  <2> DEFINE k == call[c]
             n == [k EXCEPT !.attempt = @ + 1]
             s == Sending(n)
  <2>1. /\ k \in Call /\ CallInOrder(k) /\ k.pc = "backoff"
        /\ k.attempt \in Nat /\ k.attempt < MaxRetries
    BY <1>0, <1>6 DEF Wake, Call, CallInOrder
  <2>2. n \in Call /\ n.attempt = k.attempt + 1 /\ n.retried = k.retried
    BY <2>1 DEF Call
  <2>3. Set(c, s)
    BY <1>6 DEF Wake
  <2> HIDE DEF k, n
  <2>4. s \in Call /\ s.pc = "sent" /\ s.attempt = k.attempt + 1 /\ s.retried = k.retried
    BY <2>2, SendingEffect
  <2> HIDE DEF s
  <2>5. Left(s) \in MayShrinkTo(k)
    <3>1. CASE k.retried
      <4>1. Left(k) = 2 * MaxRetries - 2 * k.attempt
        BY <2>1, <3>1, LeftAgain
      <4>2. Left(s) = 2 * MaxRetries + 1 - 2 * s.attempt
        BY <2>4, <3>1, LeftAgain
      <4>3. QED
        BY <1>0, <2>1, <2>4, <4>1, <4>2 DEF MayShrinkTo
    <3>2. CASE ~ k.retried
      BY <1>0, <2>1, <2>4, <3>2, LeftFirst DEF MayShrinkTo
    <3>3. QED
      BY <3>1, <3>2
  <2>6. QED
    BY <2>3, <2>5, SetShrinks DEF k
<1>7. ASSUME NEW c \in Callers, NoToken(c) \/ AnswerOk(c) \/ AnswerRefused(c) \/ Broken(c)
      PROVE  AllShrink
  BY <1>7, EndShrinks DEF NoToken, AnswerOk, AnswerRefused, Broken
<1>8. CASE UNCHANGED call
  BY <1>8 DEF AllShrink
<1>9. QED
  BY <1>1, <1>2, <1>3, <1>4, <1>5, <1>6, <1>7, <1>8
     DEF Next, Step, RecoveryTimeout, HealthCheck, TokenExpires, vars

(* Whatever the retries, a call waits 5 * MaxRetries + 4 times at most: each *)
(* of its steps uses up a wait, a 403 and a lost token included.            *)
THEOREM CallsEndInTime == Spec => CallsShrink
<1>1. Consistent /\ [Next]_vars => AllShrink
  BY ShrinkStep
<1>2. Spec => [][AllShrink]_vars
  BY <1>1, AlwaysConsistent, PTL DEF Spec
<1>3. QED
  BY <1>2 DEF AllShrink, CallsShrink, MayShrinkTo

-----------------------------------------------------------------------------
(* What makes an open breaker wait.                                         *)

(* A call that is never repeated, and has the client to itself.             *)
NoRetries == MaxRetries = 0 /\ ~ Sandbox /\ \A c, d \in Callers : c = d

(* Nothing is under way while the breaker is open.                          *)
ShutOut == state = "OPEN" => \A c \in Callers : call[c].pc = "idle"

LEMMA RetryShutsOut ==
  ASSUME NoRetries, Consistent, NEW c \in Callers, NEW k \in Call, RetryOrGiveUp(c, k)
  PROVE  call'[c].pc = "idle"
<1>1. ~ RetriesLeft(k)
  BY DEF RetriesLeft, NoRetries, Call
<1>2. call' = [call EXCEPT ![c] = Idle]
  BY <1>1 DEF RetryOrGiveUp, Set
<1>3. call'[c] = Idle
  BY <1>2 DEF Consistent, TypeOK
<1>4. QED
  BY <1>3 DEF Idle

LEMMA StepShutsOut ==
  ASSUME NoRetries, Consistent, ShutOut, [Next]_vars
  PROVE  ShutOut' /\ (state = "OPEN" /\ state' # "OPEN" => elapsed)
<1> DEFINE Goal == ShutOut' /\ (state = "OPEN" /\ state' # "OPEN" => elapsed)
<1>0. /\ \A c \in Callers : call[c] \in Call
      /\ call \in [Callers -> Call]
  BY DEF Consistent, TypeOK
<1>1. CASE state = "OPEN"
  <2>1. \A c \in Callers : call[c].pc = "idle"
    BY <1>1 DEF ShutOut
  <2>2. ASSUME NEW c \in Callers, Begin(c) PROVE Goal
    <3>1. elapsed /\ state' = "HALF_OPEN"
      BY <1>1, <2>2 DEF Begin, MayEnter, CurrentState, Look, NoRetries
    <3>2. QED
      BY <3>1 DEF ShutOut
  <2>3. CASE RecoveryTimeout \/ TokenExpires \/ UNCHANGED vars
    BY <1>1, <2>1, <2>3 DEF RecoveryTimeout, TokenExpires, breaker, vars, ShutOut
  <2>4. CASE HealthCheck
    BY <1>1, <2>1, <2>4 DEF HealthCheck, Look, CurrentState, ShutOut
  <2>5. ASSUME NEW c \in Callers, Step(c) PROVE FALSE
    BY <2>1, <2>5 DEF Step, GotToken, NoToken, NoTokenAfter403, AnswerOk, Answer403,
                      AnswerRefused, AnswerRetryable, Broken, Wake
  <2>6. QED
    BY <2>2, <2>3, <2>4, <2>5 DEF Next
<1>2. CASE state # "OPEN"
  <2>1. ASSUME NEW c \in Callers, Begin(c) \/ GotToken(c) \/ Answer403(c) \/ Broken(c)
               \/ AnswerOk(c) \/ NoToken(c) \/ Wake(c)
        PROVE  state' # "OPEN"
    BY <1>2, <2>1 DEF Begin, GotToken, Answer403, Broken, AnswerOk, NoToken, Wake, Look,
                      CurrentState, RecordSuccess, breaker
  <2>2. CASE RecoveryTimeout \/ TokenExpires \/ HealthCheck \/ UNCHANGED vars
    BY <1>2, <2>2 DEF RecoveryTimeout, TokenExpires, HealthCheck, Look, CurrentState,
                      breaker, vars, ShutOut
  <2>3. ASSUME NEW c \in Callers, AnswerRefused(c) \/ AnswerRetryable(c) \/ NoTokenAfter403(c)
        PROVE  \A d \in Callers : call'[d].pc = "idle"
    <3>1. call'[c].pc = "idle"
      <4>1. CASE AnswerRefused(c)
        BY <1>0, <4>1 DEF AnswerRefused, Set, Idle
      <4>2. CASE AnswerRetryable(c)
        BY <1>0, <4>2, RetryShutsOut DEF AnswerRetryable
      <4>3. CASE NoTokenAfter403(c)
        <5>1. Returning(call[c]) \in Call
          BY <1>0, <4>3, ReturningInOrder DEF NoTokenAfter403, Consistent
        <5>2. RetryOrGiveUp(c, Returning(call[c]))
          BY <4>3 DEF NoTokenAfter403, Returning
        <5>3. QED
          BY <5>1, <5>2, RetryShutsOut
      <4>4. QED
        BY <2>3, <4>1, <4>2, <4>3
    <3>2. QED
      BY <3>1 DEF NoRetries
  <2>4. QED
    BY <1>2, <2>1, <2>2, <2>3 DEF Next, Step, ShutOut
<1>3. QED
  BY <1>1, <1>2

(* It takes a retry or a second caller: a client that has no retries, is    *)
(* not in sandbox mode and takes one call at a time leaves its breaker open *)
(* until the recovery timeout, whatever SAP and the token endpoint answer.  *)
THEOREM RecoveryAwaited == NoRetries /\ Spec => RecoveryRespected
<1>1. Init => ShutOut
  BY DEF Init, ShutOut
<1>2. NoRetries /\ Consistent /\ ShutOut /\ [Next]_vars =>
        ShutOut' /\ (state = "OPEN" /\ state' # "OPEN" => elapsed)
  BY StepShutsOut
<1>3. CASE NoRetries
  <2>1. Spec => []ShutOut
    BY <1>1, <1>2, <1>3, AlwaysConsistent, PTL DEF Spec
  <2>2. Spec => [][state = "OPEN" /\ state' # "OPEN" => elapsed]_vars
    BY <1>2, <1>3, <2>1, AlwaysConsistent, PTL DEF Spec
  <2>3. QED
    BY <2>2 DEF RecoveryRespected
<1>4. QED
  BY <1>3
=============================================================================
