----------------------------- MODULE SAPClient -----------------------------
(***************************************************************************)
(* SAPODataClient of one worker process: concurrent GETs over one circuit  *)
(* breaker, one OAuth2 token and one set of counters.                      *)
(*                                                                         *)
(* A call is cut where it awaits the network or sleeps; between two awaits *)
(* the event loop runs it alone.  The code sends GETs only, so the CSRF    *)
(* token is never sent; what a 403 does to the call is modelled.           *)
(***************************************************************************)
EXTENDS Naturals

CONSTANTS
  Callers,     \* the calls that can be in flight together
  Threshold,   \* sap_cb_failure_threshold
  MaxRetries,  \* sap_max_retries
  Sandbox,     \* sap_sandbox
  UseOAuth,    \* sap_use_oauth
  CallBudget   \* bound of the model: calls made in all

ASSUME ThresholdAssumption == Threshold \in Nat \ {0}
ASSUME RetriesAssumption == MaxRetries \in Nat
ASSUME ModeAssumption == Sandbox \in BOOLEAN /\ UseOAuth \in BOOLEAN
ASSUME BudgetAssumption == CallBudget \in Nat

VARIABLES
  state,     \* CircuitBreaker._state, as last assigned
  failures,  \* CircuitBreaker._failures
  elapsed,   \* the recovery timeout has passed since _opened_at
  fresh,     \* the OAuth2 token is present and not about to expire
  call,      \* call[c]: where a call is, or Idle
  metrics,   \* SAPMetrics
  begun      \* calls made so far

breaker == <<state, failures, elapsed>>
vars == <<state, failures, elapsed, fresh, call, metrics, begun>>

(* attempt is the loop counter; after a 403 the call recurses once and outer *)
(* keeps the counter of the loop below.  sent counts the GETs of the call.   *)
Call == [pc      : {"idle", "auth", "sent", "backoff"},
         attempt : Nat, outer : Nat, retried : BOOLEAN,
         sent    : Nat]

Idle == [pc |-> "idle", attempt |-> 0, outer |-> 0, retried |-> FALSE,
         sent |-> 0]

(* errors_by_type, with the types that are treated alike taken together. *)
ErrorTypes == {"refused", "retryable", "max_retries"}
Metrics == [total : Nat, successful : Nat, failed : Nat,
            errors : [ErrorTypes -> Nat]]

TypeOK ==
  /\ state \in {"CLOSED", "OPEN", "HALF_OPEN"}
  /\ failures \in Nat
  /\ elapsed \in BOOLEAN
  /\ fresh \in BOOLEAN
  /\ call \in [Callers -> Call]
  /\ metrics \in Metrics
  /\ begun \in 0..CallBudget

Init ==
  /\ state = "CLOSED"
  /\ failures = 0
  /\ elapsed = FALSE
  /\ fresh = FALSE
  /\ call = [c \in Callers |-> Idle]
  /\ metrics = [total |-> 0, successful |-> 0, failed |-> 0,
                errors |-> [type \in ErrorTypes |-> 0]]
  /\ begun = 0

-----------------------------------------------------------------------------
(* CircuitBreaker *)

(* The property `state`: OPEN turns HALF_OPEN when somebody looks. *)
CurrentState == IF state = "OPEN" /\ elapsed THEN "HALF_OPEN" ELSE state

Look == state' = CurrentState /\ UNCHANGED <<failures, elapsed>>

MayEnter == CurrentState # "OPEN" \/ Sandbox

(* Faulty variant: closing the breaker leaves the failure count. *)
CloseOnly == state' = "CLOSED" /\ UNCHANGED <<failures, elapsed>>

RecordSuccess ==
  /\ state' = "CLOSED"
  /\ failures' = 0
  /\ UNCHANGED elapsed

RecordFailure ==
  /\ failures' = failures + 1
  /\ IF state = "HALF_OPEN" \/ failures + 1 >= Threshold
       THEN state' = "OPEN" /\ elapsed' = FALSE
       ELSE UNCHANGED <<state, elapsed>>

-----------------------------------------------------------------------------
(* SAPMetrics.record_request *)

Success(m) ==
  [total |-> m.total + 1, successful |-> m.successful + 1,
   failed |-> m.failed, errors |-> m.errors]

Failure(m, type) ==
  [total |-> m.total + 1, successful |-> m.successful,
   failed |-> m.failed + 1, errors |-> [m.errors EXCEPT ![type] = @ + 1]]

-----------------------------------------------------------------------------
(* SAPODataClient._request *)

Set(c, k) == call' = [call EXCEPT ![c] = k]

(* The GETs one call may send, as claimed below.  The count stops one above. *)
SendLimit == 2 * (MaxRetries + 1)

(* client.request is called and awaited. *)
Sending(k) ==
  [k EXCEPT !.pc = "sent", !.sent = IF @ > SendLimit THEN @ ELSE @ + 1]

(* The call has passed the breaker and needs a token before its first GET.  *)
Entered(k) ==
  IF UseOAuth /\ ~ fresh THEN [k EXCEPT !.pc = "auth"] ELSE Sending(k)

(* A call the breaker turns away ends here and changes nothing. *)
Begin(c) ==
  /\ call[c].pc = "idle"
  /\ begun < CallBudget
  /\ begun' = begun + 1
  /\ MayEnter
  /\ Look
  /\ Set(c, Entered(Idle))
  /\ UNCHANGED <<fresh, metrics>>

GotToken(c) ==
  /\ call[c].pc = "auth"
  /\ fresh' = TRUE
  /\ Set(c, Sending(call[c]))
  /\ UNCHANGED <<breaker, metrics, begun>>

(* Faulty variant: one retry too many. *)
RetryOnceMore(k) == k.attempt <= MaxRetries

RetriesLeft(k) == k.attempt < MaxRetries

(* Faulty variant: the failure that ends the call is recorded as that only. *)
RecordOnlyLast(c, k) ==
  /\ RecordFailure
  /\ IF RetriesLeft(k)
       THEN metrics' = Failure(metrics, "retryable") /\ Set(c, [k EXCEPT !.pc = "backoff"])
       ELSE metrics' = Failure(metrics, "max_retries") /\ Set(c, Idle)
  /\ UNCHANGED <<fresh, begun>>

(* A failure the loop retries: back off, or give up after the last attempt. *)
RetryOrGiveUp(c, k) ==
  LET m == Failure(metrics, "retryable")
  IN  /\ RecordFailure
      /\ IF RetriesLeft(k)
           THEN metrics' = m /\ Set(c, [k EXCEPT !.pc = "backoff"])
           ELSE metrics' = Failure(m, "max_retries") /\ Set(c, Idle)
      /\ UNCHANGED <<fresh, begun>>

(* The token endpoint refuses, or is out of reach; nothing is recorded.     *)
NoToken(c) ==
  /\ call[c].pc = "auth"
  /\ Set(c, Idle)
  /\ UNCHANGED <<breaker, fresh, metrics, begun>>

(* Faulty variant: the loop below starts again from its first attempt. *)
StartsOver(c) ==
  /\ call[c].pc = "auth"
  /\ call[c].retried
  /\ RetryOrGiveUp(c, [call[c] EXCEPT !.attempt = 0, !.retried = FALSE])

(* Out of reach in the recursion after a 403: the exception surfaces in the *)
(* loop below, which takes it for a failed attempt of its own.              *)
NoTokenAfter403(c) ==
  /\ call[c].pc = "auth"
  /\ call[c].retried
  /\ RetryOrGiveUp(c, [call[c] EXCEPT !.attempt = call[c].outer, !.retried = FALSE])

(* 2xx.  A body that cannot be parsed raises after this was recorded.       *)
AnswerOk(c) ==
  /\ call[c].pc = "sent"
  /\ RecordSuccess
  /\ metrics' = Success(metrics)
  /\ Set(c, Idle)
  /\ UNCHANGED <<fresh, begun>>

(* Faulty variant: the recursion does not say that it is one. *)
RestartForever(c) ==
  /\ call[c].pc = "sent"
  /\ ~ call[c].retried
  /\ Look
  /\ Set(c, IF MayEnter
              THEN Entered([call[c] EXCEPT !.outer = call[c].attempt, !.attempt = 0])
              ELSE Idle)
  /\ UNCHANGED <<fresh, metrics, begun>>

(* Faulty variant: the recursion does not ask the breaker again. *)
RestartUnasked(c) ==
  /\ call[c].pc = "sent"
  /\ ~ call[c].retried
  /\ Set(c, Entered([call[c] EXCEPT !.retried = TRUE,
                                    !.outer = call[c].attempt, !.attempt = 0]))
  /\ UNCHANGED <<breaker, fresh, metrics, begun>>

(* The first 403: start again from the top, the breaker's check included.   *)
Answer403(c) ==
  /\ call[c].pc = "sent"
  /\ ~ call[c].retried
  /\ Look
  /\ Set(c, IF MayEnter
              THEN Entered([call[c] EXCEPT !.retried = TRUE,
                                           !.outer = call[c].attempt, !.attempt = 0])
              ELSE Idle)
  /\ UNCHANGED <<fresh, metrics, begun>>

(* Any other 4xx, a missing document included, and a second 403. *)
AnswerRefused(c) ==
  /\ call[c].pc = "sent"
  /\ RecordFailure
  /\ metrics' = Failure(metrics, "refused")
  /\ Set(c, Idle)
  /\ UNCHANGED <<fresh, begun>>

(* 5xx, timeout, no connection, protocol error. *)
AnswerRetryable(c) ==
  /\ call[c].pc = "sent"
  /\ RetryOrGiveUp(c, call[c])

(* Any other exception (a read error, say) passes unrecorded. *)
Broken(c) ==
  /\ call[c].pc = "sent"
  /\ Set(c, Idle)
  /\ UNCHANGED <<breaker, fresh, metrics, begun>>

(* Faulty variant: the loop counts down. *)
CountDown(c) ==
  /\ call[c].pc = "backoff"
  /\ Set(c, Sending([call[c] EXCEPT !.attempt = @ - 1]))
  /\ UNCHANGED <<breaker, fresh, metrics, begun>>

(* The backoff is over; the next attempt does not ask the breaker.          *)
Wake(c) ==
  /\ call[c].pc = "backoff"
  /\ Set(c, Sending([call[c] EXCEPT !.attempt = @ + 1]))
  /\ UNCHANGED <<breaker, fresh, metrics, begun>>

-----------------------------------------------------------------------------
(* sap_cb_recovery_timeout seconds have passed since _opened_at. *)
RecoveryTimeout ==
  /\ state = "OPEN"
  /\ ~ elapsed
  /\ elapsed' = TRUE
  /\ UNCHANGED <<state, failures, fresh, call, metrics, begun>>

(* GET /health reads circuit_breaker_state. *)
HealthCheck == Look /\ UNCHANGED <<fresh, call, metrics, begun>>

TokenExpires ==
  /\ fresh
  /\ fresh' = FALSE
  /\ UNCHANGED <<breaker, call, metrics, begun>>

Step(c) ==
  \/ GotToken(c) \/ NoToken(c) \/ NoTokenAfter403(c)
  \/ AnswerOk(c) \/ Answer403(c) \/ AnswerRefused(c) \/ AnswerRetryable(c)
  \/ Broken(c)
  \/ Wake(c)

Next ==
  \/ \E c \in Callers : Begin(c) \/ Step(c)
  \/ RecoveryTimeout
  \/ HealthCheck
  \/ TokenExpires

Spec == Init /\ [][Next]_vars

(* httpx bounds every wait with a timeout, and sleeps end. *)
Fairness == \A c \in Callers : WF_vars(Step(c))

FairSpec == Spec /\ Fairness

-----------------------------------------------------------------------------
(* The breaker is closed exactly while the failures since the last success  *)
(* are below the threshold, whatever order the answers of concurrent calls  *)
(* come in: half-open is never left with a count that would let a failing   *)
(* SAP through.                                                             *)
BreakerCounts == (state = "CLOSED") <=> (failures < Threshold)

(* The retry budget: a 403 may start the loop again, but once only, even if *)
(* the token for the second round cannot be had and the first round goes on.*)
SendsBounded == \A c \in Callers : call[c].sent <= SendLimit

(* The counters of /health add up and explain every failure the breaker has *)
(* counted against SAP since the last success.                              *)
MetricsAddUp ==
  LET m == metrics
      e == metrics.errors
  IN  /\ m.total = m.successful + m.failed
      /\ m.failed = e["refused"] + e["retryable"] + e["max_retries"]
      /\ failures <= e["refused"] + e["retryable"]

(* A call that is counted as given up is counted with all its attempts,     *)
(* also if a 403 made it start again half-way.                              *)
GaveUpAfterAllAttempts ==
  metrics.errors["max_retries"] * (MaxRetries + 1) <= metrics.errors["retryable"]

(* What the retry budget rests on: the loop counters of a call bound the    *)
(* GETs it has sent so far.                                                 *)
CallInOrder(k) ==
  /\ k.attempt <= MaxRetries /\ k.outer <= MaxRetries
  /\ k.pc = "idle" => k.sent = 0
  /\ k.pc = "auth" => k.attempt = 0 /\ k.sent <= (IF k.retried THEN k.outer + 1 ELSE 0)
  /\ k.pc = "backoff" => k.attempt < MaxRetries
  /\ k.pc \in {"sent", "backoff"} =>
       k.sent <= k.attempt + 1 + (IF k.retried THEN k.outer + 1 ELSE 0)

Consistent ==
  /\ TypeOK
  /\ BreakerCounts
  /\ MetricsAddUp
  /\ \A c \in Callers : CallInOrder(call[c])

(* GETs a call may still send without asking the breaker. *)
Permits(k) ==
  IF k.pc = "idle" THEN 0
  ELSE IF k.pc = "auth" THEN MaxRetries + 1
  ELSE MaxRetries - k.attempt

Shut == CurrentState = "OPEN" /\ ~ Sandbox

(* While the breaker is open and its timeout runs, no call gains the right  *)
(* to send: only what was admitted before drains, 403 restarts included.    *)
OpenBreakerDrains ==
  [][Shut /\ Shut' =>
       \A c \in Callers : Permits(call'[c]) <= Permits(call[c])]_vars

(* The waits a call may still have ahead of it.  A round that no 403 has    *)
(* started may wait three times per attempt: for an answer, for a token     *)
(* that is out of reach, and for its backoff.                               *)
Left(k) ==
  CASE k.pc = "idle" -> 0
    [] k.pc = "auth" /\ ~ k.retried -> 5 * MaxRetries + 4
    [] k.pc = "sent" /\ ~ k.retried -> 5 * MaxRetries + 3 - 3 * k.attempt
    [] k.pc = "backoff" /\ ~ k.retried -> 5 * MaxRetries + 1 - 3 * k.attempt
    [] k.pc = "auth" /\ k.retried -> 5 * MaxRetries + 2 - 3 * k.outer
    [] k.pc = "sent" /\ k.retried -> 2 * MaxRetries + 1 - 2 * k.attempt
    [] k.pc = "backoff" /\ k.retried -> 2 * MaxRetries - 2 * k.attempt

(* A call waits 5 * MaxRetries + 4 times at most, whatever mixture of 403s, *)
(* tokens out of reach and failed attempts SAP gives it: each step of its   *)
(* own uses up one wait, and nobody else's step touches it.                 *)
CallsShrink ==
  [][\A c \in Callers : call'[c] # call[c] =>
       Left(call'[c]) \in
         0 .. (IF call[c].pc = "idle" THEN 5 * MaxRetries + 4 ELSE Left(call[c]) - 1)]_vars

(* Every call ends, retries, token fetches and restarts included. *)
EveryCallEnds == \A c \in Callers : call[c].pc # "idle" ~> call[c].pc = "idle"

(* An open breaker is left only after the recovery timeout. *)
RecoveryRespected == [][state = "OPEN" /\ state' # "OPEN" => elapsed]_vars
=============================================================================
