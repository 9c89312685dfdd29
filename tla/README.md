# SAP MM/SD Copilot - TLA+ models and proofs

This directory holds the formal models of the SAP MM/SD AI Copilot: a FastAPI
backend (`src/backend`) that diagnoses blocked SAP documents, plans and
simulates a corrective action, takes it through an approval workflow and
finally executes it in SAP, and a React frontend (`src/frontend`).

    tlc -config db_races.cfg MCApprovalDB       model-check one run
    tlapm ApprovalDBProofs.tla                  check the proofs of a module

## 1. The system

Paths are relative to `src/backend/app` unless they start with `src/`.

| Component | State | Operations | Hard behaviour | What makes it correct |
|---|---|---|---|---|
| Approval records (`models/approval.py`, `db/models/`) | one `ApprovalRequest` per id; row of `approval_requests`, rows of `approval_audit_log` | the four transitions | - | the state machine of `approval_service.py:4-6` |
| In-memory service (`services/approval_service.py`) | `_STORE`, one dictionary per worker | submit, approve, reject, mark_executed, list, get | restarts; several workers, each with its own store | the state machine; one execution; journal = store |
| Database service (`services/approval_service_db.py`, `db/repositories/approval_repository.py`, `api/deps.py:get_db`) | rows, audit rows, one session per call | the same | interleaving at every await, lost updates, failed commits, purge at boot, crash | audit trail in order, row backed by the audit trail, a purge is final, calls are answered |
| Execution (`services/execution_service.py`, `api/routes/execution.py`) | `_AUDIT_LOG` of the worker, documents in SAP | execute, get_audit_log | read - post to SAP - mark, without a lock | nothing posted unapproved or after the deadline; journal names a decider |
| Start-up (`main.py`) | - | purge of expired rows, `_seed_admin` | several workers start together | a purge brings nothing back; one admin |
| Accounts (`services/auth_service.py`, `api/routes/auth.py`, `api/deps.py`, `db/repositories/user_repository.py`) | users; stateless JWTs | login, refresh, logout, create, deactivate; role check | check-then-insert; deactivation racing calls; no revocation | a deactivated user is refused at the next call; an admin remains |
| OData client (`connectors/odata/client.py`, `metrics.py`) | breaker state, failure count, CSRF token, version, counters | get, `_request` with retries, CSRF refetch, health check | concurrent callers between awaits; late answers; half-open | an open breaker sends nothing new; counters add up |
| OData cache, OAuth2 (`connectors/odata/cache.py`, `odata_connector.py`, `auth/oauth2.py`) | entries with deadlines, one token | read-through get, expiry | concurrent misses, older answer arrives last, version detected twice at a time | a read is as fresh as the time to live allows, and mapped for the system it came from |
| Documents (`services/context_service.py`, `connectors/mock_connector.py`, `connectors/odata/services`, `mappers`) | none | fetch and map the document a transaction is about | a document that cannot be read leaves empty data and the pipeline goes on | data is what SAP had, under the names its readers look for |
| Diagnosis, planning, simulation (`services/diagnostic_service.py`, `ai_service.py`, `action_planner.py`, `impact_simulator.py`, `knowledge/`; `api/routes/analyze.py`, `simulate.py`, `approval.py`) | none | functions of the context (one optional AI call with fallback), run by three routes | rule precedence, thresholds, tables in three files that must agree; each route reads and diagnoses anew | what is submitted agrees with the rules, stays below the executor's risk gate, and is never posted on no data |
| Frontend session (`src/frontend/src/api/client.ts`, `api/auth.ts`, `hooks/useAuth.ts`, `store/auth.store.ts`) | tokens in localStorage, persisted store, `isRefreshing`, `refreshSubscribers` | 401 interceptor, login, logout, page load | requests parked during a refresh; refresh fails; logout during a refresh | every request is settled; one refresh at a time; a session that ends has ended everywhere |
| Analysis page (`src/frontend/src/pages/AnalyzePage.tsx`, `components/simulation/SimulationPanel.tsx`) | step, listed actions, selected action | analyse, select, submit, new analysis | submits the context, not the action it shows | what is stored is what was shown |
| Configuration, logging, health, migrations, deployment | none | - | - | not modelled, see section 7 |

How they interact: a route resolves `get_current_user` (role check) and
`get_db` (one session per call, committed when the handler returns), then calls
`ApprovalFacade`, which delegates to the database service if `DATABASE_URL` is
set and to the in-memory service otherwise. `submit` runs
context -> diagnosis -> plan -> simulation through the connector first and stores
the result in the request. `/execute` reads the request through the facade,
lets `ExecutionService` check it and post to SAP, and calls the facade again to
mark it executed. Workers are separate processes: they share the database and
SAP, and nothing else.

## 2. Modules

| Module | Models | State and actions |
|---|---|---|
| `ApprovalRecords` | `models/approval.py` and the transitions both services apply | no state: `Record`, `Submitted`, `Approved`, `Rejected`, `Executed`, `Decidable`, `Executable` |
| `ApprovalLifecycle` | nothing in the code: the promise made to callers | `status[r]`; submit, approve, reject, execute, forget |
| `SharedLifecycle` | nothing in the code: the promise made to callers whose calls overlap | `status[r]`, the audit `trail[r]`, posted `docs[r]`, and the `call[c]` under way; call, post, succeed, fail, forget |
| `ApprovalMemory` | the workflow without a database | `store[w]` = `_STORE`, `journal[w]` = `_AUDIT_LOG`, `docs` = what SAP holds; one action per route |
| `ApprovalDB` | the workflow on PostgreSQL | committed `row` and `audit`, row locks, and per handler `pc`, `seen`, `loaded`, `posted`; one action per stretch between two awaits |
| `SAPClient` | GETs of one worker over `SAPODataClient` | breaker `state`, `failures`, `elapsed`; `metrics`; token `fresh`; per call the await it is at and its loop counters; one action per answer |
| `TokenRefresh` | one browser tab: 401 interceptor, tokens, login, logout, page loads | `page`, persisted `store`, `token` in localStorage, `gate` = `isRefreshing`, per request `req[q]`; `standing` = what the server still accepts; one action per callback |
| `Accounts` | users, tokens, the role check, the seeding of the first admin | `users`, `tokens` in circulation, where each worker is in its life, where each call is; one action per stretch between two awaits |
| `AccountDirectory` | nothing in the code: the promise of a user directory | `directory[s][e]` = what a lookup finds, `tokens`; create, deactivate, forget, issue, expire |
| `SAPKnowledge`, `ActionPlanner`, `ImpactSimulator` | the two rule tables and their searches; the action templates, their confidence, order and parameters; amount, risk, warnings, blockers | no state: each extends the one before |
| `SAPDocuments` | which document a transaction is about, what the mock connector and the OData mappers make of it | no state |
| `DocumentReads` | nothing in the code: the promise of `connectors/base.py` to those who read | a document in SAP, how old each of its contents is, and reads |
| `ODataConnector` | reads of one document through cache and version detection | `store` = the cache's entry, `version`, `reader[r]`; one action per await |
| `Copilot` | analyse, simulate and submit over `ODataConnector` or the mock connector, and the page | `setting`, `ctx`, the running `call`, `page`, the last `result` |
| `MCApprovalMemory`, `MCApprovalDB`, `MCSAPClient`, `MCTokenRefresh`, `MCAccounts`, `MCCopilot` | instances | symmetry sets, the split of handlers over workers, the documents looked at |
| `ApprovalMemoryProofs`, `ApprovalDBProofs`, `SAPClientProofs`, `TokenRefreshProofs`, `AccountsProofs`, `ODataConnectorProofs`, `CopilotProofs` | - | the proofs |

What composes what: `ApprovalMemory` and `ApprovalDB` use `ApprovalRecords` and
implement `ApprovalLifecycle`, `ApprovalDB` only with one call at a time; with any
number it implements `SharedLifecycle`. `Accounts` implements
`AccountDirectory`, and `ODataConnector` implements `DocumentReads`;
`Copilot` extends `ODataConnector`, so that the pipeline's calls interleave with
every other reader of the process. `Copilot` ends where `ApprovalRecords`
begins: `Clear(simulation)` is the bit `clear` of a submitted record.

### ApprovalRecords

A record keeps what the properties tell apart: status, approver, whether a
rejection reason is set, the SAP document of the execution result, and `clear`,
one bit for the stored simulation: no blockers and a risk score of at most
0.85, the two simulation checks of `_pre_execution_checks`. `Absent` stands for
a missing dictionary key or row, for which `_get_or_raise` answers 404. Status
`proposed` is not there because no service ever stores it: `submit` replaces it
before the first write. `rolled_back` and `expired` exist in the enumeration
and are assigned nowhere.

### ApprovalMemory

No handler suspends between its reads and its writes of `_STORE`: the facade's
and the execution service's coroutines contain no real await when there is no
database, so a route is one atomic step. `Submit`, `Approve`, `Reject` and
`Execute` are the routes; a call that is refused (404, 409, 403, 422) changes
nothing and is a stutter. `Execute` is get, checks, dispatch, journal entry and
mark_executed in one step. `Expire(r)` is the passing of the 48 hours; nothing
in memory mode removes an expired request. `Restart(w)` empties store and
journal of one worker; requests live only in the worker that took them, so a
call that reaches another worker finds nothing.

### ApprovalDB

A call is a handler `h`; its identity is also the approver passed in the body
(each concurrent call is made by somebody). `pc[h]` is the await it is
suspended at:

    approve, reject:  BeginDecision -> "reselect" -> "flush" -> "commit" -> idle
    execute:          BeginExecute -> "dispatch" -> "mark" -> "reselect" -> "flush" -> "commit" -> idle

- `BeginDecision`, `BeginExecute`: `_get_or_raise` and the first checks, on the
  row as committed at that moment (READ COMMITTED, PostgreSQL's default; the
  engine sets no isolation level).
- `Dispatch`: from the return of `facade.get` to the SELECT of `mark_executed`
  nothing suspends. The code simulates the posting (`_dispatch` makes up a
  document number of eight hex digits of a uuid4), hence an unused `d`; that two
  such numbers may be equal is left out. `RefuseExpired` is the 422
  of a deadline that passed since the read.
- `MarkSelect`: `mark_executed` reads the row again and wants it `approved`;
  otherwise 404 or 409 and a rollback, with SAP already written to.
- `Reselect`: `update_state` SELECTs and assigns. The row object of the first
  SELECT is unreferenced by then (there are no relationships, the identity map
  is weak), so this SELECT is fresh.
- `Flush`: the UPDATE. SQLAlchemy sends only the columns whose new value
  differs from the one selected; PostgreSQL makes it wait for the row lock;
  if the row is gone meanwhile, SQLAlchemy raises StaleDataError (500).
- `Commit`: the audit INSERT and the commit of `get_db`, which makes both
  visible and releases the lock. FastAPI releases differ in whether the commit
  comes before or after the response is sent; the models claim nothing about
  what a caller sees between the two.
- `Fail`: any database call raises, including the commit; rollback.
- `Submit` is a single step: the id is a fresh uuid4 that nobody else knows
  until the commit.
- `Crash(w)` ends all sessions of a worker and loses its journal; `Boot(w)` is
  `lifespan`: the purge deletes every expired row in whatever state, the audit
  rows go with it (`ON DELETE CASCADE`), and a purge that fails is only logged.

`SharedLifecycle` is what is left of the lifecycle when calls overlap. A caller's
call begins when its first SELECT finds the request in the state it asks for,
and succeeds at one moment, the commit, where its audit entry and, perhaps,
its status appear; a lost update is the freedom `Succeed` has to leave the
status as it is or to overwrite it, but never with `awaiting_approval`. Posting
is a moment of its own. Under `Overlap` a caller is a handler, `CallOf(h)` is what
its session means to him, and rows, locks and columns disappear.

Clocks of different workers are taken to agree. `expired` is monotone because
nothing moves `expires_at` after the submission.

### SAPClient

`call[c].pc` is what a GET waits for: the token endpoint (`auth`), SAP's answer
(`sent`), the end of a backoff (`backoff`). Between two of these awaits the
event loop runs the call alone, so every answer is one action that updates
breaker, counters and call together:

- `Begin`: `allow_request`, then `_auth_headers`. A call the breaker refuses
  leaves no trace and is a stutter.
- `AnswerOk`, `AnswerRefused`, `AnswerRetryable`, `Broken`: 2xx; a 4xx (or a
  second 403); 5xx, timeout, no connection; any exception the loop does not
  name. `RetryOrGiveUp` is the end of a failed attempt.
- `Answer403`: `_request` calls itself inside its own `try`, from the breaker's
  check on and with a new retry budget. `outer` keeps the attempt of the loop
  below. If the token for the second round times out, that exception surfaces
  in the loop below, which counts it as a failed attempt of its own and goes on
  there, where another 403 may restart again (`NoTokenAfter403`).
- `CurrentState` is the property `state`: OPEN becomes HALF_OPEN only when
  somebody looks, and `record_failure` does not look. Real time is the bit
  `elapsed`, set by `RecoveryTimeout` and cleared whenever `_opened_at` is set.

The error types of `errors_by_type` are taken together as the code treats them:
`refused` (ends the call), `retryable`, `max_retries`. `sent` is
kept for the properties; it stops counting one above the limit claimed.

### TokenRefresh

The script of a tab is single-threaded: every answer of the server runs one
callback to its next await, and is one action. Access and refresh token are
always written and removed together, so a pair is a number in the order of
issue and `token` is the pair in localStorage. `Unauthorized` is a 401;
`Reject`, `Park`, `StartRefresh` and `NothingToRefresh` are the four ways
through the interceptor, `Refreshed` and `RefreshFailed` the two ends of its
`axios.post`. A parked request is not marked `_retry`, so it may later start a
refresh of its own; the model keeps this. `Finish` is what the caller of a
request does with the answer: `logoutFn` clears tokens and store whatever the
answer was, and the GET /auth/me of a login completes the login.
`window.location.href` does not stop the script at once: while `page` is
`leaving`, callbacks still run, the answer of a login included; `Load` ends it all
but localStorage, where the persisted store lives too. `Bounce` is the effect of `LoginPage` that sends a
signed-in user to `/`.

### Accounts

`database` says which of the two stores of `user_repository.py` is in use; an
account carries its store, so that workers without a database each have their
own. With a database a call is cut at every await:

    login:            Authenticate -> "authenticated" -> Login
    POST /users:      CreateUser -> "checked" -> InsertUser -> "inserted" -> CommitUser
    deactivate:       DeactivateUser -> "deactivating" -> CommitDeactivation
    start of a worker: Start -> "seeding" -> SeedInsert -> "inserted" -> SeedCommit

Without one the first action of each does it all. `Unique` is the unique index:
an INSERT waits for another one of the same e-mail (`MustWait`) and fails if
that one is committed. In a call this is a 500, in `_seed_admin` it ends the
lifespan and the worker is started again. `Restart` is a worker that dies:
sessions roll back, and the memory store goes. `Admitted` is
`get_current_user` and `require_role`: the account is looked up at every call,
so its state and role are those stored, not those of the token. Refresh leaves
the old tokens in circulation; logout does nothing on the server. Passwords are
right by assumption, e-mails stand for their lower-case form, and `last_login`
is left out.

`AccountDirectory` knows nothing of this. Its `directory` is what a lookup by
e-mail finds in each store (`Found`): one account or none. An account is created
at one moment, under an e-mail that is free and an id that nobody has and no
token names, and after the first admin, who is an admin; it changes only by
being deactivated, and with a memory store all of it may be forgotten. Tokens
are issued for an account that is there, and in a memory store for an active
one: in a shared store `Login` may issue them after a deactivation.

### The knowledge modules and SAPDocuments

A Python dict is a function whose domain is the keys it has, restricted to the
keys that a rule, the planner or the simulator could look for; `Get` is
`raw.get`. Confidences, factors and risk scores are thousandths. The tables are
those of the source entry by entry.

What the code asks of a value is kept as it asks it. A key that is not in the
domain is a missing key or a `None`, which is what `is None` finds (the blocker
for a missing purchase order, `impact_simulator.py:192`); `Given(raw, key)` is the truth
of `raw.get(key)`, which `""` lacks as well (the planner's parameters and the
blocker for the fiscal year). `MapDocument` follows the mappers: a key per SAP
field; where the field is missing or empty, 0 for an amount, `""` for the number
of an order and the material of a stock (`or ""` in `po_mapper.py:27, 58`,
`sales_order_mapper.py`, `stock_mapper.py`), and no key for any other text. SAP's
copy of a document is `complete`, `sparse` (an invoice without blocking reason, an
order without number, of which the mapper warns) or `absent`. This is
where the mock connector and SAP part: the mock's invoice has `po_number` and
`vendor`, a mapped one has `purchase_order_id` and `vendor_id`; only a mapped
purchase order has a `po_number`.

### ODataConnector

Several coroutines read one document of one kind. `Hit` and `Miss` are the two
ways out of the cache's `get`, `Detect` and `DetectionFails` the two ends of
`detect_version`, `Answer` the moment SAP copies the document, `Arrive` the
moment the copy is mapped and cached. Between the last two the document may
change, another reader's detection may rename the system, and another reader's
answer may overwrite the entry. Time passes in ticks; an entry has the whole
time to live from its arrival and is served at the very instant it expires, as
`time.monotonic() > expires_at` has it. `age[c]` counts the ticks since SAP last had
content `c`, as far as a promise depends on it.

### Copilot

`Ask(route)` is everything before the first wait, and `Analyze`,
`SimulateAction` and `Submit` are the rest of a route after its document is
there: the diagnosis by the AI if there is one and its confidence reaches 0.70,
else by the rules; the plan; the simulation. `Environment` is the other readers,
SAP and the clock. `page` is `AnalyzePage`: an answer may be lost after the
server did its part, so that the page stays where it was (`PageMayBecome`).
`result` keeps the last simulation with what it was made from.

## 3. Runs

| Run | Instance | Shows |
|---|---|---|
| `memory` (`MCApprovalMemory.cfg`) | 3 requests, 2 workers, 2 people, 3 documents | `LifecycleFollowed` (refinement of `ApprovalLifecycle`), `AtMostOneExecution`, `JournalMatchesStore`, `ExpiredNeverPosted`, `Consistent` (the inductive invariant) |
| `db_races` | 1 request, 3 handlers in 2 workers, 2 documents | everything that survives racing handlers: `AuditTellsTheStory`, `RowBackedByAudit`, `PostedOnlyAfterApproval`, `ExecutionsWerePosted`, `JournalNamesADecider`, `OverlapFollowed` (refinement of `SharedLifecycle`), `Consistent` |
| `db_sequential` | 2 requests, 1 handler at a time, 3 documents | with calls one after the other the database service implements `ApprovalLifecycle` and posts only what is approved at that moment, failures, crashes and purges included |
| `db_answers` | 1 request, 3 handlers, 1 document, fairness | `EveryCallAnswered` |
| `db_two_executions` | 1 request, 2 handlers, 2 documents | violation of `PostedWhileApproved`, see section 5 |
| `client_races` | 2 callers, 4 calls, threshold 2, 1 retry, OAuth2, fairness | `BreakerCounts`, `SendsBounded`, `MetricsAddUp`, `GaveUpAfterAllAttempts`, `OpenBreakerDrains`, `CallsShrink`, `Consistent`, `EveryCallEnds` |
| `client_recovery` | 1 caller, 1 retry | violation of `RecoveryRespected`, see section 5 |
| `refresh_races` | 3 requests, 2 token pairs, fairness | `GateMatchesRefresh`, `NobodyForgotten`, `ResentWithNewer`, `Consistent`, `EveryRequestSettled` |
| `refresh_logout` | 2 requests, 2 pairs | violation of `RefreshOnlyRenews`, see section 5 |
| `accounts` | 2 workers, 2 calls, 5 ids, 2 e-mails, 2 restarts, with and without a database, fairness | `DirectoryFollowed` (refinement of `AccountDirectory`), `FirstAdminSeeded`, `RefusedForGood`, `Consistent`, `WorkersStart` |
| `copilot` | 2 readers, 11 contexts of the mock connector, 5 of SAP, with and without AI | `SubmittedWithinThreshold`, `PlanAgreesWithRules`, `GoodsReceiptNamesOrder`, `UngroundedNeverPosts`, `PreviewNotMilder`, `ReadsAsPromised` (refinement of `DocumentReads`), `Consistent` |
| `page_submit` | the same | violation of `SubmittedAsShown`, see section 5 |

Bounds. Handlers interact only through one row, its lock and its audit trail,
so races need one request and as many handlers as there are parties: two
decisions and an execution make every pair and the triple that matters (an
executor between two deciders). Handlers return to idle and may be called
again, so a few names make any number of calls, bounded by the documents: each
posting uses one, and `DocBudget` admits an execute call only while a document
is left for it, so that the bound never stops a call half-way. The audit trail
grows only with commits of calls that were admitted while the row allowed them,
so it is bounded too. Two workers are enough for a crash of one and a boot and
purge next to live sessions of the other. `Documents`, `RequestsAndDocuments`
and `Interchangeable` are symmetry sets of values no definition distinguishes;
the runs with a liveness property use none.

`SAPClient` is bounded by `CallBudget`. Threshold 2 lets the breaker be one
failure away from opening; of two callers one is admitted before the breaker
opens and the other opens it, ends and probes, over and over as far as four
calls go; one retry has all of the first attempt, a retry and giving up, and
with a restart after a 403 in either.

`TokenRefresh` is bounded by `MaxPairs`: a login and a refresh, after which
every further refresh fails. Three requests are the one that refreshes, one
that is parked and one whose late 401 still concerns the old token.

`Accounts` is bounded by its ids: `Plenty` admits a creation only while every
worker still has an id for its seed, so that the bound never keeps a worker
from starting. Two workers seed at the same time, or one seeds while the other
serves a call that creates an account of the same e-mail; two calls are any
pair of login, creation and deactivation. `first` is the first admin's e-mail
and `second` everybody else's. Two restarts let a worker without a database
forget an account whose token is still in circulation, and come up again.

`Copilot` has one consultant's coroutine and one other reader, which is what it
takes for an entry to be overwritten and for a detection to fail in between.
`MCScenarios` has every kind of document, the mock's documents where they
differ, a document that is not there and a transaction without a rule. The time
to live of an invoice and a sales order is 1 tick, that of a purchase order and a
stock 0, an answer is under way for at most 1, so
that an entry outlives the content it was made from, expires, and is served at
its last instant. The AI's answers are one at its threshold, one just below,
two that contradict the rules and an `UNKNOWN`. SAP with AI is explored for two
contexts: a stock that the caller gives a fiscal year for, and a purchase order with a
fiscal year, the one place where an AI's `MISSING_GR` meets a document that may
lack its number. For the three others SAP is explored without AI, to keep the run
short; what an AI adds there is left to the theorems, which hold for any scenarios. An AI call may end without an
accepted answer, so the rules' diagnosis is explored with it, too. `/simulate` is
asked about MIGO and VK12, which are in some plans and not in others.

Fairness (`FairSpec`). Weak fairness of a handler's steps: the event loop
resumes a coroutine whose database call has returned. Strong fairness of
`Flush`: PostgreSQL queues the waiters of a row lock, so a waiting UPDATE is
not passed over for ever, although the lock is taken and released in between.
No call has to be made, nothing has to fail, crash, boot or expire. In
`SAPClient`, weak fairness of a call's steps: httpx bounds every wait by a
timeout (`sap_timeout_*`), and a sleep ends; which answer comes is left open.
In `TokenRefresh`: a connection is answered or breaks, the browser does leave a
document that is being left, effects run, and the list of approvals is polled
every 30 seconds (`refetchInterval`) while the application is shown. In
`Accounts`: a process that ends is started again by its supervisor, and the
database answers a seeding worker; a call that creates an account is committed
or rolled back, for a seeding worker may wait for it. `Copilot` claims no liveness.

`CHECK_DEADLOCK FALSE` is set where the system really may stop: in `accounts`,
where user ids and calls run out, and in `copilot` and `page_submit`, where
the page rests once a proposal is submitted or an analysis returned no action
to select, and under the mock connector nothing else moves. Every other run
checks deadlock.

Each property has a faulty variant of a definition beside it in the modules
(named in its comment as such) under which the property fails: a guard that is
dropped, an audit row that is not written. They document
what the property depends on and are used by no specification.

## 4. What is proved

`ApprovalMemoryProofs`, for any sets of people, documents, requests, workers:

- `AlwaysConsistent`: `Consistent` is an invariant. It adds to the type
  invariant and to the two claims proper (one document per request; journal =
  store) what makes them inductive: a request lives in one store only, was
  issued by uuid4, and has a document exactly if its record is executed.
  `StepKinds` sorts the actions into submit, decide, execute, restart and
  steps that leave the records alone; `OneWrite` does the work for all that
  write one record.
- `NeverPostedTwice`, `JournalAgrees`: its consequences.
- `NothingPostedLate`: the action property `ExpiredNeverPosted`; of the kinds of
  steps only the execution posts, and it asks for the deadline.
- `Refinement`: the service implements `ApprovalLifecycle` under the mapping
  `CallerStatus`: the status of the one record there is, `gone` if it was
  issued and is nowhere, `absent` before.

`ApprovalDBProofs`, for any sets of requests, handlers, workers and documents:

- `AlwaysConsistent`: `Consistent` is inductive. It says of every session in
  flight that what it has read is still backed by the committed audit trail
  (`Backed(seen[h], ...)`): trails only grow or vanish with their row, so the
  fact survives whatever other sessions commit. For a session that has selected
  the row (`flush`, `commit`) it says that the columns it will not send are
  those of a pending row or of a row that is decided and stays so; this is what
  makes the column-wise merge of a lost update still backed by the trail. Only
  the session at `commit` holds the lock of its row.
- `TypeCorrect`, `AuditInOrder`, `RowsAreBacked`, `NothingPostedUnapproved`,
  `JournalIsHonest`: its consequences.
- `PurgeIsFinal`, `DecisionsStay`: the action properties, from the same
  invariant. No run states them, `OverlapFollowed` says as much and more.
- `OverlapRefinement`: the refinement of `SharedLifecycle`, with no restriction on
  the calls. It needs `Faithful` beside `Consistent`: a request is gone only after
  its deadline, and the simulation a session has checked is the one stored. There
  is one lemma per kind of step, named for how a caller sees it (`SubmitSeen`,
  `BeginSeen`, `DispatchSeen`, `CommitSeen`, `PurgeSeen`, `CallsEnd`).
- `ExecutionsPosted`: `ExecutionsWerePosted`, by counting. Beside the audited
  executions of a request stand the calls that hold a document they have not
  recorded yet (`Holders`): a dispatch adds a document and a holder, a commit
  turns a holder into an audit row, a failure only loses one.
- `SequentialPosts`, `SequentialRefinement`: if no two calls are in flight
  together (`Sequential`, the constant `Handlers` has at most one element),
  nothing is posted for a request that is not approved at that moment, and the
  service implements `ApprovalLifecycle`. The invariant `UpToDate` says that
  what the call has read is what the row says, unless the row was purged. With
  section 5 this is the exact price of the missing lock.
- `SequentialPostsOnce`: under the same restriction a request gets a second SAP
  document only if a call that has posted one ends before its COMMIT (`NoneLost`
  excludes that). A document is in the hands of the call that posted it or on
  record (`OnRecord`).

`SAPClientProofs`, for any set of callers, any threshold of at least one, any
number of retries, sandbox and OAuth2 on or off:

- `AlwaysConsistent`: `Consistent` is inductive. `BreakerCounts` carries the
  breaker (a half-open breaker still has a count at the threshold, so either
  branch of `record_failure` reopens it), and `CallInOrder` the retry budget: a
  call has sent no more GETs than its loop counters account for, those of the
  interrupted round included.
- `TypeCorrect`, `BreakerCountsRight`, `CountersAddUp`, `RetryBudget`: its
  consequences. `CallStep` and `CountsStep` are the two halves of the step.
- `OpenDrains`: the action property `OpenBreakerDrains`, from `CallInOrder`.
- `CallsEndInTime`: the action property `CallsShrink`. `Left` is a measure that
  every step of a call lowers and no other step touches; a call starts with at
  most 5 * `MaxRetries` + 4 of it. This is the safety half of `EveryCallEnds`:
  what is left to the fairness is that a wait ends.
- `RecoveryAwaited`: without retries, out of sandbox mode and with one caller
  `RecoveryRespected` holds, for nothing is under way while the breaker is open
  (`ShutOut`). Section 5 shows that one retry is enough to lose it.
- `GivesUpLast`: `GaveUpAfterAllAttempts`, by counting. Every failed attempt
  earns its call a credit, a call that gives up spends `MaxRetries` of them, and
  what is counted covers both (`CreditsLeft`). A call that recurses after a 403
  takes the credits of the loop below with it only as long as it may return there.

`TokenRefreshProofs`, for any number of requests and pairs:

- `AlwaysConsistent`: `Consistent` is inductive. To the three claims it adds
  `IssuedOnly`, nobody holds a pair of the future, which makes the pair of a
  refresh newer than all that were refused. `OneRequest` does the work for the
  steps that change one request, `RefreshedStep` for the one that changes many.
- `OneRefreshAtATime`, `NobodyLeftBehind`, `NewTokenEachTime`: its
  consequences.
- `RefreshRenewsUnlessLogout`: `RefreshOnlyRenews` holds as long as no logout is
  under way while another request refreshes (`LogoutAlone`). Failed refreshes,
  reloads, late 401s and any number of logins do no harm: whoever refreshes has
  a session to renew (`HasSession`).

`AccountsProofs`, for any sets of workers, calls, ids and e-mails, with and
without a database:

- `AlwaysConsistent`: `Consistent` is inductive. To `UniqueEmails` and
  `FirstAdminSeeded` it adds that e-mails are unique also among the accounts
  being inserted (`Pending`, `OneSeeds`, `CallsApart`) and that the first
  account of a store is the seeded admin (`AdminFirst`), so that nobody can
  take his e-mail before him. `GrowStep` does the work for the steps that store
  an account, `SameStep` for those that store none.
- `EmailsUnique`, `FirstAdminThere`: its consequences.
- `DirectoryRefinement`: the refinement of `AccountDirectory`. `FoundAt` reduces
  what a lookup finds to the accounts that hold an e-mail (`Holders`), `CreateSeen`
  does the work for the four actions that store an account, `DeactivateSeen` for
  the two that deactivate one. Deactivating an account that is not active is a
  stutter, and so is the loss of a memory store that was empty.
- `TokensRefusedForGood`: the action property `RefusedForGood`; an id with a
  token in circulation is never given to another account, and nobody writes
  `active` but the deactivation.

`ODataConnectorProofs`, for any number of readers and any times to live:

- `ConnectorAlwaysConsistent`: no servable entry is older than the answer was
  under way plus the entry's life so far (`BoundedStaleness`), and no answer
  under way was asked of the wrong kind of system (`AnswersRecent`).
- `ReadsReturnDocuments` (a lemma of the pipeline's proof): what a read returns is
  what a mapper makes of some copy of the document.
- `ConnectorRefinesReads`: the refinement of `DocumentReads`, from both; a hit
  and an arrival are the two ways a read returns.

`CopilotProofs`, for any contexts, any answers of the AI the reply tool's schema
admits, any number of readers:

- `PipelineReadsAsPromised`: every step of the pipeline is a step of the
  connector or none, so the refinement carries over.
- `WithinThreshold`, `PlannerAgrees`, `ReceiptsNameOrders`,
  `UngroundedIsBlocked`, `PreviewIsNotMilder`: from one invariant,
  `ResultsPromised`, that every stored result satisfies. It rests on facts about
  the tables: `Tables` (a risky first action is the only one, and of an issue
  without amount), `PlanHead` (what sorting by confidence puts first, for every
  confidence from 0 to 1000), `RulesAre` (which rule names which transaction),
  `RiskBound`. For the goods receipt it is not enough to compare the blocker with
  the planner, for they test differently: a call's data is the mock's, none, or the
  image of what SAP answered (`MayRead`, from the connector's `ReadsReturnDocuments`);
  the mock's documents never have an empty number (`MockOrdersNamed`), of SAP's
  only a purchase order has one at all, and no fiscal year with it (`MappedOrders`), and
  no rule finds a goods receipt missing there (`NoRuleForReceipts`).
  `SubmittedReceipt` puts them together.
- `AlwaysConsistent`: types, the page's selection, and the connector below.

Assumptions: the named ASSUMEs of the modules only. `None` is not a person,
document or request; every handler has a worker; `Threshold` is positive,
`MaxRetries`, `MaxFetch`, the times to live and the bounds are natural numbers;
`Workers` of `Accounts` is finite and neither `Shared` nor the store of `NoUser` is
one of them; `FirstAdmin` is
an e-mail; the consultant's coroutine is a reader (`MeAssumption`); the AI's
answers have a known issue and a confidence from 0 to 1 (`AnswersAssumption`,
which `ai_service.py` enforces by its schema and by `IssueType(...)`); the
page sends no fiscal year (`PageAssumption`, its form has no field for it).

Only model-checked: the liveness properties `EveryCallAnswered`,
`EveryCallEnds`, `EveryRequestSettled` and `WorkersStart`, which are outside the
prover's reach: TLAPS has no rules for ENABLED, which fairness is defined by. Every
other property of a passing run is proved, the two of `db_sequential` under its
own restriction. Of `EveryCallEnds` the measure is proved (`CallsEndInTime`).

## 5. Findings

1. *Two executions* (`db_two_executions`). `/execute` posts to SAP on the
   strength of the row it read earlier. Two calls post twice; a late rejection
   does not stop a posting. With one call at a time this cannot happen
   (`SequentialPosts`), except for the retry after a failed commit, where the
   request is still `approved` and the second posting passes every check; that
   this is the only exception is `SequentialPostsOnce`. The
   same missing lock lets an approve and a reject that are in flight together
   both succeed: the later commit wins, up to a request that is executed in SAP
   and rejected in the table. What does hold is `SharedLifecycle`: both decisions
   are on the audit trail, each was made on a request that was pending when its
   call read it, and a decided request never becomes pending again.
   Without a database neither happens, for every handler is one step.
2. *Early recovery* (`client_recovery`). `docs/SAP_ODATA_SETUP.md:69` has an
   open breaker wait 60 seconds before it tries again. A retry does not ask the
   breaker, and `record_success` closes it from any state: a call that opens
   the breaker with one attempt closes it with the next, and so does a late
   success of a concurrent call. `OpenBreakerDrains` is what does hold: nobody
   new is admitted meanwhile; `RecoveryAwaited` says that without retries and
   concurrent calls the document is right.
3. *Logout during a refresh* (`refresh_logout`). The answer of a refresh is
   stored without looking whether there still is a session: tokens reappear
   after a logout, or replace those of the next login. It takes just that
   overlap (`RefreshRenewsUnlessLogout`).
4. *The page's simulation* (`page_submit`). `AnalyzePage` never calls
   `/simulate`; it shows a constant that says reversible and unblocked of every
   action. For the demo's blocked invoice 51000321 the action is MR11, which
   the simulator holds not to be reversible, and the stored request says so.
   It also submits the context, not the action that is selected: the server
   stores the first action of a plan it makes anew.

Other observations, which no document contradicts and no property forbids:

- A failed refresh removes the tokens from localStorage, but `useAuthStore`
  persists user and access token under a key of its own. `/login` finds the
  user signed in and sends him to `/`, whose first request has no token, fails,
  and leaves for `/login` again, until he logs out in between.
- Over OData a goods receipt (MIGO) proposed for an invoice is always blocked for
  want of a purchase order: simulator and planner look for `po_number`, a mapped
  invoice has `purchase_order_id`. For the same reason amounts of OData invoices
  never raise a risk score. A mapped purchase order does have `po_number`.
- That `po_number` is `""` where SAP gives none. The blocker of
  `impact_simulator.py:192` asks `is None` and lets it pass, although its message says
  "cannot post GR without PO reference"; the planner asks for truth and gives
  no `EBELN`. So a goods receipt without its order may be approved and executed.
  `GoodsReceiptNamesOrder` states what that takes: no rule proposes a goods receipt
  for the transactions that look at purchase orders, so it needs the AI's diagnosis
  `MISSING_GR`, and, as a mapped order has no fiscal year, one from the caller. In
  every other case a receipt that passes the blockers names its order.
- The chained comparison of `impact_simulator.py:166` never holds, so that the
  warning it guards is never given. `posting_required` is false for a posting
  whose amount is not known.
- The risk gate of 0.85 never fires for a submitted request
  (`SubmittedWithinThreshold`): the first action of a plan stays below it.
- Some SD rules cannot be reached, and MM-004 neither: the rules before them
  match whenever they do. The SD search ignores the block reason.
- `/simulate` falls back to the plan's first action when it does not know the
  transaction asked for, and labels the answer with the one asked for.
- A document that cannot be read leaves empty data, and the rules' fallback
  diagnoses it with full confidence.
- An ECC invoice without fiscal year is looked up by its number with `$top=1`;
  the cache is not invalidated after an execution; a failed version detection
  lasts until the restart and may overwrite a successful one.
- The last active admin may be deactivated; `_seed_admin` finds the account and
  leaves it as it is. Without a database every worker has accounts of its own.

## 6. Plan

1. (done) `ApprovalRecords`, `ApprovalLifecycle`, `ApprovalMemory`, `ApprovalDB`, their runs and proofs.
2. (done) `SAPClient`, its runs and proofs.
3. (done) `TokenRefresh`, its runs and proofs.
4. (done) `Accounts`, its run and proofs.
5. (done) `DocumentReads` and `ODataConnector`, checked as part of `copilot`, and the proof of the refinement.
6. (done) `SAPKnowledge`, `ActionPlanner`, `ImpactSimulator`, `SAPDocuments`, `Copilot`, their runs and proofs.
7. Left: several browser tabs over one localStorage, each with its own
   `isRefreshing`; `Copilot` and `ApprovalDB` in one specification rather than
   joined by the bit `clear`.

## 7. Not modelled

List and get operations of approvals (they change nothing) and the visibility
of requests to consultants, which decides what they show; SAP's side of an
execution, which the code replaces by a generated document number; pool limits
of the database engine; the CSRF token (it is fetched for writes only, and the
program sends none) and the client's own health check (it passes by breaker and
counters); durations, services and the last error in the counters; the cache's
`invalidate` and `clear`, which nothing calls; texts, severities, dates, items,
currencies and accounts of documents and simulations; the status that mappers
derive, which nobody reads (the caller's is used); passwords and the signature
of tokens; several tabs of one browser; the pages that only render what the API
returns; configuration, logging, health, migrations and deployment files.
