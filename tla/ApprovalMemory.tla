-------------------------- MODULE ApprovalMemory ---------------------------
(***************************************************************************)
(* The approval workflow without a database: ApprovalFacade falls back to  *)
(* ApprovalService, whose _STORE is a dictionary of the worker process.    *)
(*                                                                         *)
(* No coroutine between reading _STORE and writing it ever suspends (the   *)
(* facade and ExecutionService await only coroutines that run to their end *)
(* at once), so a handler is one step of its worker's event loop and every *)
(* handler is one action here.  Each worker process has a store and an     *)
(* execution journal (_AUDIT_LOG) of its own; both die with it.            *)
(***************************************************************************)
EXTENDS ApprovalRecords

CONSTANTS Requests, Workers, ExecutionEnabled

ASSUME EnabledAssumption == ExecutionEnabled \in BOOLEAN

VARIABLES
  store,     \* store[w][r]: _STORE of worker w
  issued,    \* the request ids uuid4 has produced so far
  expired,   \* the requests submitted more than 48 hours ago
  docs,      \* docs[r]: SAP documents posted for r
  journal    \* journal[w]: _AUDIT_LOG of worker w

vars == <<store, issued, expired, docs, journal>>

Entry == [request : Requests, doc : Docs, approver : People \cup {None}]

TypeOK ==
  /\ store \in [Workers -> [Requests -> Record]]
  /\ issued \subseteq Requests
  /\ expired \subseteq issued
  /\ docs \in [Requests -> SUBSET Docs]
  /\ journal \in [Workers -> SUBSET Entry]

Init ==
  /\ store = [w \in Workers |-> [r \in Requests |-> Absent]]
  /\ issued = {}
  /\ expired = {}
  /\ docs = [r \in Requests |-> {}]
  /\ journal = [w \in Workers |-> {}]

(* A number nobody has.  The code takes eight hex digits of a uuid4; that   *)
(* two of them are equal is left out.                                       *)
UnusedDoc(d) == \A r \in Requests : d \notin docs[r]

-----------------------------------------------------------------------------
Write(w, r, rec) == store' = [store EXCEPT ![w][r] = rec]

Submit(w, r, clear) ==
  /\ r \notin issued
  /\ Write(w, r, Submitted(clear))
  /\ issued' = issued \cup {r}
  /\ UNCHANGED <<expired, docs, journal>>

(* Faulty variant: _assert_state is skipped. *)
DecideUnchecked(w, r, rec) ==
  /\ Exists(store[w][r])
  /\ Write(w, r, rec)
  /\ UNCHANGED <<issued, expired, docs, journal>>

Decide(w, r, rec) ==
  /\ Decidable(store[w][r])
  /\ Write(w, r, rec)
  /\ UNCHANGED <<issued, expired, docs, journal>>

Approve(w, r, u) == Decide(w, r, Approved(store[w][r], u))

Reject(w, r, u) == Decide(w, r, Rejected(store[w][r], u))

(* Faulty variant: the pre-execution checks forget expires_at. *)
IgnoreExpiry(w, r) == Executable(store[w][r], ExecutionEnabled, FALSE)

MayExecute(w, r) == Executable(store[w][r], ExecutionEnabled, r \in expired)

(* Faulty variant: the journal entry is written only by the caller. *)
LogNothing(w, r, d) == journal' = journal

Log(w, r, d) ==
  journal' = [journal EXCEPT ![w] = @ \cup
    {[request |-> r, doc |-> d, approver |-> store[w][r].approver]}]

(* Faulty variant: the dispatch succeeds and mark_executed is not reached. *)
DispatchOnly(w, r, d) ==
  /\ MayExecute(w, r)
  /\ UnusedDoc(d)
  /\ docs' = [docs EXCEPT ![r] = @ \cup {d}]
  /\ Log(w, r, d)
  /\ UNCHANGED <<store, issued, expired>>

(* POST /execute: get, pre-checks, dispatch, journal, mark_executed. *)
Execute(w, r, d) ==
  /\ MayExecute(w, r)
  /\ UnusedDoc(d)
  /\ docs' = [docs EXCEPT ![r] = @ \cup {d}]
  /\ Log(w, r, d)
  /\ Write(w, r, Executed(store[w][r], d))
  /\ UNCHANGED <<issued, expired>>

(* 48 hours pass since r was submitted.  Nothing removes r from the store.  *)
Expire(r) ==
  /\ r \in issued \ expired
  /\ expired' = expired \cup {r}
  /\ UNCHANGED <<store, issued, docs, journal>>

(* A worker dies and is replaced: the module globals start empty. *)
Restart(w) ==
  /\ store' = [store EXCEPT ![w] = [r \in Requests |-> Absent]]
  /\ journal' = [journal EXCEPT ![w] = {}]
  /\ UNCHANGED <<issued, expired, docs>>

Next ==
  \/ \E w \in Workers, r \in Requests :
       \/ \E clear \in BOOLEAN : Submit(w, r, clear)
       \/ \E u \in People : Approve(w, r, u) \/ Reject(w, r, u)
       \/ \E d \in Docs : Execute(w, r, d)
  \/ \E r \in Requests : Expire(r)
  \/ \E w \in Workers : Restart(w)

Spec == Init /\ [][Next]_vars

-----------------------------------------------------------------------------
(* The life of a request as its callers see it. *)
StatusOf(r) ==
  IF \E w \in Workers : Exists(store[w][r])
  THEN store[CHOOSE w \in Workers : Exists(store[w][r])][r].status
  ELSE IF r \in issued THEN "gone" ELSE "absent"

CallerStatus == [r \in Requests |-> StatusOf(r)]

Promise == INSTANCE ApprovalLifecycle WITH status <- CallerStatus

(* ApprovalService implements the lifecycle its module docstring draws: no  *)
(* second decision, no execution of an undecided or rejected request, no    *)
(* second life for a request a restart forgot.                              *)
LifecycleFollowed == Promise!Spec

(* A request is posted to SAP at most once, however often /execute is       *)
(* called and whatever restarts in between: dispatch and the move to        *)
(* "executed" are one step, and a forgotten request cannot be executed.     *)
AtMostOneExecution == \A r \in Requests : \A d, e \in docs[r] : d = e

(* Safety contract, point 4: within one worker's life the journal and the   *)
(* store tell the same story, in both directions.                           *)
JournalMatchesStore ==
  \A w \in Workers, r \in Requests :
    LET rec == store[w][r]
        entries == {e \in journal[w] : e.request = r}
    IN  entries = IF rec.status = "executed"
                  THEN {[request |-> r, doc |-> rec.result, approver |-> rec.approver]}
                  ELSE {}

(* What the promises rest on: a request lives in one store only, and has a  *)
(* document exactly once it is executed.                                    *)
Consistent ==
  /\ TypeOK
  /\ \A w, v \in Workers, r \in Requests :
       Exists(store[w][r]) /\ Exists(store[v][r]) => w = v
  /\ \A w \in Workers, r \in Requests :
       Exists(store[w][r]) =>
         /\ r \in issued
         /\ docs[r] = IF store[w][r].status = "executed"
                      THEN {store[w][r].result} ELSE {}
  /\ \A r \in Requests : r \notin issued => docs[r] = {}
  /\ AtMostOneExecution
  /\ JournalMatchesStore

(* An approval that was not executed within 48 hours never is, even if it   *)
(* is granted after the deadline (approve and reject do not look at it).    *)
ExpiredNeverPosted ==
  [][\A r \in expired : docs'[r] = docs[r]]_vars
=============================================================================
