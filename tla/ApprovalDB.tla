---------------------------- MODULE ApprovalDB -----------------------------
(***************************************************************************)
(* The approval workflow on PostgreSQL: the handlers of /approve, /reject  *)
(* and /execute, running concurrently in several worker processes, each    *)
(* with a database session of its own (api/deps.py get_db) that commits    *)
(* when the handler returns and rolls back when it raises.                 *)
(*                                                                         *)
(* A handler is cut where it awaits the database, for other handlers run   *)
(* there.  The database reads committed rows (PostgreSQL's default, which  *)
(* the engine keeps), nothing is SELECTed FOR UPDATE, and rows carry no    *)
(* version.  What the code relies on from its libraries:                   *)
(*  - a SELECT returns the row as last committed.  The ORM object of an    *)
(*    earlier SELECT of the session does not mask it: get_by_request_id    *)
(*    drops its only reference on return and the identity map is weak;     *)
(*  - the UPDATE that flush emits sets the columns whose value differs     *)
(*    from the one SELECTed, waits for the row's lock, fails if the row    *)
(*    is gone, and keeps the lock until the transaction ends.              *)
(*                                                                         *)
(* Every call in flight has a caller of its own, so a handler's name is    *)
(* also the approver it passes.                                            *)
(***************************************************************************)
EXTENDS Naturals, Sequences, FiniteSets

CONSTANTS Requests, Handlers, Workers, WorkerOf, Docs, None, ExecutionEnabled

ASSUME WorkerAssumption == WorkerOf \in [Handlers -> Workers]
ASSUME EnabledAssumption == ExecutionEnabled \in BOOLEAN
ASSUME DistinctAssumption == None \notin Requests \cup Handlers \cup Docs

INSTANCE ApprovalRecords WITH People <- Handlers

VARIABLES
  row,       \* row[r]: table approval_requests, as committed
  audit,     \* audit[r]: table approval_audit_log, as committed, by id
  locked,    \* locked[r]: the handler whose transaction has updated row r
  issued,    \* the request ids uuid4 has produced so far
  expired,   \* the requests submitted more than 48 hours ago
  docs,      \* docs[r]: SAP documents posted for r
  journal,   \* journal[w]: the in-memory _AUDIT_LOG of worker w
  up,        \* up[w]: worker w is serving
  pc,        \* pc[h]: the point where handler h awaits, or "idle"
  job,       \* job[h]: the operation and the request h was called with
  seen,      \* seen[h]: the ApprovalRequest the service read and checked
  loaded,    \* loaded[h]: the ORM row update_state selected
  posted     \* posted[h]: the SAP document h's dispatch created

database == <<row, audit, locked>>
session  == <<pc, job, seen, loaded, posted>>
vars == <<row, audit, locked, issued, expired, docs, journal, up, session>>

Operations == {"approve", "reject", "execute"}
Jobs == [op : Operations, request : Requests]
NoJob == [op |-> "none", request |-> None]
AuditRow == [action : Operations \cup {"submit"}, actor : Handlers \cup {None}]
Entry == [request : Requests, doc : Docs, approver : Handlers \cup {None}]

TypeOK ==
  /\ row \in [Requests -> Record]
  /\ audit \in [Requests -> Seq(AuditRow)]
  /\ locked \in [Requests -> Handlers \cup {None}]
  /\ issued \in SUBSET Requests
  /\ expired \in SUBSET issued
  /\ docs \in [Requests -> SUBSET Docs]
  /\ journal \in [Workers -> SUBSET Entry]
  /\ up \in [Workers -> BOOLEAN]
  /\ pc \in [Handlers -> {"idle", "dispatch", "mark", "reselect", "flush", "commit"}]
  /\ job \in [Handlers -> Jobs \cup {NoJob}]
  /\ seen \in [Handlers -> Record]
  /\ loaded \in [Handlers -> Record]
  /\ posted \in [Handlers -> Docs \cup {None}]
  /\ \A h \in Handlers : pc[h] # "idle" => job[h] \in Jobs

Init ==
  /\ row = [r \in Requests |-> Absent]
  /\ audit = [r \in Requests |-> <<>>]
  /\ locked = [r \in Requests |-> None]
  /\ issued = {}
  /\ expired = {}
  /\ docs = [r \in Requests |-> {}]
  /\ journal = [w \in Workers |-> {}]
  /\ up = [w \in Workers |-> TRUE]
  /\ pc = [h \in Handlers |-> "idle"]
  /\ job = [h \in Handlers |-> NoJob]
  /\ seen = [h \in Handlers |-> Absent]
  /\ loaded = [h \in Handlers |-> Absent]
  /\ posted = [h \in Handlers |-> None]

-----------------------------------------------------------------------------
(* Pieces of the handlers. *)

Op(h)  == job[h].op
Req(h) == job[h].request

Goto(h, label) == pc' = [pc EXCEPT ![h] = label]

(* The sessions of the handlers in H end: locals and identity maps go. *)
Close(H) ==
  /\ pc' = [h \in Handlers |-> IF h \in H THEN "idle" ELSE pc[h]]
  /\ job' = [h \in Handlers |-> IF h \in H THEN NoJob ELSE job[h]]
  /\ seen' = [h \in Handlers |-> IF h \in H THEN Absent ELSE seen[h]]
  /\ loaded' = [h \in Handlers |-> IF h \in H THEN Absent ELSE loaded[h]]
  /\ posted' = [h \in Handlers |-> IF h \in H THEN None ELSE posted[h]]

Unlock(H) ==
  locked' = [r \in Requests |-> IF locked[r] \in H THEN None ELSE locked[r]]

(* Faulty variant: the exception ends the call, but not its transaction. *)
Abandon(H) == Close(H) /\ UNCHANGED database

Rollback(H) == Close(H) /\ Unlock(H) /\ UNCHANGED <<row, audit>>

(* The ApprovalRequest the service hands to update_state. *)
Target(h) ==
  CASE Op(h) = "approve" -> Approved(seen[h], h)
    [] Op(h) = "reject"  -> Rejected(seen[h], h)
    [] OTHER             -> Executed(seen[h], posted[h])

(* A column SELECTed with the value it is set to is not in the UPDATE.      *)
Column(target, selected, current) ==
  IF target # selected THEN target ELSE current

(* The row after the UPDATE; the simulation is never part of it.            *)
Updated(h) ==
  LET t == Target(h)
      l == loaded[h]
      c == row[Req(h)]
  IN  [status   |-> Column(t.status, l.status, c.status),
       approver |-> Column(t.approver, l.approver, c.approver),
       reason   |-> Column(t.reason, l.reason, c.reason),
       result   |-> Column(t.result, l.result, c.result),
       clear    |-> c.clear]

(* Faulty variant: the audit row names the handler's step, not the operation. *)
LoggedStep(h) == [action |-> pc[h], actor |-> h]

Logged(h) ==
  [action |-> Op(h), actor |-> IF Op(h) = "execute" THEN None ELSE h]

-----------------------------------------------------------------------------
(* POST /approval/submit: INSERT, the audit INSERT and COMMIT.  The id is   *)
(* new and unknown to others until the commit, so the transaction is one    *)
(* step; if it fails nothing has happened.                                  *)

(* Faulty variant: submitting under an id already in use overwrites it. *)
NewId(r) == TRUE

FreshId(r) == r \notin issued

Submit(w, r, clear) ==
  /\ up[w]
  /\ FreshId(r)
  /\ issued' = issued \cup {r}
  /\ row' = [row EXCEPT ![r] = Submitted(clear)]
  /\ audit' = [audit EXCEPT ![r] = Append(@, [action |-> "submit", actor |-> None])]
  /\ UNCHANGED <<locked, expired, docs, journal, up, session>>

(* A call arrives and its first SELECT returns.  Calls that find no row or  *)
(* a row in another state end here with 404 or 409 and change nothing.      *)
Begin(h, op, r, label) ==
  /\ pc[h] = "idle"
  /\ up[WorkerOf[h]]
  /\ Exists(row[r])
  /\ Goto(h, label)
  /\ job' = [job EXCEPT ![h] = [op |-> op, request |-> r]]
  /\ seen' = [seen EXCEPT ![h] = row[r]]
  /\ UNCHANGED <<database, issued, expired, docs, journal, up, loaded, posted>>

BeginDecision(h, op, r) ==
  /\ Decidable(row[r])
  /\ Begin(h, op, r, "reselect")

(* Faulty variant: execute trusts that the caller waited for the approval. *)
TrustCaller(rec, isExpired) == Exists(rec) /\ ~ isExpired

MayPost(rec, isExpired) == Executable(rec, ExecutionEnabled, isExpired)

(* Bound of the model: a call is admitted only while a document number is   *)
(* left for it.                                                             *)
DocBudget ==
  LET unused == Docs \ UNION {docs[r] : r \in Requests}
      waiting == {h \in Handlers : pc[h] = "dispatch"}
  IN  Cardinality(waiting) < Cardinality(unused)

BeginExecute(h, r) ==
  /\ DocBudget
  /\ MayPost(row[r], r \in expired)
  /\ Begin(h, "execute", r, "dispatch")

(* Faulty variant: document numbers are not unique. *)
AnyDoc(d) == d \in Docs

(* A number nobody has.  The code takes eight hex digits of a uuid4; that   *)
(* two of them are equal is left out.                                       *)
UnusedDoc(d) == \A r \in Requests : d \notin docs[r]

(* Faulty variant: the journal entry names the executor as approver. *)
EntryOfExecutor(h, d) == [request |-> Req(h), doc |-> d, approver |-> h]

EntryOf(h, d) == [request |-> Req(h), doc |-> d, approver |-> seen[h].approver]

(* The SELECT has returned to the event loop.  From here to the SELECT of   *)
(* mark_executed nothing suspends: the pre-checks on the row as it was      *)
(* read, the dispatch to SAP, the journal entry.                            *)
Dispatch(h, d) ==
  /\ pc[h] = "dispatch"
  /\ MayPost(seen[h], Req(h) \in expired)
  /\ UnusedDoc(d)
  /\ docs' = [docs EXCEPT ![Req(h)] = @ \cup {d}]
  /\ journal' = [journal EXCEPT ![WorkerOf[h]] = @ \cup {EntryOf(h, d)}]
  /\ posted' = [posted EXCEPT ![h] = d]
  /\ Goto(h, "mark")
  /\ UNCHANGED <<database, issued, expired, up, job, seen, loaded>>

(* The approval expired after its row was read: 422. *)
RefuseExpired(h) ==
  /\ pc[h] = "dispatch"
  /\ Req(h) \in expired
  /\ Rollback({h})
  /\ UNCHANGED <<issued, expired, docs, journal, up>>

(* mark_executed reads the row again; 404 or 409 if it is gone or no longer *)
(* approved, although SAP has been written to.                              *)
MarkSelect(h) ==
  /\ pc[h] = "mark"
  /\ IF row[Req(h)].status = "approved"
       THEN /\ seen' = [seen EXCEPT ![h] = row[Req(h)]]
            /\ Goto(h, "reselect")
            /\ UNCHANGED <<database, job, loaded, posted>>
       ELSE Rollback({h})
  /\ UNCHANGED <<issued, expired, docs, journal, up>>

(* update_state SELECTs the row and assigns its columns; it does not look   *)
(* at the status again.  ValueError if the row has been purged.             *)
Reselect(h) ==
  /\ pc[h] = "reselect"
  /\ IF Exists(row[Req(h)])
       THEN /\ loaded' = [loaded EXCEPT ![h] = row[Req(h)]]
            /\ Goto(h, "flush")
            /\ UNCHANGED <<database, job, seen, posted>>
       ELSE Rollback({h})
  /\ UNCHANGED <<issued, expired, docs, journal, up>>

MatchesRow(r) == Exists(row[r])

(* Faulty variant: update_state merges, so a missing row is INSERTed again. *)
MergeRow(h) ==
  /\ pc[h] = "flush"
  /\ locked[Req(h)] = None
  /\ locked' = [locked EXCEPT ![Req(h)] = h]
  /\ Goto(h, "commit")
  /\ UNCHANGED <<row, audit, issued, expired, docs, journal, up, job, seen, loaded, posted>>

(* flush emits the UPDATE, which waits for the row lock; StaleDataError if  *)
(* it matches no row.                                                       *)
Flush(h) ==
  /\ pc[h] = "flush"
  /\ locked[Req(h)] = None
  /\ IF MatchesRow(Req(h))
       THEN /\ locked' = [locked EXCEPT ![Req(h)] = h]
            /\ Goto(h, "commit")
            /\ UNCHANGED <<row, audit, job, seen, loaded, posted>>
       ELSE Rollback({h})
  /\ UNCHANGED <<issued, expired, docs, journal, up>>

(* Faulty variant: the audit row is written in a transaction of its own,    *)
(* which may fail unnoticed.                                                *)
DropAudit(h) == audit' = audit

AppendAudit(h) == audit' = [audit EXCEPT ![Req(h)] = Append(@, Logged(h))]

(* The audit INSERT and, after the handler returned, COMMIT. *)
Commit(h) ==
  /\ pc[h] = "commit"
  /\ row' = [row EXCEPT ![Req(h)] = Updated(h)]
  /\ AppendAudit(h)
  /\ Unlock({h})
  /\ Close({h})
  /\ UNCHANGED <<issued, expired, docs, journal, up>>

(* Any database call may fail, COMMIT included: 500, rolled back. *)
Fail(h) ==
  /\ pc[h] # "idle"
  /\ Rollback({h})
  /\ UNCHANGED <<issued, expired, docs, journal, up>>

-----------------------------------------------------------------------------
Expire(r) ==
  /\ r \in issued \ expired
  /\ expired' = expired \cup {r}
  /\ UNCHANGED <<database, issued, docs, journal, up, session>>

(* A worker process dies: its sessions roll back, its globals are lost. *)
Crash(w) ==
  /\ up[w]
  /\ up' = [up EXCEPT ![w] = FALSE]
  /\ journal' = [journal EXCEPT ![w] = {}]
  /\ Rollback({h \in Handlers : WorkerOf[h] = w})
  /\ UNCHANGED <<issued, expired, docs>>

(* lifespan: DELETE ... WHERE expires_at < now, whatever the status; it     *)
(* waits for locked rows, and the audit rows go by ON DELETE CASCADE.       *)
PurgeExpired ==
  /\ \A r \in expired : locked[r] = None
  /\ row' = [r \in Requests |-> IF r \in expired THEN Absent ELSE row[r]]
  /\ audit' = [r \in Requests |-> IF r \in expired THEN <<>> ELSE audit[r]]
  /\ UNCHANGED locked

(* The worker starts.  A purge that fails is logged and passed over. *)
Boot(w) ==
  /\ ~ up[w]
  /\ up' = [up EXCEPT ![w] = TRUE]
  /\ PurgeExpired \/ UNCHANGED database
  /\ UNCHANGED <<issued, expired, docs, journal, session>>

Step(h) ==
  \/ \E d \in Docs : Dispatch(h, d)
  \/ RefuseExpired(h)
  \/ MarkSelect(h)
  \/ Reselect(h)
  \/ Flush(h)
  \/ Commit(h)

Next ==
  \/ \E w \in Workers, r \in Requests, clear \in BOOLEAN : Submit(w, r, clear)
  \/ \E h \in Handlers, r \in Requests :
       \/ BeginDecision(h, "approve", r)
       \/ BeginDecision(h, "reject", r)
       \/ BeginExecute(h, r)
  \/ \E h \in Handlers : Step(h) \/ Fail(h)
  \/ \E r \in Requests : Expire(r)
  \/ \E w \in Workers : Crash(w) \/ Boot(w)

Spec == Init /\ [][Next]_vars

(* The event loop resumes every handler whose database call has returned,   *)
(* and the database grants row locks in the order they are asked for, so a  *)
(* transaction that waits for one is not passed over forever.               *)
Fairness ==
  \A h \in Handlers : WF_vars(Step(h)) /\ SF_vars(Flush(h))

FairSpec == Spec /\ Fairness

-----------------------------------------------------------------------------
(* What an audit trail says.                                                *)
Audited(trail, action) == \E i \in DOMAIN trail : trail[i].action = action

DecidedBy(trail, u) ==
  \E i \in DOMAIN trail :
    trail[i].actor = u /\ trail[i].action \in {"approve", "reject"}

WellOrdered(trail) ==
  \A i \in DOMAIN trail :
    /\ (trail[i].action = "submit") <=> (i = 1)
    /\ trail[i].action = "execute" =>
         \E j \in 1..(i - 1) : trail[j].action = "approve"

Backed(rec, trail, posts) ==
  /\ rec.status = "approved" => Audited(trail, "approve")
  /\ rec.status = "rejected" => Audited(trail, "reject")
  /\ rec.status = "executed" => Audited(trail, "execute")
  /\ ~ Decidable(rec) => DecidedBy(trail, rec.approver)
  /\ rec.result # None => Audited(trail, "execute") /\ rec.result \in posts

(* The audit trail of a live request starts with its only submission and    *)
(* records no execution that an approval does not precede, whatever the     *)
(* handlers racing for the request overwrite in the row itself.             *)
AuditTellsTheStory == \A r \in Requests : WellOrdered(audit[r])

(* Row and audit trail commit together: what the row claims - its status,   *)
(* its approver, its SAP document - some audited call has done, even when   *)
(* the row mixes columns of several lost updates.                           *)
RowBackedByAudit ==
  \A r \in Requests : Exists(row[r]) => Backed(row[r], audit[r], docs[r])

(* Nothing reaches SAP for a request nobody has approved: a document of a   *)
(* live request has a committed approval behind it, never one that was      *)
(* rolled back after the executor read it.                                  *)
PostedOnlyAfterApproval ==
  \A r \in Requests :
    docs[r] # {} /\ Exists(row[r]) => Audited(audit[r], "approve")

(* Every execution the audit trail records was posted, each with a document *)
(* of its own: retries and races may post more than they record, never less.*)
ExecutionsWerePosted ==
  \A r \in Requests :
    Cardinality({i \in DOMAIN audit[r] : audit[r][i].action = "execute"})
      <= Cardinality(docs[r])

(* Whoever the in-memory journal names as approver of a posted document has *)
(* a committed decision on that request to his name.                        *)
JournalNamesADecider ==
  \A w \in Workers : \A e \in journal[w] :
    /\ e.doc \in docs[e.request]
    /\ Exists(row[e.request]) => DecidedBy(audit[e.request], e.approver)

(* What the invariants above rest on: sessions hold facts about their       *)
(* request that other sessions cannot undo, short of a purge.               *)
RecordInv(r) ==
  /\ ~ Exists(row[r]) => audit[r] = <<>>
  /\ Exists(row[r]) => audit[r] # <<>> /\ r \in issued
  /\ r \notin issued => docs[r] = {}
  /\ Decidable(row[r]) => row[r].approver = None

SessionInv(h) ==
  pc[h] # "idle" =>
    LET r == Req(h)
    IN  /\ r \in issued
        /\ pc[h] \in {"dispatch", "mark"} => Op(h) = "execute"
        /\ Op(h) = "execute" => seen[h].status = "approved"
        /\ Op(h) = "execute" /\ pc[h] # "dispatch" => posted[h] \in docs[r]
        /\ pc[h] = "commit" => locked[r] = h /\ Exists(row[r])
        /\ Exists(row[r]) =>
             /\ Backed(seen[h], audit[r], docs[r])
             /\ ~ Decidable(seen[h]) => ~ Decidable(row[r])
             /\ pc[h] \in {"flush", "commit"} =>
                  \/ Decidable(loaded[h]) /\ loaded[h].approver = None
                  \/ ~ Decidable(loaded[h]) /\ ~ Decidable(row[r])

(* The inductive invariant: every row, trail and session is in order, and   *)
(* a row lock is held by the one session that is about to commit the row.   *)
Consistent ==
  /\ TypeOK
  /\ AuditTellsTheStory
  /\ RowBackedByAudit
  /\ PostedOnlyAfterApproval
  /\ JournalNamesADecider
  /\ \A r \in Requests : RecordInv(r)
  /\ \A h \in Handlers : SessionInv(h)
  /\ \A r \in Requests, h \in Handlers :
       locked[r] = h => pc[h] = "commit" /\ Req(h) = r

(* A purge is final: a handler that read the row before the purge cannot    *)
(* bring it, or its audit trail, back.                                      *)
NoResurrection ==
  [][\A r \in issued : ~ Exists(row[r]) => ~ Exists(row'[r]) /\ audit'[r] = <<>>]_vars

(* A decided request is never offered for decision again, whichever of the  *)
(* racing transactions commits last.                                        *)
DecidedNeverPendingAgain ==
  [][\A r \in Requests :
       Exists(row[r]) /\ ~ Decidable(row[r]) => ~ Decidable(row'[r])]_vars

(* Every call gets its answer: no handler waits for a row lock forever,     *)
(* also when the lock's holder failed or its worker died.                   *)
EveryCallAnswered == \A h \in Handlers : pc[h] # "idle" ~> pc[h] = "idle"

(* Safety contract, point 2: at the moment SAP is written to, the request   *)
(* is in state APPROVED.                                                    *)
PostedWhileApproved ==
  [][\A r \in Requests : docs'[r] # docs[r] => row[r].status = "approved"]_vars

StatusOf(r) ==
  IF r \in issued /\ ~ Exists(row[r]) THEN "gone" ELSE row[r].status

CallerStatus == [r \in Requests |-> StatusOf(r)]

Promise == INSTANCE ApprovalLifecycle WITH status <- CallerStatus

(* The service implements the lifecycle its module docstring draws.         *)
LifecycleFollowed == Promise!Spec

(* The call under way as its caller knows it: what it asked for and, once   *)
(* SAP has been written to, the document.                                   *)
CallOf(h) ==
  IF pc[h] = "idle" THEN [op |-> "none", request |-> None, doc |-> None]
  ELSE [op |-> Op(h), request |-> Req(h),
        doc |-> IF Op(h) = "execute" /\ pc[h] # "dispatch" THEN posted[h] ELSE None]

CallerClear == [r \in Requests |-> row[r].clear]
CallerCalls == [h \in Handlers |-> CallOf(h)]

Overlap == INSTANCE SharedLifecycle
             WITH Callers <- Handlers, status <- CallerStatus, clear <- CallerClear,
                  trail <- audit, call <- CallerCalls

(* However calls overlap, fail and die, the service does what              *)
(* SharedLifecycle promises: every call that succeeds takes effect whole    *)
(* and at one moment, acts on a request it found as it had to be, posts     *)
(* nothing unapproved, objected to or late, and no purge is undone.         *)
OverlapFollowed == Overlap!Spec
=============================================================================
