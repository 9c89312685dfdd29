-------------------------- MODULE ApprovalDBProofs -------------------------
(***************************************************************************)
(* ApprovalDB for any number of requests, concurrent calls and workers:    *)
(* the invariant Consistent is inductive, and with it the properties the   *)
(* runs check on small instances hold of every behaviour.                  *)
(***************************************************************************)
EXTENDS ApprovalDB, FiniteSetTheorems, TLAPS

-----------------------------------------------------------------------------
(* Records and audit trails, whatever state they are in.                    *)

LEMMA NewRecordTypes ==
  /\ Absent \in Record
  /\ \A clear \in BOOLEAN : Submitted(clear) \in Record
  BY DEF Record, Status, Absent, Submitted

LEMMA RecordTypes ==
  ASSUME NEW rec \in Record, NEW u \in Handlers, NEW d \in Docs
  PROVE  /\ Approved(rec, u) \in Record
         /\ Rejected(rec, u) \in Record
         /\ Executed(rec, d) \in Record
  BY DEF Record, Status, Approved, Rejected, Executed

(* What a handler that is not idle works on.                                *)
LEMMA JobType ==
  ASSUME TypeOK, NEW h \in Handlers, pc[h] # "idle"
  PROVE  Op(h) \in Operations /\ Req(h) \in Requests
  BY DEF TypeOK, Jobs, Op, Req

LEMMA UpdatedType ==
  ASSUME TypeOK, NEW h \in Handlers, pc[h] # "idle",
         Op(h) = "execute" => posted[h] \in Docs
  PROVE  Updated(h) \in Record
<1>1. /\ Req(h) \in Requests
      /\ row[Req(h)] \in Record
      /\ loaded[h] \in Record
      /\ seen[h] \in Record
      /\ Op(h) \in Operations
  BY DEF TypeOK, Jobs, Req, Op
<1>2. Target(h) \in Record
  BY <1>1 DEF Target, Operations, Record, Approved, Rejected, Executed, Status
<1>3. QED
  BY <1>1, <1>2 DEF Updated, Column, Record

LEMMA CloseType ==
  ASSUME TypeOK, NEW H, Close(H)
  PROVE  /\ pc' \in [Handlers -> {"idle", "dispatch", "mark", "reselect", "flush", "commit"}]
         /\ job' \in [Handlers -> Jobs \cup {NoJob}]
         /\ seen' \in [Handlers -> Record]
         /\ loaded' \in [Handlers -> Record]
         /\ posted' \in [Handlers -> Docs \cup {None}]
         /\ \A h \in Handlers : pc'[h] # "idle" => job'[h] \in Jobs
<1>1. Absent \in Record
  BY DEF Record, Status, Absent
<1>2. QED
  BY <1>1 DEF TypeOK, Close

LEMMA RollbackType ==
  ASSUME TypeOK, NEW H, Rollback(H),
         UNCHANGED <<issued, expired, docs, journal>>, up' \in [Workers -> BOOLEAN]
  PROVE  TypeOK'
<1>1. /\ locked' \in [Requests -> Handlers \cup {None}]
      /\ UNCHANGED <<row, audit>>
  BY DEF TypeOK, Rollback, Unlock
<1>2. Close(H)
  BY DEF Rollback
<1>3. QED
  BY <1>1, <1>2, CloseType DEF TypeOK

-----------------------------------------------------------------------------
(* Type correctness.                                                        *)

LEMMA TypeInit == Init => TypeOK
<1>1. Absent \in Record
  BY DEF Record, Status, Absent
<1>2. QED
  BY <1>1 DEF Init, TypeOK, Exists

LEMMA TypeStep ==
  ASSUME TypeOK, \A h \in Handlers : SessionInv(h), [Next]_vars
  PROVE  TypeOK'
<1> USE WorkerAssumption
<1>1. ASSUME NEW w \in Workers, NEW r \in Requests, NEW clear \in BOOLEAN,
             Submit(w, r, clear)
      PROVE  TypeOK'
  <2>1. row' \in [Requests -> Record]
    BY <1>1, NewRecordTypes DEF TypeOK, Submit
  <2>2. [action |-> "submit", actor |-> None] \in AuditRow
    BY DEF AuditRow
  <2>3. audit' \in [Requests -> Seq(AuditRow)]
    BY <1>1, <2>2 DEF TypeOK, Submit
  <2>4. QED
    BY <1>1, <2>1, <2>3 DEF TypeOK, Submit, session
<1>2. ASSUME NEW h \in Handlers, NEW op \in Operations, NEW r \in Requests,
             NEW label \in {"dispatch", "reselect"}, Begin(h, op, r, label)
      PROVE  TypeOK'
  <2>1. [op |-> op, request |-> r] \in Jobs /\ row[r] \in Record
    BY DEF Jobs, TypeOK
  <2>2. /\ pc' \in [Handlers -> {"idle", "dispatch", "mark", "reselect", "flush", "commit"}]
        /\ job' \in [Handlers -> Jobs \cup {NoJob}]
        /\ seen' \in [Handlers -> Record]
        /\ \A i \in Handlers : pc'[i] # "idle" => job'[i] \in Jobs
    BY <1>2, <2>1 DEF TypeOK, Begin, Goto
  <2>3. QED
    BY <1>2, <2>2 DEF TypeOK, Begin, database
<1>3. ASSUME NEW h \in Handlers, NEW d \in Docs, Dispatch(h, d)
      PROVE  TypeOK'
  <2>1. EntryOf(h, d) \in Entry
    BY <1>3, JobType DEF TypeOK, Dispatch, EntryOf, Entry, Record
  <2>2. /\ journal' \in [Workers -> SUBSET Entry]
        /\ docs' \in [Requests -> SUBSET Docs]
    BY <1>3, <2>1 DEF TypeOK, Dispatch
  <2>3. QED
    BY <1>3, <2>2 DEF TypeOK, Dispatch, Goto, database
<1>4. ASSUME NEW h \in Handlers, RefuseExpired(h) \/ Fail(h)
      PROVE  TypeOK'
  BY <1>4, RollbackType DEF RefuseExpired, Fail, TypeOK
<1>5. ASSUME NEW h \in Handlers, MarkSelect(h)
      PROVE  TypeOK'
  <2>0. row[Req(h)] \in Record
    BY <1>5, JobType DEF MarkSelect, TypeOK
  <2>1. CASE row[Req(h)].status = "approved"
    BY <1>5, <2>0, <2>1 DEF MarkSelect, TypeOK, Goto, database
  <2>2. CASE row[Req(h)].status # "approved"
    BY <1>5, <2>2, RollbackType DEF MarkSelect, TypeOK
  <2>3. QED
    BY <2>1, <2>2
<1>6. ASSUME NEW h \in Handlers, Reselect(h)
      PROVE  TypeOK'
  <2>0. row[Req(h)] \in Record
    BY <1>6, JobType DEF Reselect, TypeOK
  <2>1. CASE Exists(row[Req(h)])
    BY <1>6, <2>0, <2>1 DEF Reselect, TypeOK, Goto, database
  <2>2. CASE ~ Exists(row[Req(h)])
    BY <1>6, <2>2, RollbackType DEF Reselect, TypeOK
  <2>3. QED
    BY <2>1, <2>2
<1>7. ASSUME NEW h \in Handlers, Flush(h)
      PROVE  TypeOK'
  <2>1. CASE MatchesRow(Req(h))
    BY <1>7, <2>1 DEF Flush, TypeOK, Goto
  <2>2. CASE ~ MatchesRow(Req(h))
    BY <1>7, <2>2, RollbackType DEF Flush, TypeOK
  <2>3. QED
    BY <2>1, <2>2
<1>8. ASSUME NEW h \in Handlers, Commit(h)
      PROVE  TypeOK'
  <2>1. /\ pc[h] = "commit" /\ Op(h) \in Operations /\ Req(h) \in Requests
        /\ Op(h) = "execute" => posted[h] \in Docs
    BY <1>8 DEF Commit, SessionInv, TypeOK, Jobs, Op, Req
  <2>2. row' \in [Requests -> Record]
    BY <1>8, <2>1, UpdatedType DEF Commit, TypeOK
  <2>3. Logged(h) \in AuditRow
    BY <2>1 DEF Logged, AuditRow
  <2>4. audit' \in [Requests -> Seq(AuditRow)]
    BY <1>8, <2>1, <2>3 DEF Commit, AppendAudit, TypeOK
  <2>5. locked' \in [Requests -> Handlers \cup {None}]
    BY <1>8 DEF Commit, Unlock, TypeOK
  <2>6. Close({h}) /\ UNCHANGED <<issued, expired, docs, journal, up>>
    BY <1>8 DEF Commit
  <2>7. QED
    BY <2>2, <2>4, <2>5, <2>6, CloseType DEF TypeOK
<1>9. ASSUME NEW r \in Requests, Expire(r)
      PROVE  TypeOK'
  BY <1>9 DEF Expire, TypeOK, database, session
<1>10. ASSUME NEW w \in Workers, Crash(w)
       PROVE  TypeOK'
  <2>1. Rollback({h \in Handlers : WorkerOf[h] = w}) /\ UNCHANGED <<issued, expired, docs>>
    BY <1>10 DEF Crash
  <2>2. journal' \in [Workers -> SUBSET Entry] /\ up' \in [Workers -> BOOLEAN]
    BY <1>10 DEF Crash, TypeOK
  <2>3. locked' \in [Requests -> Handlers \cup {None}] /\ UNCHANGED <<row, audit>>
    BY <2>1 DEF Rollback, Unlock, TypeOK
  <2>4. Close({h \in Handlers : WorkerOf[h] = w})
    BY <2>1 DEF Rollback
  <2>5. QED
    BY <2>1, <2>2, <2>3, <2>4, CloseType DEF TypeOK
<1>11. ASSUME NEW w \in Workers, Boot(w)
       PROVE  TypeOK'
  <2>1. CASE PurgeExpired
    <3>1. row' \in [Requests -> Record] /\ audit' \in [Requests -> Seq(AuditRow)]
      BY <2>1 DEF PurgeExpired, TypeOK, Record, Status, Absent
    <3>2. QED
      BY <1>11, <2>1, <3>1 DEF Boot, PurgeExpired, TypeOK, session
  <2>2. CASE UNCHANGED database
    BY <1>11, <2>2 DEF Boot, TypeOK, session, database
  <2>3. QED
    BY <1>11, <2>1, <2>2 DEF Boot
<1>12. CASE UNCHANGED vars
  BY <1>12 DEF vars, session, TypeOK
<1>13. QED
  BY <1>1, <1>2, <1>3, <1>4, <1>5, <1>6, <1>7, <1>8, <1>9, <1>10, <1>11, <1>12
  DEF Next, Step, BeginDecision, BeginExecute, Operations

-----------------------------------------------------------------------------
(* Audit trails only grow, and what they say stays said.                    *)

LEMMA TrailGrows ==
  ASSUME NEW trail \in Seq(AuditRow), NEW a \in AuditRow, NEW x, NEW u
  PROVE  /\ Append(trail, a) # <<>>
         /\ Audited(trail, x) => Audited(Append(trail, a), x)
         /\ DecidedBy(trail, u) => DecidedBy(Append(trail, a), u)
         /\ Audited(Append(trail, a), a.action)
         /\ a.action \in {"approve", "reject"} => DecidedBy(Append(trail, a), a.actor)
<1> DEFINE t == Append(trail, a)
<1>1. /\ DOMAIN trail = 1..Len(trail)
      /\ DOMAIN t = 1..(Len(trail) + 1)
      /\ \A i \in 1..Len(trail) : t[i] = trail[i]
      /\ t[Len(trail) + 1] = a
      /\ Len(trail) \in Nat
  OBVIOUS
<1>2. /\ \A i \in DOMAIN trail : i \in DOMAIN t /\ t[i] = trail[i]
      /\ Len(trail) + 1 \in DOMAIN t
  BY <1>1
<1>3. QED
  BY <1>1, <1>2 DEF Audited, DecidedBy

LEMMA BackedGrows ==
  ASSUME NEW rec \in Record, NEW trail \in Seq(AuditRow), NEW a \in AuditRow,
         NEW posts, NEW more, posts \subseteq more, Backed(rec, trail, posts)
  PROVE  Backed(rec, trail, more) /\ Backed(rec, Append(trail, a), more)
  BY TrailGrows DEF Backed

LEMMA OrderGrows ==
  ASSUME NEW trail \in Seq(AuditRow), NEW a \in AuditRow, trail # <<>>,
         WellOrdered(trail), a.action # "submit",
         a.action = "execute" => Audited(trail, "approve")
  PROVE  WellOrdered(Append(trail, a))
<1> DEFINE t == Append(trail, a)
           n == Len(trail)
<1>1. /\ DOMAIN trail = 1..n
      /\ DOMAIN t = 1..(n + 1)
      /\ \A i \in 1..n : t[i] = trail[i]
      /\ t[n + 1] = a
      /\ n \in Nat \ {0}
  OBVIOUS
<1>2. ASSUME NEW i \in 1..n
      PROVE  /\ (t[i].action = "submit") <=> (i = 1)
             /\ t[i].action = "execute" => \E j \in 1..(i - 1) : t[j].action = "approve"
  <2>1. /\ (trail[i].action = "submit") <=> (i = 1)
        /\ trail[i].action = "execute" => \E j \in 1..(i - 1) : trail[j].action = "approve"
    BY <1>1 DEF WellOrdered
  <2>2. \A j \in 1..(i - 1) : t[j] = trail[j]
    BY <1>1
  <2>3. QED
    BY <1>1, <2>1, <2>2
<1>3. /\ (t[n + 1].action = "submit") <=> (n + 1 = 1)
      /\ t[n + 1].action = "execute" => \E j \in 1..n : t[j].action = "approve"
  BY <1>1 DEF Audited
<1>4. QED
  <2>1. ASSUME NEW i \in DOMAIN t
        PROVE  /\ (t[i].action = "submit") <=> (i = 1)
               /\ t[i].action = "execute" => \E j \in 1..(i - 1) : t[j].action = "approve"
    <3>1. CASE i \in 1..n
      BY <3>1, <1>2
    <3>2. CASE i = n + 1
      <4>1. i - 1 = n
        BY <1>1, <3>2
      <4>2. QED
        BY <4>1, <3>2, <1>3
    <3>3. QED
      BY <1>1, <3>1, <3>2
  <2>2. QED
    BY <2>1 DEF WellOrdered

-----------------------------------------------------------------------------
(* The effect of the steps on the tables.                                   *)

(* What Consistent says of one request.                                     *)
RequestInv(r) ==
  /\ WellOrdered(audit[r])
  /\ Exists(row[r]) => Backed(row[r], audit[r], docs[r])
  /\ docs[r] # {} /\ Exists(row[r]) => Audited(audit[r], "approve")
  /\ RecordInv(r)

(* A commit decides: the row it leaves is not pending, whatever row it      *)
(* found, and its audit trail backs every column.                           *)
LEMMA CommitEffect ==
  ASSUME Consistent, NEW h \in Handlers, Commit(h)
  PROVE  /\ Req(h) \in issued
         /\ Exists(row[Req(h)])
         /\ row' = [row EXCEPT ![Req(h)] = Updated(h)]
         /\ audit' = [audit EXCEPT ![Req(h)] = Append(audit[Req(h)], Logged(h))]
         /\ Logged(h) \in AuditRow
         /\ Exists(Updated(h)) /\ ~ Decidable(Updated(h))
         /\ Backed(Updated(h), Append(audit[Req(h)], Logged(h)), docs[Req(h)])
         /\ WellOrdered(Append(audit[Req(h)], Logged(h)))
<1> DEFINE r == Req(h)
           t == Target(h)
           n == Updated(h)
           new == Append(audit[r], Logged(h))
<1>1. /\ pc[h] = "commit"
      /\ r \in Requests /\ Op(h) \in Operations
      /\ SessionInv(h) /\ RecordInv(r)
      /\ row[r] \in Record /\ loaded[h] \in Record /\ seen[h] \in Record
      /\ audit[r] \in Seq(AuditRow)
      /\ posted[h] \in Docs \cup {None}
  BY JobType DEF Consistent, Commit, TypeOK
<1>2. /\ r \in issued /\ Exists(row[r])
      /\ Op(h) = "execute" => seen[h].status = "approved" /\ posted[h] \in docs[r]
      /\ Backed(seen[h], audit[r], docs[r]) /\ Backed(row[r], audit[r], docs[r])
      /\ ~ Decidable(seen[h]) => ~ Decidable(row[r])
      /\ \/ Decidable(loaded[h]) /\ loaded[h].approver = None
         \/ ~ Decidable(loaded[h]) /\ ~ Decidable(row[r])
      /\ audit[r] # <<>>
  BY <1>1 DEF SessionInv, Consistent, RowBackedByAudit, RecordInv
<1>3. Logged(h) \in AuditRow /\ Logged(h).action = Op(h)
      /\ (Op(h) # "execute" => Logged(h).actor = h)
  BY <1>1 DEF Logged, AuditRow
<1>4. /\ Op(h) = "approve" => t.status = "approved"
      /\ Op(h) = "reject" => t.status = "rejected"
      /\ Op(h) = "execute" => t.status = "executed"
      /\ t.approver = IF Op(h) = "execute" THEN seen[h].approver ELSE h
      /\ t.result = IF Op(h) = "execute" THEN posted[h] ELSE seen[h].result
  BY <1>1 DEF Target, Operations, Approved, Rejected, Executed, Record
<1>5. /\ n.status \in {t.status, row[r].status}
      /\ n.approver \in {t.approver, row[r].approver}
      /\ n.result \in {t.result, row[r].result}
      /\ t.status # loaded[h].status => n.status = t.status
      /\ t.approver # loaded[h].approver => n.approver = t.approver
  BY DEF Updated, Column
<1>6. Exists(n) /\ ~ Decidable(n)
  BY <1>1, <1>2, <1>4, <1>5 DEF Exists, Decidable, Operations
<1>7. /\ Audited(new, Op(h))
      /\ Op(h) # "execute" => DecidedBy(new, h)
      /\ Backed(seen[h], new, docs[r])
      /\ Backed(row[r], new, docs[r])
  BY <1>1, <1>2, <1>3, TrailGrows, BackedGrows DEF Operations
<1>8. Op(h) = "execute" => DecidedBy(new, seen[h].approver)
  BY <1>2, <1>7 DEF Backed, Decidable
<1>9. DecidedBy(new, n.approver)
  <2>1. DecidedBy(new, t.approver)
    BY <1>4, <1>7, <1>8
  <2>2. CASE ~ Decidable(row[r])
    <3>1. DecidedBy(new, row[r].approver)
      BY <1>7, <2>2 DEF Backed
    <3>2. QED
      BY <1>5, <2>1, <3>1
  <2>3. CASE Decidable(row[r])
    <3>1. Op(h) # "execute" /\ loaded[h].approver = None
      BY <1>2, <2>3 DEF Decidable
    <3>2. t.approver # loaded[h].approver
      BY <1>4, <3>1, DistinctAssumption
    <3>3. QED
      BY <1>5, <2>1, <3>2
  <2>4. QED
    BY <2>2, <2>3
<1>10. Backed(n, new, docs[r])
  <2>1. /\ n.status = "approved" => Audited(new, "approve")
        /\ n.status = "rejected" => Audited(new, "reject")
        /\ n.status = "executed" => Audited(new, "execute")
    BY <1>1, <1>4, <1>5, <1>7 DEF Backed, Operations
  <2>2. n.result # None => Audited(new, "execute") /\ n.result \in docs[r]
    BY <1>2, <1>4, <1>5, <1>7 DEF Backed
  <2>3. QED
    BY <1>9, <2>1, <2>2 DEF Backed
<1>11. WellOrdered(new)
  <2>1. Op(h) = "execute" => Audited(audit[r], "approve")
    BY <1>2 DEF Backed
  <2>2. Op(h) # "submit"
    BY <1>1 DEF Operations
  <2>3. WellOrdered(audit[r])
    BY <1>1 DEF Consistent, AuditTellsTheStory
  <2>4. QED
    BY <1>1, <1>2, <1>3, <2>1, <2>2, <2>3, OrderGrows
<1>12. QED
  BY <1>2, <1>3, <1>6, <1>10, <1>11 DEF Commit, AppendAudit

(* Every other step leaves rows and trails alone, except a submission and   *)
(* a purge, and only a dispatch posts.                                      *)
Quiet ==
  /\ UNCHANGED <<row, audit, docs, issued>>
  /\ \A w \in Workers : journal'[w] \in {journal[w], {}}

LEMMA StepKinds ==
  ASSUME TypeOK, [Next]_vars
  PROVE  \/ \E w \in Workers, r \in Requests, clear \in BOOLEAN : Submit(w, r, clear)
         \/ \E h \in Handlers, d \in Docs : Dispatch(h, d)
         \/ \E h \in Handlers : Commit(h)
         \/ \E w \in Workers : PurgeExpired /\ Boot(w)
         \/ Quiet
<1>1. ASSUME NEW h \in Handlers, NEW op, NEW r, NEW label, Begin(h, op, r, label)
      PROVE  Quiet
  BY <1>1 DEF Begin, Quiet, database
<1>2. ASSUME NEW h \in Handlers,
             RefuseExpired(h) \/ MarkSelect(h) \/ Reselect(h) \/ Flush(h) \/ Fail(h)
      PROVE  Quiet
  <2>1. UNCHANGED <<row, audit, docs, issued, journal>>
    BY <1>2 DEF RefuseExpired, MarkSelect, Reselect, Flush, Fail, Rollback, database
  <2>2. QED
    BY <2>1 DEF Quiet
<1>3. ASSUME NEW r \in Requests, Expire(r)
      PROVE  Quiet
  BY <1>3 DEF Expire, Quiet, database
<1>4. ASSUME NEW w \in Workers, Crash(w)
      PROVE  Quiet
  BY <1>4 DEF Crash, Quiet, Rollback, TypeOK
<1>5. ASSUME NEW w \in Workers, Boot(w), ~ PurgeExpired
      PROVE  Quiet
  BY <1>5 DEF Boot, Quiet, database
<1>6. CASE UNCHANGED vars
  BY <1>6 DEF vars, Quiet
<1>7. QED
  BY <1>1, <1>2, <1>3, <1>4, <1>5, <1>6 DEF Next, Step, BeginDecision, BeginExecute

(* What a step may do to the tables, as the other sessions see it.          *)
Benign(r) ==
  /\ docs[r] \subseteq docs'[r]
  /\ r \in issued => r \in issued'
  /\ r \in issued /\ Exists(row'[r]) =>
       /\ Exists(row[r])
       /\ ~ Decidable(row[r]) => ~ Decidable(row'[r])
       /\ \/ audit'[r] = audit[r]
          \/ \E a \in AuditRow : audit'[r] = Append(audit[r], a)

LEMMA StepsAreBenign ==
  ASSUME Consistent, [Next]_vars, NEW r \in Requests
  PROVE  Benign(r)
<1>1. ASSUME NEW w \in Workers, NEW q \in Requests, NEW clear \in BOOLEAN,
             Submit(w, q, clear)
      PROVE  Benign(r)
  BY <1>1 DEF Submit, FreshId, Benign, Consistent, TypeOK
<1>2. ASSUME NEW h \in Handlers, NEW d \in Docs, Dispatch(h, d)
      PROVE  Benign(r)
  <2>1. docs[r] \subseteq docs'[r]
    BY <1>2 DEF Dispatch, Consistent, TypeOK
  <2>2. QED
    BY <1>2, <2>1 DEF Dispatch, Benign, database
<1>3. ASSUME NEW h \in Handlers, Commit(h)
      PROVE  Benign(r)
  <2>1. UNCHANGED <<issued, docs>>
    BY <1>3 DEF Commit
  <2>2. CASE r = Req(h)
    <3>1. /\ row'[r] = Updated(h)
          /\ audit'[r] = Append(audit[r], Logged(h))
      BY <1>3, <2>2, CommitEffect DEF Consistent, TypeOK
    <3>2. QED
      BY <1>3, <2>1, <2>2, <3>1, CommitEffect DEF Benign
  <2>3. CASE r # Req(h)
    <3>1. row'[r] = row[r] /\ audit'[r] = audit[r]
      BY <1>3, <2>3, CommitEffect DEF Consistent, TypeOK
    <3>2. QED
      BY <2>1, <3>1 DEF Benign
  <2>4. QED
    BY <2>2, <2>3
<1>4. ASSUME NEW w \in Workers, PurgeExpired, Boot(w)
      PROVE  Benign(r)
  BY <1>4 DEF PurgeExpired, Boot, Benign, Exists, Absent
<1>5. CASE Quiet
  BY <1>5 DEF Benign, Quiet
<1>6. QED
  BY <1>1, <1>2, <1>3, <1>4, <1>5, StepKinds DEF Consistent

-----------------------------------------------------------------------------
(* Requests.                                                                *)

LEMMA RequestFacts ==
  Consistent <=> /\ TypeOK
                 /\ \A r \in Requests : RequestInv(r)
                 /\ JournalNamesADecider
                 /\ \A h \in Handlers : SessionInv(h)
                 /\ \A r \in Requests, h \in Handlers :
                      locked[r] = h => pc[h] = "commit" /\ Req(h) = r
  BY DEF Consistent, RequestInv, AuditTellsTheStory, RowBackedByAudit,
         PostedOnlyAfterApproval

LEMMA RequestStep ==
  ASSUME Consistent, [Next]_vars, NEW r \in Requests
  PROVE  RequestInv(r)'
<1>0. RequestInv(r)
  BY RequestFacts
<1>1. ASSUME NEW w \in Workers, NEW q \in Requests, NEW clear \in BOOLEAN,
             Submit(w, q, clear)
      PROVE  RequestInv(r)'
  <2>1. CASE r = q
    <3>1. ~ Exists(row[r]) /\ audit[r] = <<>> /\ docs[r] = {} /\ r \notin issued
      BY <1>0, <1>1, <2>1 DEF Submit, FreshId, RequestInv, RecordInv
    <3>2. /\ row'[r] = Submitted(clear)
          /\ audit'[r] = <<[action |-> "submit", actor |-> None]>>
          /\ docs'[r] = {} /\ r \in issued'
      BY <1>1, <2>1, <3>1 DEF Submit, Consistent, TypeOK
    <3>3. WellOrdered(audit'[r])
      BY <3>2 DEF WellOrdered
    <3>4. Backed(Submitted(clear), audit'[r], docs'[r])
      BY DEF Backed, Submitted, Decidable
    <3>5. QED
      BY <3>2, <3>3, <3>4 DEF RequestInv, RecordInv, Submitted, Exists, Decidable
  <2>2. CASE r # q
    <3>1. row'[r] = row[r] /\ audit'[r] = audit[r] /\ docs'[r] = docs[r]
          /\ (r \in issued' <=> r \in issued)
      BY <1>1, <2>2 DEF Submit, Consistent, TypeOK
    <3>2. QED
      BY <1>0, <3>1 DEF RequestInv, RecordInv
  <2>3. QED
    BY <2>1, <2>2
<1>2. ASSUME NEW h \in Handlers, NEW d \in Docs, Dispatch(h, d)
      PROVE  RequestInv(r)'
  <2>1. UNCHANGED <<row, audit, issued>>
    BY <1>2 DEF Dispatch, database
  <2>2. CASE r = Req(h)
    <3>1. /\ pc[h] = "dispatch" /\ SessionInv(h) /\ Req(h) \in issued
          /\ docs[r] \subseteq docs'[r]
      BY <1>2, <2>2 DEF Dispatch, Consistent, TypeOK, SessionInv
    <3>2. Exists(row[r]) => Audited(audit[r], "approve")
      BY <2>2, <3>1 DEF SessionInv, Backed
    <3>3. Exists(row[r]) => Backed(row[r], audit[r], docs'[r])
      BY <1>0, <3>1 DEF RequestInv, Backed
    <3>4. QED
      BY <1>0, <2>1, <2>2, <3>1, <3>2, <3>3 DEF RequestInv, RecordInv
  <2>3. CASE r # Req(h)
    <3>1. docs'[r] = docs[r]
      BY <1>2, <2>3 DEF Dispatch, Consistent, TypeOK
    <3>2. QED
      BY <1>0, <2>1, <3>1 DEF RequestInv, RecordInv
  <2>4. QED
    BY <2>2, <2>3
<1>3. ASSUME NEW h \in Handlers, Commit(h)
      PROVE  RequestInv(r)'
  <2>1. UNCHANGED <<issued, docs>>
    BY <1>3 DEF Commit
  <2>2. CASE r = Req(h)
    <3>1. /\ row'[r] = Updated(h)
          /\ audit'[r] = Append(audit[r], Logged(h))
          /\ audit[r] \in Seq(AuditRow)
      BY <1>3, <2>2, CommitEffect DEF Consistent, TypeOK
    <3>2. docs[r] # {} => Audited(audit'[r], "approve")
      BY <1>0, <1>3, <2>2, <3>1, CommitEffect, TrailGrows DEF RequestInv
    <3>3. audit'[r] # <<>>
      BY <1>3, <2>2, <3>1, CommitEffect, TrailGrows
    <3>4. QED
      BY <1>3, <2>1, <2>2, <3>1, <3>2, <3>3, CommitEffect DEF RequestInv, RecordInv
  <2>3. CASE r # Req(h)
    <3>1. row'[r] = row[r] /\ audit'[r] = audit[r]
      BY <1>3, <2>3, CommitEffect DEF Consistent, TypeOK
    <3>2. QED
      BY <1>0, <2>1, <3>1 DEF RequestInv, RecordInv
  <2>4. QED
    BY <2>2, <2>3
<1>4. ASSUME NEW w \in Workers, PurgeExpired, Boot(w)
      PROVE  RequestInv(r)'
  <2>1. UNCHANGED <<issued, docs>>
    BY <1>4 DEF Boot
  <2>2. CASE r \in expired
    <3>1. row'[r] = Absent /\ audit'[r] = <<>>
      BY <1>4, <2>2 DEF PurgeExpired
    <3>2. QED
      BY <1>0, <2>1, <3>1 DEF RequestInv, RecordInv, WellOrdered, Exists, Decidable, Absent
  <2>3. CASE r \notin expired
    BY <1>0, <1>4, <2>1, <2>3 DEF PurgeExpired, RequestInv, RecordInv
  <2>4. QED
    BY <2>2, <2>3
<1>5. CASE Quiet
  BY <1>0, <1>5 DEF RequestInv, RecordInv, Quiet
<1>6. QED
  BY <1>1, <1>2, <1>3, <1>4, <1>5, StepKinds DEF Consistent

-----------------------------------------------------------------------------
(* The journal.                                                             *)

LEMMA JournalStep ==
  ASSUME Consistent, [Next]_vars
  PROVE  JournalNamesADecider'
<1> DEFINE Sound(e) == /\ e.doc \in docs[e.request]
                       /\ Exists(row[e.request]) => DecidedBy(audit[e.request], e.approver)
<1>1. ASSUME NEW e \in Entry, Sound(e)
      PROVE  Sound(e)'
  <2> DEFINE r == e.request
  <2>1. r \in Requests /\ e.approver \in Handlers \cup {None}
    BY DEF Entry
  <2>2. r \in issued
    BY <1>1, <2>1 DEF Consistent, RecordInv
  <2>3. Benign(r) /\ audit[r] \in Seq(AuditRow)
    BY <2>1, StepsAreBenign DEF Consistent, TypeOK
  <2>4. e.doc \in docs'[r]
    BY <1>1, <2>3 DEF Benign
  <2>5. Exists(row'[r]) => DecidedBy(audit'[r], e.approver)
    <3>1. HAVE Exists(row'[r])
    <3>2. DecidedBy(audit[r], e.approver)
      BY <1>1, <2>2, <2>3, <3>1 DEF Benign
    <3>3. QED
      BY <2>2, <2>3, <3>1, <3>2, TrailGrows DEF Benign
  <2>6. QED
    BY <2>4, <2>5
<1>2. \A w \in Workers : \A e \in journal[w] : e \in Entry /\ Sound(e)
  BY DEF Consistent, JournalNamesADecider, TypeOK
<1>3. ASSUME NEW w \in Workers, NEW e \in journal'[w]
      PROVE  Sound(e)'
  <2>1. CASE e \in journal[w]
    BY <1>1, <1>2, <2>1
  <2>2. CASE e \notin journal[w]
    <3>1. PICK h \in Handlers, d \in Docs : Dispatch(h, d)
      BY <1>3, <2>2, StepKinds DEF Consistent, Submit, Commit, Boot, Quiet
    <3>2. e = EntryOf(h, d)
      BY <1>3, <2>2, <3>1 DEF Dispatch, Consistent, TypeOK
    <3>3. /\ pc[h] = "dispatch" /\ SessionInv(h) /\ Req(h) \in Requests
          /\ seen[h].status = "approved"
      BY <3>1, JobType DEF Dispatch, Consistent, SessionInv
    <3>4. UNCHANGED <<row, audit>> /\ d \in docs'[Req(h)]
      BY <3>1, <3>3 DEF Dispatch, Consistent, TypeOK, database
    <3>5. Exists(row[Req(h)]) => DecidedBy(audit[Req(h)], seen[h].approver)
      BY <3>3 DEF SessionInv, Backed, Decidable
    <3>6. QED
      BY <3>2, <3>4, <3>5 DEF EntryOf
  <2>3. QED
    BY <2>1, <2>2
<1>4. QED
  BY <1>3 DEF JournalNamesADecider

-----------------------------------------------------------------------------
(* Sessions and row locks.                                                  *)

Same(i) ==
  /\ pc'[i] = pc[i] /\ job'[i] = job[i] /\ seen'[i] = seen[i]
  /\ loaded'[i] = loaded[i] /\ posted'[i] = posted[i]

(* A session that does not move keeps its facts, unless it has no row left. *)
LEMMA SessionKept ==
  ASSUME Consistent, [Next]_vars, NEW i \in Handlers, Same(i),
         pc[i] = "commit" => locked'[Req(i)] = i /\ Exists(row'[Req(i)])
  PROVE  SessionInv(i)'
<1> DEFINE r == Req(i)
<1>1. CASE pc[i] = "idle"
  BY <1>1 DEF Same, SessionInv
<1>2. CASE pc[i] # "idle"
  <2>1. /\ r \in Requests /\ SessionInv(i) /\ r \in issued
        /\ seen[i] \in Record /\ audit[r] \in Seq(AuditRow)
    BY <1>2, JobType DEF Consistent, TypeOK, SessionInv
  <2>2. Benign(r)
    BY <2>1, StepsAreBenign
  <2>3. /\ Req(i)' = r /\ Op(i)' = Op(i)
        /\ pc'[i] = pc[i] /\ seen'[i] = seen[i] /\ loaded'[i] = loaded[i]
        /\ posted'[i] = posted[i]
    BY DEF Same, Req, Op
  <2>4. ASSUME Exists(row'[r])
        PROVE  /\ Backed(seen[i], audit'[r], docs'[r])
               /\ ~ Decidable(seen[i]) => ~ Decidable(row'[r])
               /\ pc[i] \in {"flush", "commit"} =>
                    \/ Decidable(loaded[i]) /\ loaded[i].approver = None
                    \/ ~ Decidable(loaded[i]) /\ ~ Decidable(row'[r])
    <3>1. /\ Exists(row[r]) /\ docs[r] \subseteq docs'[r]
          /\ ~ Decidable(row[r]) => ~ Decidable(row'[r])
          /\ \/ audit'[r] = audit[r]
             \/ \E a \in AuditRow : audit'[r] = Append(audit[r], a)
      BY <2>1, <2>2, <2>4 DEF Benign
    <3>2. Backed(seen[i], audit[r], docs[r])
      BY <1>2, <2>1, <3>1 DEF SessionInv
    <3>3. Backed(seen[i], audit'[r], docs'[r])
      <4>1. CASE audit'[r] = audit[r]
        BY <3>1, <3>2, <4>1 DEF Backed
      <4>2. ASSUME NEW a \in AuditRow, audit'[r] = Append(audit[r], a)
            PROVE  Backed(seen[i], audit'[r], docs'[r])
        BY <2>1, <3>1, <3>2, <4>2, BackedGrows
      <4>3. QED
        BY <3>1, <4>1, <4>2
    <3>4. QED
      BY <1>2, <2>1, <3>1, <3>3 DEF SessionInv
  <2>5. r \in issued' /\ docs[r] \subseteq docs'[r]
    BY <2>1, <2>2 DEF Benign
  <2>6. /\ pc[i] \in {"dispatch", "mark"} => Op(i) = "execute"
        /\ Op(i) = "execute" => seen[i].status = "approved"
        /\ Op(i) = "execute" /\ pc[i] # "dispatch" => posted[i] \in docs'[r]
    BY <1>2, <2>1, <2>5 DEF SessionInv
  <2>7. QED
    BY <2>3, <2>4, <2>5, <2>6 DEF SessionInv
<1>3. QED
  BY <1>1, <1>2

(* Who holds row locks, and for what.                                       *)
LocksInv ==
  \A r \in Requests, h \in Handlers :
    locked[r] = h => pc[h] = "commit" /\ Req(h) = r

(* The end of some sessions, by rollback or commit, is their only effect on *)
(* sessions and locks.                                                      *)
LEMMA SessionsClosed ==
  ASSUME Consistent, [Next]_vars, NEW H \in SUBSET Handlers, Close(H), Unlock(H),
         \A i \in Handlers \ H :
           pc[i] = "commit" => Exists(row'[Req(i)])
  PROVE  (\A i \in Handlers : SessionInv(i)') /\ LocksInv'
<1>1. ASSUME NEW i \in Handlers PROVE SessionInv(i)'
  <2>1. CASE i \in H
    BY <2>1 DEF Close, SessionInv
  <2>2. CASE i \notin H
    <3>1. Same(i)
      BY <2>2 DEF Close, Same
    <3>2. ASSUME pc[i] = "commit"
          PROVE  locked'[Req(i)] = i
      <4>1. Req(i) \in Requests /\ locked[Req(i)] = i
        BY <3>2, JobType DEF Consistent, SessionInv
      <4>2. QED
        BY <2>2, <4>1 DEF Unlock
    <3>3. QED
      BY <2>2, <3>1, <3>2, SessionKept
  <2>3. QED
    BY <2>1, <2>2
<1>2. ASSUME NEW r \in Requests, NEW i \in Handlers, locked'[r] = i
      PROVE  pc'[i] = "commit" /\ Req(i)' = r
  <2>1. i # None
    BY DistinctAssumption
  <2>2. locked[r] = i /\ i \notin H
    BY <1>2, <2>1 DEF Unlock
  <2>3. pc[i] = "commit" /\ Req(i) = r
    BY <2>2 DEF Consistent
  <2>4. QED
    BY <2>2, <2>3 DEF Close, Req
<1>3. QED
  BY <1>1, <1>2 DEF LocksInv

(* One session moves on without touching rows or locks.                     *)
LEMMA SessionMoves ==
  ASSUME Consistent, [Next]_vars, NEW h \in Handlers,
         \A i \in Handlers \ {h} : Same(i),
         UNCHANGED <<row, locked>>, pc[h] # "commit", SessionInv(h)'
  PROVE  (\A i \in Handlers : SessionInv(i)') /\ LocksInv'
<1>1. ASSUME NEW i \in Handlers \ {h} PROVE SessionInv(i)'
  <2>1. pc[i] = "commit" => locked'[Req(i)] = i /\ Exists(row'[Req(i)])
    BY DEF Consistent, SessionInv
  <2>2. QED
    BY <2>1, SessionKept
<1>2. ASSUME NEW r \in Requests, NEW i \in Handlers, locked'[r] = i
      PROVE  pc'[i] = "commit" /\ Req(i)' = r
  <2>1. pc[i] = "commit" /\ Req(i) = r
    BY <1>2 DEF Consistent
  <2>2. i # h
    BY <2>1
  <2>3. QED
    BY <2>1, <2>2 DEF Same, Req
<1>3. QED
  BY <1>1, <1>2 DEF LocksInv

(* No session moves and no lock changes hands.                              *)
LEMMA SessionsStay ==
  ASSUME Consistent, [Next]_vars, UNCHANGED <<locked, session>>,
         \A i \in Handlers : pc[i] = "commit" => Exists(row'[Req(i)])
  PROVE  (\A i \in Handlers : SessionInv(i)') /\ LocksInv'
<1>1. ASSUME NEW i \in Handlers PROVE SessionInv(i)'
  <2>1. Same(i)
    BY DEF Same, session
  <2>2. pc[i] = "commit" => locked'[Req(i)] = i
    BY DEF Consistent, SessionInv
  <2>3. QED
    BY <2>1, <2>2, SessionKept
<1>2. LocksInv'
  BY DEF LocksInv, Consistent, session, Req
<1>3. QED
  BY <1>1, <1>2

LEMMA RollbackStep ==
  ASSUME Consistent, [Next]_vars, NEW H \in SUBSET Handlers, Rollback(H)
  PROVE  (\A i \in Handlers : SessionInv(i)') /\ LocksInv'
<1>1. \A i \in Handlers : pc[i] = "commit" => Exists(row'[Req(i)])
  BY DEF Rollback, Consistent, SessionInv
<1>2. QED
  BY <1>1, SessionsClosed DEF Rollback

LEMMA SessionStep ==
  ASSUME Consistent, [Next]_vars
  PROVE  (\A i \in Handlers : SessionInv(i)') /\ LocksInv'
<1> DEFINE Goal == (\A i \in Handlers : SessionInv(i)') /\ LocksInv'
<1>1. ASSUME NEW w \in Workers, NEW r \in Requests, NEW clear \in BOOLEAN,
             Submit(w, r, clear)
      PROVE  Goal
  <2>1. ASSUME NEW i \in Handlers, pc[i] = "commit" PROVE Exists(row'[Req(i)])
    <3>1. Req(i) \in issued /\ Exists(row[Req(i)])
      BY <2>1 DEF Consistent, SessionInv
    <3>2. row'[Req(i)] = row[Req(i)]
      BY <1>1, <3>1 DEF Submit, FreshId, Consistent, TypeOK
    <3>3. QED
      BY <3>1, <3>2
  <2>2. QED
    BY <1>1, <2>1, SessionsStay DEF Submit
<1>2. ASSUME NEW h \in Handlers, NEW op \in Operations, NEW r \in Requests,
             NEW label, Begin(h, op, r, label),
             \/ label = "reselect" /\ op # "execute"
             \/ label = "dispatch" /\ op = "execute" /\ row[r].status = "approved"
      PROVE  Goal
  <2>1. \A i \in Handlers \ {h} : Same(i)
    BY <1>2 DEF Begin, Same, Goto, Consistent, TypeOK
  <2>2. /\ pc'[h] = label /\ Req(h)' = r /\ Op(h)' = op /\ seen'[h] = row[r]
        /\ UNCHANGED <<row, audit, locked, issued, docs>>
    BY <1>2 DEF Begin, Goto, Consistent, TypeOK, Req, Op, database
  <2>3. Exists(row[r]) /\ r \in issued /\ Backed(row[r], audit[r], docs[r])
    BY <1>2 DEF Begin, Consistent, RowBackedByAudit, RecordInv
  <2>4. SessionInv(h)'
    BY <1>2, <2>2, <2>3 DEF SessionInv
  <2>5. QED
    BY <1>2, <2>1, <2>2, <2>4, SessionMoves DEF Begin
<1>3. ASSUME NEW h \in Handlers, NEW d \in Docs, Dispatch(h, d)
      PROVE  Goal
  <2>1. \A i \in Handlers \ {h} : Same(i)
    BY <1>3 DEF Dispatch, Same, Goto, Consistent, TypeOK
  <2>2. /\ pc'[h] = "mark" /\ Req(h)' = Req(h) /\ Op(h)' = Op(h)
        /\ seen'[h] = seen[h] /\ posted'[h] = d
        /\ UNCHANGED <<row, audit, locked, issued>>
        /\ pc[h] = "dispatch" /\ Req(h) \in Requests /\ SessionInv(h)
    BY <1>3, JobType DEF Dispatch, Goto, Consistent, TypeOK, Req, Op, database
  <2>3. d \in docs'[Req(h)] /\ docs[Req(h)] \subseteq docs'[Req(h)]
    BY <1>3, <2>2 DEF Dispatch, Consistent, TypeOK
  <2>4. Exists(row[Req(h)]) => Backed(seen[h], audit[Req(h)], docs'[Req(h)])
    BY <2>2, <2>3 DEF SessionInv, Backed
  <2>5. SessionInv(h)'
    BY <2>2, <2>3, <2>4 DEF SessionInv
  <2>6. QED
    BY <2>1, <2>2, <2>5, SessionMoves
<1>4. ASSUME NEW h \in Handlers, RefuseExpired(h) \/ Fail(h)
      PROVE  Goal
  BY <1>4, RollbackStep DEF RefuseExpired, Fail
<1>5. ASSUME NEW h \in Handlers, MarkSelect(h)
      PROVE  Goal
  <2>1. CASE row[Req(h)].status = "approved"
    <3>1. \A i \in Handlers \ {h} : Same(i)
      BY <1>5, <2>1 DEF MarkSelect, Same, Goto, Consistent, TypeOK
    <3>2. /\ pc'[h] = "reselect" /\ Req(h)' = Req(h) /\ Op(h)' = Op(h)
          /\ seen'[h] = row[Req(h)] /\ posted'[h] = posted[h]
          /\ UNCHANGED <<row, audit, locked, issued, docs>>
          /\ pc[h] = "mark" /\ Req(h) \in Requests /\ SessionInv(h)
      BY <1>5, <2>1, JobType DEF MarkSelect, Goto, Consistent, TypeOK, Req, Op, database
    <3>3. Exists(row[Req(h)]) => Backed(row[Req(h)], audit[Req(h)], docs[Req(h)])
      BY <3>2 DEF Consistent, RowBackedByAudit
    <3>4. SessionInv(h)'
      BY <2>1, <3>2, <3>3 DEF SessionInv
    <3>5. QED
      BY <3>1, <3>2, <3>4, SessionMoves
  <2>2. CASE row[Req(h)].status # "approved"
    BY <1>5, <2>2, RollbackStep DEF MarkSelect
  <2>3. QED
    BY <2>1, <2>2
<1>6. ASSUME NEW h \in Handlers, Reselect(h)
      PROVE  Goal
  <2>1. CASE Exists(row[Req(h)])
    <3>1. \A i \in Handlers \ {h} : Same(i)
      BY <1>6, <2>1 DEF Reselect, Same, Goto, Consistent, TypeOK
    <3>2. /\ pc'[h] = "flush" /\ Req(h)' = Req(h) /\ Op(h)' = Op(h)
          /\ seen'[h] = seen[h] /\ loaded'[h] = row[Req(h)] /\ posted'[h] = posted[h]
          /\ UNCHANGED <<row, audit, locked, issued, docs>>
          /\ pc[h] = "reselect" /\ Req(h) \in Requests /\ SessionInv(h)
      BY <1>6, <2>1, JobType DEF Reselect, Goto, Consistent, TypeOK, Req, Op, database
    <3>3. Decidable(row[Req(h)]) => row[Req(h)].approver = None
      BY <3>2 DEF Consistent, RecordInv
    <3>4. SessionInv(h)'
      BY <3>2, <3>3 DEF SessionInv
    <3>5. QED
      BY <3>1, <3>2, <3>4, SessionMoves
  <2>2. CASE ~ Exists(row[Req(h)])
    BY <1>6, <2>2, RollbackStep DEF Reselect
  <2>3. QED
    BY <2>1, <2>2
<1>7. ASSUME NEW h \in Handlers, Flush(h)
      PROVE  Goal
  <2>1. CASE MatchesRow(Req(h))
    <3>1. \A i \in Handlers \ {h} : Same(i)
      BY <1>7, <2>1 DEF Flush, Same, Goto, Consistent, TypeOK
    <3>2. /\ pc'[h] = "commit" /\ Req(h)' = Req(h) /\ Op(h)' = Op(h)
          /\ seen'[h] = seen[h] /\ loaded'[h] = loaded[h] /\ posted'[h] = posted[h]
          /\ UNCHANGED <<row, audit, issued, docs>>
          /\ pc[h] = "flush" /\ Req(h) \in Requests /\ SessionInv(h)
          /\ Exists(row[Req(h)])
          /\ locked[Req(h)] = None
          /\ locked' = [locked EXCEPT ![Req(h)] = h]
      BY <1>7, <2>1, JobType DEF Flush, Goto, Consistent, TypeOK, Req, Op, MatchesRow
    <3>3. SessionInv(h)'
      BY <3>2 DEF SessionInv, Consistent, TypeOK
    <3>4. ASSUME NEW i \in Handlers \ {h} PROVE SessionInv(i)'
      <4>1. ASSUME pc[i] = "commit" PROVE locked'[Req(i)] = i /\ Exists(row'[Req(i)])
        <5>1. Req(i) \in Requests /\ locked[Req(i)] = i /\ Exists(row[Req(i)]) /\ i # None
          BY <4>1, JobType, DistinctAssumption DEF Consistent, SessionInv
        <5>2. QED
          BY <3>2, <5>1 DEF Consistent, TypeOK
      <4>2. QED
        BY <3>1, <4>1, SessionKept
    <3>5. ASSUME NEW r \in Requests, NEW i \in Handlers, locked'[r] = i
          PROVE  pc'[i] = "commit" /\ Req(i)' = r
      <4>1. CASE r = Req(h)
        BY <3>2, <3>5, <4>1 DEF Consistent, TypeOK
      <4>2. CASE r # Req(h)
        <5>1. locked[r] = i
          BY <3>2, <3>5, <4>2 DEF Consistent, TypeOK
        <5>2. pc[i] = "commit" /\ Req(i) = r
          BY <5>1 DEF Consistent
        <5>3. QED
          BY <3>1, <3>2, <5>2 DEF Same, Req
      <4>3. QED
        BY <4>1, <4>2
    <3>6. QED
      BY <3>3, <3>4, <3>5 DEF LocksInv
  <2>2. CASE ~ MatchesRow(Req(h))
    BY <1>7, <2>2, RollbackStep DEF Flush
  <2>3. QED
    BY <2>1, <2>2
<1>8. ASSUME NEW h \in Handlers, Commit(h)
      PROVE  Goal
  <2>1. ASSUME NEW i \in Handlers \ {h}, pc[i] = "commit"
        PROVE  Exists(row'[Req(i)])
    <3>1. /\ pc[h] = "commit" /\ locked[Req(h)] = h
          /\ locked[Req(i)] = i /\ Exists(row[Req(i)]) /\ Req(i) \in Requests
      BY <1>8, <2>1, JobType DEF Commit, Consistent, SessionInv
    <3>2. Req(i) # Req(h)
      BY <3>1
    <3>3. QED
      BY <1>8, <3>1, <3>2 DEF Commit, Consistent, TypeOK
  <2>2. Close({h}) /\ Unlock({h})
    BY <1>8 DEF Commit
  <2>3. QED
    BY <2>1, <2>2, SessionsClosed
<1>9. ASSUME NEW r \in Requests, Expire(r)
      PROVE  Goal
  <2>1. UNCHANGED <<row, locked, session>>
    BY <1>9 DEF Expire, database
  <2>2. QED
    BY <2>1, SessionsStay DEF Consistent, SessionInv
<1>10. ASSUME NEW w \in Workers, Crash(w)
       PROVE  Goal
  BY <1>10, RollbackStep DEF Crash
<1>11. ASSUME NEW w \in Workers, Boot(w)
       PROVE  Goal
  <2>1. UNCHANGED <<locked, session>>
    BY <1>11 DEF Boot, PurgeExpired, database
  <2>2. ASSUME NEW i \in Handlers, pc[i] = "commit"
        PROVE  Exists(row'[Req(i)])
    <3>1. /\ Req(i) \in Requests /\ locked[Req(i)] = i /\ i # None
          /\ Exists(row[Req(i)])
      BY <2>2, JobType, DistinctAssumption DEF Consistent, SessionInv
    <3>2. row'[Req(i)] = row[Req(i)]
      BY <1>11, <3>1 DEF Boot, PurgeExpired, database
    <3>3. QED
      BY <3>1, <3>2
  <2>3. QED
    BY <2>1, <2>2, SessionsStay
<1>12. CASE UNCHANGED vars
  <2>1. UNCHANGED <<row, locked, session>>
    BY <1>12 DEF vars, session
  <2>2. QED
    BY <2>1, SessionsStay DEF Consistent, SessionInv
<1>13. QED
  BY <1>1, <1>2, <1>3, <1>4, <1>5, <1>6, <1>7, <1>8, <1>9, <1>10, <1>11, <1>12
  DEF Next, Step, BeginDecision, BeginExecute, Operations, MayPost, Executable

-----------------------------------------------------------------------------
(* Consistent is an inductive invariant.                                    *)

LEMMA ConsistentInit == Init => Consistent
<1> SUFFICES ASSUME Init PROVE Consistent
  OBVIOUS
<1>1. TypeOK
  BY TypeInit
<1>2. \A r \in Requests : RequestInv(r)
  BY DEF Init, RequestInv, RecordInv, WellOrdered, Exists, Decidable, Absent
<1>3. JournalNamesADecider /\ \A h \in Handlers : SessionInv(h)
  BY DEF Init, JournalNamesADecider, SessionInv
<1>4. \A r \in Requests, h \in Handlers : locked[r] # h
  BY DistinctAssumption DEF Init
<1>5. QED
  BY <1>1, <1>2, <1>3, <1>4, RequestFacts

LEMMA ConsistentStep == Consistent /\ [Next]_vars => Consistent'
<1> SUFFICES ASSUME Consistent, [Next]_vars PROVE Consistent'
  OBVIOUS
<1>1. TypeOK'
  BY TypeStep DEF Consistent
<1>2. \A r \in Requests : RequestInv(r)'
  BY RequestStep
<1>3. QED
  BY <1>1, <1>2, JournalStep, SessionStep
  DEF Consistent, RequestInv, LocksInv, AuditTellsTheStory, RowBackedByAudit,
      PostedOnlyAfterApproval

(* Every reachable state is consistent: the strengthening the theorems      *)
(* below rest on.                                                           *)
THEOREM AlwaysConsistent == Spec => []Consistent
  BY ConsistentInit, ConsistentStep, PTL DEF Spec

(* Every variable keeps its type.                                           *)
THEOREM TypeCorrect == Spec => []TypeOK
<1>1. Consistent => TypeOK
  BY DEF Consistent
<1>2. QED
  BY <1>1, AlwaysConsistent, PTL

(* The audit trail of a request is in order, however many calls race.       *)
THEOREM AuditInOrder == Spec => []AuditTellsTheStory
<1>1. Consistent => AuditTellsTheStory
  BY DEF Consistent
<1>2. QED
  BY <1>1, AlwaysConsistent, PTL

(* Whatever a row claims, an audited call has done.                         *)
THEOREM RowsAreBacked == Spec => []RowBackedByAudit
<1>1. Consistent => RowBackedByAudit
  BY DEF Consistent
<1>2. QED
  BY <1>1, AlwaysConsistent, PTL

(* SAP is never written to for a live request without committed approval.   *)
THEOREM NothingPostedUnapproved == Spec => []PostedOnlyAfterApproval
<1>1. Consistent => PostedOnlyAfterApproval
  BY DEF Consistent
<1>2. QED
  BY <1>1, AlwaysConsistent, PTL

(* The approver the execution journal names has decided on the request.     *)
THEOREM JournalIsHonest == Spec => []JournalNamesADecider
<1>1. Consistent => JournalNamesADecider
  BY DEF Consistent
<1>2. QED
  BY <1>1, AlwaysConsistent, PTL

(* A purged request stays purged.                                           *)
THEOREM PurgeIsFinal == Spec => NoResurrection
<1>1. ASSUME Consistent, Consistent', [Next]_vars, NEW r \in issued, ~ Exists(row[r])
      PROVE  ~ Exists(row'[r]) /\ audit'[r] = <<>>
  <2>1. r \in Requests
    BY <1>1 DEF Consistent, TypeOK
  <2>2. ~ Exists(row'[r])
    BY <1>1, <2>1, StepsAreBenign DEF Benign
  <2>3. QED
    BY <1>1, <2>1, <2>2 DEF Consistent, RecordInv
<1>2. Consistent /\ Consistent' /\ [Next]_vars =>
        [\A r \in issued : ~ Exists(row[r]) => ~ Exists(row'[r]) /\ audit'[r] = <<>>]_vars
  BY <1>1
<1>3. QED
  BY <1>2, AlwaysConsistent, PTL DEF Spec, NoResurrection

(* A decision may be overwritten by another, but never undone.              *)
THEOREM DecisionsStay == Spec => DecidedNeverPendingAgain
<1>1. ASSUME Consistent, [Next]_vars, NEW r \in Requests,
             Exists(row[r]), ~ Decidable(row[r])
      PROVE  ~ Decidable(row'[r])
  <2>1. r \in issued /\ Benign(r)
    BY <1>1, StepsAreBenign DEF Consistent, RecordInv
  <2>2. QED
    BY <1>1, <2>1 DEF Benign, Exists, Decidable
<1>2. Consistent /\ [Next]_vars =>
        [\A r \in Requests : Exists(row[r]) /\ ~ Decidable(row[r]) => ~ Decidable(row'[r])]_vars
  BY <1>1
<1>3. QED
  BY <1>2, AlwaysConsistent, PTL DEF Spec, DecidedNeverPendingAgain

-----------------------------------------------------------------------------
(* Counting: every document of a request is that of an audited execution,   *)
(* of a call that may still record one, or of a call that failed.           *)

Executions(r) == {i \in DOMAIN audit[r] : audit[r][i].action = "execute"}

Holds(h, r) ==
  /\ pc[h] \in {"mark", "reselect", "flush", "commit"}
  /\ Op(h) = "execute" /\ Req(h) = r

Holders(r) == {h \in Handlers : Holds(h, r)}

PostsCounted(r) ==
  /\ IsFiniteSet(Holders(r))
  /\ IsFiniteSet(docs[r])
  /\ Cardinality(Executions(r)) + Cardinality(Holders(r)) <= Cardinality(docs[r])

LEMMA TrailIsFinite ==
  ASSUME NEW trail \in Seq(AuditRow), NEW S \in SUBSET DOMAIN trail
  PROVE  IsFiniteSet(S) /\ Cardinality(S) \in Nat
<1>1. IsFiniteSet(1..Len(trail)) /\ DOMAIN trail = 1..Len(trail)
  BY FS_Interval
<1>2. QED
  BY <1>1, FS_Subset, FS_CardinalityType

(* A closed session holds nothing, the others what they held.               *)
LEMMA ClosingLetsGo ==
  ASSUME NEW H, Close(H), NEW r
  PROVE  Holders(r)' \in SUBSET Holders(r)
  BY DEF Close, Holders, Holds, Op, Req

(* A call on its way keeps what it holds.                                   *)
LEMMA MovingKeeps ==
  ASSUME TypeOK, NEW h \in Handlers, NEW label, Goto(h, label), UNCHANGED job,
         label \in {"reselect", "flush", "commit"},
         pc[h] \in {"mark", "reselect", "flush"}, NEW r
  PROVE  Holders(r)' \in SUBSET Holders(r)
  BY DEF TypeOK, Goto, Holders, Holds, Op, Req

(* Only a dispatch makes a call a holder.                                   *)
LEMMA HoldersStep ==
  ASSUME Consistent, [Next]_vars, NEW r
  PROVE  \/ \E h \in Handlers, d \in Docs : Dispatch(h, d)
         \/ Holders(r)' \in SUBSET Holders(r)
<1> DEFINE Fewer == Holders(r)' \in SUBSET Holders(r)
<1>0. TypeOK
  BY DEF Consistent
<1>1. ASSUME NEW h \in Handlers, NEW op, NEW q, NEW label, Begin(h, op, q, label),
             label = "dispatch" \/ op # "execute"
      PROVE  Fewer
  BY <1>0, <1>1 DEF Begin, Goto, TypeOK, Holders, Holds, Op, Req
<1>2. ASSUME NEW h \in Handlers, RefuseExpired(h) \/ Fail(h) \/ Commit(h)
      PROVE  Fewer
  BY <1>2, ClosingLetsGo DEF RefuseExpired, Fail, Commit, Rollback
<1>3. ASSUME NEW h \in Handlers, MarkSelect(h) \/ Reselect(h) \/ Flush(h)
      PROVE  Fewer
  <2>1. \/ Rollback({h})
        \/ /\ pc[h] \in {"mark", "reselect", "flush"} /\ UNCHANGED job
           /\ \E label \in {"reselect", "flush", "commit"} : Goto(h, label)
    BY <1>3 DEF MarkSelect, Reselect, Flush
  <2>2. QED
    BY <1>0, <2>1, ClosingLetsGo, MovingKeeps DEF Rollback
<1>4. ASSUME NEW w \in Workers, Crash(w)
      PROVE  Fewer
  BY <1>4, ClosingLetsGo DEF Crash, Rollback
<1>5. CASE UNCHANGED <<pc, job>>
  BY <1>5 DEF Holders, Holds, Op, Req
<1>6. QED
  BY <1>1, <1>2, <1>3, <1>4, <1>5
     DEF Next, Step, BeginDecision, BeginExecute, Submit, Expire, Boot, session, vars

LEMMA FewerHolders ==
  ASSUME Consistent, Consistent', NEW r \in Requests, PostsCounted(r),
         Holders(r)' \in SUBSET Holders(r), docs'[r] = docs[r],
         audit'[r] \in {audit[r], <<>>}
  PROVE  PostsCounted(r)'
<1>1. /\ IsFiniteSet(Holders(r)') /\ Cardinality(Holders(r)') <= Cardinality(Holders(r))
      /\ Cardinality(Holders(r)') \in Nat /\ Cardinality(Holders(r)) \in Nat
  BY FS_Subset, FS_CardinalityType DEF PostsCounted
<1>2. Executions(r)' \in SUBSET Executions(r)
  BY DEF Executions
<1>3. /\ IsFiniteSet(Executions(r)) /\ Cardinality(Executions(r)) \in Nat
      /\ Cardinality(Executions(r)') \in Nat
  BY TrailIsFinite DEF Consistent, TypeOK, Executions
<1>4. Cardinality(Executions(r)') <= Cardinality(Executions(r))
  BY <1>2, <1>3, FS_Subset
<1>5. Cardinality(docs[r]) \in Nat
  BY FS_CardinalityType DEF PostsCounted
<1>6. Cardinality(docs'[r]) = Cardinality(docs[r])
  OBVIOUS
<1>7. Cardinality(Executions(r)') + Cardinality(Holders(r)') <= Cardinality(docs'[r])
  BY <1>1, <1>3, <1>4, <1>5, <1>6 DEF PostsCounted
<1>8. QED
  BY <1>1, <1>7 DEF PostsCounted

(* A dispatch adds a document and a holder.                                 *)
LEMMA DispatchCounts ==
  ASSUME Consistent, NEW h \in Handlers, NEW d \in Docs, Dispatch(h, d),
         NEW r \in Requests, PostsCounted(r)
  PROVE  PostsCounted(r)'
<1>0. TypeOK
  BY DEF Consistent
<1>1. Executions(r)' = Executions(r) /\ Cardinality(Executions(r)) \in Nat
  BY <1>0, TrailIsFinite DEF Dispatch, database, Executions, TypeOK
<1>2. Cardinality(Holders(r)) \in Nat /\ Cardinality(docs[r]) \in Nat
  BY FS_CardinalityType DEF PostsCounted
<1>3. CASE Req(h) = r
  <2>1. Holders(r)' = Holders(r) \cup {h} \/ Holders(r)' = Holders(r)
    BY <1>0, <1>3 DEF Dispatch, Goto, TypeOK, Holders, Holds, Op, Req
  <2>2. /\ IsFiniteSet(Holders(r)')
        /\ Cardinality(Holders(r)') \in {Cardinality(Holders(r)), Cardinality(Holders(r)) + 1}
    BY <2>1, FS_AddElement DEF PostsCounted
  <2>3. docs'[r] = docs[r] \cup {d} /\ d \notin docs[r]
    BY <1>0, <1>3 DEF Dispatch, UnusedDoc, TypeOK
  <2>4. IsFiniteSet(docs'[r]) /\ Cardinality(docs'[r]) = Cardinality(docs[r]) + 1
    BY <2>3, FS_AddElement DEF PostsCounted
  <2>5. Cardinality(Executions(r)') = Cardinality(Executions(r))
    BY <1>1
  <2>6. Cardinality(Executions(r)') + Cardinality(Holders(r)') <= Cardinality(docs'[r])
    BY <1>1, <1>2, <2>2, <2>4, <2>5 DEF PostsCounted
  <2>7. QED
    BY <2>2, <2>4, <2>6 DEF PostsCounted
<1>4. CASE Req(h) # r
  <2>1. Holders(r)' = Holders(r)
    BY <1>0, <1>4 DEF Dispatch, Goto, TypeOK, Holders, Holds, Op, Req
  <2>2. docs'[r] = docs[r]
    BY <1>0, <1>4 DEF Dispatch, TypeOK
  <2>3. QED
    BY <1>1, <2>1, <2>2 DEF PostsCounted
<1>5. QED
  BY <1>3, <1>4

(* The commit of an execution turns a holder into an audit row.             *)
LEMMA ExecutionCounts ==
  ASSUME Consistent, NEW h \in Handlers, Commit(h), Op(h) = "execute",
         NEW r \in Requests, Req(h) = r, PostsCounted(r)
  PROVE  PostsCounted(r)'
<1> DEFINE n == Len(audit[r]) + 1
<1>1. TypeOK /\ pc[h] = "commit" /\ audit[r] \in Seq(AuditRow)
  BY DEF Consistent, Commit, TypeOK
<1>2. audit'[r] = Append(audit[r], Logged(h)) /\ Logged(h).action = "execute"
  BY <1>1 DEF Commit, AppendAudit, TypeOK, Logged
<1>3. Executions(r)' = Executions(r) \cup {n}
  BY <1>1, <1>2 DEF Executions
<1>4. n \notin Executions(r)
  BY <1>1 DEF Executions
<1>5. IsFiniteSet(Executions(r)) /\ Cardinality(Executions(r)) \in Nat
  BY <1>1, TrailIsFinite DEF Executions
<1> HIDE DEF n
<1>6. Cardinality(Executions(r)') = Cardinality(Executions(r)) + 1
  BY <1>3, <1>4, <1>5, FS_AddElement
<1>7. Holders(r)' = Holders(r) \ {h} /\ h \in Holders(r)
  BY <1>1 DEF Commit, Close, Holders, Holds, Op, Req
<1>8. /\ IsFiniteSet(Holders(r)')
      /\ Cardinality(Holders(r)') = Cardinality(Holders(r)) - 1
  BY <1>7, FS_RemoveElement DEF PostsCounted
<1>9. Cardinality(Holders(r)) \in Nat /\ Cardinality(docs[r]) \in Nat
  BY FS_CardinalityType DEF PostsCounted
<1>10. docs' = docs
  BY DEF Commit
<1>11. Cardinality(docs'[r]) = Cardinality(docs[r]) /\ IsFiniteSet(docs'[r])
  BY <1>10 DEF PostsCounted
<1>12. Cardinality(Executions(r)') + Cardinality(Holders(r)') <= Cardinality(docs'[r])
  BY <1>5, <1>6, <1>8, <1>9, <1>11 DEF PostsCounted
<1>13. QED
  BY <1>8, <1>11, <1>12 DEF PostsCounted

(* Any other commit changes neither side.                                   *)
LEMMA OtherCommitCounts ==
  ASSUME Consistent, NEW h \in Handlers, Commit(h), NEW r \in Requests,
         Op(h) # "execute" \/ Req(h) # r, PostsCounted(r)
  PROVE  PostsCounted(r)'
<1>1. TypeOK /\ pc[h] = "commit" /\ audit[r] \in Seq(AuditRow)
  BY DEF Consistent, Commit, TypeOK
<1>2. Executions(r)' = Executions(r)
  <2>1. CASE Req(h) = r
    <3>1. audit'[r] = Append(audit[r], Logged(h)) /\ Logged(h).action # "execute"
      BY <1>1, <2>1 DEF Commit, AppendAudit, TypeOK, Logged
    <3>2. QED
      BY <1>1, <3>1 DEF Executions
  <2>2. CASE Req(h) # r
    BY <1>1, <2>2 DEF Commit, AppendAudit, TypeOK, Executions
  <2>3. QED
    BY <2>1, <2>2
<1>3. Holders(r)' = Holders(r)
  BY <1>1 DEF Commit, Close, Holders, Holds, Op, Req
<1>4. docs' = docs
  BY DEF Commit
<1>5. QED
  BY <1>2, <1>3, <1>4 DEF PostsCounted

LEMMA CountsStep ==
  ASSUME Consistent, [Next]_vars, NEW r \in Requests, PostsCounted(r)
  PROVE  PostsCounted(r)'
<1>0. TypeOK /\ Consistent'
  BY ConsistentStep DEF Consistent
<1>1. ASSUME NEW h \in Handlers, NEW d \in Docs, Dispatch(h, d) PROVE PostsCounted(r)'
  BY <1>1, DispatchCounts
<1>2. ASSUME NEW h \in Handlers, Commit(h) PROVE PostsCounted(r)'
  BY <1>2, ExecutionCounts, OtherCommitCounts
<1>3. ASSUME ~ \E h \in Handlers, d \in Docs : Dispatch(h, d),
             docs'[r] = docs[r], audit'[r] \in {audit[r], <<>>}
      PROVE  PostsCounted(r)'
  BY <1>0, <1>3, HoldersStep, FewerHolders
<1>4. ASSUME NEW w \in Workers, NEW q \in Requests, NEW clear \in BOOLEAN, Submit(w, q, clear)
      PROVE  PostsCounted(r)'
  <2>1. UNCHANGED <<docs, pc, job>>
    BY <1>4 DEF Submit, session
  <2>2. Holders(r)' = Holders(r)
    BY <2>1 DEF Holders, Holds, Op, Req
  <2>3. CASE q = r
    <3>1. audit[r] = <<>>
      BY <1>0, <1>4, <2>3 DEF Submit, FreshId, Consistent, RecordInv
    <3>2. audit'[r] = Append(audit[r], [action |-> "submit", actor |-> None])
      BY <1>0, <1>4, <2>3 DEF Submit, TypeOK
    <3>3. Executions(r) = {} /\ Executions(r)' = {}
      BY <3>1, <3>2 DEF Executions
    <3>4. QED
      BY <2>1, <2>2, <3>3 DEF PostsCounted
  <2>4. CASE q # r
    <3>1. audit'[r] = audit[r]
      BY <1>0, <1>4, <2>4 DEF Submit, TypeOK
    <3>2. QED
      BY <2>1, <2>2, <3>1 DEF PostsCounted, Executions
  <2>5. QED
    BY <2>3, <2>4
<1>5. ASSUME NEW w \in Workers, PurgeExpired, Boot(w) PROVE PostsCounted(r)'
  <2>1. docs' = docs /\ audit'[r] \in {audit[r], <<>>} /\ UNCHANGED <<pc, job>>
    BY <1>5 DEF Boot, PurgeExpired, session
  <2>2. Holders(r)' \in SUBSET Holders(r)
    BY <2>1 DEF Holders, Holds, Op, Req
  <2>3. QED
    BY <1>0, <2>1, <2>2, FewerHolders
<1>6. CASE Quiet
  BY <1>1, <1>3, <1>6 DEF Quiet
<1>7. QED
  BY <1>0, <1>1, <1>2, <1>4, <1>5, <1>6, StepKinds

(* No audit trail records more executions than were posted to SAP, however  *)
(* many calls race, fail or are repeated.                                   *)
THEOREM ExecutionsPosted == Spec => []ExecutionsWerePosted
<1> DEFINE Counted == \A r \in Requests : PostsCounted(r)
<1>1. Init => Counted
  <2> SUFFICES ASSUME Init, NEW r \in Requests PROVE PostsCounted(r)
    OBVIOUS
  <2>1. Holders(r) = {} /\ docs[r] = {} /\ Executions(r) = {}
    BY DEF Init, Holders, Holds, Executions
  <2>2. QED
    BY <2>1, FS_EmptySet DEF PostsCounted
<1>2. Consistent /\ Counted /\ [Next]_vars => Counted'
  BY CountsStep
<1>3. Consistent /\ Counted => ExecutionsWerePosted
  <2> SUFFICES ASSUME Consistent, Counted, NEW r \in Requests
               PROVE  Cardinality(Executions(r)) <= Cardinality(docs[r])
    BY DEF ExecutionsWerePosted, Executions
  <2>1. PostsCounted(r) /\ audit[r] \in Seq(AuditRow)
    BY DEF Consistent, TypeOK
  <2>2. /\ Cardinality(Executions(r)) \in Nat /\ Cardinality(Holders(r)) \in Nat
        /\ Cardinality(docs[r]) \in Nat
    BY <2>1, TrailIsFinite, FS_CardinalityType DEF PostsCounted, Executions
  <2>3. QED
    BY <2>1, <2>2 DEF PostsCounted
<1> HIDE DEF Counted
<1>4. QED
  BY <1>1, <1>2, <1>3, AlwaysConsistent, PTL DEF Spec

-----------------------------------------------------------------------------
(* One call at a time.                                                      *)

Sequential == \A g, h \in Handlers : g = h

(* What the only call has read is what the row says, unless it was purged.  *)
UpToDate(h) ==
  pc[h] # "idle" =>
    LET r == Req(h)
    IN  /\ Op(h) # "execute" => Decidable(seen[h])
        /\ r \notin expired => Exists(row[r])
        /\ Exists(row[r]) =>
             /\ seen[h] = row[r]
             /\ pc[h] \in {"flush", "commit"} => loaded[h] = row[r]

LEMMA ClosedIsUpToDate ==
  ASSUME NEW h \in Handlers, Close({h})
  PROVE  UpToDate(h)'
  BY DEF Close, UpToDate

LEMMA KeptUpToDate ==
  ASSUME NEW h \in Handlers, UpToDate(h), UNCHANGED session,
         expired \subseteq expired',
         pc[h] # "idle" =>
           /\ Exists(row'[Req(h)]) => row'[Req(h)] = row[Req(h)]
           /\ Req(h) \notin expired' => row'[Req(h)] = row[Req(h)]
  PROVE  UpToDate(h)'
  BY DEF UpToDate, session, Req, Op

LEMMA UpToDateStep ==
  ASSUME Sequential, Consistent, [Next]_vars, NEW h \in Handlers, UpToDate(h)
  PROVE  UpToDate(h)'
<1>0. TypeOK /\ SessionInv(h) /\ \A g \in Handlers : g = h
  BY DEF Sequential, Consistent
<1>1. ASSUME NEW w \in Workers, NEW r \in Requests, NEW clear \in BOOLEAN, Submit(w, r, clear)
      PROVE  UpToDate(h)'
  <2>1. UNCHANGED <<session, expired>>
    BY <1>1 DEF Submit
  <2>2. ASSUME pc[h] # "idle" PROVE row'[Req(h)] = row[Req(h)]
    BY <1>0, <1>1, <2>2 DEF Submit, FreshId, SessionInv, TypeOK
  <2>3. QED
    BY <2>1, <2>2, KeptUpToDate
<1>2. ASSUME NEW op \in Operations, NEW r \in Requests, NEW label, Begin(h, op, r, label),
             label \in {"dispatch", "reselect"}, op # "execute" => Decidable(row[r])
      PROVE  UpToDate(h)'
  <2>1. /\ pc'[h] = label /\ job'[h] = [op |-> op, request |-> r]
        /\ seen'[h] = row[r] /\ row' = row /\ Exists(row[r])
    BY <1>0, <1>2 DEF Begin, Goto, TypeOK, database
  <2>2. Op(h)' = op /\ Req(h)' = r
    BY <2>1 DEF Op, Req
  <2>3. QED
    BY <1>2, <2>1, <2>2 DEF UpToDate
<1>3. ASSUME NEW d \in Docs, Dispatch(h, d) PROVE UpToDate(h)'
  BY <1>0, <1>3 DEF Dispatch, Goto, TypeOK, database, UpToDate, Op, Req
<1>4. ASSUME MarkSelect(h) PROVE UpToDate(h)'
  <2>1. CASE row[Req(h)].status = "approved"
    <3>1. /\ pc'[h] = "reselect" /\ seen'[h] = row[Req(h)]
          /\ UNCHANGED <<row, job, expired>> /\ pc[h] = "mark"
      BY <1>0, <1>4, <2>1 DEF MarkSelect, Goto, TypeOK, database
    <3>2. Op(h)' = Op(h) /\ Req(h)' = Req(h) /\ Op(h) = "execute"
      BY <1>0, <3>1 DEF Op, Req, SessionInv
    <3>3. QED
      BY <3>1, <3>2 DEF UpToDate
  <2>2. CASE row[Req(h)].status # "approved"
    BY <1>4, <2>2, ClosedIsUpToDate DEF MarkSelect, Rollback
  <2>3. QED
    BY <2>1, <2>2
<1>5. ASSUME Reselect(h) PROVE UpToDate(h)'
  <2>1. CASE Exists(row[Req(h)])
    <3>1. /\ loaded'[h] = row[Req(h)] /\ pc[h] # "idle"
          /\ UNCHANGED <<row, job, seen, expired>>
      BY <1>0, <1>5, <2>1 DEF Reselect, TypeOK, database
    <3>2. Op(h)' = Op(h) /\ Req(h)' = Req(h)
      BY <3>1 DEF Op, Req
    <3>3. QED
      BY <3>1, <3>2 DEF UpToDate
  <2>2. CASE ~ Exists(row[Req(h)])
    BY <1>5, <2>2, ClosedIsUpToDate DEF Reselect, Rollback
  <2>3. QED
    BY <2>1, <2>2
<1>6. ASSUME Flush(h) PROVE UpToDate(h)'
  <2>1. CASE MatchesRow(Req(h))
    <3>1. pc[h] = "flush" /\ UNCHANGED <<row, job, seen, loaded, expired>>
      BY <1>6, <2>1 DEF Flush
    <3>2. Op(h)' = Op(h) /\ Req(h)' = Req(h)
      BY <3>1 DEF Op, Req
    <3>3. QED
      BY <3>1, <3>2 DEF UpToDate
  <2>2. CASE ~ MatchesRow(Req(h))
    BY <1>6, <2>2, ClosedIsUpToDate DEF Flush, Rollback
  <2>3. QED
    BY <2>1, <2>2
<1>7. ASSUME Commit(h) \/ RefuseExpired(h) \/ Fail(h) PROVE UpToDate(h)'
  BY <1>7, ClosedIsUpToDate DEF Commit, RefuseExpired, Fail, Rollback
<1>8. ASSUME NEW r \in Requests, Expire(r) PROVE UpToDate(h)'
  BY <1>8, KeptUpToDate DEF Expire, database
<1>9. ASSUME NEW w \in Workers, Crash(w) PROVE UpToDate(h)'
  <2> DEFINE H == {g \in Handlers : WorkerOf[g] = w}
  <2>1. Close(H) /\ UNCHANGED <<row, expired>>
    BY <1>9 DEF Crash, Rollback
  <2>2. CASE h \in H
    BY <2>1, <2>2 DEF Close, UpToDate
  <2>3. CASE h \notin H
    <3>1. /\ pc'[h] = pc[h] /\ job'[h] = job[h] /\ seen'[h] = seen[h]
          /\ loaded'[h] = loaded[h]
      BY <2>1, <2>3 DEF Close
    <3>2. QED
      BY <2>1, <3>1 DEF UpToDate, Op, Req
  <2>4. QED
    BY <2>2, <2>3
<1>10. ASSUME NEW w \in Workers, Boot(w) PROVE UpToDate(h)'
  <2>1. UNCHANGED <<session, expired>>
    BY <1>10 DEF Boot
  <2>2. ASSUME pc[h] # "idle"
        PROVE  /\ Exists(row'[Req(h)]) => row'[Req(h)] = row[Req(h)]
               /\ Req(h) \notin expired' => row'[Req(h)] = row[Req(h)]
    <3>1. Req(h) \in Requests
      BY <1>0, <2>2, JobType
    <3>2. row' = row \/ row' = [r \in Requests |-> IF r \in expired THEN Absent ELSE row[r]]
      BY <1>10 DEF Boot, PurgeExpired, database
    <3>3. QED
      BY <2>1, <3>1, <3>2 DEF Exists, Absent
  <2>3. QED
    BY <2>1, <2>2, KeptUpToDate
<1>11. CASE UNCHANGED vars
  BY <1>11, KeptUpToDate DEF vars
<1>12. QED
  BY <1>0, <1>1, <1>2, <1>3, <1>4, <1>5, <1>6, <1>7, <1>8, <1>9, <1>10, <1>11
     DEF Next, Step, BeginDecision, BeginExecute, Operations, MayPost, Executable

LEMMA AlwaysUpToDate ==
  Sequential /\ Spec => [](Consistent /\ \A h \in Handlers : UpToDate(h))
<1>1. Init => \A h \in Handlers : UpToDate(h)
  BY DEF Init, UpToDate
<1>2. Sequential /\ Consistent /\ (\A h \in Handlers : UpToDate(h)) /\ [Next]_vars
        => (\A h \in Handlers : UpToDate(h))'
  BY UpToDateStep
<1>3. CASE Sequential
  BY <1>1, <1>2, <1>3, AlwaysConsistent, PTL DEF Spec
<1>4. QED
  BY <1>3

(* With calls one after the other, nothing is posted for a request that is  *)
(* not approved at that moment.                                             *)
THEOREM SequentialPosts == Sequential /\ Spec => PostedWhileApproved
<1>1. ASSUME Consistent, \A h \in Handlers : UpToDate(h), [Next]_vars,
             NEW r \in Requests, docs'[r] # docs[r]
      PROVE  row[r].status = "approved"
  <2>1. PICK h \in Handlers, d \in Docs : Dispatch(h, d)
    BY <1>1, StepKinds DEF Consistent, Submit, Commit, Boot, Quiet
  <2>2. r = Req(h)
    BY <1>1, <2>1 DEF Dispatch, Consistent, TypeOK
  <2>3. seen[h].status = "approved" /\ r \notin expired /\ pc[h] # "idle"
    BY <2>1, <2>2 DEF Dispatch, MayPost, Executable
  <2>4. seen[h] = row[r]
    BY <1>1, <2>2, <2>3 DEF UpToDate
  <2>5. QED
    BY <2>3, <2>4
<1>2. Consistent /\ (\A h \in Handlers : UpToDate(h)) /\ [Next]_vars =>
        [\A r \in Requests : docs'[r] # docs[r] => row[r].status = "approved"]_vars
  BY <1>1
<1>3. QED
  BY <1>2, AlwaysUpToDate, PTL DEF Spec, PostedWhileApproved

(* With calls one after the other, what could post a document twice?        *)

(* No call that has posted a document ends without recording it, unless its *)
(* request was purged.                                                      *)
NoneLost ==
  \A h \in Handlers :
    posted[h] # None /\ posted'[h] = None /\ Exists(row[Req(h)]) => Commit(h)

PostedOnce == \A r \in Requests : \A d, e \in docs[r] : d = e

(* A document is in the hands of the call that posted it, or on record.     *)
Recording(h) ==
  posted[h] # None =>
    Op(h) = "execute" /\ pc[h] \in {"mark", "reselect", "flush", "commit"}

OnRecord(r) ==
  \A d \in docs[r] :
    /\ docs[r] = {d}
    /\ \/ ~ Exists(row[r])
       \/ row[r].status = "executed"
       \/ \E h \in Handlers : posted[h] = d /\ Req(h) = r

LEMMA RecordingStep ==
  ASSUME Consistent, [Next]_vars, NEW h \in Handlers, Recording(h)
  PROVE  /\ Recording(h)'
         /\ posted[h] # None =>
              posted'[h] = None \/ (posted'[h] = posted[h] /\ Req(h)' = Req(h))
<1> DEFINE Goal == /\ Recording(h)'
                   /\ posted[h] # None =>
                        posted'[h] = None \/ (posted'[h] = posted[h] /\ Req(h)' = Req(h))
<1>0. TypeOK /\ SessionInv(h)
  BY DEF Consistent
<1>1. ASSUME NEW g \in Handlers, NEW op, NEW r \in Requests, NEW label, Begin(g, op, r, label)
      PROVE  Goal
  <2>1. CASE g = h
    BY <1>1, <2>1 DEF Begin, Recording
  <2>2. CASE g # h
    BY <1>0, <1>1, <2>2 DEF Begin, Goto, TypeOK, Recording, Op, Req
  <2>3. QED
    BY <2>1, <2>2
<1>2. ASSUME NEW H, Close(H)
      PROVE  Goal
  <2>1. CASE h \in H
    <3>1. posted'[h] = None
      BY <1>2, <2>1 DEF Close
    <3>2. QED
      BY <3>1 DEF Recording, Op, Req
  <2>2. CASE h \notin H
    <3>1. pc'[h] = pc[h] /\ job'[h] = job[h] /\ posted'[h] = posted[h]
      BY <1>2, <2>2 DEF Close
    <3>2. QED
      BY <3>1 DEF Recording, Op, Req
  <2>3. QED
    BY <2>1, <2>2
<1>3. ASSUME NEW g \in Handlers, UNCHANGED <<job, posted>>,
             NEW from \in {"mark", "reselect", "flush"}, pc[g] = from,
             NEW to \in {"reselect", "flush", "commit"}, Goto(g, to)
      PROVE  Goal
  BY <1>0, <1>3 DEF Goto, TypeOK, Recording, Op, Req
<1>4. ASSUME NEW g \in Handlers, MarkSelect(g) \/ Reselect(g) \/ Flush(g)
      PROVE  Goal
  <2>1. CASE Rollback({g})
    BY <1>2, <2>1 DEF Rollback
  <2>2. CASE ~ Rollback({g})
    <3>1. CASE MarkSelect(g)
      BY <1>3, <2>2, <3>1 DEF MarkSelect
    <3>2. CASE Reselect(g)
      BY <1>3, <2>2, <3>2 DEF Reselect
    <3>3. CASE Flush(g)
      BY <1>3, <2>2, <3>3 DEF Flush
    <3>4. QED
      BY <1>4, <3>1, <3>2, <3>3
  <2>3. QED
    BY <2>1, <2>2
<1>5. ASSUME NEW g \in Handlers, NEW d \in Docs, Dispatch(g, d)
      PROVE  Goal
  BY <1>0, <1>5 DEF Dispatch, Goto, TypeOK, SessionInv, Recording, Op, Req
<1>6. CASE UNCHANGED <<pc, job, posted>>
  BY <1>6 DEF Recording, Op, Req
<1>7. QED
  BY <1>1, <1>2, <1>4, <1>5, <1>6
     DEF Next, Step, BeginDecision, BeginExecute, Submit, Expire, Boot, session, vars,
         RefuseExpired, Commit, Fail, Crash, Rollback

LEMMA OnRecordStep ==
  ASSUME Sequential, Consistent, \A h \in Handlers : UpToDate(h) /\ Recording(h),
         [Next]_vars, [NoneLost]_vars, \A r \in Requests : OnRecord(r),
         NEW r \in Requests, NEW d \in docs'[r]
  PROVE  /\ docs'[r] = {d}
         /\ \/ ~ Exists(row'[r])
            \/ row'[r].status = "executed"
            \/ \E h \in Handlers : posted'[h] = d /\ Req(h)' = r
<1> DEFINE Goal == /\ docs'[r] = {d}
                   /\ \/ ~ Exists(row'[r])
                      \/ row'[r].status = "executed"
                      \/ \E h \in Handlers : posted'[h] = d /\ Req(h)' = r
<1>0. TypeOK /\ OnRecord(r) /\ None \notin Docs
  BY DistinctAssumption DEF Consistent
<1>1. ASSUME NEW w \in Workers, NEW q \in Requests, NEW clear \in BOOLEAN,
             Submit(w, q, clear)
      PROVE  Goal
  <2>1. docs' = docs /\ UNCHANGED <<posted, job>> /\ docs[q] = {}
    BY <1>1 DEF Submit, FreshId, Consistent, RecordInv, session
  <2>2. r # q /\ row'[r] = row[r]
    BY <1>0, <1>1, <2>1 DEF Submit, TypeOK
  <2>3. QED
    BY <1>0, <2>1, <2>2 DEF OnRecord, Req
<1>2. ASSUME NEW h \in Handlers, NEW e \in Docs, Dispatch(h, e)
      PROVE  Goal
  <2>1. \A g \in Handlers : posted[g] = None
    BY <1>2 DEF Dispatch, Sequential, Recording
  <2>2. /\ row' = row /\ docs' = [docs EXCEPT ![Req(h)] = @ \cup {e}]
        /\ posted'[h] = e /\ Req(h)' = Req(h) /\ pc[h] = "dispatch"
    BY <1>0, <1>2 DEF Dispatch, TypeOK, database, Req
  <2>3. CASE r # Req(h)
    <3>1. docs'[r] = docs[r] /\ d \in Docs
      BY <1>0, <2>2, <2>3 DEF TypeOK
    <3>2. QED
      BY <1>0, <2>1, <2>2, <3>1 DEF OnRecord
  <2>4. CASE r = Req(h)
    <3>1. seen[h].status = "approved" /\ r \notin expired
      BY <1>2, <2>4 DEF Dispatch, MayPost, Executable
    <3>2. seen[h] = row[r] /\ Exists(row[r])
      BY <2>2, <2>4, <3>1 DEF UpToDate
    <3>3. docs[r] = {}
      <4>1. SUFFICES ASSUME NEW f \in docs[r] PROVE FALSE
        OBVIOUS
      <4>2. f \in Docs
        BY <1>0 DEF TypeOK
      <4>3. QED
        BY <1>0, <2>1, <3>1, <3>2, <4>2 DEF OnRecord
    <3>4. docs'[r] = {e}
      BY <1>0, <2>2, <2>4, <3>3 DEF TypeOK
    <3>5. QED
      BY <2>2, <2>4, <3>4
  <2>5. QED
    BY <2>3, <2>4
<1>3. ASSUME NEW h \in Handlers, Commit(h)
      PROVE  Goal
  <2>1. docs' = docs /\ row' = [row EXCEPT ![Req(h)] = Updated(h)] /\ pc[h] = "commit"
    BY <1>3 DEF Commit
  <2>2. d \in docs[r] /\ d \in Docs
    BY <1>0, <2>1 DEF TypeOK
  <2>3. CASE r # Req(h)
    <3>1. row'[r] = row[r] /\ \A g \in Handlers : Req(g) # r
      BY <1>0, <2>1, <2>3 DEF TypeOK, Sequential
    <3>2. QED
      BY <1>0, <2>1, <2>2, <3>1 DEF OnRecord
  <2>4. CASE r = Req(h)
    <3>1. /\ Exists(row[r]) /\ seen[h] = row[r] /\ loaded[h] = row[r] /\ seen[h] \in Record
          /\ Op(h) = "execute" => seen[h].status = "approved"
          /\ Op(h) # "execute" => seen[h].status = "awaiting_approval"
      BY <1>0, <2>1, <2>4 DEF Consistent, SessionInv, UpToDate, Decidable, TypeOK
    <3>2. Op(h) = "execute"
      BY <1>0, <2>2, <3>1 DEF OnRecord, Recording, Sequential
    <3>3. Target(h).status = "executed"
      BY <3>1, <3>2 DEF Target, Executed, Record
    <3>4. Updated(h).status = "executed"
      BY <3>1, <3>2, <3>3 DEF Updated, Column
    <3>5. QED
      BY <1>0, <2>1, <2>2, <2>4, <3>4 DEF OnRecord, TypeOK
  <2>5. QED
    BY <2>3, <2>4
<1>4. ASSUME NEW w \in Workers, PurgeExpired, Boot(w)
      PROVE  Goal
  <2>1. /\ docs' = docs /\ UNCHANGED <<posted, job>>
        /\ row'[r] = row[r] \/ ~ Exists(row'[r])
    BY <1>4 DEF PurgeExpired, Boot, session, Exists, Absent
  <2>2. QED
    BY <1>0, <2>1 DEF OnRecord, Req
<1>5. ASSUME Quiet, \A h \in Handlers : ~ Commit(h)
      PROVE  Goal
  <2>1. docs' = docs /\ row' = row /\ d \in docs[r] /\ d \in Docs
    BY <1>0, <1>5 DEF Quiet, TypeOK
  <2>2. ASSUME NEW h \in Handlers, posted[h] = d, Req(h) = r, Exists(row[r])
        PROVE  posted'[h] = d /\ Req(h)' = r
    <3>1. posted'[h] # None
      BY <1>0, <1>5, <2>1, <2>2 DEF NoneLost, vars, session
    <3>2. QED
      BY <1>0, <2>1, <2>2, <3>1, RecordingStep
  <2>3. QED
    BY <1>0, <2>1, <2>2 DEF OnRecord
<1>6. QED
  BY <1>0, <1>1, <1>2, <1>3, <1>4, <1>5, StepKinds

(* With calls one after the other it takes a failure to post twice: as long *)
(* as no call ends between its posting and its COMMIT, with the request     *)
(* still there, no request gets two SAP documents, however often /execute   *)
(* is called for it.                                                        *)
THEOREM SequentialPostsOnce == Sequential /\ Spec /\ [][NoneLost]_vars => []PostedOnce
<1> DEFINE Kept == /\ \A h \in Handlers : Recording(h)
                   /\ \A r \in Requests : OnRecord(r)
           Known == Consistent /\ \A h \in Handlers : UpToDate(h)
<1>1. Init => Kept
  BY DEF Init, Recording, OnRecord
<1>2. Sequential /\ Known /\ Kept /\ [Next]_vars /\ [NoneLost]_vars => Kept'
  <2>1. ASSUME Sequential, Known, Kept, [Next]_vars, [NoneLost]_vars PROVE Kept'
    <3>1. \A h \in Handlers : Recording(h)'
      BY <2>1, RecordingStep
    <3>2. ASSUME NEW r \in Requests PROVE OnRecord(r)'
      BY <2>1, OnRecordStep DEF OnRecord
    <3>3. QED
      BY <3>1, <3>2
  <2>2. QED
    BY <2>1
<1>3. Kept => PostedOnce
  BY DEF OnRecord, PostedOnce
<1>4. Sequential /\ Spec => []Known
  BY AlwaysUpToDate
<1> HIDE DEF Kept, Known
<1>5. CASE Sequential
  BY <1>1, <1>2, <1>3, <1>4, <1>5, PTL DEF Spec
<1>6. QED
  BY <1>5

(* The caller's view of a request depends on its row and its id only.       *)
LEMMA SameStatus ==
  ASSUME NEW r \in Requests, row'[r] = row[r], r \in issued' <=> r \in issued
  PROVE  StatusOf(r)' = StatusOf(r)
  BY DEF StatusOf

LEMMA StatusOfRow ==
  ASSUME Consistent, NEW r \in Requests, Exists(row[r])
  PROVE  StatusOf(r) = row[r].status /\ r \in issued
  BY DEF Consistent, RecordInv, StatusOf

(* A submission, seen by a caller.                                          *)
LEMMA SubmitKept ==
  ASSUME Consistent, Consistent', NEW w \in Workers, NEW r \in Requests,
         NEW clear \in BOOLEAN, Submit(w, r, clear)
  PROVE  Promise!Submit(r)
<1>1. TypeOK /\ r \notin issued /\ ~ Exists(row[r])
  BY DEF Submit, FreshId, Consistent, RecordInv
<1>2. StatusOf(r) = "absent"
  BY <1>1 DEF StatusOf, Exists
<1>3. row'[r] = Submitted(clear) /\ r \in issued'
  BY <1>1 DEF Submit, TypeOK
<1>4. StatusOf(r)' = "awaiting_approval"
  BY <1>3 DEF StatusOf, Submitted, Exists
<1>5. ASSUME NEW q \in Requests \ {r} PROVE StatusOf(q)' = StatusOf(q)
  BY <1>1, SameStatus DEF Submit, TypeOK
<1>6. CallerStatus' = [CallerStatus EXCEPT ![r] = "awaiting_approval"]
  BY <1>4, <1>5 DEF CallerStatus
<1>7. QED
  BY <1>2, <1>6 DEF Promise!Submit, Promise!Move, CallerStatus

(* A purge.                                                                 *)
LEMMA PurgeKept ==
  ASSUME Consistent, NEW w \in Workers, PurgeExpired, Boot(w)
  PROVE  \E S \in SUBSET Requests : Promise!Forget(S)
<1> DEFINE S == {r \in expired : Exists(row[r])}
<1>1. /\ TypeOK /\ issued' = issued /\ S \in SUBSET Requests
      /\ row' = [r \in Requests |-> IF r \in expired THEN Absent ELSE row[r]]
  BY DEF Consistent, TypeOK, Boot, PurgeExpired
<1>2. ASSUME NEW r \in S
      PROVE  StatusOf(r) \notin {"absent", "gone"} /\ StatusOf(r)' = "gone"
  <2>1. r \in Requests /\ row[r] \in Record /\ row'[r] = Absent
    BY <1>1 DEF TypeOK
  <2>2. StatusOf(r) = row[r].status /\ r \in issued
    BY <1>2, <2>1, StatusOfRow
  <2>3. StatusOf(r)' = "gone"
    BY <1>1, <2>1, <2>2 DEF StatusOf, Exists, Absent
  <2>4. StatusOf(r) \notin {"absent", "gone"}
    BY <1>2, <2>1, <2>2 DEF Exists, Record, Status
  <2>5. QED
    BY <2>3, <2>4
<1>3. ASSUME NEW r \in Requests \ S PROVE StatusOf(r)' = StatusOf(r)
  <2>1. CASE r \in expired
    <3>1. ~ Exists(row[r]) /\ row'[r] = Absent /\ ~ Exists(Absent) /\ r \in issued
      BY <1>1, <1>3, <2>1 DEF Exists, Absent, TypeOK
    <3>2. QED
      BY <1>1, <3>1 DEF StatusOf
  <2>2. CASE r \notin expired
    BY <1>1, <2>2, SameStatus
  <2>3. QED
    BY <2>1, <2>2
<1> HIDE DEF S
<1>4. CallerStatus' = [r \in Requests |-> IF r \in S THEN "gone" ELSE CallerStatus[r]]
  BY <1>2, <1>3 DEF CallerStatus
<1>5. \A r \in S : CallerStatus[r] \notin {"absent", "gone"}
  BY <1>1, <1>2 DEF CallerStatus
<1>6. QED
  BY <1>1, <1>4, <1>5 DEF Promise!Forget

(* The commit of an up-to-date call does what the caller asked for.         *)
LEMMA CommitKept ==
  ASSUME Consistent, Consistent', NEW h \in Handlers, Commit(h), UpToDate(h),
         NEW r \in Requests, r = Req(h)
  PROVE  Promise!Approve(r) \/ Promise!Reject(r) \/ Promise!Execute(r)
<1>1. /\ TypeOK /\ SessionInv(h) /\ pc[h] = "commit" /\ Op(h) \in Operations
      /\ seen[h] \in Record
  BY JobType DEF Consistent, Commit, TypeOK
<1>2. /\ Exists(row[r]) /\ seen[h] = row[r] /\ loaded[h] = row[r]
      /\ Op(h) # "execute" => row[r].status = "awaiting_approval"
      /\ Op(h) = "execute" => row[r].status = "approved"
  BY <1>1 DEF SessionInv, UpToDate, Decidable
<1> DEFINE to == IF Op(h) = "approve" THEN "approved"
                 ELSE IF Op(h) = "reject" THEN "rejected" ELSE "executed"
<1>3. Target(h).status = to
  BY <1>1 DEF Target, Operations, Approved, Rejected, Executed, Record
<1> HIDE DEF to
<1>4. Updated(h).status = to
  BY <1>2, <1>3 DEF Updated, Column
<1>5. row' = [row EXCEPT ![r] = Updated(h)] /\ issued' = issued
  BY DEF Commit
<1>6. row'[r] = Updated(h) /\ Exists(row'[r])
  BY <1>1, <1>4, <1>5 DEF TypeOK, Exists, to
<1>7. StatusOf(r)' = to
  BY <1>4, <1>6 DEF StatusOf
<1>8. StatusOf(r) = row[r].status
  BY <1>2, StatusOfRow
<1>9. ASSUME NEW q \in Requests \ {r} PROVE StatusOf(q)' = StatusOf(q)
  BY <1>1, <1>5, SameStatus DEF TypeOK
<1>10. CallerStatus' = [CallerStatus EXCEPT ![r] = to]
  BY <1>7, <1>9 DEF CallerStatus
<1>11. CallerStatus[r] = row[r].status
  BY <1>8 DEF CallerStatus
<1>12. CASE Op(h) = "approve"
  BY <1>2, <1>10, <1>11, <1>12 DEF to, Promise!Approve, Promise!Move
<1>13. CASE Op(h) = "reject"
  BY <1>2, <1>10, <1>11, <1>13 DEF to, Promise!Reject, Promise!Move
<1>14. CASE Op(h) = "execute"
  BY <1>2, <1>10, <1>11, <1>14 DEF to, Promise!Execute, Promise!Move
<1>15. QED
  BY <1>1, <1>12, <1>13, <1>14 DEF Operations

(* With calls one after the other the database service implements the       *)
(* lifecycle, whatever fails, crashes or is purged in between.              *)
THEOREM SequentialRefinement == Sequential /\ Spec => LifecycleFollowed
<1>1. Init => Promise!Init
  BY DEF Init, Promise!Init, CallerStatus, StatusOf, Exists, Absent
<1>2. ASSUME Consistent, Consistent', \A h \in Handlers : UpToDate(h), [Next]_vars
      PROVE  [Promise!Next]_CallerStatus
  <2>1. ASSUME NEW w \in Workers, NEW r \in Requests, NEW clear \in BOOLEAN,
               Submit(w, r, clear)
        PROVE  Promise!Next
    BY <1>2, <2>1, SubmitKept DEF Promise!Next
  <2>2. ASSUME NEW h \in Handlers, Commit(h) PROVE Promise!Next
    <3>1. Req(h) \in Requests
      BY <1>2, <2>2, CommitEffect DEF Consistent, TypeOK
    <3>2. QED
      BY <1>2, <2>2, <3>1, CommitKept DEF Promise!Next
  <2>3. ASSUME NEW w \in Workers, PurgeExpired, Boot(w) PROVE Promise!Next
    BY <1>2, <2>3, PurgeKept DEF Promise!Next
  <2>4. CASE UNCHANGED <<row, issued>>
    BY <2>4 DEF CallerStatus, StatusOf
  <2>5. QED
    BY <1>2, <2>1, <2>2, <2>3, <2>4, StepKinds DEF Consistent, Dispatch, database, Quiet
<1>3. QED
  BY <1>1, <1>2, AlwaysUpToDate, PTL DEF Spec, LifecycleFollowed, Promise!Spec

-----------------------------------------------------------------------------
(* Overlapping calls.                                                       *)

(* An id without a row has expired: only a purge removes rows.              *)
GoneExpired(r) == r \in issued => Exists(row[r]) \/ r \in expired

(* The simulation that a session checked is the one stored.                 *)
SameClear(h) ==
  pc[h] # "idle" /\ Exists(row[Req(h)]) => seen[h].clear = row[Req(h)].clear

Faithful ==
  /\ \A r \in Requests : GoneExpired(r)
  /\ \A h \in Handlers : SameClear(h)

(* No step changes the simulation of a stored request.                      *)
LEMMA ClearStays ==
  ASSUME Consistent, [Next]_vars, NEW r \in issued, Exists(row'[r])
  PROVE  Exists(row[r]) /\ row'[r].clear = row[r].clear
<1>0. TypeOK /\ r \in Requests /\ Exists(row[r])
  BY StepsAreBenign DEF Consistent, TypeOK, Benign
<1>1. ASSUME NEW w \in Workers, NEW q \in Requests, NEW clear \in BOOLEAN,
             Submit(w, q, clear)
      PROVE  row'[r] = row[r]
  BY <1>0, <1>1 DEF Submit, FreshId, TypeOK
<1>2. ASSUME NEW h \in Handlers, Commit(h)
      PROVE  row'[r].clear = row[r].clear
  BY <1>0, <1>2 DEF Commit, Updated, TypeOK
<1>3. ASSUME NEW w \in Workers, PurgeExpired, Boot(w)
      PROVE  row'[r] = row[r]
  BY <1>0, <1>3 DEF PurgeExpired, Exists, Absent
<1>4. QED
  BY <1>0, <1>1, <1>2, <1>3, StepKinds DEF Dispatch, database, Quiet

(* A step ends a session, leaves what it works on, or has it read its row.  *)
LEMMA SessionKinds ==
  ASSUME TypeOK, [Next]_vars, NEW h \in Handlers
  PROVE  \/ pc'[h] = "idle"
         \/ pc[h] # "idle" /\ job'[h] = job[h] /\ seen'[h] = seen[h]
         \/ seen'[h] = row[Req(h)'] /\ UNCHANGED row
<1> DEFINE Goal == \/ pc'[h] = "idle"
                   \/ pc[h] # "idle" /\ job'[h] = job[h] /\ seen'[h] = seen[h]
                   \/ seen'[h] = row[Req(h)'] /\ UNCHANGED row
<1>1. ASSUME NEW g \in Handlers, NEW op, NEW r \in Requests, NEW label, Begin(g, op, r, label)
      PROVE  Goal
  BY <1>1 DEF Begin, Goto, TypeOK, Req, database
<1>2. ASSUME NEW H, Close(H)
      PROVE  Goal
  BY <1>2 DEF Close
<1>3. ASSUME NEW g \in Handlers, MarkSelect(g)
      PROVE  Goal
  <2>1. CASE row[Req(g)].status = "approved"
    BY <1>3, <2>1 DEF MarkSelect, Goto, TypeOK, Req, database
  <2>2. CASE row[Req(g)].status # "approved"
    BY <1>2, <1>3, <2>2 DEF MarkSelect, Rollback
  <2>3. QED
    BY <2>1, <2>2
<1>4. ASSUME NEW g \in Handlers, Reselect(g) \/ Flush(g)
      PROVE  Goal
  <2>1. CASE Rollback({g})
    BY <1>2, <2>1 DEF Rollback
  <2>2. CASE UNCHANGED <<job, seen>> /\ pc[g] # "idle" /\ \E label : Goto(g, label)
    BY <2>2 DEF Goto, TypeOK
  <2>3. QED
    BY <1>4, <2>1, <2>2 DEF Reselect, Flush
<1>5. ASSUME NEW g \in Handlers, NEW d \in Docs, Dispatch(g, d)
      PROVE  Goal
  BY <1>5 DEF Dispatch, Goto, TypeOK
<1>6. CASE UNCHANGED <<pc, job, seen>>
  BY <1>6
<1>7. QED
  BY <1>1, <1>2, <1>3, <1>4, <1>5, <1>6
     DEF Next, Step, BeginDecision, BeginExecute, Submit, Expire, Boot, session, vars,
         RefuseExpired, Commit, Fail, Crash, Rollback

LEMMA FaithfulStep ==
  ASSUME Consistent, Faithful, [Next]_vars
  PROVE  Faithful'
<1>0. TypeOK
  BY DEF Consistent
<1>1. expired \subseteq expired'
  BY DEF Next, Step, BeginDecision, BeginExecute, Begin, Submit, Expire, Boot, vars,
         Dispatch, RefuseExpired, MarkSelect, Reselect, Flush, Commit, Fail, Crash
<1>2. ASSUME NEW r \in Requests PROVE GoneExpired(r)'
  <2>1. ASSUME NEW w \in Workers, NEW q \in Requests, NEW clear \in BOOLEAN,
               Submit(w, q, clear)
        PROVE  GoneExpired(r)'
    BY <1>0, <1>2, <2>1 DEF Submit, TypeOK, Faithful, GoneExpired, Exists, Submitted
  <2>2. ASSUME NEW h \in Handlers, Commit(h)
        PROVE  GoneExpired(r)'
    <3>1. issued' = issued /\ Exists(Updated(h))
      BY <2>2, CommitEffect DEF Commit
    <3>2. row'[r] \in {row[r], Updated(h)}
      BY <1>0, <2>2 DEF Commit, TypeOK
    <3>3. QED
      BY <1>1, <3>1, <3>2 DEF Faithful, GoneExpired, Exists
  <2>3. ASSUME NEW w \in Workers, PurgeExpired, Boot(w)
        PROVE  GoneExpired(r)'
    BY <2>3 DEF PurgeExpired, Boot, Faithful, GoneExpired
  <2>4. CASE UNCHANGED <<row, issued>>
    BY <1>1, <2>4 DEF Faithful, GoneExpired
  <2>5. QED
    BY <1>0, <2>1, <2>2, <2>3, <2>4, StepKinds DEF Dispatch, database, Quiet
<1>3. ASSUME NEW h \in Handlers PROVE SameClear(h)'
  <2>1. CASE pc[h] # "idle" /\ job'[h] = job[h] /\ seen'[h] = seen[h]
    <3>1. Req(h) \in issued /\ Req(h)' = Req(h)
      BY <2>1 DEF Consistent, SessionInv, Req
    <3>2. QED
      BY <2>1, <3>1, ClearStays DEF Faithful, SameClear
  <2>2. QED
    BY <1>0, <2>1, SessionKinds DEF SameClear
<1>4. QED
  BY <1>2, <1>3 DEF Faithful

LEMMA AlwaysFaithful == Spec => [](Consistent /\ Faithful)
<1>1. Init => Faithful
  BY DEF Init, Faithful, GoneExpired, SameClear
<1>2. Consistent /\ Faithful /\ [Next]_vars => Faithful'
  BY FaithfulStep
<1>3. QED
  BY <1>1, <1>2, AlwaysConsistent, PTL DEF Spec

(* What callers see while tables and sessions stay as they are.             *)
LEMMA SameView ==
  ASSUME UNCHANGED <<row, issued>>
  PROVE  UNCHANGED <<CallerStatus, CallerClear>>
  BY DEF CallerStatus, CallerClear, StatusOf

LEMMA SameCall ==
  ASSUME NEW h \in Handlers, pc'[h] = pc[h], job'[h] = job[h], posted'[h] = posted[h]
  PROVE  CallOf(h)' = CallOf(h)
  BY DEF CallOf, Op, Req

LEMMA SameCalls ==
  ASSUME UNCHANGED session
  PROVE  CallerCalls' = CallerCalls
  BY DEF session, CallerCalls, CallOf, Op, Req

(* A live request is one that callers know.                                 *)
LEMMA LiveIsKnown ==
  ASSUME Consistent, NEW r \in Requests, Exists(row[r])
  PROVE  CallerStatus[r] = row[r].status /\ Overlap!Known(r)
<1>1. StatusOf(r) = row[r].status
  BY StatusOfRow
<1>2. row[r] \in Record
  BY DEF Consistent, TypeOK
<1>3. row[r].status \notin {"absent", "gone"}
  BY <1>2 DEF Exists, Record, Status
<1>4. QED
  BY <1>1, <1>3 DEF CallerStatus, Overlap!Known

LEMMA BusyCall ==
  ASSUME TypeOK, NEW h \in Handlers, pc[h] # "idle"
  PROVE  /\ CallerCalls[h] # Overlap!NoCall
         /\ CallerCalls[h].op = Op(h) /\ CallerCalls[h].request = Req(h)
         /\ CallerCalls[h].doc =
              IF Op(h) = "execute" /\ pc[h] # "dispatch" THEN posted[h] ELSE None
<1>1. CallerCalls[h] = CallOf(h) /\ Op(h) # "none"
  BY JobType DEF CallerCalls, Operations
<1>2. QED
  BY <1>1 DEF CallOf, Overlap!NoCall

(* Sessions that end are calls that end.                                    *)
LEMMA CallsEnd ==
  ASSUME NEW H, Close(H)
  PROVE  CallerCalls' =
           [h \in Handlers |-> IF h \in H THEN Overlap!NoCall ELSE CallerCalls[h]]
<1>1. ASSUME NEW h \in Handlers
      PROVE  CallOf(h)' = IF h \in H THEN Overlap!NoCall ELSE CallOf(h)
  <2>1. CASE h \in H
    BY <2>1 DEF Close, CallOf, Overlap!NoCall
  <2>2. CASE h \notin H
    BY <2>2, SameCall DEF Close
  <2>3. QED
    BY <2>1, <2>2
<1>2. QED
  BY <1>1 DEF CallerCalls

LEMMA RollbackFails ==
  ASSUME NEW H \in SUBSET Handlers, Rollback(H), UNCHANGED <<issued, expired, docs>>
  PROVE  Overlap!Fail(H)
<1>1. UNCHANGED <<CallerStatus, CallerClear, audit>>
  BY SameView DEF Rollback
<1>2. QED
  BY <1>1, CallsEnd DEF Rollback, Overlap!Fail

LEMMA SubmitSeen ==
  ASSUME Consistent, Consistent', NEW w \in Workers, NEW r \in Requests,
         NEW isClear \in BOOLEAN, Submit(w, r, isClear)
  PROVE  Overlap!Submit(r, isClear)
<1>1. TypeOK /\ r \notin issued /\ audit[r] = <<>>
  BY DEF Submit, FreshId, Consistent, RecordInv
<1>2. /\ CallerStatus[r] = "absent"
      /\ CallerStatus' = [CallerStatus EXCEPT ![r] = "awaiting_approval"]
  BY SubmitKept DEF Promise!Submit, Promise!Move
<1>3. /\ row'[r] = Submitted(isClear)
      /\ \A q \in Requests \ {r} : row'[q] = row[q]
  BY <1>1 DEF Submit, TypeOK
<1>4. CallerClear' = [CallerClear EXCEPT ![r] = isClear]
  <2>1. row'[r].clear = isClear
    BY <1>3 DEF Submitted
  <2>2. QED
    BY <1>3, <2>1 DEF CallerClear
<1>5. audit' = [audit EXCEPT ![r] = <<[action |-> "submit", actor |-> None]>>]
  BY <1>1 DEF Submit
<1>6. CallerCalls' = CallerCalls
  BY SameCalls DEF Submit
<1>7. QED
  BY <1>2, <1>4, <1>5, <1>6 DEF Submit, Overlap!Submit

LEMMA BeginSeen ==
  ASSUME Consistent, NEW h \in Handlers, NEW op \in Operations, NEW r \in Requests,
         NEW label, Begin(h, op, r, label),
         \/ label = "reselect" /\ op # "execute" /\ row[r].status = "awaiting_approval"
         \/ label = "dispatch" /\ op = "execute" /\ row[r].status = "approved"
  PROVE  Overlap!Call(h, op, r)
<1>1. TypeOK
  BY DEF Consistent
<1>2. /\ CallerCalls[h] = Overlap!NoCall
      /\ CallerStatus[r] = Overlap!Asked[op]
  BY LiveIsKnown DEF Begin, CallerCalls, CallOf, Overlap!NoCall, Overlap!Asked, Operations
<1>3. CallOf(h)' = [op |-> op, request |-> r, doc |-> None]
  BY <1>1 DEF Begin, Goto, TypeOK, CallOf, Op, Req
<1>4. ASSUME NEW g \in Handlers \ {h} PROVE CallOf(g)' = CallOf(g)
  BY <1>1, SameCall DEF Begin, Goto, TypeOK
<1>5. CallerCalls' = [CallerCalls EXCEPT ![h] = [op |-> op, request |-> r, doc |-> None]]
  BY <1>3, <1>4 DEF CallerCalls
<1>6. UNCHANGED <<CallerStatus, CallerClear, expired, audit, docs>>
  BY SameView DEF Begin, database
<1>7. QED
  BY <1>2, <1>5, <1>6 DEF Overlap!Call

LEMMA DispatchSeen ==
  ASSUME Consistent, Faithful, NEW h \in Handlers, NEW d \in Docs, Dispatch(h, d)
  PROVE  Overlap!Post(h, d)
<1> DEFINE r == Req(h)
<1>1. /\ TypeOK /\ pc[h] = "dispatch" /\ r \in Requests
      /\ SessionInv(h) /\ GoneExpired(r) /\ SameClear(h)
  BY JobType DEF Dispatch, Consistent, Faithful
<1>2. /\ Op(h) = "execute" /\ r \in issued /\ r \notin expired
      /\ seen[h].status = "approved" /\ seen[h].clear
  BY <1>1 DEF SessionInv, Dispatch, MayPost, Executable
<1>3. Exists(row[r]) /\ row[r].clear
  BY <1>1, <1>2 DEF GoneExpired, SameClear
<1>4. Backed(seen[h], audit[r], docs[r]) /\ ~ Decidable(row[r])
  BY <1>1, <1>2, <1>3 DEF SessionInv, Decidable
<1>5. Overlap!Done(r, "approve")
  BY <1>2, <1>4 DEF Backed, Audited, Overlap!Done
<1>6. Overlap!Known(r) /\ CallerStatus[r] # "awaiting_approval"
  BY <1>1, <1>3, <1>4, LiveIsKnown DEF Decidable
<1>7. CallerClear[r]
  BY <1>1, <1>3 DEF CallerClear
<1>8. CallerCalls[h].op = "execute" /\ CallerCalls[h].request = r /\ CallerCalls[h].doc = None
  BY <1>1, <1>2, BusyCall
<1>9. CallerCalls' =
        [CallerCalls EXCEPT ![h] = [op |-> "execute", request |-> r, doc |-> d]]
  <2>1. CallOf(h)' = [op |-> "execute", request |-> r, doc |-> d]
    BY <1>1, <1>2 DEF Dispatch, Goto, TypeOK, CallOf, Op, Req
  <2>2. ASSUME NEW g \in Handlers \ {h} PROVE CallOf(g)' = CallOf(g)
    BY <1>1, SameCall DEF Dispatch, Goto, TypeOK
  <2>3. QED
    BY <2>1, <2>2 DEF CallerCalls
<1>10. UNCHANGED <<CallerStatus, CallerClear, expired, audit>>
  BY SameView DEF Dispatch, database
<1>11. /\ docs' = [docs EXCEPT ![r] = @ \cup {d}]
       /\ \A q \in Requests : d \notin docs[q]
  BY DEF Dispatch, UnusedDoc
<1>12. QED
  BY <1>2, <1>5, <1>6, <1>7, <1>8, <1>9, <1>10, <1>11 DEF Overlap!Post

LEMMA CommitSeen ==
  ASSUME Consistent, NEW h \in Handlers, Commit(h),
         NEW r, r = Req(h), NEW op, op = Op(h)
  PROVE  Overlap!Succeed(h)
<1>1. /\ TypeOK /\ pc[h] = "commit" /\ r \in Requests /\ op \in Operations
      /\ SessionInv(h) /\ Exists(row[r]) /\ seen[h] \in Record
  BY JobType, CommitEffect DEF Commit, Consistent, TypeOK
<1>2. op = "execute" => /\ seen[h].status = "approved" /\ posted[h] \in docs[r]
                        /\ Backed(seen[h], audit[r], docs[r])
  BY <1>1 DEF SessionInv
<1>3. /\ CallerCalls[h] # Overlap!NoCall
      /\ CallerCalls[h].op = op /\ CallerCalls[h].request = r
      /\ op = "execute" => CallerCalls[h].doc = posted[h]
  BY <1>1, BusyCall
<1>4. Overlap!Known(r) /\ CallerStatus[r] = row[r].status
  BY <1>1, LiveIsKnown
<1>5. op = "execute" => Overlap!Done(r, "approve") /\ CallerCalls[h].doc \in docs[r]
  BY <1>2, <1>3 DEF Backed, Audited, Overlap!Done
<1>6. /\ Updated(h).status \in {Overlap!Outcome[op], row[r].status}
      /\ Updated(h).clear = row[r].clear
  <2>1. Target(h).status = Overlap!Outcome[op]
    BY <1>1 DEF Target, Operations, Approved, Rejected, Executed, Record, Overlap!Outcome
  <2>2. QED
    BY <2>1 DEF Updated, Column
<1>7. /\ row'[r] = Updated(h) /\ \A q \in Requests \ {r} : row'[q] = row[q]
      /\ issued' = issued /\ Exists(Updated(h)) /\ ~ Decidable(Updated(h))
  BY <1>1, CommitEffect DEF Commit, TypeOK
<1>8. CallerStatus' = [CallerStatus EXCEPT ![r] = Updated(h).status]
  <2>1. StatusOf(r)' = Updated(h).status
    BY <1>7 DEF StatusOf
  <2>2. ASSUME NEW q \in Requests \ {r} PROVE StatusOf(q)' = StatusOf(q)
    BY <1>7, SameStatus
  <2>3. QED
    BY <2>1, <2>2 DEF CallerStatus
<1>9. CallerClear' = CallerClear
  BY <1>6, <1>7 DEF CallerClear
<1>10. CallerCalls' = [CallerCalls EXCEPT ![h] = Overlap!NoCall]
  <2>1. CallerCalls' =
          [g \in Handlers |-> IF g \in {h} THEN Overlap!NoCall ELSE CallerCalls[g]]
    BY CallsEnd DEF Commit
  <2>2. QED
    BY <2>1 DEF CallerCalls
<1>11. audit' = [audit EXCEPT ![r] = Append(@, [action |-> op,
                   actor |-> IF op = "execute" THEN None ELSE h])]
  BY CommitEffect DEF Logged
<1>12. \E s \in {Overlap!Outcome[op], CallerStatus[r]} \ {"awaiting_approval"} :
         CallerStatus' = [CallerStatus EXCEPT ![r] = s]
  BY <1>4, <1>6, <1>7, <1>8 DEF Decidable
<1>13. UNCHANGED <<expired, docs>>
  BY DEF Commit
<1>14. QED
  BY <1>3, <1>4, <1>5, <1>9, <1>10, <1>11, <1>12, <1>13 DEF Overlap!Succeed

LEMMA ExpireSeen ==
  ASSUME Consistent, NEW r \in Requests, Expire(r)
  PROVE  Overlap!Expire(r)
<1>1. r \in issued /\ r \notin expired
  BY DEF Expire
<1>2. CallerStatus[r] # "absent"
  BY <1>1 DEF CallerStatus, StatusOf, Exists
<1>3. UNCHANGED <<CallerStatus, CallerClear, CallerCalls, audit, docs>>
  BY SameView, SameCalls DEF Expire, database
<1>4. QED
  BY <1>1, <1>2, <1>3 DEF Expire, Overlap!Expire

LEMMA PurgeSeen ==
  ASSUME Consistent, NEW w \in Workers, PurgeExpired, Boot(w)
  PROVE  Overlap!Forget(expired)
<1>1. /\ TypeOK /\ issued' = issued /\ expired \subseteq issued
      /\ row' = [r \in Requests |-> IF r \in expired THEN Absent ELSE row[r]]
      /\ audit' = [r \in Requests |-> IF r \in expired THEN <<>> ELSE audit[r]]
  BY DEF Consistent, TypeOK, Boot, PurgeExpired
<1>2. ASSUME NEW r \in Requests
      PROVE  /\ StatusOf(r)' = IF r \in expired THEN "gone" ELSE StatusOf(r)
             /\ row'[r].clear = (row[r].clear /\ r \notin expired)
  <2>1. CASE r \in expired
    BY <1>1, <2>1 DEF StatusOf, Exists, Absent
  <2>2. CASE r \notin expired
    <3>1. row'[r] = row[r] /\ row[r].clear \in BOOLEAN
      BY <1>1, <2>2 DEF TypeOK, Record
    <3>2. QED
      BY <1>1, <2>2, <3>1 DEF StatusOf
  <2>3. QED
    BY <2>1, <2>2
<1>3. CallerStatus' = [r \in Requests |-> IF r \in expired THEN "gone" ELSE CallerStatus[r]]
  BY <1>2 DEF CallerStatus
<1>4. CallerClear' = [r \in Requests |-> CallerClear[r] /\ r \notin expired]
  BY <1>2 DEF CallerClear
<1>5. UNCHANGED <<expired, docs, CallerCalls>>
  BY SameCalls DEF Boot
<1>6. QED
  BY <1>1, <1>3, <1>4, <1>5 DEF Overlap!Forget

(* Every step of the service is a step its callers were promised, or none   *)
(* that they see.                                                           *)
LEMMA StepSeen ==
  ASSUME Consistent, Consistent', Faithful, [Next]_vars
  PROVE  [Overlap!Next]_(Overlap!vars)
<1> DEFINE Unseen == UNCHANGED <<CallerStatus, CallerClear, expired, audit, docs, CallerCalls>>
           Goal == Overlap!Next \/ Unseen
<1>0. TypeOK
  BY DEF Consistent
<1>1. ASSUME NEW w \in Workers, NEW r \in Requests, NEW clear \in BOOLEAN,
             Submit(w, r, clear)
      PROVE  Goal
  BY <1>1, SubmitSeen DEF Overlap!Next
<1>2. ASSUME NEW h \in Handlers, NEW op \in Operations, NEW r \in Requests, NEW label,
             Begin(h, op, r, label),
             \/ label = "reselect" /\ op # "execute" /\ row[r].status = "awaiting_approval"
             \/ label = "dispatch" /\ op = "execute" /\ row[r].status = "approved"
      PROVE  Goal
  <2>1. op \in DOMAIN Overlap!Asked
    BY DEF Operations, Overlap!Asked
  <2>2. QED
    BY <1>2, <2>1, BeginSeen DEF Overlap!Next
<1>3. ASSUME NEW h \in Handlers, NEW d \in Docs, Dispatch(h, d)
      PROVE  Goal
  BY <1>3, DispatchSeen DEF Overlap!Next
<1>4. ASSUME NEW H \in SUBSET Handlers, Rollback(H), UNCHANGED <<issued, expired, docs>>
      PROVE  Goal
  BY <1>4, RollbackFails DEF Overlap!Next
<1>5. ASSUME NEW h \in Handlers, RefuseExpired(h) \/ Fail(h)
      PROVE  Goal
  BY <1>4, <1>5 DEF RefuseExpired, Fail
<1>6. ASSUME NEW h \in Handlers, MarkSelect(h) \/ Reselect(h) \/ Flush(h)
      PROVE  Goal
  <2>1. CASE Rollback({h})
    BY <1>4, <1>6, <2>1 DEF MarkSelect, Reselect, Flush
  <2>2. CASE ~ Rollback({h})
    <3>1. /\ UNCHANGED <<row, audit, issued, expired, docs, job, posted>>
          /\ pc[h] \notin {"idle", "dispatch"}
          /\ \E label \in {"reselect", "flush", "commit"} : Goto(h, label)
      BY <1>6, <2>2 DEF MarkSelect, Reselect, Flush, database
    <3>2. ASSUME NEW g \in Handlers PROVE CallOf(g)' = CallOf(g)
      BY <1>0, <3>1 DEF CallOf, Goto, TypeOK, Op, Req
    <3>3. CallerCalls' = CallerCalls
      BY <3>2 DEF CallerCalls
    <3>4. QED
      BY <3>1, <3>3, SameView
  <2>3. QED
    BY <2>1, <2>2
<1>7. ASSUME NEW h \in Handlers, Commit(h)
      PROVE  Goal
  BY <1>7, CommitSeen DEF Overlap!Next
<1>8. ASSUME NEW r \in Requests, Expire(r)
      PROVE  Goal
  BY <1>8, ExpireSeen DEF Overlap!Next
<1>9. ASSUME NEW w \in Workers, Crash(w)
      PROVE  Goal
  BY <1>4, <1>9 DEF Crash
<1>10. ASSUME NEW w \in Workers, Boot(w)
       PROVE  Goal
  <2>1. CASE PurgeExpired
    <3>1. expired \in SUBSET Requests
      BY <1>0 DEF TypeOK
    <3>2. QED
      BY <1>10, <2>1, <3>1, PurgeSeen DEF Overlap!Next
  <2>2. CASE UNCHANGED database
    BY <1>10, <2>2, SameView, SameCalls DEF Boot, database
  <2>3. QED
    BY <1>10, <2>1, <2>2 DEF Boot
<1>11. ASSUME UNCHANGED vars
       PROVE  Goal
  BY <1>11, SameView, SameCalls DEF vars
<1>12. Goal
  BY <1>1, <1>2, <1>3, <1>5, <1>6, <1>7, <1>8, <1>9, <1>10, <1>11
     DEF Next, Step, BeginDecision, BeginExecute, Operations, Decidable, MayPost, Executable
<1>13. QED
  BY <1>12 DEF Overlap!vars

(* The database service, under any number of overlapping calls, failures,   *)
(* crashes and purges, implements SharedLifecycle.                          *)
THEOREM OverlapRefinement == Spec => OverlapFollowed
<1>1. Init => Overlap!Init
  BY DEF Init, Overlap!Init, Overlap!NoCall, CallerStatus, StatusOf, CallerClear,
         CallerCalls, CallOf, Exists, Absent
<1>2. Consistent /\ Consistent' /\ Faithful /\ [Next]_vars => [Overlap!Next]_(Overlap!vars)
  BY StepSeen
<1>3. QED
  BY <1>1, <1>2, AlwaysFaithful, PTL DEF Spec, OverlapFollowed, Overlap!Spec
=============================================================================
