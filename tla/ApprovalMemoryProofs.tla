------------------------ MODULE ApprovalMemoryProofs -----------------------
(***************************************************************************)
(* ApprovalMemory for any number of requests and workers: a request is     *)
(* posted at most once, the journal matches the store, and the service     *)
(* implements ApprovalLifecycle.                                           *)
(***************************************************************************)
EXTENDS ApprovalMemory, TLAPS

LEMMA DecisionTypes ==
  ASSUME NEW rec \in Record, NEW u \in People
  PROVE  Approved(rec, u) \in Record /\ Rejected(rec, u) \in Record
  BY DEF Record, Status, Approved, Rejected

LEMMA ExecutedType ==
  ASSUME NEW rec \in Record, NEW d \in Docs
  PROVE  Executed(rec, d) \in Record
  BY DEF Record, Status, Executed

LEMMA AbsentType == Absent \in Record /\ \A c \in BOOLEAN : Submitted(c) \in Record
  BY DEF Record, Status, Absent, Submitted

(* The fields a transition writes.                                          *)
LEMMA DecisionStatus ==
  ASSUME NEW rec \in Record, NEW u
  PROVE  Approved(rec, u).status = "approved" /\ Rejected(rec, u).status = "rejected"
  BY DEF Record, Approved, Rejected

LEMMA ExecutedFields ==
  ASSUME NEW rec \in Record, NEW d
  PROVE  /\ Executed(rec, d).status = "executed" /\ Executed(rec, d).result = d
         /\ Executed(rec, d).approver = rec.approver
  BY DEF Record, Executed

LEMMA WriteEffect ==
  ASSUME TypeOK, NEW w \in Workers, NEW r \in Requests, NEW rec \in Record, Write(w, r, rec)
  PROVE  /\ store' \in [Workers -> [Requests -> Record]]
         /\ store'[w][r] = rec
         /\ \A v \in Workers, q \in Requests :
              (v # w \/ q # r) => store'[v][q] = store[v][q]
  BY DEF TypeOK, Write

(* What every step does, in terms of one request.                           *)
SubmitOf(w, r) ==
  /\ r \notin issued /\ issued' = issued \cup {r}
  /\ \E clear \in BOOLEAN : Write(w, r, Submitted(clear))
  /\ UNCHANGED <<docs, journal>>

DecideOf(w, r) ==
  /\ Decidable(store[w][r])
  /\ \E rec \in Record : /\ Write(w, r, rec)
                         /\ rec.status \in {"approved", "rejected"}
  /\ UNCHANGED <<issued, docs, journal>>

LEMMA InitConsistent == Init => Consistent
  BY AbsentType DEF Init, Consistent, TypeOK, Exists, Absent, AtMostOneExecution,
     JournalMatchesStore

LEMMA StepKinds ==
  ASSUME TypeOK, [Next]_vars
  PROVE  \/ \E w \in Workers, r \in Requests : SubmitOf(w, r) /\ expired' = expired
         \/ \E w \in Workers, r \in Requests : DecideOf(w, r) /\ expired' = expired
         \/ \E w \in Workers, r \in Requests, d \in Docs : Execute(w, r, d)
         \/ \E w \in Workers : Restart(w)
         \/ /\ UNCHANGED <<store, issued, docs, journal>>
            /\ expired \subseteq expired' /\ expired' \subseteq issued
<1>1. ASSUME NEW w \in Workers, NEW r \in Requests, NEW clear \in BOOLEAN, Submit(w, r, clear)
      PROVE  SubmitOf(w, r) /\ expired' = expired
  BY <1>1 DEF Submit, SubmitOf
<1>2. ASSUME NEW w \in Workers, NEW r \in Requests, NEW u \in People,
             Approve(w, r, u) \/ Reject(w, r, u)
      PROVE  DecideOf(w, r) /\ expired' = expired
  <2>1. store[w][r] \in Record
    BY DEF TypeOK
  <2>2. /\ Approved(store[w][r], u) \in Record /\ Rejected(store[w][r], u) \in Record
        /\ Approved(store[w][r], u).status = "approved"
        /\ Rejected(store[w][r], u).status = "rejected"
    BY <2>1, DecisionTypes, DecisionStatus
  <2>3. QED
    BY <1>2, <2>2 DEF Approve, Reject, Decide, DecideOf
<1>3. ASSUME NEW r \in Requests, Expire(r)
      PROVE  /\ UNCHANGED <<store, issued, docs, journal>>
             /\ expired \subseteq expired' /\ expired' \subseteq issued
  BY <1>3 DEF Expire, TypeOK
<1>4. CASE UNCHANGED vars
  BY <1>4 DEF vars, TypeOK
<1>5. QED
  BY <1>1, <1>2, <1>3, <1>4 DEF Next

LEMMA ExecuteEffect ==
  ASSUME TypeOK, NEW w \in Workers, NEW r \in Requests, NEW d \in Docs, Execute(w, r, d)
  PROVE  LET rec == Executed(store[w][r], d)
         IN  /\ store[w][r].status = "approved"
             /\ rec \in Record /\ Write(w, r, rec)
             /\ rec.status = "executed" /\ rec.result = d
             /\ rec.approver = store[w][r].approver
             /\ docs' = [docs EXCEPT ![r] = @ \cup {d}]
             /\ Log(w, r, d)
             /\ UNCHANGED <<issued, expired>>
<1>1. store[w][r] \in Record
  BY DEF TypeOK
<1>2. QED
  BY <1>1, ExecutedType, ExecutedFields DEF Execute, MayExecute, Executable

-----------------------------------------------------------------------------
(* What the journal holds for one request, as JournalMatchesStore has it.   *)
EntriesFor(w, r) == {e \in journal[w] : e.request = r}

Expected(rec, r) ==
  IF rec.status = "executed"
  THEN {[request |-> r, doc |-> rec.result, approver |-> rec.approver]}
  ELSE {}

StoreInv ==
  /\ \A w, v \in Workers, r \in Requests :
       Exists(store[w][r]) /\ Exists(store[v][r]) => w = v
  /\ \A w \in Workers, r \in Requests :
       Exists(store[w][r]) =>
         /\ r \in issued
         /\ docs[r] = IF store[w][r].status = "executed"
                      THEN {store[w][r].result} ELSE {}
  /\ \A r \in Requests : r \notin issued => docs[r] = {}
  /\ AtMostOneExecution

LEMMA Parts ==
  Consistent <=> /\ TypeOK
                 /\ StoreInv
                 /\ \A w \in Workers, r \in Requests :
                      EntriesFor(w, r) = Expected(store[w][r], r)
  BY DEF Consistent, StoreInv, EntriesFor, Expected, JournalMatchesStore

LEMMA TypeStep ==
  ASSUME Consistent, [Next]_vars
  PROVE  TypeOK'
<1>0. TypeOK
  BY DEF Consistent
<1>1. ASSUME NEW w \in Workers, NEW r \in Requests, SubmitOf(w, r), expired' = expired
      PROVE  TypeOK'
  BY <1>0, <1>1, AbsentType, WriteEffect DEF SubmitOf, TypeOK
<1>2. ASSUME NEW w \in Workers, NEW r \in Requests, DecideOf(w, r), expired' = expired
      PROVE  TypeOK'
  BY <1>0, <1>2, WriteEffect DEF DecideOf, TypeOK
<1>3. ASSUME NEW w \in Workers, NEW r \in Requests, NEW d \in Docs, Execute(w, r, d)
      PROVE  TypeOK'
  <2>1. store' \in [Workers -> [Requests -> Record]]
    BY <1>0, <1>3, ExecuteEffect, WriteEffect
  <2>2. docs' \in [Requests -> SUBSET Docs]
    BY <1>0, <1>3, ExecuteEffect DEF TypeOK
  <2>3. [request |-> r, doc |-> d, approver |-> store[w][r].approver] \in Entry
    BY <1>0 DEF TypeOK, Entry, Record
  <2>4. journal' \in [Workers -> SUBSET Entry]
    BY <1>0, <1>3, <2>3, ExecuteEffect DEF TypeOK, Log
  <2>5. QED
    BY <1>0, <1>3, <2>1, <2>2, <2>4, ExecuteEffect DEF TypeOK
<1>4. ASSUME NEW w \in Workers, Restart(w)
      PROVE  TypeOK'
  BY <1>0, <1>4, AbsentType DEF Restart, TypeOK
<1>5. CASE /\ UNCHANGED <<store, issued, docs, journal>>
           /\ expired \subseteq expired' /\ expired' \subseteq issued
  BY <1>0, <1>5 DEF TypeOK
<1>6. QED
  BY <1>0, <1>1, <1>2, <1>3, <1>4, <1>5, StepKinds

(* Writing one record of a request no other worker knows.                   *)
LEMMA OneWrite ==
  ASSUME TypeOK, StoreInv, NEW w \in Workers, NEW r \in Requests, NEW rec \in Record,
         Write(w, r, rec), Exists(rec),
         \A v \in Workers : Exists(store[v][r]) => v = w,
         issued' = issued \cup {r},
         docs'[r] = IF rec.status = "executed" THEN {rec.result} ELSE {},
         \A q \in Requests \ {r} : docs'[q] = docs[q]
  PROVE  StoreInv'
<1>1. /\ store'[w][r] = rec
      /\ \A v \in Workers, q \in Requests :
           (v # w \/ q # r) => store'[v][q] = store[v][q]
  BY WriteEffect
<1>2. ASSUME NEW v \in Workers, NEW x \in Workers, NEW q \in Requests,
             Exists(store'[v][q]), Exists(store'[x][q])
      PROVE  v = x
  <2>1. CASE q = r
    BY <1>1, <1>2, <2>1
  <2>2. CASE q # r
    BY <1>1, <1>2, <2>2 DEF StoreInv
  <2>3. QED
    BY <2>1, <2>2
<1>3. ASSUME NEW v \in Workers, NEW q \in Requests, Exists(store'[v][q])
      PROVE  /\ q \in issued'
             /\ docs'[q] = IF store'[v][q].status = "executed"
                          THEN {store'[v][q].result} ELSE {}
  <2>1. CASE q = r
    <3>1. v = w
      BY <1>1, <1>3, <2>1
    <3>2. QED
      BY <1>1, <2>1, <3>1
  <2>2. CASE q # r
    BY <1>1, <1>3, <2>2 DEF StoreInv
  <2>3. QED
    BY <2>1, <2>2
<1>4. ASSUME NEW q \in Requests, q \notin issued' PROVE docs'[q] = {}
  BY <1>4 DEF StoreInv
<1>5. ASSUME NEW q \in Requests, NEW d \in docs'[q], NEW e \in docs'[q] PROVE d = e
  <2>1. CASE q = r
    BY <1>5, <2>1
  <2>2. CASE q # r
    BY <1>5, <2>2 DEF StoreInv, AtMostOneExecution
  <2>3. QED
    BY <2>1, <2>2
<1>6. QED
  BY <1>2, <1>3, <1>4, <1>5 DEF StoreInv, AtMostOneExecution

LEMMA StoreStep ==
  ASSUME Consistent, [Next]_vars
  PROVE  StoreInv'
<1>0. TypeOK /\ StoreInv
  BY Parts
<1>1. ASSUME NEW w \in Workers, NEW r \in Requests, SubmitOf(w, r)
      PROVE  StoreInv'
  <2>1. PICK clear \in BOOLEAN : Write(w, r, Submitted(clear))
    BY <1>1 DEF SubmitOf
  <2>2. /\ docs[r] = {} /\ issued' = issued \cup {r} /\ docs' = docs
        /\ \A v \in Workers : ~ Exists(store[v][r])
    BY <1>0, <1>1 DEF SubmitOf, StoreInv
  <2>3. Exists(Submitted(clear)) /\ Submitted(clear).status # "executed"
    BY DEF Submitted, Exists
  <2>4. Submitted(clear) \in Record
    BY AbsentType
  <2>5. QED
    BY <1>0, <2>1, <2>2, <2>3, <2>4, OneWrite
<1>2. ASSUME NEW w \in Workers, NEW r \in Requests, DecideOf(w, r)
      PROVE  StoreInv'
  <2>1. PICK rec \in Record : Write(w, r, rec) /\ rec.status \in {"approved", "rejected"}
    BY <1>2 DEF DecideOf
  <2>2. Exists(rec) /\ rec.status # "executed" /\ Exists(store[w][r])
    BY <1>2, <2>1 DEF Exists, DecideOf, Decidable
  <2>3. /\ docs[r] = {} /\ docs' = docs /\ issued' = issued \cup {r}
        /\ \A v \in Workers : Exists(store[v][r]) => v = w
    BY <1>0, <1>2, <2>2 DEF DecideOf, StoreInv, Decidable
  <2>4. QED
    BY <1>0, <2>1, <2>2, <2>3, OneWrite
<1>3. ASSUME NEW w \in Workers, NEW r \in Requests, NEW d \in Docs, Execute(w, r, d)
      PROVE  StoreInv'
  <2> DEFINE rec == Executed(store[w][r], d)
  <2>1. /\ store[w][r].status = "approved" /\ rec \in Record /\ Write(w, r, rec)
        /\ rec.status = "executed" /\ rec.result = d
        /\ docs' = [docs EXCEPT ![r] = @ \cup {d}] /\ issued' = issued
    BY <1>0, <1>3, ExecuteEffect
  <2>2. Exists(store[w][r]) /\ Exists(rec)
    BY <2>1 DEF Exists
  <2>3. /\ docs[r] = {} /\ issued' = issued \cup {r}
        /\ \A v \in Workers : Exists(store[v][r]) => v = w
    BY <1>0, <2>1, <2>2 DEF StoreInv
  <2>4. docs'[r] = {d} /\ \A q \in Requests \ {r} : docs'[q] = docs[q]
    BY <1>0, <2>1, <2>3 DEF TypeOK
  <2>5. QED
    BY <1>0, <2>1, <2>2, <2>3, <2>4, OneWrite
<1>4. ASSUME NEW w \in Workers, Restart(w)
      PROVE  StoreInv'
  <2>1. /\ \A q \in Requests : ~ Exists(store'[w][q])
        /\ \A v \in Workers : v # w => store'[v] = store[v]
        /\ UNCHANGED <<issued, docs>>
    BY <1>0, <1>4 DEF Restart, TypeOK, Exists, Absent
  <2>2. QED
    BY <1>0, <2>1 DEF StoreInv, AtMostOneExecution
<1>5. CASE UNCHANGED <<store, issued, docs, journal>>
  BY <1>0, <1>5 DEF StoreInv, AtMostOneExecution
<1>6. QED
  BY <1>0, <1>1, <1>2, <1>3, <1>4, <1>5, StepKinds

-----------------------------------------------------------------------------
(* The journal follows the store.                                           *)

LEMMA JournalStep ==
  ASSUME Consistent, [Next]_vars, NEW v \in Workers, NEW q \in Requests
  PROVE  EntriesFor(v, q)' = Expected(store'[v][q], q)
<1>0. /\ TypeOK /\ StoreInv
      /\ EntriesFor(v, q) = Expected(store[v][q], q)
  BY Parts
<1>1. ASSUME NEW w \in Workers, NEW r \in Requests, SubmitOf(w, r)
      PROVE  EntriesFor(v, q)' = Expected(store'[v][q], q)
  <2>1. PICK clear \in BOOLEAN : Write(w, r, Submitted(clear))
    BY <1>1 DEF SubmitOf
  <2>2. /\ store'[w][r] = Submitted(clear)
        /\ (v # w \/ q # r) => store'[v][q] = store[v][q]
    BY <1>0, <2>1, AbsentType, WriteEffect
  <2>3. ~ Exists(store[w][r]) /\ journal' = journal
    BY <1>0, <1>1 DEF SubmitOf, StoreInv
  <2>4. QED
    BY <1>0, <2>2, <2>3 DEF EntriesFor, Expected, Submitted, Exists
<1>2. ASSUME NEW w \in Workers, NEW r \in Requests, DecideOf(w, r)
      PROVE  EntriesFor(v, q)' = Expected(store'[v][q], q)
  <2>1. PICK rec \in Record : Write(w, r, rec) /\ rec.status \in {"approved", "rejected"}
    BY <1>2 DEF DecideOf
  <2>2. /\ store'[w][r] = rec
        /\ (v # w \/ q # r) => store'[v][q] = store[v][q]
    BY <1>0, <2>1, WriteEffect
  <2>3. QED
    BY <1>0, <1>2, <2>1, <2>2 DEF DecideOf, EntriesFor, Expected, Decidable
<1>3. ASSUME NEW w \in Workers, NEW r \in Requests, NEW d \in Docs, Execute(w, r, d)
      PROVE  EntriesFor(v, q)' = Expected(store'[v][q], q)
  <2> DEFINE rec == Executed(store[w][r], d)
             new == [request |-> r, doc |-> d, approver |-> store[w][r].approver]
  <2>1. /\ store[w][r].status = "approved" /\ rec \in Record /\ Write(w, r, rec)
        /\ rec.status = "executed" /\ rec.result = d
        /\ rec.approver = store[w][r].approver
        /\ Log(w, r, d)
    BY <1>0, <1>3, ExecuteEffect
  <2>2. /\ store'[w][r] = rec
        /\ (v # w \/ q # r) => store'[v][q] = store[v][q]
    BY <1>0, <2>1, WriteEffect
  <2>3. /\ v # w => journal'[v] = journal[v]
        /\ journal'[w] = journal[w] \cup {new}
    BY <1>0, <2>1 DEF Log, TypeOK
  <2>4. CASE v = w /\ q = r
    BY <1>0, <2>1, <2>2, <2>3, <2>4 DEF EntriesFor, Expected
  <2>5. CASE v # w \/ q # r
    BY <1>0, <2>2, <2>3, <2>5 DEF EntriesFor
  <2>6. QED
    BY <2>4, <2>5
<1>4. ASSUME NEW w \in Workers, Restart(w)
      PROVE  EntriesFor(v, q)' = Expected(store'[v][q], q)
  <2>1. /\ v = w => store'[v][q] = Absent /\ journal'[v] = {}
        /\ v # w => store'[v] = store[v] /\ journal'[v] = journal[v]
    BY <1>0, <1>4 DEF Restart, TypeOK
  <2>2. QED
    BY <1>0, <2>1 DEF EntriesFor, Expected, Absent
<1>5. CASE UNCHANGED <<store, issued, docs, journal>>
  BY <1>0, <1>5 DEF EntriesFor
<1>6. QED
  BY <1>0, <1>1, <1>2, <1>3, <1>4, <1>5, StepKinds

(* Every reachable state is consistent: the strengthening the theorems      *)
(* below rest on.                                                           *)
THEOREM AlwaysConsistent == Spec => []Consistent
<1>1. Consistent /\ [Next]_vars => Consistent'
  <2> SUFFICES ASSUME Consistent, [Next]_vars PROVE Consistent'
    OBVIOUS
  <2>1. \A w \in Workers, r \in Requests :
          EntriesFor(w, r)' = Expected(store'[w][r], r)
    BY JournalStep
  <2>2. JournalMatchesStore'
    BY <2>1 DEF JournalMatchesStore, EntriesFor, Expected
  <2>3. QED
    BY <2>2, TypeStep, StoreStep DEF Consistent, StoreInv
<1>2. QED
  BY <1>1, InitConsistent, PTL DEF Spec

(* No request is ever posted to SAP twice.                                  *)
THEOREM NeverPostedTwice == Spec => []AtMostOneExecution
<1>1. Consistent => AtMostOneExecution
  BY DEF Consistent
<1>2. QED
  BY <1>1, AlwaysConsistent, PTL

(* Journal and store agree in every worker.                                 *)
THEOREM JournalAgrees == Spec => []JournalMatchesStore
<1>1. Consistent => JournalMatchesStore
  BY DEF Consistent
<1>2. QED
  BY <1>1, AlwaysConsistent, PTL

(* What is posted for a request stays as it was once its deadline passed:   *)
(* of all steps only the execution posts, for a request that is not expired.*)
THEOREM NothingPostedLate == Spec => ExpiredNeverPosted
<1>1. ASSUME Consistent, [Next]_vars, NEW r \in expired
      PROVE  docs'[r] = docs[r]
  <2>0. TypeOK /\ r \in Requests
    BY <1>1 DEF Consistent, TypeOK
  <2>1. ASSUME NEW w \in Workers, NEW q \in Requests, NEW d \in Docs, Execute(w, q, d)
        PROVE  docs'[r] = docs[r]
    <3>1. q # r
      BY <1>1, <2>1 DEF Execute, MayExecute, Executable
    <3>2. docs' = [docs EXCEPT ![q] = @ \cup {d}]
      BY <2>1 DEF Execute
    <3>3. QED
      BY <2>0, <3>1, <3>2 DEF TypeOK
  <2>2. \/ \E w \in Workers, q \in Requests, d \in Docs : Execute(w, q, d)
        \/ docs' = docs
    BY <1>1, <2>0, StepKinds DEF SubmitOf, DecideOf, Restart
  <2>3. QED
    BY <2>1, <2>2
<1>2. Consistent /\ [Next]_vars => [\A r \in expired : docs'[r] = docs[r]]_vars
  BY <1>1
<1>3. QED
  BY <1>2, AlwaysConsistent, PTL DEF Spec, ExpiredNeverPosted

-----------------------------------------------------------------------------
(* Refinement.                                                              *)

LEMMA StatusOfStored ==
  ASSUME StoreInv, NEW w \in Workers, NEW r \in Requests, Exists(store[w][r])
  PROVE  StatusOf(r) = store[w][r].status
  BY DEF StoreInv, StatusOf

LEMMA StatusOfLost ==
  ASSUME NEW r \in Requests, \A w \in Workers : ~ Exists(store[w][r])
  PROVE  StatusOf(r) = IF r \in issued THEN "gone" ELSE "absent"
  BY DEF StatusOf

(* The status of a request no step writes stays.                            *)
LEMMA StatusKept ==
  ASSUME StoreInv, StoreInv', NEW r \in Requests,
         \A w \in Workers : store'[w][r] = store[w][r],
         r \in issued' <=> r \in issued
  PROVE  StatusOf(r)' = StatusOf(r)
<1>1. CASE \E w \in Workers : Exists(store[w][r])
  <2>1. PICK w \in Workers : Exists(store[w][r])
    BY <1>1
  <2>2. StatusOf(r) = store[w][r].status
    BY <2>1, StatusOfStored
  <2>3. StatusOf(r)' = store'[w][r].status
    BY <2>1 DEF StoreInv, StatusOf
  <2>4. QED
    BY <2>2, <2>3
<1>2. CASE \A w \in Workers : ~ Exists(store[w][r])
  BY <1>2 DEF StatusOf
<1>3. QED
  BY <1>1, <1>2

(* Writing one record moves the status of that request only.                *)
LEMMA WriteMoves ==
  ASSUME Consistent, Consistent', NEW w \in Workers, NEW r \in Requests,
         NEW rec \in Record, Write(w, r, rec), Exists(rec), issued' = issued \cup {r}
  PROVE  CallerStatus' = [CallerStatus EXCEPT ![r] = rec.status]
<1>1. StoreInv /\ StoreInv' /\ TypeOK
  BY Parts DEF Consistent, StoreInv
<1>2. /\ store'[w][r] = rec
      /\ \A v \in Workers, q \in Requests :
           (v # w \/ q # r) => store'[v][q] = store[v][q]
  BY <1>1, WriteEffect
<1>3. StatusOf(r)' = rec.status
  BY <1>1, <1>2 DEF StoreInv, StatusOf
<1>4. \A q \in Requests \ {r} : StatusOf(q)' = StatusOf(q)
  BY <1>1, <1>2, StatusKept
<1>5. QED
  BY <1>3, <1>4 DEF CallerStatus

(* The in-memory service implements the approval lifecycle.                 *)
THEOREM Refinement == Spec => LifecycleFollowed
<1>1. Init => Promise!Init
  BY DEF Init, Promise!Init, CallerStatus, StatusOf, Exists, Absent
<1>2. ASSUME Consistent, Consistent', [Next]_vars
      PROVE  [Promise!Next]_CallerStatus
  <2>0. TypeOK /\ StoreInv /\ StoreInv'
    BY <1>2, Parts DEF Consistent, StoreInv
  <2>1. ASSUME NEW w \in Workers, NEW r \in Requests, SubmitOf(w, r)
        PROVE  Promise!Submit(r)
    <3>1. PICK clear \in BOOLEAN : Write(w, r, Submitted(clear))
      BY <2>1 DEF SubmitOf
    <3>2. /\ Submitted(clear) \in Record /\ Exists(Submitted(clear))
          /\ Submitted(clear).status = "awaiting_approval"
      BY AbsentType DEF Submitted, Exists
    <3>3. StatusOf(r) = "absent"
      BY <2>0, <2>1 DEF SubmitOf, StoreInv, StatusOf
    <3>4. CallerStatus' = [CallerStatus EXCEPT ![r] = "awaiting_approval"]
      BY <1>2, <2>1, <3>1, <3>2, WriteMoves DEF SubmitOf
    <3>5. QED
      BY <3>3, <3>4 DEF Promise!Submit, Promise!Move, CallerStatus
  <2>2. ASSUME NEW w \in Workers, NEW r \in Requests, DecideOf(w, r)
        PROVE  Promise!Approve(r) \/ Promise!Reject(r)
    <3>1. PICK rec \in Record : Write(w, r, rec) /\ rec.status \in {"approved", "rejected"}
      BY <2>2 DEF DecideOf
    <3>2. Exists(rec) /\ Exists(store[w][r]) /\ store[w][r].status = "awaiting_approval"
      BY <2>2, <3>1 DEF DecideOf, Decidable, Exists
    <3>3. StatusOf(r) = "awaiting_approval" /\ issued' = issued \cup {r}
      BY <2>0, <2>2, <3>2, StatusOfStored DEF DecideOf, StoreInv
    <3>4. CallerStatus' = [CallerStatus EXCEPT ![r] = rec.status]
      BY <1>2, <3>1, <3>2, <3>3, WriteMoves
    <3>5. QED
      BY <3>1, <3>3, <3>4 DEF Promise!Approve, Promise!Reject, Promise!Move, CallerStatus
  <2>3. ASSUME NEW w \in Workers, NEW r \in Requests, NEW d \in Docs, Execute(w, r, d)
        PROVE  Promise!Execute(r)
    <3> DEFINE rec == Executed(store[w][r], d)
    <3>1. /\ store[w][r].status = "approved" /\ rec \in Record /\ Write(w, r, rec)
          /\ rec.status = "executed" /\ issued' = issued
      BY <2>0, <2>3, ExecuteEffect
    <3>2. Exists(store[w][r]) /\ Exists(rec)
      BY <3>1 DEF Exists
    <3>3. StatusOf(r) = "approved" /\ issued' = issued \cup {r}
      BY <2>0, <3>1, <3>2, StatusOfStored DEF StoreInv
    <3>4. CallerStatus' = [CallerStatus EXCEPT ![r] = "executed"]
      BY <1>2, <3>1, <3>2, <3>3, WriteMoves
    <3>5. QED
      BY <3>3, <3>4 DEF Promise!Execute, Promise!Move, CallerStatus
  <2>4. ASSUME NEW w \in Workers, Restart(w)
        PROVE  \E S \in SUBSET Requests : Promise!Forget(S)
    <3> DEFINE S == {r \in Requests : Exists(store[w][r])}
    <3>1. /\ \A r \in Requests : ~ Exists(store'[w][r])
          /\ \A v \in Workers : v # w => store'[v] = store[v]
          /\ issued' = issued
      BY <2>0, <2>4 DEF Restart, TypeOK, Exists, Absent
    <3>2. ASSUME NEW r \in S
          PROVE  StatusOf(r) \notin {"absent", "gone"} /\ StatusOf(r)' = "gone"
      <4>1. StatusOf(r) = store[w][r].status /\ r \in issued
        BY <2>0, StatusOfStored DEF StoreInv
      <4>2. store[w][r].status \in Status \ {"absent"}
        BY <2>0 DEF TypeOK, Record, Exists
      <4>3. \A v \in Workers : ~ Exists(store'[v][r])
        BY <2>0, <3>1 DEF StoreInv
      <4>4. StatusOf(r)' = "gone"
        BY <3>1, <4>1, <4>3 DEF StatusOf
      <4>5. QED
        BY <4>1, <4>2, <4>4 DEF Status
    <3>3. ASSUME NEW r \in Requests \ S PROVE StatusOf(r)' = StatusOf(r)
      <4>1. ASSUME NEW v \in Workers PROVE Exists(store'[v][r]) <=> Exists(store[v][r])
        BY <3>1
      <4>2. CASE \E v \in Workers : Exists(store[v][r])
        <5>1. PICK v \in Workers : Exists(store[v][r])
          BY <4>2
        <5>2. v # w /\ store'[v] = store[v]
          BY <3>1, <5>1
        <5>3. StatusOf(r) = store[v][r].status
          BY <2>0, <5>1, StatusOfStored
        <5>4. StatusOf(r)' = store'[v][r].status
          BY <2>0, <5>1, <5>2 DEF StoreInv, StatusOf
        <5>5. QED
          BY <5>2, <5>3, <5>4
      <4>3. CASE \A v \in Workers : ~ Exists(store[v][r])
        BY <3>1, <4>1, <4>3 DEF StatusOf
      <4>4. QED
        BY <4>2, <4>3
    <3>4. CallerStatus' =
            [r \in Requests |-> IF r \in S THEN "gone" ELSE CallerStatus[r]]
      BY <3>2, <3>3 DEF CallerStatus
    <3>5. Promise!Forget(S)
      BY <3>2, <3>4 DEF Promise!Forget, CallerStatus
    <3>6. QED
      BY <3>5
  <2>5. CASE UNCHANGED <<store, issued, docs, journal>>
    <3>1. \A r \in Requests : StatusOf(r)' = StatusOf(r)
      BY <2>5 DEF StatusOf
    <3>2. QED
      BY <3>1 DEF CallerStatus
  <2>6. QED
    BY <1>2, <2>0, <2>1, <2>2, <2>3, <2>4, <2>5, StepKinds DEF Promise!Next
<1>3. QED
  BY <1>1, <1>2, AlwaysConsistent, PTL DEF Spec, LifecycleFollowed, Promise!Spec
=============================================================================
