-------------------------- MODULE SharedLifecycle --------------------------
(***************************************************************************)
(* What an approval service over a shared database promises its callers    *)
(* when their calls overlap.  Every call that succeeds takes effect at one *)
(* moment, whole and on the audit trail, but it may act on a request as it *)
(* was when the call came in: two calls may both decide, or both post, and *)
(* the status shown afterwards is that of either.  Sessions, row locks,    *)
(* columns and worker processes are no part of the promise.                *)
(***************************************************************************)
EXTENDS Sequences

CONSTANTS Requests, Callers, Docs, None

VARIABLES
  status,    \* status[r]: what a caller who asks is shown
  clear,     \* clear[r]: the stored simulation is without objections
  expired,   \* the requests past their deadline
  trail,     \* trail[r]: who did what, in order
  docs,      \* docs[r]: the SAP documents posted for r
  call       \* call[c]: the call of c that is under way

vars == <<status, clear, expired, trail, docs, call>>

NoCall == [op |-> "none", request |-> None, doc |-> None]

Init ==
  /\ status = [r \in Requests |-> "absent"]
  /\ clear = [r \in Requests |-> FALSE]
  /\ expired = {}
  /\ trail = [r \in Requests |-> <<>>]
  /\ docs = [r \in Requests |-> {}]
  /\ call = [c \in Callers |-> NoCall]

Known(r) == status[r] \notin {"absent", "gone"}
Done(r, action) == \E i \in DOMAIN trail[r] : trail[r][i].action = action

(* An id is used once: a request that is gone does not come back.           *)
Submit(r, isClear) ==
  /\ status[r] = "absent"
  /\ status' = [status EXCEPT ![r] = "awaiting_approval"]
  /\ clear' = [clear EXCEPT ![r] = isClear]
  /\ trail' = [trail EXCEPT ![r] = <<[action |-> "submit", actor |-> None]>>]
  /\ UNCHANGED <<expired, docs, call>>

(* Only who finds the request pending may decide, only who finds it         *)
(* approved may execute.                                                    *)
Asked == [approve |-> "awaiting_approval", reject |-> "awaiting_approval",
          execute |-> "approved"]

Call(c, op, r) ==
  /\ call[c] = NoCall
  /\ status[r] = Asked[op]
  /\ call' = [call EXCEPT ![c] = [op |-> op, request |-> r, doc |-> None]]
  /\ UNCHANGED <<status, clear, expired, trail, docs>>

(* An execution posts one document, before the deadline, and only for a     *)
(* request that is there, that somebody approved and that nothing objects   *)
(* to; not even another call can have made it undecided again.              *)
Post(c, d) ==
  LET r == call[c].request
  IN  /\ call[c].op = "execute" /\ call[c].doc = None
      /\ Known(r) /\ status[r] # "awaiting_approval"
      /\ Done(r, "approve") /\ clear[r] /\ r \notin expired
      /\ \A q \in Requests : d \notin docs[q]
      /\ docs' = [docs EXCEPT ![r] = @ \cup {d}]
      /\ call' = [call EXCEPT ![c] = [op |-> "execute", request |-> r, doc |-> d]]
      /\ UNCHANGED <<status, clear, expired, trail>>

Outcome == [approve |-> "approved", reject |-> "rejected", execute |-> "executed"]

(* A call succeeds.  Its entry is added to the trail; what it wrote to the  *)
(* status may have been overwritten, or may overwrite, but never leaves a   *)
(* decided request undecided.  An execution that succeeds has posted.       *)
Succeed(c) ==
  LET r == call[c].request
      op == call[c].op
  IN  /\ call[c] # NoCall
      /\ Known(r)
      /\ op = "execute" => Done(r, "approve") /\ call[c].doc \in docs[r]
      /\ \E s \in {Outcome[op], status[r]} \ {"awaiting_approval"} :
           status' = [status EXCEPT ![r] = s]
      /\ trail' = [trail EXCEPT ![r] =
           Append(@, [action |-> op, actor |-> IF op = "execute" THEN None ELSE c])]
      /\ call' = [call EXCEPT ![c] = NoCall]
      /\ UNCHANGED <<clear, expired, docs>>

(* Calls fail, several at once when their worker dies.  What they posted    *)
(* stays posted.                                                            *)
Fail(C) ==
  /\ call' = [c \in Callers |-> IF c \in C THEN NoCall ELSE call[c]]
  /\ UNCHANGED <<status, clear, expired, trail, docs>>

Expire(r) ==
  /\ status[r] # "absent" /\ r \notin expired
  /\ expired' = expired \cup {r}
  /\ UNCHANGED <<status, clear, trail, docs, call>>

(* A purge forgets requests with their trails, and only what is past its    *)
(* deadline, under whatever status.                                         *)
Forget(S) ==
  /\ S \subseteq expired
  /\ status' = [r \in Requests |-> IF r \in S THEN "gone" ELSE status[r]]
  /\ clear' = [r \in Requests |-> clear[r] /\ r \notin S]
  /\ trail' = [r \in Requests |-> IF r \in S THEN <<>> ELSE trail[r]]
  /\ UNCHANGED <<expired, docs, call>>

Next ==
  \/ \E r \in Requests : Expire(r) \/ \E isClear \in BOOLEAN : Submit(r, isClear)
  \/ \E c \in Callers :
       \/ \E op \in DOMAIN Asked, r \in Requests : Call(c, op, r)
       \/ \E d \in Docs : Post(c, d)
       \/ Succeed(c)
  \/ \E C \in SUBSET Callers : Fail(C)
  \/ \E S \in SUBSET Requests : Forget(S)

Spec == Init /\ [][Next]_vars
=============================================================================
