------------------------- MODULE ApprovalLifecycle -------------------------
(***************************************************************************)
(* What an approval service promises its callers, whichever backend it     *)
(* uses: a request is pending once submitted, is decided at most once, is  *)
(* executed only from "approved", and is never heard of again once its     *)
(* record has been dropped.                                                *)
(***************************************************************************)
CONSTANT Requests

VARIABLE status

States == {"absent", "awaiting_approval", "approved", "rejected", "executed", "gone"}

TypeOK == status \in [Requests -> States]

Init == status = [r \in Requests |-> "absent"]

Move(r, from, to) ==
  /\ status[r] = from
  /\ status' = [status EXCEPT ![r] = to]

Submit(r)  == Move(r, "absent", "awaiting_approval")
Approve(r) == Move(r, "awaiting_approval", "approved")
Reject(r)  == Move(r, "awaiting_approval", "rejected")
Execute(r) == Move(r, "approved", "executed")

(* A restart or a purge drops any number of records at once. *)
Forget(S) ==
  /\ \A r \in S : status[r] \notin {"absent", "gone"}
  /\ status' = [r \in Requests |-> IF r \in S THEN "gone" ELSE status[r]]

Next ==
  \/ \E r \in Requests : Submit(r) \/ Approve(r) \/ Reject(r) \/ Execute(r)
  \/ \E S \in SUBSET Requests : Forget(S)

Spec == Init /\ [][Next]_status
=============================================================================
