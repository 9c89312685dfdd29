-------------------------- MODULE ApprovalRecords --------------------------
(***************************************************************************)
(* Approval requests as both approval services hold them: the Pydantic     *)
(* model ApprovalRequest, which mirrors one row of approval_requests.      *)
(* Data no property distinguishes (context, diagnosis, the wording of a    *)
(* reason, timestamps) is left out.  The simulation is kept as one bit:    *)
(* whether the pre-execution checks find neither a blocker nor a risk      *)
(* score above 0.85.  The expiry date is kept by the modules that have a   *)
(* clock.                                                                  *)
(***************************************************************************)
CONSTANTS People, Docs, None

ASSUME NoneAssumption == None \notin People /\ None \notin Docs

Status == {"absent", "awaiting_approval", "approved", "rejected", "executed"}

Record == [status   : Status,
           approver : People \cup {None},
           reason   : BOOLEAN,
           result   : Docs \cup {None},
           clear    : BOOLEAN]

(* No dictionary entry, no row. *)
Absent == [status |-> "absent", approver |-> None, reason |-> FALSE,
           result |-> None, clear |-> FALSE]

Exists(rec) == rec.status # "absent"

Submitted(clear) ==
  [status |-> "awaiting_approval", approver |-> None, reason |-> FALSE,
   result |-> None, clear |-> clear]

(* Faulty variant: a rejected request may be decided once more. *)
Reopenable(rec) == rec.status \in {"awaiting_approval", "rejected"}

(* The states approve and reject accept.  "proposed" is accepted too, but   *)
(* no service ever stores it: submit moves past it before the first write.  *)
Decidable(rec) == rec.status = "awaiting_approval"

Approved(rec, u) == [rec EXCEPT !.status = "approved", !.approver = u]

Rejected(rec, u) ==
  [rec EXCEPT !.status = "rejected", !.approver = u, !.reason = TRUE]

(* Faulty variant: a status the enumeration does not have. *)
Completed(rec, d) == [rec EXCEPT !.status = "completed", !.result = d]

Executed(rec, d) == [rec EXCEPT !.status = "executed", !.result = d]

(* What ExecutionService.execute asks of a record before it writes to SAP.  *)
Executable(rec, enabled, isExpired) ==
  /\ enabled
  /\ rec.status = "approved"
  /\ rec.clear
  /\ ~ isExpired
=============================================================================
