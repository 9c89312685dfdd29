--------------------------- MODULE ImpactSimulator --------------------------
(***************************************************************************)
(* services/impact_simulator.py: what an action would do, estimated from   *)
(* the document's data before anybody approves it.  An amount is the set   *)
(* holding it, empty for None; risk scores are in thousandths.  G/L        *)
(* accounts, cost centres, currencies, the number of documents and the     *)
(* wording of warnings and notes are left out.                             *)
(***************************************************************************)
EXTENDS ActionPlanner

RiskScore == [low |-> 150, medium |-> 400, high |-> 750]

NonReversibleTcodes == {"MR11", "MI07", "VF01", "MIRO"}
FinancialPostingTcodes == {"MR11", "MIGO", "MI07", "VF01", "VF02", "MIRO", "MR8M"}

(* x or y, where None and 0 are false. *)
OrIfZero(x, y) == IF x \in {{}, {0}} THEN y ELSE x

Amount(issue, tcode, raw) ==
  IF issue = "GRIR_MISMATCH" /\ tcode = "MR11" THEN Get(raw, "grir_diff")
  ELSE IF issue = "MISSING_GR" /\ tcode = "MIGO" THEN Get(raw, "invoice_amount")
  ELSE IF issue = "CREDIT_BLOCK" /\ tcode = "VKM1" THEN Get(raw, "total_value")
  ELSE IF issue \in {"PRICE_VARIANCE", "QUANTITY_VARIANCE"}
       THEN OrIfZero(Get(raw, "grir_diff"), Get(raw, "invoice_amount"))
  ELSE {}

(* How many sign-offs the workflow impact asks for. *)
ApprovalsRequired(risk) == [low |-> 0, medium |-> 1, high |-> 2][risk]

Capped(score) == IF score < 990 THEN score ELSE 990

CalculateRiskScore(risk, amount) ==
  LET base   == RiskScore[risk]
      scaled == IF \E a \in amount : a > 100000 THEN Capped(base + 150)
                ELSE IF \E a \in amount : a > 10000 THEN Capped(base + 70)
                ELSE base
  IN IF ApprovalsRequired(risk) >= 2 THEN Capped(scaled + 50) ELSE scaled

(* The warning that a posting is difficult to reverse is missing: its test *)
(* is the chained comparison "tcode not in S is False", which also asks    *)
(* whether the set S is False and so never holds.                          *)
Warnings(confidence, amount, raw) ==
  {w \in {"high_impact", "vendor_blocked", "low_confidence"} :
     \/ w = "high_impact" /\ \E a \in amount : a > 50000
     \/ w = "vendor_blocked" /\ "vendor_blocked" \in Get(raw, "block_reason")
     \/ w = "low_confidence" /\ confidence < 750}

(* Faulty variant: the fiscal year is only asked of a document that is     *)
(* there.                                                                  *)
BlockersOfKnownDocuments(tcode, hasYear, raw) ==
  {b \in {"no_fiscal_year", "no_purchase_order"} :
     \/ /\ b = "no_fiscal_year"
        /\ tcode \in FinancialPostingTcodes
        /\ DOMAIN raw # {}
        /\ ~ Given(raw, "fiscal_year")
        /\ ~ hasYear
     \/ /\ b = "no_purchase_order"
        /\ tcode = "MIGO"
        /\ "po_number" \notin DOMAIN raw}

(* The blockers; hasYear says whether the caller gave a fiscal year.  The  *)
(* fiscal year must not be empty; of the order only the key must be there. *)
CheckBlockers(tcode, hasYear, raw) ==
  {b \in {"no_fiscal_year", "no_purchase_order"} :
     \/ /\ b = "no_fiscal_year"
        /\ tcode \in FinancialPostingTcodes
        /\ ~ Given(raw, "fiscal_year")
        /\ ~ hasYear
     \/ /\ b = "no_purchase_order"
        /\ tcode = "MIGO"
        /\ "po_number" \notin DOMAIN raw}

Simulate(issue, confidence, action, hasYear, raw) ==
  LET amount == Amount(issue, action.tcode, raw)
  IN [risk       |-> CalculateRiskScore(action.risk, amount),
      posting    |-> action.tcode \in FinancialPostingTcodes /\ amount # {},
      warnings   |-> Warnings(confidence, amount, raw),
      blockers   |-> CheckBlockers(action.tcode, hasYear, raw),
      reversible |-> action.tcode \notin NonReversibleTcodes]

(* ExecutionService._pre_execution_checks, but for the expiry. *)
Clear(simulation) == simulation.blockers = {} /\ simulation.risk <= 850
=============================================================================
