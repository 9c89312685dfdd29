---------------------------- MODULE ActionPlanner ---------------------------
(***************************************************************************)
(* services/action_planner.py: the actions proposed for a diagnosed issue, *)
(* the most confident first, with the SAP parameters filled in from the    *)
(* document.  Descriptions, prerequisites, rollback texts, durations and   *)
(* authorisations are left out; confidences are in thousandths.            *)
(***************************************************************************)
EXTENDS SAPKnowledge

Risks == {"low", "medium", "high"}

Template(tcode, risk) == [tcode |-> tcode, risk |-> risk]

MMActions ==
  [GRIR_MISMATCH       |-> <<Template("MR11", "medium")>>,
   MISSING_GR          |-> <<Template("MIGO", "medium")>>,
   PRICE_VARIANCE      |-> <<Template("MRBR", "medium"), Template("ME22N", "high")>>,
   QUANTITY_VARIANCE   |-> <<Template("MRBR", "medium")>>,
   INVOICE_BLOCKED     |-> <<Template("MRBR", "medium")>>,
   PO_NOT_RELEASED     |-> <<Template("ME28", "low")>>,
   STOCK_INCONSISTENCY |-> <<Template("MI07", "high")>>,
   VENDOR_BLOCKED      |-> <<Template("XK05", "medium")>>,
   TOLERANCE_EXCEEDED  |-> <<Template("MRBR", "high")>>]

SDActions ==
  [CREDIT_BLOCK           |-> <<Template("VKM1", "medium"), Template("FD32", "high")>>,
   PRICING_ERROR          |-> <<Template("VA02", "medium"), Template("VK12", "high")>>,
   DELIVERY_BLOCK         |-> <<Template("VL02N", "medium")>>,
   BILLING_BLOCK          |-> <<Template("VF02", "medium")>>,
   MATERIAL_NOT_AVAILABLE |-> <<Template("MD04", "low")>>,
   INCOMPLETION_LOG       |-> <<Template("VA02", "low")>>,
   PARTNER_MISSING        |-> <<Template("VA02", "low")>>,
   OUTPUT_MISSING         |-> <<Template("VA02", "low")>>]

(* _ISSUE_ACTIONS.get(issue, []): UNKNOWN, for one, has no actions. *)
IssueActions(issue) ==
  IF issue \in DOMAIN MMActions THEN MMActions[issue]
  ELSE IF issue \in DOMAIN SDActions THEN SDActions[issue]
  ELSE <<>>

(* Faulty variant: risky actions are trusted more, not less. *)
FactorFavouringRisk(risk) ==
  [low |-> 850, medium |-> 950, high |-> 1000][risk]

RiskConfidenceFactor(risk) ==
  [low |-> 1000, medium |-> 950, high |-> 850][risk]

(* The confidence of an action, rounded to three digits. *)
ActionConfidence(confidence, risk) ==
  (confidence * RiskConfidenceFactor(risk) + 500) \div 1000

(* Faulty variant: the planner looks for the key an OData invoice has. *)
ParametersOfODataKeys(raw) ==
  {p \in {"EBELN", "LIFNR", "KUNNR"} :
     Given(raw, [EBELN |-> "purchase_order_id", LIFNR |-> "vendor_id",
                 KUNNR |-> "customer_id"][p])}

(* The parameters that come from the document: those that are not empty.   *)
BuildParameters(raw) ==
  {p \in {"EBELN", "LIFNR", "KUNNR"} :
     Given(raw, [EBELN |-> "po_number", LIFNR |-> "vendor", KUNNR |-> "customer"][p])}

ActionFrom(template, confidence, raw) ==
  [tcode      |-> template.tcode,
   risk       |-> template.risk,
   confidence |-> ActionConfidence(confidence, template.risk),
   parameters |-> BuildParameters(raw)]

(* Faulty variant: sorted without reverse=True. *)
LeastConfidentFirst(actions) ==
  IF Len(actions) = 2 /\ actions[2].confidence < actions[1].confidence
  THEN <<actions[2], actions[1]>>
  ELSE actions

(* sorted(..., reverse=True) keeps the order of equals; no issue has more  *)
(* than two actions.                                                       *)
MostConfidentFirst(actions) ==
  IF Len(actions) = 2 /\ actions[2].confidence > actions[1].confidence
  THEN <<actions[2], actions[1]>>
  ELSE actions

Plan(issue, confidence, raw) ==
  LET templates == IssueActions(issue)
  IN MostConfidentFirst(
       [i \in 1..Len(templates) |-> ActionFrom(templates[i], confidence, raw)])
=============================================================================
