---------------------------- MODULE SAPKnowledge ----------------------------
(***************************************************************************)
(* The rule engine's tables and their search: knowledge/mm_rules.py and    *)
(* knowledge/sd_rules.py.  A document's data, a Python dict, is a function *)
(* whose domain is the set of keys the dict has.  Confidences are in       *)
(* thousandths.  Texts (root causes, descriptions, rollback plans,         *)
(* authorisations) and severities are left out.                            *)
(***************************************************************************)
EXTENDS Integers, Sequences

(* IssueType without UNKNOWN, which has no rule and no action. *)
Issues ==
  {"GRIR_MISMATCH", "MISSING_GR", "INVOICE_BLOCKED", "PRICE_VARIANCE",
   "QUANTITY_VARIANCE", "STOCK_INCONSISTENCY", "PO_NOT_RELEASED",
   "VENDOR_BLOCKED", "TOLERANCE_EXCEEDED", "CREDIT_BLOCK", "PRICING_ERROR",
   "DELIVERY_BLOCK", "BILLING_BLOCK", "MATERIAL_NOT_AVAILABLE",
   "PARTNER_MISSING", "INCOMPLETION_LOG", "OUTPUT_MISSING"}

(* raw.get(key): the set holding the value, empty when there is none. *)
Get(raw, key) == IF key \in DOMAIN raw THEN {raw[key]} ELSE {}

(* The truth of raw.get(key), where the value is a text: "" is false too.  *)
Given(raw, key) == Get(raw, key) \notin {{}, {""}}

(* condition_key=None *)
NoKey == "none"

Rule(tcode, statuses, key, issue, confidence, action, risk) ==
  [tcode |-> tcode, statuses |-> statuses, key |-> key, issue |-> issue,
   confidence |-> confidence, action |-> action, risk |-> risk]

(* The MM rules, in the order of the list. *)
MMRules ==
  <<Rule("MIRO", {"BLOCKED"}, "grir_diff", "GRIR_MISMATCH", 920, "MR11", "medium"),
    Rule("MIRO", {"BLOCKED"}, "missing_gr", "MISSING_GR", 950, "MIGO", "medium"),
    Rule("MIRO", {"BLOCKED"}, NoKey, "PRICE_VARIANCE", 880, "MRBR", "medium"),
    Rule("MIRO", {"BLOCKED"}, NoKey, "QUANTITY_VARIANCE", 870, "MRBR", "medium"),
    Rule("ME23N", {"BLOCKED", "PENDING"}, "po_not_released", "PO_NOT_RELEASED",
         900, "ME28", "low"),
    Rule("MIGO", {"ERROR", "BLOCKED"}, "stock_inconsistency",
         "STOCK_INCONSISTENCY", 820, "MI07", "high"),
    Rule("MIRO", {"BLOCKED"}, "vendor_blocked", "VENDOR_BLOCKED", 930, "XK05",
         "medium")>>

(* The SD rules, in the order of the list. *)
SDRules ==
  <<Rule("VA03", {"BLOCKED"}, "credit_block", "CREDIT_BLOCK", 940, "VKM1",
         "medium"),
    Rule("VA03", {"OPEN", "BLOCKED", "ERROR"}, "pricing_error",
         "PRICING_ERROR", 890, "VA02", "medium"),
    Rule("VA03", {"OPEN", "BLOCKED"}, "incompletion_log", "INCOMPLETION_LOG",
         910, "VA02", "low"),
    Rule("VL03N", {"BLOCKED"}, "delivery_block", "DELIVERY_BLOCK", 880,
         "VL02N", "medium"),
    Rule("VA03", {"OPEN", "BLOCKED"}, "material_not_available",
         "MATERIAL_NOT_AVAILABLE", 860, "MD04", "low"),
    Rule("VF03", {"BLOCKED"}, "billing_block", "BILLING_BLOCK", 900, "VF02",
         "medium"),
    Rule("VA03", {"OPEN", "ERROR"}, "partner_missing", "PARTNER_MISSING", 930,
         "VA02", "low")>>

(* get_mm_rules_for_tcode, get_sd_rules_for_tcode, and the test of the     *)
(* status every loop over the candidates starts with: their positions.     *)
Candidates(rules, tcode, status) ==
  {i \in DOMAIN rules : rules[i].tcode = tcode /\ status \in rules[i].statuses}

(* The first of the rules at some positions, if there is any.              *)
First(rules, positions) ==
  {rules[i] : i \in {i \in positions : \A j \in positions : i <= j}}

(* A search that falls through to the next one when it finds nothing. *)
OrElse(found, next) == IF found # {} THEN found ELSE next

(* An MM rule is found by the document's block reason, which must equal    *)
(* its key; else by its key being a key of the document's data, a rule     *)
(* without key matching anything; else it is the first one of the status.  *)
FindMatchingRule(tcode, status, raw) ==
  LET found  == Candidates(MMRules, tcode, status)
      exact  == {i \in found : MMRules[i].key \in Get(raw, "block_reason")}
      having == {i \in found : MMRules[i].key \in DOMAIN raw \cup {NoKey}}
  IN OrElse(First(MMRules, exact),
            OrElse(First(MMRules, having), First(MMRules, found)))

(* An SD rule is never found by the block reason. *)
FindMatchingSdRule(tcode, status, raw) ==
  LET found  == Candidates(SDRules, tcode, status)
      having == {i \in found : SDRules[i].key \in DOMAIN raw \cup {NoKey}}
  IN OrElse(First(SDRules, having), First(SDRules, found))
=============================================================================
