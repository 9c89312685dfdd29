----------------------------- MODULE MCCopilot ------------------------------
(***************************************************************************)
(* Copilot on documents of every kind, found and not found, looked at by   *)
(* the page and by another client of the API.                              *)
(***************************************************************************)
EXTENDS Copilot

CONSTANTS me, other

Context(tcode, module, status, id, client, fiscal_year) ==
  [tcode |-> tcode, module |-> module, status |-> status, document_id |-> id,
   client |-> client, fiscal_year |-> fiscal_year]

(* One document of every kind.  *)
OfEveryKind ==
  {Context("MIRO", "MM", "BLOCKED", "51000321", "page", FALSE),
   Context("MIGO", "MM", "ERROR", "MAT-002", "api", TRUE),
   Context("ME23N", "MM", "PENDING", "4500012345", "api", TRUE),
   Context("VA03", "SD", "OPEN", "1000081235", "api", FALSE),
   Context("VF03", "SD", "BLOCKED", "90000001", "api", FALSE)}

(* With the mock connector also those of its documents that differ, one it *)
(* does not have, and one of a transaction without fetcher or rule.        *)
OfTheMock ==
  {Context("MIRO", "MM", "BLOCKED", "51000322", "page", FALSE),
   Context("MIRO", "MM", "BLOCKED", "59999999", "page", FALSE),
   Context("MIRO", "MM", "BLOCKED", "59999999", "api", TRUE),
   Context("VA03", "SD", "BLOCKED", "1000081234", "page", FALSE),
   Context("VL03N", "SD", "BLOCKED", "80000001", "page", FALSE),
   Context("FB60", "MM", "BLOCKED", "19000001", "page", FALSE)}

(* The documents of SAP that are looked at with the AI.  It leaves the      *)
(* rules' diagnosis as one of the possible ones.                            *)
WithAI == {c \in OfEveryKind : c.tcode \in {"MIGO", "ME23N"}}

MCScenarios ==
  [setting : [odata : {FALSE}, ai : BOOLEAN], ctx : OfEveryKind \cup OfTheMock]
    \cup [setting : {[odata |-> TRUE, ai |-> TRUE]}, ctx : WithAI]
    \cup [setting : {[odata |-> TRUE, ai |-> FALSE]}, ctx : OfEveryKind \ WithAI]

AIAnswer(issue, confidence) == [issue |-> issue, confidence |-> confidence]

MCAnswers ==
  {AIAnswer("PRICE_VARIANCE", 700), AIAnswer("STOCK_INCONSISTENCY", 820),
   AIAnswer("MISSING_GR", 950), AIAnswer("GRIR_MISMATCH", 690),
   AIAnswer("UNKNOWN", 900)}

MCTTL ==
  [invoice |-> 1, purchase_order |-> 0, sales_order |-> 1, stock |-> 0]
=============================================================================
