--------------------------- MODULE CopilotProofs ----------------------------
(***************************************************************************)
(* The pipeline for every configuration, context, answer of the AI and     *)
(* number of readers.                                                      *)
(***************************************************************************)
EXTENDS Copilot, ODataConnectorProofs

USE MeAssumption

(* Whatever the pipeline does, the connector takes a step of its own or    *)
(* none.                                                                   *)
LEMMA ConnectorStep == [Next]_vars => [ConnectorNext]_connectorVars
<1>1. StartReading => [ConnectorNext]_connectorVars
  BY DEF StartReading, ConnectorNext
<1>2. HaveRead => [ConnectorNext]_connectorVars
  BY DEF HaveRead, ConnectorNext
<1>3. Environment => ConnectorNext
  BY DEF Environment, ConnectorNext
<1> QED
  BY <1>1, <1>2, <1>3
     DEF Next, vars, Ask, Analyze, SimulateAction, Submit, Select, NewAnalysis

(* What a call reads while others read, detect and cache is what the       *)
(* connector promises.                                                     *)
THEOREM PipelineReadsAsPromised == Spec => ReadsAsPromised
<1>1. Init => ConnectorInit
  BY DEF Init
<1> QED
  BY <1>1, ConnectorStep, ConnectorRefinesReads, PTL DEF Spec, ConnectorSpec

(* The configuration, the context and what kind of document there is, in   *)
(* what kind of system, never change.                                      *)
LEMMA NothingMoves == [Next]_vars => UNCHANGED <<setting, ctx, kind, host>>
<1>1. [Next]_vars => UNCHANGED <<setting, ctx>>
  BY DEF Next, vars, copilotVars, Ask, Analyze, SimulateAction, Submit, Select,
     NewAnalysis, Environment
<1>2. [ConnectorNext]_connectorVars => UNCHANGED <<kind, host>>
  BY DEF ConnectorNext, connectorVars, Hit, Miss, ReadSteps, Detect, DetectionFails,
     Answer, Arrive, Fail, Take, Change, Tick, Reads!Change, Reads!Tick
<1> QED
  BY <1>1, <1>2, ConnectorStep

-----------------------------------------------------------------------------
(* The planner's tables: at most two actions, of which the second, if any, *)
(* is of high risk and the first is not; a risky first action is the only  *)
(* one, and of an issue for which the simulator knows no amount.           *)
OneAction(issue, templates) ==
  \E tcode, risk :
    /\ templates = <<Template(tcode, risk)>>
    /\ risk \in Risks
    /\ risk = "high" => issue \in {"STOCK_INCONSISTENCY", "TOLERANCE_EXCEEDED"}

TwoActions(templates) ==
  \E a, b : templates = <<Template(a, "medium"), Template(b, "high")>>

LEMMA Tables ==
  ASSUME NEW issue
  PROVE  LET templates == IssueActions(issue)
         IN templates = <<>> \/ OneAction(issue, templates) \/ TwoActions(templates)
<1>1. /\ DOMAIN MMActions =
           {"GRIR_MISMATCH", "MISSING_GR", "PRICE_VARIANCE", "QUANTITY_VARIANCE",
            "INVOICE_BLOCKED", "PO_NOT_RELEASED", "STOCK_INCONSISTENCY",
            "VENDOR_BLOCKED", "TOLERANCE_EXCEEDED"}
      /\ DOMAIN SDActions =
           {"CREDIT_BLOCK", "PRICING_ERROR", "DELIVERY_BLOCK", "BILLING_BLOCK",
            "MATERIAL_NOT_AVAILABLE", "INCOMPLETION_LOG", "PARTNER_MISSING",
            "OUTPUT_MISSING"}
  BY DEF MMActions, SDActions
<1>2. ASSUME NEW tcode, NEW risk \in Risks, risk # "high"
      PROVE  OneAction(issue, <<Template(tcode, risk)>>)
  BY <1>2 DEF OneAction
<1>3. ASSUME NEW tcode, issue \in {"STOCK_INCONSISTENCY", "TOLERANCE_EXCEEDED"}
      PROVE  OneAction(issue, <<Template(tcode, "high")>>)
  BY <1>3 DEF OneAction, Risks
<1>4. ASSUME NEW a, NEW b
      PROVE  TwoActions(<<Template(a, "medium"), Template(b, "high")>>)
  BY DEF TwoActions
<1>5. ASSUME issue \in DOMAIN MMActions
      PROVE  OneAction(issue, MMActions[issue]) \/ TwoActions(MMActions[issue])
  <2>1. "medium" \in Risks /\ "low" \in Risks
    BY DEF Risks
  <2>2. /\ MMActions["GRIR_MISMATCH"] = <<Template("MR11", "medium")>>
        /\ MMActions["MISSING_GR"] = <<Template("MIGO", "medium")>>
        /\ MMActions["PRICE_VARIANCE"] = <<Template("MRBR", "medium"), Template("ME22N", "high")>>
        /\ MMActions["QUANTITY_VARIANCE"] = <<Template("MRBR", "medium")>>
        /\ MMActions["INVOICE_BLOCKED"] = <<Template("MRBR", "medium")>>
        /\ MMActions["PO_NOT_RELEASED"] = <<Template("ME28", "low")>>
        /\ MMActions["STOCK_INCONSISTENCY"] = <<Template("MI07", "high")>>
        /\ MMActions["VENDOR_BLOCKED"] = <<Template("XK05", "medium")>>
        /\ MMActions["TOLERANCE_EXCEEDED"] = <<Template("MRBR", "high")>>
    BY DEF MMActions
  <2> QED
    BY <1>1, <1>2, <1>3, <1>4, <1>5, <2>1, <2>2
<1>6. ASSUME issue \in DOMAIN SDActions
      PROVE  OneAction(issue, SDActions[issue]) \/ TwoActions(SDActions[issue])
  <2>1. "medium" \in Risks /\ "low" \in Risks
    BY DEF Risks
  <2>2. /\ SDActions["CREDIT_BLOCK"] = <<Template("VKM1", "medium"), Template("FD32", "high")>>
        /\ SDActions["PRICING_ERROR"] = <<Template("VA02", "medium"), Template("VK12", "high")>>
        /\ SDActions["DELIVERY_BLOCK"] = <<Template("VL02N", "medium")>>
        /\ SDActions["BILLING_BLOCK"] = <<Template("VF02", "medium")>>
        /\ SDActions["MATERIAL_NOT_AVAILABLE"] = <<Template("MD04", "low")>>
        /\ SDActions["INCOMPLETION_LOG"] = <<Template("VA02", "low")>>
        /\ SDActions["PARTNER_MISSING"] = <<Template("VA02", "low")>>
        /\ SDActions["OUTPUT_MISSING"] = <<Template("VA02", "low")>>
    BY DEF SDActions
  <2> QED
    BY <1>1, <1>2, <1>4, <1>6, <2>1, <2>2
<1> QED
  BY <1>5, <1>6 DEF IssueActions

(* The first action of a plan is the first of the table: sorting by        *)
(* confidence never puts a riskier one before it.                          *)
LEMMA PlanHead ==
  ASSUME NEW issue, NEW confidence \in Nat, NEW raw
  PROVE  LET plan == Plan(issue, confidence, raw)
             templates == IssueActions(issue)
         IN \/ templates = <<>> /\ plan = <<>>
            \/ /\ templates # <<>> /\ plan # <<>> /\ 1 \in DOMAIN plan
               /\ Head(plan) = ActionFrom(templates[1], confidence, raw)
<1> DEFINE templates == IssueActions(issue)
<1>1. CASE templates = <<>>
  BY <1>1 DEF Plan, MostConfidentFirst
<1>2. CASE OneAction(issue, templates)
  <2>1. PICK tcode, risk : templates = <<Template(tcode, risk)>>
    BY <1>2 DEF OneAction
  <2> DEFINE actions == [i \in 1..Len(templates) |-> ActionFrom(templates[i], confidence, raw)]
  <2>2. /\ Len(templates) = 1 /\ templates # <<>>
        /\ actions = <<ActionFrom(templates[1], confidence, raw)>>
    BY <2>1
  <2>3. Plan(issue, confidence, raw) = MostConfidentFirst(actions)
    BY DEF Plan
  <2> HIDE DEF templates, actions
  <2> QED
    BY <2>2, <2>3 DEF MostConfidentFirst, templates
<1>3. CASE TwoActions(templates)
  <2>1. PICK a, b : templates = <<Template(a, "medium"), Template(b, "high")>>
    BY <1>3 DEF TwoActions
  <2> DEFINE actions == [i \in 1..Len(templates) |-> ActionFrom(templates[i], confidence, raw)]
  <2>2. /\ Len(templates) = 2 /\ templates # <<>>
        /\ actions = <<ActionFrom(templates[1], confidence, raw),
                       ActionFrom(templates[2], confidence, raw)>>
    BY <2>1
  <2>3. templates[1].risk = "medium" /\ templates[2].risk = "high"
    BY <2>1 DEF Template
  <2>4. Plan(issue, confidence, raw) = MostConfidentFirst(actions)
    BY DEF Plan
  <2>5. /\ ActionFrom(templates[1], confidence, raw).confidence = ActionConfidence(confidence, "medium")
        /\ ActionFrom(templates[2], confidence, raw).confidence = ActionConfidence(confidence, "high")
    BY <2>3 DEF ActionFrom
  <2>6. ~ (ActionConfidence(confidence, "high") > ActionConfidence(confidence, "medium"))
    BY DEF ActionConfidence, RiskConfidenceFactor
  <2> HIDE DEF templates, actions
  <2>7. MostConfidentFirst(actions) = actions
    BY <2>2, <2>5, <2>6 DEF MostConfidentFirst
  <2> QED
    BY <2>2, <2>4, <2>7 DEF templates
<1> QED
  BY <1>1, <1>2, <1>3, Tables

-----------------------------------------------------------------------------
(* A diagnosis is the answer of the AI, a rule's, or nobody's.             *)
Rules == Range(MMRules) \cup Range(SDRules)

LEMMA FoundRules ==
  ASSUME NEW tcode, NEW status, NEW raw
  PROVE  /\ FindMatchingRule(tcode, status, raw) \subseteq Rules
         /\ FindMatchingSdRule(tcode, status, raw) \subseteq Rules
<1>1. \A rules, positions :
        positions \subseteq DOMAIN rules => First(rules, positions) \subseteq Range(rules)
  BY DEF First, Range
<1>2. \A rules : Candidates(rules, tcode, status) \subseteq DOMAIN rules
  BY DEF Candidates
<1> QED
  BY <1>1, <1>2 DEF FindMatchingRule, FindMatchingSdRule, OrElse, Rules

LEMMA RulesAre ==
  ASSUME NEW r \in Rules
  PROVE  /\ r.confidence \in Nat
         /\ r.issue # "UNKNOWN"
         /\ Len(IssueActions(r.issue)) >= 1
         /\ IssueActions(r.issue)[1] = Template(r.action, r.risk)
<1>1. CASE r \in Range(MMRules)
  <2>1. PICK i \in 1..7 : r = MMRules[i]
    BY <1>1 DEF Range, MMRules
  <2>2. i = 1 \/ i = 2 \/ i = 3 \/ i = 4 \/ i = 5 \/ i = 6 \/ i = 7
    OBVIOUS
  <2> QED
    BY <2>1, <2>2 DEF MMRules, Rule, IssueActions, MMActions, Template
<1>2. CASE r \in Range(SDRules)
  <2>1. PICK i \in 1..7 : r = SDRules[i]
    BY <1>2 DEF Range, SDRules
  <2>2. i = 1 \/ i = 2 \/ i = 3 \/ i = 4 \/ i = 5 \/ i = 6 \/ i = 7
    OBVIOUS
  <2> QED
    BY <2>1, <2>2 DEF SDRules, Rule, IssueActions, MMActions, SDActions, Template
<1> QED
  BY <1>1, <1>2 DEF Rules

LEMMA DiagnosesAre ==
  ASSUME NEW raw, NEW d \in Diagnoses(raw)
  PROVE  /\ d.confidence \in Nat
         /\ d.source = "rule_engine" =>
              d.issue = "UNKNOWN" \/ \E r \in Rules : r.issue = d.issue
<1>1. CASE d \in AcceptedAnswers
  BY <1>1, AnswersAssumption DEF AcceptedAnswers
<1>2. CASE d = RuleDiagnosis(raw)
  <2> DEFINE found == IF ctx.module = "MM"
                      THEN FindMatchingRule(ctx.tcode, ctx.status, raw)
                      ELSE FindMatchingSdRule(ctx.tcode, ctx.status, raw)
  <2>1. found \subseteq Rules
    BY FoundRules
  <2>2. CASE found = {}
    <3>1. d = [issue |-> "UNKNOWN", confidence |-> 300, source |-> "rule_engine"]
      BY <1>2, <2>2 DEF RuleDiagnosis
    <3> QED
      BY <3>1
  <2>3. CASE found # {}
    <3> DEFINE rule == CHOOSE r \in found : TRUE
    <3>1. rule \in Rules
      BY <2>1, <2>3
    <3>2. d = [issue |-> rule.issue, confidence |-> rule.confidence, source |-> "rule_engine"]
      BY <1>2, <2>3 DEF RuleDiagnosis
    <3> HIDE DEF rule
    <3> QED
      BY <3>1, <3>2, RulesAre
  <2> QED
    BY <2>2, <2>3
<1> QED
  BY <1>1, <1>2 DEF Diagnoses

-----------------------------------------------------------------------------
LEMMA RiskBound ==
  ASSUME NEW risk \in Risks, NEW amount, risk = "high" => amount = {}
  PROVE  CalculateRiskScore(risk, amount) <= 850
<1>1. CASE risk = "low"
  BY <1>1 DEF CalculateRiskScore, RiskScore, ApprovalsRequired, Capped
<1>2. CASE risk = "medium"
  BY <1>2 DEF CalculateRiskScore, RiskScore, ApprovalsRequired, Capped
<1>3. CASE risk = "high"
  BY <1>3 DEF CalculateRiskScore, RiskScore, ApprovalsRequired, Capped
<1> QED
  BY <1>1, <1>2, <1>3 DEF Risks

(* A request that was just submitted.                                      *)
Submitted(q, d, raw) ==
  LET plan == Plan(d.issue, d.confidence, raw)
  IN plan # <<>> /\ q = Result("submit", d, Head(plan), ctx.fiscal_year, raw)

LEMMA SubmittedAction ==
  ASSUME NEW raw, NEW d \in Diagnoses(raw), NEW q, Submitted(q, d, raw)
  PROVE  /\ q.route = "submit" /\ q.diagnosis = d /\ q.raw = raw
         /\ q.simulation = Simulate(d.issue, d.confidence, q.action, ctx.fiscal_year, raw)
         /\ IssueActions(d.issue) # <<>>
         /\ q.action = ActionFrom(IssueActions(d.issue)[1], d.confidence, raw)
<1>1. d.confidence \in Nat
  BY DiagnosesAre
<1> DEFINE action == Head(Plan(d.issue, d.confidence, raw))
<1>2. q = Result("submit", d, action, ctx.fiscal_year, raw)
  BY DEF Submitted
<1>3. /\ IssueActions(d.issue) # <<>>
      /\ action = ActionFrom(IssueActions(d.issue)[1], d.confidence, raw)
  BY <1>1, PlanHead DEF Submitted
<1> HIDE DEF action
<1> QED
  BY <1>2, <1>3 DEF Result

LEMMA SubmittedRisk ==
  ASSUME NEW raw, NEW d \in Diagnoses(raw), NEW q, Submitted(q, d, raw)
  PROVE  q.simulation.risk <= 850
<1> DEFINE templates == IssueActions(d.issue)
<1>1. /\ templates # <<>>
      /\ q.action = ActionFrom(templates[1], d.confidence, raw)
      /\ q.simulation = Simulate(d.issue, d.confidence, q.action, ctx.fiscal_year, raw)
  BY SubmittedAction
<1>2. /\ templates[1].risk \in Risks
      /\ templates[1].risk = "high" => d.issue \in {"STOCK_INCONSISTENCY", "TOLERANCE_EXCEEDED"}
  <2>1. CASE OneAction(d.issue, templates)
    BY <2>1 DEF OneAction, Template
  <2>2. CASE TwoActions(templates)
    BY <2>2 DEF TwoActions, Template, Risks
  <2> QED
    BY <1>1, <2>1, <2>2, Tables
<1> HIDE DEF templates
<1>3. q.action.risk = templates[1].risk
  BY <1>1 DEF ActionFrom
<1>4. q.action.risk = "high" => Amount(d.issue, q.action.tcode, raw) = {}
  BY <1>2, <1>3 DEF Amount
<1>5. q.simulation.risk = CalculateRiskScore(q.action.risk, Amount(d.issue, q.action.tcode, raw))
  BY <1>1 DEF Simulate
<1> QED
  BY <1>2, <1>3, <1>4, <1>5, RiskBound

LEMMA SubmittedByRule ==
  ASSUME NEW raw, NEW d \in Diagnoses(raw), NEW q, Submitted(q, d, raw),
         d.source = "rule_engine"
  PROVE  \E r \in Rules :
           r.issue = d.issue /\ r.action = q.action.tcode /\ r.risk = q.action.risk
<1>1. /\ IssueActions(d.issue) # <<>>
      /\ q.action = ActionFrom(IssueActions(d.issue)[1], d.confidence, raw)
  BY SubmittedAction
<1>2. IssueActions("UNKNOWN") = <<>>
  BY DEF IssueActions, MMActions, SDActions
<1>3. PICK r \in Rules : r.issue = d.issue
  BY <1>1, <1>2, DiagnosesAre
<1>4. IssueActions(d.issue)[1] = Template(r.action, r.risk)
  BY <1>3, RulesAre
<1> QED
  BY <1>1, <1>3, <1>4 DEF ActionFrom, Template

(* What a call may have read.                                              *)
MayRead(raw) ==
  IF Remote
  THEN raw = NoData \/ \E c \in Contents : raw = MapDocument(kind, host, SAPPayload(kind, host, c))
  ELSE raw = IF setting.odata THEN NoData ELSE MockData(ctx)

(* Where the configuration, the context and the document stay as they are. *)
Settled ==
  /\ kind \in Kinds /\ host \in {"ecc", "s4hana"}
  /\ Fetched(ctx) \subseteq {kind}

(* A document of the mock connector that has an order's number names it.   *)
LEMMA MockOrdersNamed ==
  "po_number" \in DOMAIN MockData(ctx) => MockData(ctx).po_number # ""
<1> DEFINE found == UNION {MockDocuments(k, ctx.document_id) : k \in Fetched(ctx)}
<1>1. ASSUME NEW d \in found, "po_number" \in DOMAIN d
      PROVE  d.po_number # ""
  <2>1. PICK k \in Fetched(ctx) : d \in MockDocuments(k, ctx.document_id)
    OBVIOUS
  <2>2. k \in {"invoice", "purchase_order", "stock", "sales_order", "delivery", "billing"}
    BY DEF Fetched, Fetchers
  <2>3. CASE k = "invoice"
    <3>1. PICK document \in MockInvoices : d = document.dict
      BY <2>1, <2>3 DEF MockDocuments
    <3>2. document.dict.po_number \in {"4500012345", "4500012346"}
      BY DEF MockInvoices
    <3> QED
      BY <3>1, <3>2
  <2>4. CASE k = "purchase_order"
    <3>1. PICK document \in MockPurchaseOrders : d = document.dict
      BY <2>1, <2>4 DEF MockDocuments
    <3>2. document.dict.po_number \in {"4500012345", "4500012346"}
      BY DEF MockPurchaseOrders
    <3> QED
      BY <3>1, <3>2
  <2>5. CASE k \notin {"invoice", "purchase_order"}
    <3>1. "po_number" \notin DOMAIN d
      BY <2>1, <2>2, <2>5 DEF MockDocuments, MockSalesOrders, MockStock
    <3> QED
      BY <1>1, <3>1
  <2> QED
    BY <2>3, <2>4, <2>5
<1>2. CASE found = {}
  BY <1>2 DEF MockData, NoData
<1>3. CASE found # {}
  <2>1. MockData(ctx) = CHOOSE d \in found : TRUE
    BY <1>3 DEF MockData
  <2>2. MockData(ctx) \in found
    BY <1>3, <2>1
  <2> HIDE DEF found
  <2> QED
    BY <1>1, <2>2
<1> QED
  BY <1>2, <1>3

(* Of what SAP gives only a purchase order is mapped to a document with    *)
(* the key po_number, and to one without a fiscal year.                    *)
LEMMA MappedOrders ==
  ASSUME Settled, NEW payload,
         "po_number" \in DOMAIN MapDocument(kind, host, payload)
  PROVE  /\ kind = "purchase_order"
         /\ "fiscal_year" \notin DOMAIN MapDocument(kind, host, payload)
<1>1. DOMAIN MapDocument(kind, host, payload) \subseteq DOMAIN Fields(kind, host)
  BY DEF MapDocument
<1>2. "po_number" \in DOMAIN Fields(kind, host)
  BY <1>1
<1>3. kind = "purchase_order"
  BY <1>2 DEF Settled, Kinds, Fields, InvoiceFields, SalesOrderFields, StockFields, NoData
<1>4. "fiscal_year" \notin DOMAIN Fields("purchase_order", host)
  BY DEF Settled, Fields, PurchaseOrderFields
<1> QED
  BY <1>1, <1>3, <1>4

(* No rule finds a goods receipt missing where a purchase order is looked  *)
(* at.                                                                     *)
LEMMA NoRuleForReceipts ==
  ASSUME Settled, Remote, kind = "purchase_order", NEW raw,
         NEW d \in Diagnoses(raw), IssueActions(d.issue) # <<>>,
         IssueActions(d.issue)[1].tcode = "MIGO"
  PROVE  d.source = "ai"
<1>1. ctx.module = "MM" /\ ctx.tcode \in {"ME21N", "ME22N", "ME23N", "ME2M", "ME2L"}
  <2>1. PICK f \in Fetchers : /\ f.module = ctx.module /\ ctx.tcode \in f.tcodes
                              /\ f.kind = "purchase_order"
    BY DEF Settled, Remote, Fetched
  <2> QED
    BY <2>1 DEF Fetchers
<1>2. SUFFICES ASSUME d = RuleDiagnosis(raw) PROVE FALSE
  BY DEF Diagnoses, AcceptedAnswers
<1> DEFINE found == FindMatchingRule(ctx.tcode, ctx.status, raw)
<1>3. \A r \in found : r = MMRules[5]
  <2>1. \A i \in Candidates(MMRules, ctx.tcode, ctx.status) : i = 5
    <3>1. SUFFICES ASSUME NEW i \in 1..7, MMRules[i].tcode = ctx.tcode PROVE i = 5
      BY DEF Candidates, MMRules
    <3>2. i = 1 \/ i = 2 \/ i = 3 \/ i = 4 \/ i = 5 \/ i = 6 \/ i = 7
      OBVIOUS
    <3> QED
      BY <1>1, <3>1, <3>2 DEF MMRules, Rule
  <2> DEFINE candidates == Candidates(MMRules, ctx.tcode, ctx.status)
             exact  == {i \in candidates : MMRules[i].key \in Get(raw, "block_reason")}
             having == {i \in candidates : MMRules[i].key \in DOMAIN raw \cup {NoKey}}
  <2>2. ASSUME NEW positions, positions \subseteq candidates
        PROVE  \A r \in First(MMRules, positions) : r = MMRules[5]
    BY <2>1, <2>2 DEF First
  <2>3. /\ \A r \in First(MMRules, exact) : r = MMRules[5]
        /\ \A r \in First(MMRules, having) : r = MMRules[5]
        /\ \A r \in First(MMRules, candidates) : r = MMRules[5]
    <3> HIDE DEF candidates
    <3>1. exact \subseteq candidates /\ having \subseteq candidates
      OBVIOUS
    <3> HIDE DEF exact, having
    <3> QED
      BY <2>2, <3>1
  <2>4. found = OrElse(First(MMRules, exact),
                       OrElse(First(MMRules, having), First(MMRules, candidates)))
    BY DEF FindMatchingRule
  <2> HIDE DEF found, candidates, exact, having
  <2> QED
    BY <2>3, <2>4 DEF OrElse
<1>4. CASE found = {}
  <2>1. d = [issue |-> "UNKNOWN", confidence |-> 300, source |-> "rule_engine"]
    BY <1>1, <1>2, <1>4 DEF RuleDiagnosis
  <2>2. IssueActions("UNKNOWN") = <<>>
    BY DEF IssueActions, MMActions, SDActions
  <2> QED
    BY <2>1, <2>2
<1>5. CASE found # {}
  <2> DEFINE rule == CHOOSE r \in found : TRUE
  <2>1. rule = MMRules[5]
    BY <1>3, <1>5
  <2>2. d = [issue |-> rule.issue, confidence |-> rule.confidence, source |-> "rule_engine"]
    BY <1>1, <1>2, <1>5 DEF RuleDiagnosis
  <2> HIDE DEF rule
  <2>3. d.issue = "PO_NOT_RELEASED"
    BY <2>1, <2>2 DEF MMRules, Rule
  <2>4. IssueActions("PO_NOT_RELEASED")[1].tcode = "ME28"
    BY DEF IssueActions, MMActions, Template
  <2> QED
    BY <2>3, <2>4
<1> QED
  BY <1>4, <1>5

(* The one case of a receipt that is cleared and names no order.           *)
OrderWithoutNumber(q) ==
  /\ setting.odata /\ kind = "purchase_order"
  /\ q.raw.po_number = ""
  /\ q.diagnosis.source = "ai" /\ ctx.fiscal_year

LEMMA SubmittedReceipt ==
  ASSUME Settled, NEW raw, MayRead(raw), NEW d \in Diagnoses(raw), NEW q,
         Submitted(q, d, raw),
         q.action.tcode = "MIGO", Clear(q.simulation), "EBELN" \notin q.action.parameters
  PROVE  OrderWithoutNumber(q)
<1>1. /\ q.diagnosis = d /\ q.raw = raw
      /\ IssueActions(d.issue) # <<>>
      /\ q.action = ActionFrom(IssueActions(d.issue)[1], d.confidence, raw)
      /\ q.simulation = Simulate(d.issue, d.confidence, q.action, ctx.fiscal_year, raw)
  BY SubmittedAction
<1>2. q.simulation.blockers = CheckBlockers("MIGO", ctx.fiscal_year, raw)
  BY <1>1 DEF Simulate
<1>3. "po_number" \in DOMAIN raw
  BY <1>2 DEF Clear, CheckBlockers
<1>4. Given(raw, "fiscal_year") \/ ctx.fiscal_year
  BY <1>2 DEF Clear, CheckBlockers, FinancialPostingTcodes
<1>5. raw.po_number = ""
  <2>1. q.action.parameters = BuildParameters(raw)
    BY <1>1 DEF ActionFrom
  <2>2. ~ Given(raw, "po_number")
    BY <2>1 DEF BuildParameters
  <2> QED
    BY <1>3, <2>2 DEF Given, Get
<1>6. raw # NoData
  BY <1>3 DEF NoData
<1>7. Remote
  BY <1>3, <1>5, <1>6, MockOrdersNamed DEF MayRead
<1>8. PICK c \in Contents : raw = MapDocument(kind, host, SAPPayload(kind, host, c))
  BY <1>6, <1>7 DEF MayRead
<1>9. kind = "purchase_order" /\ "fiscal_year" \notin DOMAIN raw
  BY <1>3, <1>8, MappedOrders
<1>10. ctx.fiscal_year
  BY <1>4, <1>9 DEF Given, Get
<1>11. IssueActions(d.issue)[1].tcode = "MIGO"
  BY <1>1 DEF ActionFrom
<1>12. d.source = "ai"
  BY <1>1, <1>7, <1>9, <1>11, NoRuleForReceipts
<1> QED
  BY <1>1, <1>5, <1>7, <1>9, <1>10, <1>12 DEF OrderWithoutNumber, Remote

LEMMA SubmittedBlind ==
  ASSUME NEW raw, NEW d \in Diagnoses(raw), NEW q, Submitted(q, d, raw),
         ~ ctx.fiscal_year, q.raw = NoData, q.action.tcode \in FinancialPostingTcodes
  PROVE  ~ Clear(q.simulation)
<1>1. /\ q.raw = raw
      /\ q.simulation = Simulate(d.issue, d.confidence, q.action, ctx.fiscal_year, raw)
  BY SubmittedAction
<1>2. q.simulation.blockers = CheckBlockers(q.action.tcode, ctx.fiscal_year, raw)
  BY <1>1 DEF Simulate
<1>3. ~ Given(raw, "fiscal_year")
  BY <1>1 DEF NoData, Given, Get
<1> QED
  BY <1>2, <1>3 DEF Clear, CheckBlockers

(* A fiscal year can only take a blocker away.                             *)
LEMMA MilderWithYear ==
  ASSUME NEW issue, NEW confidence, NEW action, NEW hasYear, NEW raw,
         Clear(Simulate(issue, confidence, action, FALSE, raw))
  PROVE  Clear(Simulate(issue, confidence, action, hasYear, raw))
<1>1. /\ Simulate(issue, confidence, action, hasYear, raw).risk =
           Simulate(issue, confidence, action, FALSE, raw).risk
      /\ \A y : Simulate(issue, confidence, action, y, raw).blockers =
                  CheckBlockers(action.tcode, y, raw)
  BY DEF Simulate
<1>2. CheckBlockers(action.tcode, hasYear, raw) \subseteq CheckBlockers(action.tcode, FALSE, raw)
  BY DEF CheckBlockers
<1> QED
  BY <1>1, <1>2 DEF Clear

-----------------------------------------------------------------------------
(* All that is promised of a simulation that is stored or shown.           *)
Promised(q) ==
  /\ q.route = "submit" =>
       /\ q.simulation.risk <= 850
       /\ q.diagnosis.source = "rule_engine" =>
            \E r \in Rules : /\ r.issue = q.diagnosis.issue
                             /\ r.action = q.action.tcode
                             /\ r.risk = q.action.risk
       /\ q.action.tcode = "MIGO" /\ Clear(q.simulation)
            /\ "EBELN" \notin q.action.parameters => OrderWithoutNumber(q)
       /\ ~ ctx.fiscal_year /\ q.raw = NoData /\ q.action.tcode \in FinancialPostingTcodes
            => ~ Clear(q.simulation)
  /\ q.route = "simulate" /\ Clear(q.simulation) =>
       Clear(Simulate(q.diagnosis.issue, q.diagnosis.confidence, q.action,
                      ctx.fiscal_year, q.raw))

ResultsPromised == \A q \in result : Promised(q)

LEMMA SubmitPromised ==
  ASSUME Settled, NEW raw, MayRead(raw), NEW d \in Diagnoses(raw), NEW q,
         Submitted(q, d, raw)
  PROVE  Promised(q)
  BY SubmittedAction, SubmittedRisk, SubmittedByRule, SubmittedReceipt, SubmittedBlind
     DEF Promised

LEMMA SimulatePromised ==
  ASSUME NEW d, NEW action, NEW raw
  PROVE  Promised(Result("simulate", d, action, FALSE, raw))
<1> DEFINE q == Result("simulate", d, action, FALSE, raw)
<1>1. /\ q.route = "simulate" /\ q.diagnosis = d /\ q.action = action /\ q.raw = raw
      /\ q.simulation = Simulate(d.issue, d.confidence, action, FALSE, raw)
  BY DEF Result
<1> HIDE DEF q
<1>2. Clear(q.simulation) => Clear(Simulate(d.issue, d.confidence, action, ctx.fiscal_year, raw))
  BY <1>1, MilderWithYear
<1>3. Promised(q)
  BY <1>1, <1>2 DEF Promised
<1> QED
  BY <1>3 DEF q

LEMMA NextPromised ==
  ResultsPromised /\ Settled /\ ReturnsDocuments /\ [Next]_vars => ResultsPromised'
<1> SUFFICES ASSUME ResultsPromised, Settled, ReturnsDocuments, [Next]_vars
             PROVE  ResultsPromised'
  OBVIOUS
<1>1. UNCHANGED <<setting, ctx, kind>>
  BY NothingMoves
<1>2. \A q : Promised(q)' <=> Promised(q)
  BY <1>1 DEF Promised, OrderWithoutNumber
<1>3. CASE UNCHANGED result
  BY <1>2, <1>3 DEF ResultsPromised
<1>4. CASE SimulateAction
  BY <1>2, <1>4, SimulatePromised DEF ResultsPromised, SimulateAction
<1>5. CASE Submit
  <2>1. PICK d \in Diagnoses(Raw) :
          LET actions == Plan(d.issue, d.confidence, Raw)
          IN IF actions = <<>>
             THEN UNCHANGED <<page, result>>
             ELSE result' = {Result("submit", d, Head(actions), ctx.fiscal_year, Raw)}
    BY <1>5 DEF Submit
  <2>2. CASE UNCHANGED result
    BY <1>3, <2>2
  <2>3. CASE \E q : Submitted(q, d, Raw) /\ result' = {q}
    <3>1. PICK q : Submitted(q, d, Raw) /\ result' = {q}
      BY <2>3
    <3>2. MayRead(Raw)
      <4>1. CASE Remote
        <5>1. reader[Me].phase = "done" /\ Raw = reader[Me].data
          BY <1>5, <4>1 DEF Submit, HaveRead, Take, Raw
        <5> QED
          BY <4>1, <5>1, SameDocuments DEF ReturnsDocuments, MayRead
      <4>2. CASE ~ Remote
        BY <4>2 DEF MayRead, Raw
      <4> QED
        BY <4>1, <4>2
    <3>3. Promised(q)
      BY <3>1, <3>2, SubmitPromised
    <3> QED
      BY <1>2, <3>1, <3>3 DEF ResultsPromised
  <2> QED
    BY <2>1, <2>2, <2>3 DEF Submitted
<1> QED
  BY <1>3, <1>4, <1>5
     DEF Next, vars, copilotVars, Ask, Analyze, Select, NewAnalysis, Environment

LEMMA AlwaysPromised == Spec => []ResultsPromised
<1>1. Init => ResultsPromised /\ Settled /\ ConnectorInit
  BY DEF Init, ResultsPromised, Settled, ConnectorInit, Versions, Reads!Versions
<1>2. Settled /\ [Next]_vars => Settled'
  BY NothingMoves DEF Settled, Fetched
<1>3. Spec => []Settled
  BY <1>1, <1>2, PTL DEF Spec
<1>4. Spec => []ReturnsDocuments
  BY <1>1, ConnectorStep, ReadsReturnDocuments, PTL DEF Spec, ConnectorSpec
<1> QED
  BY <1>1, <1>3, <1>4, NextPromised, PTL DEF Spec

(* What is submitted is never above the risk the executor accepts.         *)
THEOREM WithinThreshold == Spec => []SubmittedWithinThreshold
<1>1. ResultsPromised => SubmittedWithinThreshold
  BY DEF ResultsPromised, Promised, SubmittedWithinThreshold, Stored
<1> QED
  BY <1>1, AlwaysPromised, PTL

(* The planner proposes what the rule that diagnosed the document does.    *)
THEOREM PlannerAgrees == Spec => []PlanAgreesWithRules
<1>1. ResultsPromised => PlanAgreesWithRules
  BY DEF ResultsPromised, Promised, PlanAgreesWithRules, Stored, Rules
<1> QED
  BY <1>1, AlwaysPromised, PTL

(* A goods receipt without blockers names its purchase order, unless SAP   *)
(* gave an order without number, the AI found a receipt missing there, and *)
(* the caller named the fiscal year.                                       *)
THEOREM ReceiptsNameOrders == Spec => []GoodsReceiptNamesOrder
<1>1. ResultsPromised => GoodsReceiptNamesOrder
  BY DEF ResultsPromised, Promised, OrderWithoutNumber, GoodsReceiptNamesOrder, Stored
<1> QED
  BY <1>1, AlwaysPromised, PTL

(* Nothing is posted on a document that nobody could read.                 *)
THEOREM UngroundedIsBlocked == Spec => []UngroundedNeverPosts
<1>1. ResultsPromised => UngroundedNeverPosts
  BY DEF ResultsPromised, Promised, UngroundedNeverPosts, Stored
<1> QED
  BY <1>1, AlwaysPromised, PTL

(* What /simulate shows without blockers is not blocked when submitted.    *)
THEOREM PreviewIsNotMilder == Spec => []PreviewNotMilder
<1>1. ResultsPromised => PreviewNotMilder
  BY DEF ResultsPromised, Promised, PreviewNotMilder
<1> QED
  BY <1>1, AlwaysPromised, PTL

-----------------------------------------------------------------------------
(* The page and the calls.                                                 *)
PageOK(p) ==
  /\ p = [step |-> p.step, actions |-> p.actions, selected |-> p.selected]
  /\ p.step \in {"form", "results", "submitted"}
  /\ p.selected \in DOMAIN p.actions \cup {0}

PipelineOK ==
  /\ \E s \in Scenarios : setting = s.setting /\ ctx = s.ctx
  /\ call \in {"none", "analyze", "simulate", "submit"}
  /\ PageOK(page)

LEMMA PagesOK ==
  /\ PageOK(Form)
  /\ \A raw : \A d \in Diagnoses(raw) :
       LET actions == Plan(d.issue, d.confidence, raw)
       IN PageOK([step |-> "results", actions |-> actions, selected |-> Selected(actions)])
  /\ \A p : PageOK(p) => PageOK([p EXCEPT !.step = "submitted"])
  /\ \A p : PageOK(p) => \A i \in DOMAIN p.actions : PageOK([p EXCEPT !.selected = i])
<1>1. PageOK(Form)
  BY DEF PageOK, Form
<1>2. ASSUME NEW raw, NEW d \in Diagnoses(raw)
      PROVE  LET actions == Plan(d.issue, d.confidence, raw)
             IN PageOK([step |-> "results", actions |-> actions, selected |-> Selected(actions)])
  <2> DEFINE actions == Plan(d.issue, d.confidence, raw)
  <2>1. actions = <<>> \/ 1 \in DOMAIN actions
    BY DiagnosesAre, PlanHead
  <2> HIDE DEF actions
  <2>2. PageOK([step |-> "results", actions |-> actions, selected |-> Selected(actions)])
    BY <2>1 DEF PageOK, Selected
  <2> QED
    BY <2>2 DEF actions
<1>3. ASSUME NEW p, PageOK(p)
      PROVE  PageOK([p EXCEPT !.step = "submitted"])
  <2> DEFINE q == [p EXCEPT !.step = "submitted"]
  <2>1. p = [step |-> p.step, actions |-> p.actions, selected |-> p.selected]
    BY <1>3 DEF PageOK
  <2>2. q = [step |-> "submitted", actions |-> p.actions, selected |-> p.selected]
    BY <2>1
  <2> HIDE DEF q
  <2>3. PageOK(q)
    BY <1>3, <2>2 DEF PageOK
  <2> QED
    BY <2>3 DEF q
<1>4. ASSUME NEW p, PageOK(p), NEW i \in DOMAIN p.actions
      PROVE  PageOK([p EXCEPT !.selected = i])
  <2> DEFINE q == [p EXCEPT !.selected = i]
  <2>1. p = [step |-> p.step, actions |-> p.actions, selected |-> p.selected]
    BY <1>4 DEF PageOK
  <2>2. q = [step |-> p.step, actions |-> p.actions, selected |-> i]
    BY <2>1
  <2> HIDE DEF q
  <2>3. PageOK(q)
    BY <1>4, <2>2 DEF PageOK
  <2> QED
    BY <2>3 DEF q
<1> QED
  BY <1>1, <1>2, <1>3, <1>4

LEMMA NextPipelineOK == PipelineOK /\ [Next]_vars => PipelineOK'
<1> SUFFICES ASSUME PipelineOK, [Next]_vars PROVE PipelineOK'
  OBVIOUS
<1>1. UNCHANGED <<setting, ctx>>
  BY DEF Next, vars, copilotVars, Ask, Analyze, SimulateAction, Submit, Select,
     NewAnalysis, Environment
<1>2. call' \in {"none", "analyze", "simulate", "submit"}
  BY DEF PipelineOK, Next, vars, copilotVars, Ask, Analyze, SimulateAction, Submit,
     Select, NewAnalysis, Environment
<1>3. PageOK(page')
  <2>1. CASE UNCHANGED page
    BY <2>1 DEF PipelineOK
  <2>2. CASE Analyze
    <3>1. PICK d \in Diagnoses(Raw) :
            LET actions == Plan(d.issue, d.confidence, Raw)
            IN PageMayBecome([step |-> "results", actions |-> actions,
                              selected |-> Selected(actions)])
      BY <2>2 DEF Analyze
    <3> QED
      BY <3>1, PagesOK DEF PageMayBecome, PipelineOK
  <2>3. CASE Submit
    BY <2>3, PagesOK DEF Submit, PageMayBecome, PipelineOK
  <2>4. CASE Select
    BY <2>4, PagesOK DEF Select, PipelineOK
  <2>5. CASE NewAnalysis
    BY <2>5, PagesOK DEF NewAnalysis
  <2> QED
    BY <2>1, <2>2, <2>3, <2>4, <2>5
       DEF Next, vars, copilotVars, Ask, SimulateAction, Environment
<1> QED
  BY <1>1, <1>2, <1>3 DEF PipelineOK

(* The pipeline and the connector are always consistent.                   *)
THEOREM AlwaysConsistent == Spec => []Consistent
<1>1. Init => PipelineOK /\ ConnectorConsistent
  BY PagesOK, InitReads DEF Init, PipelineOK
<1>2. Spec => ConnectorSpec
  BY <1>1, ConnectorStep, PTL DEF Spec, ConnectorSpec, Init
<1>3. Spec => []PipelineOK
  BY <1>1, NextPipelineOK, PTL DEF Spec
<1>4. PipelineOK /\ ConnectorConsistent => Consistent
  BY DEF PipelineOK, PageOK, Consistent, TypeOK, ConnectorConsistent
<1> QED
  BY <1>2, <1>3, <1>4, ConnectorAlwaysConsistent, PTL
=============================================================================
