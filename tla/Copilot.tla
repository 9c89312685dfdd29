------------------------------ MODULE Copilot -------------------------------
(***************************************************************************)
(* From a document in SAP to a request for approval: the three routes that *)
(* run the pipeline (analyze.py, simulate.py, submit_approval in           *)
(* approval.py), the page that calls them (AnalyzePage.tsx,                *)
(* SimulationPanel.tsx) and other clients of the API.  Every call reads    *)
(* the document anew, through the connector the configuration names, and   *)
(* diagnoses it anew, with the AI service when there is one.               *)
(*                                                                         *)
(* One consultant works on one document; the other readers of the          *)
(* connector are other calls of the same process.  What happens to a       *)
(* request once it is stored is ApprovalMemory's and ApprovalDB's.         *)
(***************************************************************************)
EXTENDS ODataConnector, Functions

CONSTANTS Me,         \* the coroutine that serves the consultant's call
          Scenarios,  \* the configurations, and what he may be looking at
          Answers,    \* what the AI may answer
          Tcodes      \* the transactions /simulate may be asked about

ASSUME MeAssumption == Me \in Readers

(* What the reply tool's schema admits, and IssueType accepts.             *)
ASSUME AnswersAssumption ==
  Answers \subseteq [issue : Issues \cup {"UNKNOWN"}, confidence : 0..1000]

(* The page's form has no field for the fiscal year.                       *)
ASSUME PageAssumption ==
  \A s \in Scenarios : s.ctx.client = "page" => ~ s.ctx.fiscal_year

VARIABLES setting,    \* the configuration: the connector, and whether there is an AI
          ctx,        \* the SAP context he sends
          call,       \* the route that is serving his call, if any
          page,       \* AnalyzePage: its step, the actions it lists, the selected one
          result      \* the last simulation: of /simulate, or stored with a request

copilotVars == <<setting, ctx, call, page, result>>
vars == <<connectorVars, copilotVars>>

Form == [step |-> "form", actions |-> <<>>, selected |-> 0]

Init ==
  /\ ConnectorInit
  /\ \E s \in Scenarios : setting = s.setting /\ ctx = s.ctx
  /\ Fetched(ctx) \subseteq {kind}
  /\ call = "none"
  /\ page = Form
  /\ result = {}

(* ---- ContextService ---- *)

(* The call waits for SAP; otherwise its document is there at once.        *)
Remote == setting.odata /\ Fetched(ctx) # {}

(* Everything before the first wait: the document is found in the cache,   *)
(* or asked for.                                                           *)
StartReading ==
  IF Remote THEN Hit(Me) \/ Miss(Me) ELSE UNCHANGED connectorVars

HaveRead ==
  IF Remote THEN Take(Me) ELSE UNCHANGED connectorVars

Raw == IF Remote THEN reader[Me].data
       ELSE IF setting.odata THEN NoData
       ELSE MockData(ctx)

(* ---- DiagnosticService, AIService ---- *)

RuleDiagnosis(raw) ==
  LET found == IF ctx.module = "MM"
               THEN FindMatchingRule(ctx.tcode, ctx.status, raw)
               ELSE FindMatchingSdRule(ctx.tcode, ctx.status, raw)
  IN IF found = {}
     THEN [issue |-> "UNKNOWN", confidence |-> 300, source |-> "rule_engine"]
     ELSE LET rule == CHOOSE r \in found : TRUE
          IN [issue |-> rule.issue, confidence |-> rule.confidence,
              source |-> "rule_engine"]

(* An answer of the AI is taken from 0.70 on.  One below, an error and an  *)
(* answer that does not name an issue leave it to the rules.               *)
AcceptedAnswers ==
  {[issue |-> a.issue, confidence |-> a.confidence, source |-> "ai"] :
     a \in {a \in Answers : setting.ai /\ a.confidence >= 700}}

Diagnoses(raw) == AcceptedAnswers \cup {RuleDiagnosis(raw)}

(* ---- The routes ---- *)

(* A call arrives.  The page analyses from its form, and submits while it  *)
(* shows a selected action: it sends the context, not the action.  It has  *)
(* one call at a time, and never calls /simulate.                          *)
Ask(route) ==
  /\ call = "none"
  /\ ctx.client = "page" =>
       \/ route = "analyze" /\ page.step = "form"
       \/ route = "submit" /\ page.step = "results" /\ page.selected # 0
  /\ call' = route
  /\ StartReading
  /\ UNCHANGED <<setting, ctx, page, result>>

(* The page, if it is the caller, goes on as its onSuccess says; the call  *)
(* may fail, or its answer be lost, after the server did its part.         *)
PageMayBecome(next) ==
  page' \in IF ctx.client = "page" THEN {page, next} ELSE {page}

(* data.primary_action ?? data.recommended_actions[0] ?? null              *)
Selected(actions) == IF actions = <<>> THEN 0 ELSE 1

(* POST /analyze                                                           *)
Analyze ==
  /\ call = "analyze"
  /\ HaveRead
  /\ \E diagnosis \in Diagnoses(Raw) :
       LET actions == Plan(diagnosis.issue, diagnosis.confidence, Raw)
       IN PageMayBecome([step |-> "results", actions |-> actions,
                         selected |-> Selected(actions)])
  /\ call' = "none"
  /\ UNCHANGED <<setting, ctx, result>>

(* The action of the plan with the tcode asked for, else the first one,    *)
(* else one made up for the purpose.                                       *)
Target(tcode, actions) ==
  LET same == SelectSeq(actions, LAMBDA a : a.tcode = tcode)
  IN IF same # <<>> THEN Head(same)
     ELSE IF actions # <<>> THEN Head(actions)
     ELSE [tcode |-> tcode, risk |-> "medium", confidence |-> 500, parameters |-> {}]

Result(route, diagnosis, action, hasYear, raw) ==
  [route |-> route, diagnosis |-> diagnosis, raw |-> raw, action |-> action,
   simulation |-> Simulate(diagnosis.issue, diagnosis.confidence, action, hasYear, raw)]

(* Faulty variant: the fiscal year is taken for granted.                   *)
SimulateActionThisYear ==
  /\ call = "simulate"
  /\ HaveRead
  /\ \E diagnosis \in Diagnoses(Raw), tcode \in Tcodes :
       LET actions == Plan(diagnosis.issue, diagnosis.confidence, Raw)
       IN result' = {Result("simulate", diagnosis, Target(tcode, actions), TRUE, Raw)}
  /\ call' = "none"
  /\ UNCHANGED <<setting, ctx, page>>

(* POST /simulate, whose body has no fiscal year.                          *)
SimulateAction ==
  /\ call = "simulate"
  /\ HaveRead
  /\ \E diagnosis \in Diagnoses(Raw), tcode \in Tcodes :
       LET actions == Plan(diagnosis.issue, diagnosis.confidence, Raw)
       IN result' = {Result("simulate", diagnosis, Target(tcode, actions), FALSE, Raw)}
  /\ call' = "none"
  /\ UNCHANGED <<setting, ctx, page>>

(* POST /approval/submit: 422 when there is nothing to recommend, else the *)
(* first action is simulated and stored.                                   *)
Submit ==
  /\ call = "submit"
  /\ HaveRead
  /\ \E diagnosis \in Diagnoses(Raw) :
       LET actions == Plan(diagnosis.issue, diagnosis.confidence, Raw)
       IN IF actions = <<>>
          THEN UNCHANGED <<page, result>>
          ELSE /\ result' = {Result("submit", diagnosis, Head(actions), ctx.fiscal_year, Raw)}
               /\ PageMayBecome([page EXCEPT !.step = "submitted"])
  /\ call' = "none"
  /\ UNCHANGED <<setting, ctx>>

(* ---- The page ---- *)

(* ActionGrid: onSelect.                                                   *)
Select ==
  /\ page.step = "results"
  /\ \E i \in DOMAIN page.actions : page' = [page EXCEPT !.selected = i]
  /\ UNCHANGED <<connectorVars, setting, ctx, call, result>>

(* "Nouvelle analyse"                                                      *)
NewAnalysis ==
  /\ page.step = "submitted"
  /\ page' = Form
  /\ UNCHANGED <<connectorVars, setting, ctx, call, result>>

(* ---- The rest of the process, and SAP ---- *)

Environment ==
  /\ setting.odata
  /\ \/ ReadSteps(Me)
     \/ \E r \in Readers \ {Me} : Hit(r) \/ Miss(r) \/ ReadSteps(r) \/ Take(r)
     \/ Change
     \/ Tick
  /\ UNCHANGED copilotVars

Next ==
  \/ \E route \in {"analyze", "simulate", "submit"} : Ask(route)
  \/ Analyze \/ SimulateAction \/ Submit
  \/ Select \/ NewAnalysis
  \/ Environment

Spec == Init /\ [][Next]_vars

-----------------------------------------------------------------------------
TypeOK ==
  /\ ConnectorTypeOK
  /\ \E s \in Scenarios : setting = s.setting /\ ctx = s.ctx
  /\ call \in {"none", "analyze", "simulate", "submit"}
  /\ page = [step |-> page.step, actions |-> page.actions, selected |-> page.selected]
  /\ page.step \in {"form", "results", "submitted"}
  /\ page.selected \in DOMAIN page.actions \cup {0}

(* The inductive invariant of the process: its types, with a selection of  *)
(* the page that is among the actions it lists, entries that are no older  *)
(* than their time to live allows and answers that are no older than their *)
(* time under way, whoever reads at the same time.                         *)
Consistent == TypeOK /\ ConnectorConsistent

(* The request stored last, if nothing was simulated since.                *)
Stored == {q \in result : q.route = "submit"}

(* The pipeline never submits what the executor's risk gate, 0.85, would   *)
(* refuse: the first action of a plan is never one that its risk and the   *)
(* amount at stake put above it.                                           *)
SubmittedWithinThreshold == \A q \in Stored : q.simulation.risk <= 850

(* The three tables agree: what is submitted on a rule's diagnosis is the  *)
(* transaction, at the risk, that the rule itself recommends, although the *)
(* planner chooses from tables of its own and sorts by confidence.         *)
PlanAgreesWithRules ==
  \A q \in Stored :
    q.diagnosis.source = "rule_engine" =>
      \E r \in Range(MMRules) \cup Range(SDRules) :
        /\ r.issue = q.diagnosis.issue
        /\ r.action = q.action.tcode
        /\ r.risk = q.action.risk

(* The simulator's blockers and the planner's parameters look at the       *)
(* document in ways of their own, under names that the rules, the mock     *)
(* connector and the mappers do not share: a goods receipt that may be     *)
(* executed names its order, but for one case.  The AI finds a receipt     *)
(* missing where a purchase order is looked at, SAP gives that order       *)
(* without its number, and the caller names the fiscal year himself.       *)
GoodsReceiptNamesOrder ==
  \A q \in Stored :
    q.action.tcode = "MIGO" /\ Clear(q.simulation) /\ "EBELN" \notin q.action.parameters =>
      /\ setting.odata /\ kind = "purchase_order"
      /\ q.raw.po_number = ""
      /\ q.diagnosis.source = "ai" /\ ctx.fiscal_year

(* Where the document could not be read the pipeline goes on with a        *)
(* diagnosis all the same; such a request can never be executed if it      *)
(* would post to the ledger, unless the caller named the fiscal year.      *)
UngroundedNeverPosts ==
  \A q \in Stored :
    ~ ctx.fiscal_year /\ q.raw = NoData /\ q.action.tcode \in FinancialPostingTcodes
      => ~ Clear(q.simulation)

(* /simulate and /approval/submit, which build their contexts differently, *)
(* agree on the safe side: an action that the one shows without blockers   *)
(* is not blocked when the other submits it on the same data.              *)
PreviewNotMilder ==
  \A p \in result :
    p.route = "simulate" /\ Clear(p.simulation) =>
      Clear(Simulate(p.diagnosis.issue, p.diagnosis.confidence, p.action,
                     ctx.fiscal_year, p.raw))

(* SimulationPanel.tsx:56 tells the consultant of every action that it is  *)
(* reversible; the request he then finds stored says the same.             *)
SubmittedAsShown ==
  page.step = "submitted" => \A q \in Stored : q.simulation.reversible
=============================================================================
