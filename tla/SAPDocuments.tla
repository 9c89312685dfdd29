---------------------------- MODULE SAPDocuments ----------------------------
(***************************************************************************)
(* Which document a transaction is about, and what the services get to see *)
(* of it: services/context_service.py, connectors/mock_connector.py and    *)
(* the mappers of connectors/odata/mappers.  A document is a function from *)
(* the keys of the Python dict that have a value; only keys that a rule,   *)
(* the planner or the simulator could tell apart are kept.                 *)
(***************************************************************************)
EXTENDS ImpactSimulator

Kinds == {"invoice", "purchase_order", "stock", "sales_order", "delivery",
          "billing"}

(* The dict without keys: raw_data as it is before a document is fetched.  *)
NoData == [k \in {} |-> 0]

Fetchers ==
  {[module |-> "MM", kind |-> "invoice", tcodes |-> {"MIRO", "MIR4", "MIR6"}],
   [module |-> "MM", kind |-> "purchase_order",
    tcodes |-> {"ME21N", "ME22N", "ME23N", "ME2M", "ME2L"}],
   [module |-> "MM", kind |-> "stock", tcodes |-> {"MIGO", "MB51", "MB52", "MMBE"}],
   [module |-> "SD", kind |-> "sales_order",
    tcodes |-> {"VA01", "VA02", "VA03", "VA05"}],
   [module |-> "SD", kind |-> "delivery",
    tcodes |-> {"VL01N", "VL02N", "VL03N", "VL10"}],
   [module |-> "SD", kind |-> "billing",
    tcodes |-> {"VF01", "VF02", "VF03", "VF04"}]}

(* The kind of document _fetch_document asks the connector for, if any.    *)
Fetched(ctx) ==
  {f.kind : f \in {f \in Fetchers : f.module = ctx.module /\ ctx.tcode \in f.tcodes}}

(* ---- The mock connector ---- *)

MockInvoices ==
  {[id |-> "51000321",
    dict |-> [fiscal_year |-> "2026", vendor |-> "V-100012",
              block_reason |-> "price_variance", invoice_amount |-> 48500,
              po_number |-> "4500012345", grir_diff |-> 3500]],
   [id |-> "51000322",
    dict |-> [fiscal_year |-> "2026", vendor |-> "V-200045",
              block_reason |-> "missing_gr", invoice_amount |-> 12000,
              po_number |-> "4500012346", grir_diff |-> 12000]]}

MockPurchaseOrders ==
  {[id |-> "4500012345",
    dict |-> [po_number |-> "4500012345", vendor |-> "V-100012",
              total_value |-> 45000]],
   [id |-> "4500012346",
    dict |-> [po_number |-> "4500012346", vendor |-> "V-200045",
              total_value |-> 12000]]}

MockSalesOrders ==
  {[id |-> "1000081234",
    dict |-> [block_reason |-> "credit_block", customer |-> "C-10001",
              total_value |-> 250000]],
   [id |-> "1000081235",
    dict |-> [block_reason |-> "pricing_error", customer |-> "C-10002",
              total_value |-> 0]]}

MockStock == {[id |-> m, dict |-> [material |-> m]] : m \in {"MAT-001", "MAT-002"}}

(* The mock documents of a number: none makes the connector raise.  Every  *)
(* delivery and every billing document exists.                             *)
MockDocuments(kind, id) ==
  CASE kind = "invoice"        -> {d.dict : d \in {d \in MockInvoices : d.id = id}}
    [] kind = "purchase_order" -> {d.dict : d \in {d \in MockPurchaseOrders : d.id = id}}
    [] kind = "sales_order"    -> {d.dict : d \in {d \in MockSalesOrders : d.id = id}}
    [] kind = "stock"          -> {d.dict : d \in {d \in MockStock : d.id = id}}
    [] kind = "delivery"       -> {[delivery_number |-> id]}
    [] kind = "billing"        -> {[billing_number |-> id, customer |-> "C-10001"]}

(* enrich: what cannot be fetched leaves raw_data as it was, empty.        *)
MockData(ctx) ==
  LET found == UNION {MockDocuments(kind, ctx.document_id) : kind \in Fetched(ctx)}
  IN IF found = {} THEN NoData ELSE CHOOSE d \in found : TRUE

(* ---- The OData mappers ---- *)

(* For each key of the mapped document, the SAP field it is taken from.    *)
(* The status that the mappers derive is left out: no service reads it.    *)
InvoiceFields ==
  [ecc |->
     [fiscal_year |-> "FiscalYear", vendor_id |-> "LifNr", amount |-> "DmbtrSum",
      block_reason |-> "PaymentBlockingReason", purchase_order_id |-> "EBELN"],
   s4hana |->
     [fiscal_year |-> "FiscalYear", vendor_id |-> "Supplier",
      amount |-> "DocumentAmount", block_reason |-> "PaymentBlockingReason",
      purchase_order_id |-> "PurchaseOrder"]]

PurchaseOrderFields ==
  [ecc |->
     [po_number |-> "PurchaseOrder", vendor_id |-> "Vendor",
      total_amount |-> "NetPriceAmount"],
   s4hana |->
     [po_number |-> "PurchaseOrder", vendor_id |-> "Supplier",
      total_amount |-> "NetPriceAmount"]]

SalesOrderFields ==
  [version \in {"ecc", "s4hana"} |->
     [order_number |-> "SalesOrder", customer_id |-> "SoldToParty",
      total_amount |-> "TotalNetAmount"]]

StockFields ==
  [ecc |-> [material |-> "Material", unrestricted_stock |-> "UnrestrictedStockQty"],
   s4hana |->
     [material |-> "Material", unrestricted_stock |-> "MatlWrhsStkQtyInMatBaseUnit"]]

(* Deliveries and billing documents are handed on unmapped: none of their  *)
(* SAP fields has the name of a key that somebody reads.                   *)
Fields(kind, version) ==
  CASE kind = "invoice"        -> InvoiceFields[version]
    [] kind = "purchase_order" -> PurchaseOrderFields[version]
    [] kind = "sales_order"    -> SalesOrderFields[version]
    [] kind = "stock"          -> StockFields[version]
    [] OTHER                   -> NoData

(* sap_amount makes 0 of a missing amount and sap_string None of a missing *)
(* or empty text, of which the mappers make "" where it identifies the     *)
(* document.                                                               *)
AmountKeys == {"amount", "total_amount", "unrestricted_stock"}
IdentityKeys == {"po_number", "order_number", "material"}

MapDocument(kind, version, payload) ==
  LET fields == Fields(kind, version)
      given  == {k \in DOMAIN fields : fields[k] \in DOMAIN payload}
      always == DOMAIN fields \cap (AmountKeys \cup IdentityKeys)
  IN [k \in given \cup always |->
        IF k \in given THEN payload[fields[k]] ELSE IF k \in AmountKeys THEN 0 ELSE ""]

(* ---- What SAP holds ---- *)

(* A document may have all its fields, lack some, or not be there.         *)
Contents == {"complete", "sparse", "absent"}

(* What a sparse answer leaves out or leaves empty: an invoice that is not *)
(* blocked has no blocking reason, an order that is only being drafted, or *)
(* a service that withholds the field, gives no number.  The mapper only   *)
(* warns of that.                                                          *)
OptionalKeys == {"block_reason", "po_number"}

(* The answer of a system to a query for the document.  A query that finds *)
(* nothing answers an empty list, in which no mapper finds a field.        *)
SAPPayload(kind, host, content) ==
  LET fields == Fields(kind, host)
      filled == {k \in DOMAIN fields : content = "complete" \/ k \notin OptionalKeys}
  IN [f \in {fields[k] : k \in IF content = "absent" THEN {} ELSE filled} |->
        IF f \in {fields[k] : k \in DOMAIN fields \cap AmountKeys} THEN 20000
        ELSE "given"]

(* An ECC invoice without fiscal year is looked up by a query; every other *)
(* document is addressed by its key and is answered 404 when absent.  (A   *)
(* stock read without plant is a query too, but what it finds is not       *)
(* unwrapped, so that no key is found in it either way.)                   *)
Readable(kind, host, content) ==
  content # "absent" \/ (kind = "invoice" /\ host = "ecc")
=============================================================================
