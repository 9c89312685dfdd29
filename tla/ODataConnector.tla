--------------------------- MODULE ODataConnector ---------------------------
(***************************************************************************)
(* connectors/odata/odata_connector.py with its cache (cache.py) and the   *)
(* detection of the SAP version (client.py): the reads of one document by  *)
(* several coroutines of one process, while the document changes in SAP    *)
(* and time passes.  Requests, retries and the circuit breaker below it    *)
(* are SAPClient's: here a request is answered or fails.                   *)
(*                                                                         *)
(* Time passes in ticks.  For each thing the document may say, age tells   *)
(* how many ticks ago SAP had it last: 0 for what it has now, 1 from the   *)
(* change on, and one more with every tick after it.                       *)
(***************************************************************************)
EXTENDS SAPDocuments

CONSTANTS Readers,    \* the coroutines that read the document
          TTL,        \* by kind of cached document: its time to live in ticks
          MaxFetch    \* bound: ticks an answer of SAP is under way

ASSUME TTLAssumption == TTL \in [{"invoice", "purchase_order", "sales_order", "stock"} -> Nat]
ASSUME MaxFetchAssumption == MaxFetch \in Nat

VARIABLES kind,       \* the kind of the document
          host,       \* the kind of SAP system that is there
          sap,        \* the document in SAP
          age,        \* for each content: how many ticks ago SAP had it last
          version,    \* SAPODataClient._sap_version
          store,      \* ODataCache._store: the entry of the document, if any
          reader      \* where each coroutine is

connectorVars == <<kind, host, sap, age, version, store, reader>>

(* The reads as their callers see them.                                    *)
Status(phase) == IF phase \in {"idle", "done"} THEN phase ELSE "reading"

Reads == INSTANCE DocumentReads
           WITH reads <- [r \in Readers |->
                  [status |-> Status(reader[r].phase),
                   data |-> IF reader[r].phase = "done" THEN reader[r].data
                            ELSE NoData]]

Versions == Reads!Versions
Unknown == "none"

State(phase, asked, data) ==
  [phase |-> phase, asked |-> asked, data |-> data, wait |-> 0]

Idle == State("idle", Unknown, NoData)
Detecting == State("detecting", Unknown, NoData)
Asking(v) == State("asking", v, NoData)

(* A finished read, with the data it returns.                              *)
Done(data) == State("done", Unknown, data)

Cached == kind \in DOMAIN TTL

(* An entry is servable up to and including the instant it expires at.     *)
Servable == {e \in store : e.left >= 0}

ConnectorInit ==
  /\ kind \in Kinds
  /\ host \in Versions
  /\ sap \in Contents
  /\ age = [c \in Contents |-> IF c = sap THEN 0 ELSE Reads!MaxAge + 1]
  /\ version \in Versions \cup {Unknown}
  /\ store = {}
  /\ reader = [r \in Readers |-> Idle]

Go(r, state) == reader' = [reader EXCEPT ![r] = state]

(* Faulty variant: a hit prolongs the life of the entry.                   *)
HitProlongs(r) ==
  /\ reader[r].phase = "idle"
  /\ \E e \in Servable :
       /\ Go(r, Done(e.data))
       /\ store' = {[e EXCEPT !.left = TTL[kind]]}
  /\ UNCHANGED <<kind, host, sap, age, version>>

(* get_*: the cache has the document.                                      *)
Hit(r) ==
  /\ reader[r].phase = "idle"
  /\ \E e \in Servable : Go(r, Done(e.data))
  /\ UNCHANGED <<kind, host, sap, age, version, store>>

(* get_*: the cache has it not, or no longer, and drops what expired.      *)
(* Deliveries and billing documents are read without cache, at a path that *)
(* does not depend on the version.                                         *)
Miss(r) ==
  /\ reader[r].phase = "idle"
  /\ Servable = {}
  /\ store' = {}
  /\ Go(r, IF ~ Cached THEN Asking(host)
           ELSE IF version # Unknown THEN Asking(version)
           ELSE Detecting)
  /\ UNCHANGED <<kind, host, sap, age, version>>

(* detect_version: the catalogue tells the version.                        *)
Detect(r) ==
  /\ reader[r].phase = "detecting"
  /\ version' = host
  /\ Go(r, Asking(host))
  /\ UNCHANGED <<kind, host, sap, age, store>>

(* detect_version: the catalogue cannot be read.  A detection that started *)
(* as early as this one and succeeded before it is overwritten.            *)
DetectionFails(r) ==
  /\ reader[r].phase = "detecting"
  /\ version' = "ecc"
  /\ Go(r, Asking("ecc"))
  /\ UNCHANGED <<kind, host, sap, age, store>>

(* SAP answers: the copy is taken.  The service of the other kind of       *)
(* system does not exist there.                                            *)
Answer(r) ==
  /\ reader[r].phase = "asking"
  /\ reader[r].asked = host
  /\ Readable(kind, host, sap)
  /\ Go(r, State("answered", host, SAPPayload(kind, host, sap)))
  /\ UNCHANGED <<kind, host, sap, age, version, store>>

Entry(data) == [data |-> data, left |-> TTL[kind]]

(* Faulty variant: the mapper goes by the version known when the answer    *)
(* arrives, not by the one the question was asked for.                     *)
ArriveByVersion(r) ==
  /\ reader[r].phase = "answered"
  /\ LET data == MapDocument(kind, IF Cached THEN version ELSE host, reader[r].data)
     IN /\ Go(r, Done(data))
        /\ store' = IF Cached THEN {Entry(data)} ELSE store
  /\ UNCHANGED <<kind, host, sap, age, version>>

(* The answer arrives: it is mapped, cached and returned.                  *)
Arrive(r) ==
  /\ reader[r].phase = "answered"
  /\ LET data == MapDocument(kind, reader[r].asked, reader[r].data)
     IN /\ Go(r, Done(data))
        /\ store' = IF Cached THEN {Entry(data)} ELSE store
  /\ UNCHANGED <<kind, host, sap, age, version>>

(* The request fails: not found, no such service, or nobody answers.       *)
(* ContextService.enrich goes on without data.                             *)
Fail(r) ==
  /\ reader[r].phase \in {"asking", "answered"}
  /\ Go(r, Done(NoData))
  /\ UNCHANGED <<kind, host, sap, age, version, store>>

(* The caller takes the data and goes on.                                  *)
Take(r) ==
  /\ reader[r].phase = "done"
  /\ Go(r, Idle)
  /\ UNCHANGED <<kind, host, sap, age, version, store>>

(* Somebody changes the document in SAP.                                   *)
Change ==
  /\ Reads!Change
  /\ UNCHANGED <<version, store, reader>>

(* An expired entry is not told from a dead one: its clock stands still.   *)
Aged(e) == IF e.left >= 0 THEN [e EXCEPT !.left = @ - 1] ELSE e

Waited(copy) ==
  IF copy.phase = "answered" THEN [copy EXCEPT !.wait = @ + 1] ELSE copy

Tick ==
  /\ \A r \in Readers : reader[r].phase = "answered" => reader[r].wait < MaxFetch
  /\ Reads!Tick
  /\ reader' = [r \in Readers |-> Waited(reader[r])]
  /\ store' = {Aged(e) : e \in store}
  /\ UNCHANGED version

(* The steps between the call of a read and its return.                    *)
ReadSteps(r) ==
  Detect(r) \/ DetectionFails(r) \/ Answer(r) \/ Arrive(r) \/ Fail(r)

ConnectorNext ==
  \/ \E r \in Readers : Hit(r) \/ Miss(r) \/ ReadSteps(r) \/ Take(r)
  \/ Change
  \/ Tick

ConnectorSpec == ConnectorInit /\ [][ConnectorNext]_connectorVars

-----------------------------------------------------------------------------
ConnectorTypeOK ==
  /\ kind \in Kinds
  /\ host \in Versions
  /\ sap \in Contents
  /\ age \in [Contents -> Nat] /\ age[sap] = 0
  /\ version \in Versions \cup {Unknown}
  /\ \A e \in store :
       /\ Cached /\ e.left \in -1..TTL[kind]
       /\ e = [data |-> e.data, left |-> e.left]
  /\ DOMAIN reader = Readers
  /\ \A r \in Readers :
       /\ reader[r].phase \in {"idle", "detecting", "asking", "answered", "done"}
       /\ reader[r].wait \in 0..MaxFetch
       /\ reader[r] = [phase |-> reader[r].phase, asked |-> reader[r].asked,
                       data |-> reader[r].data, wait |-> reader[r].wait]

(* No entry that may be served is a document that SAP has not held for     *)
(* longer than the answer was under way and the entry has lived, however   *)
(* the readers overlap and overwrite each other's entry.                   *)
BoundedStaleness ==
  \A e \in Servable :
    \E c \in Contents :
      /\ e.data = Reads!Document(c)
      /\ age[c] <= 1 + MaxFetch + (TTL[kind] - e.left)

(* An answer under way was asked of the system that is there, and SAP held *)
(* what it says when it was given.                                         *)
AnswersRecent ==
  \A r \in Readers :
    reader[r].phase = "answered" =>
      /\ reader[r].asked = host
      /\ \E c \in Contents :
           /\ reader[r].data = SAPPayload(kind, host, c)
           /\ age[c] <= 1 + reader[r].wait

ConnectorConsistent == ConnectorTypeOK /\ BoundedStaleness /\ AnswersRecent

(* The connector keeps its promise to the services: what a read returns is *)
(* the document as SAP had it not too long ago, mapped with the field      *)
(* names of the system it was read from, although another reader's failed  *)
(* detection may rename that system while the answer is under way.         *)
ReadsAsPromised == Reads!Spec
=============================================================================
