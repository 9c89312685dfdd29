---------------------------- MODULE DocumentReads ---------------------------
(***************************************************************************)
(* What a connector promises the services that read a document through it  *)
(* (connectors/base.py), whatever it caches and whoever else reads: a read *)
(* ends with nothing, or with the document as SAP had it no longer ago     *)
(* than the document's time to live and the answer's time under way allow. *)
(***************************************************************************)
EXTENDS SAPDocuments

CONSTANTS Readers,    \* the coroutines that read the document
          TTL,        \* by kind of cached document: its time to live in ticks
          MaxFetch    \* bound: ticks an answer of SAP is under way

VARIABLES kind,       \* the kind of the document
          host,       \* the kind of SAP system that is there
          sap,        \* the document in SAP
          age,        \* for each content: how many ticks ago SAP had it last
          reads       \* for each reader: its read, and the data it returned

vars == <<kind, host, sap, age, reads>>

Versions == {"ecc", "s4hana"}

TTLOf(k) == IF k \in DOMAIN TTL THEN TTL[k] ELSE 0
MaxAge == 1 + MaxFetch + TTLOf(kind)

(* Ages are told apart as far as a promise depends on them.                *)
Older(a) == IF a = 0 \/ a > MaxAge THEN a ELSE a + 1

Init ==
  /\ kind \in Kinds
  /\ host \in Versions
  /\ sap \in Contents
  /\ age = [c \in Contents |-> IF c = sap THEN 0 ELSE MaxAge + 1]
  /\ reads = [r \in Readers |-> [status |-> "idle", data |-> NoData]]

(* Somebody changes the document in SAP.                                   *)
Change ==
  /\ \E c \in Contents \ {sap} :
       /\ sap' = c
       /\ age' = [age EXCEPT ![sap] = 1, ![c] = 0]
  /\ UNCHANGED <<kind, host>>

Tick ==
  /\ age' = [c \in Contents |-> Older(age[c])]
  /\ UNCHANGED <<kind, host, sap>>

Document(c) == MapDocument(kind, host, SAPPayload(kind, host, c))

Promised == {NoData} \cup {Document(c) : c \in {c \in Contents : age[c] <= MaxAge}}

Become(r, status, data) ==
  /\ reads' = [reads EXCEPT ![r] = [status |-> status, data |-> data]]
  /\ UNCHANGED <<kind, host, sap, age>>

Begin(r) ==
  /\ reads[r].status = "idle"
  /\ Become(r, "reading", NoData)

Return(r) ==
  /\ reads[r].status \in {"idle", "reading"}
  /\ \E data \in Promised : Become(r, "done", data)

Take(r) ==
  /\ reads[r].status = "done"
  /\ Become(r, "idle", NoData)

Next ==
  \/ \E r \in Readers : Begin(r) \/ Return(r) \/ Take(r)
  \/ Change /\ UNCHANGED reads
  \/ Tick /\ UNCHANGED reads

Spec == Init /\ [][Next]_vars
=============================================================================
