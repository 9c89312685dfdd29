------------------------ MODULE ODataConnectorProofs ------------------------
(***************************************************************************)
(* ODataConnector keeps the promise of DocumentReads, for any number of    *)
(* readers and whatever the times to live are.                             *)
(***************************************************************************)
EXTENDS ODataConnector, TLAPS

USE TTLAssumption, MaxFetchAssumption

(* The promise is stated over the same documents.                          *)
LEMMA SameDocuments ==
  /\ Reads!NoData = NoData
  /\ Reads!Kinds = Kinds
  /\ Reads!Contents = Contents
  /\ \A c : Reads!Document(c) = MapDocument(kind, host, SAPPayload(kind, host, c))
<1>1. Reads!NoData = NoData
  BY DEF Reads!NoData, NoData
<1>2. Reads!Contents = Contents /\ Reads!Kinds = Kinds
  BY DEF Reads!Contents, Contents, Reads!Kinds, Kinds
<1>3. \A k, v : Reads!Fields(k, v) = Fields(k, v)
  BY DEF Reads!Fields, Fields, Reads!InvoiceFields, InvoiceFields,
     Reads!PurchaseOrderFields, PurchaseOrderFields, Reads!SalesOrderFields,
     SalesOrderFields, Reads!StockFields, StockFields, Reads!NoData, NoData
<1>4. ASSUME NEW k, NEW v, NEW p
      PROVE  Reads!MapDocument(k, v, p) = MapDocument(k, v, p)
  <2> DEFINE fields == Fields(k, v)
             given  == {x \in DOMAIN fields : fields[x] \in DOMAIN p}
             always == DOMAIN fields \cap (AmountKeys \cup IdentityKeys)
             mapped == [x \in given \cup always |->
                          IF x \in given THEN p[fields[x]]
                          ELSE IF x \in AmountKeys THEN 0 ELSE ""]
  <2>1. Reads!Fields(k, v) = fields
    BY <1>3
  <2>2. Reads!AmountKeys = AmountKeys /\ Reads!IdentityKeys = IdentityKeys
    BY DEF Reads!AmountKeys, AmountKeys, Reads!IdentityKeys, IdentityKeys
  <2>3. MapDocument(k, v, p) = mapped
    BY DEF MapDocument
  <2>4. Reads!MapDocument(k, v, p) = mapped
    BY <2>1, <2>2, Zenon DEF Reads!MapDocument
  <2> QED
    BY <2>3, <2>4
<1>5. \A k, v, c : Reads!SAPPayload(k, v, c) = SAPPayload(k, v, c)
  BY <1>3 DEF Reads!SAPPayload, SAPPayload, Reads!AmountKeys, AmountKeys,
     Reads!OptionalKeys, OptionalKeys
<1> QED
  BY <1>1, <1>2, <1>4, <1>5 DEF Reads!Document

LEMMA SameDocumentsNext ==
  ASSUME UNCHANGED <<kind, host>>
  PROVE  \A c : Reads!Document(c)' = Reads!Document(c)
  BY DEF Reads!Document

LEMMA TimesToLive ==
  /\ Cached => TTL[kind] \in Nat /\ Reads!MaxAge = 1 + MaxFetch + TTL[kind]
  /\ Reads!MaxAge \in Nat /\ Reads!MaxAge >= 1 + MaxFetch
  BY DEF Cached, Reads!MaxAge, Reads!TTLOf

-----------------------------------------------------------------------------
(* What a reader may be doing.                                             *)
ReaderOK(s) ==
  /\ s.phase \in {"idle", "detecting", "asking", "answered", "done"}
  /\ s.wait \in 0..MaxFetch
  /\ s = [phase |-> s.phase, asked |-> s.asked, data |-> s.data, wait |-> s.wait]

(* What an answer under way says is what SAP had not long ago.             *)
Recent(s) ==
  s.phase = "answered" =>
    /\ s.asked = host
    /\ \E c \in Contents : s.data = SAPPayload(kind, host, c) /\ age[c] <= 1 + s.wait

(* An entry that has just been cached.                                     *)
New(e) ==
  /\ Cached
  /\ e = [data |-> e.data, left |-> TTL[kind]]
  /\ \E c \in Contents : e.data = Reads!Document(c) /\ age[c] <= 1 + MaxFetch

LEMMA StateOK ==
  ASSUME NEW phase \in {"idle", "detecting", "asking", "answered", "done"},
         NEW asked, NEW data
  PROVE  LET s == State(phase, asked, data)
         IN ReaderOK(s) /\ s.phase = phase /\ s.asked = asked /\ s.data = data /\ s.wait = 0
  BY DEF ReaderOK, State

LEMMA StatesOK ==
  /\ ReaderOK(Idle) /\ Idle.phase = "idle"
  /\ ReaderOK(Detecting) /\ Detecting.phase = "detecting"
  /\ \A v : ReaderOK(Asking(v)) /\ Asking(v).phase = "asking"
  /\ \A d : ReaderOK(Done(d)) /\ Done(d).phase = "done" /\ Done(d).data = d
  BY StateOK DEF Idle, Detecting, Asking, Done

(* A step of a reader.                                                     *)
LEMMA ReaderStep ==
  ASSUME ConnectorConsistent, NEW r \in Readers, NEW s, Go(r, s),
         ReaderOK(s), Recent(s),
         UNCHANGED <<kind, host, sap, age>>,
         version' \in Versions \cup {Unknown},
         \A e \in store' : e \in store \/ New(e)
  PROVE  ConnectorConsistent'
<1>1. /\ \A c : Reads!Document(c)' = Reads!Document(c)
      /\ Versions' = Versions
  BY SameDocumentsNext DEF Versions, Reads!Versions
<1>2. /\ DOMAIN reader' = Readers
      /\ reader'[r] = s
      /\ \A q \in Readers \ {r} : reader'[q] = reader[q]
  BY DEF ConnectorConsistent, ConnectorTypeOK, Go
<1>3. \A q \in Readers : ReaderOK(reader'[q]) /\ Recent(reader'[q])
  <2>1. \A q \in Readers : ReaderOK(reader[q]) /\ Recent(reader[q])
    BY DEF ConnectorConsistent, ConnectorTypeOK, AnswersRecent, ReaderOK, Recent
  <2> QED
    BY <1>2, <2>1
<1>4. \A e \in store' : /\ Cached /\ e.left \in -1..TTL[kind]
                        /\ e = [data |-> e.data, left |-> e.left]
  BY TimesToLive DEF ConnectorConsistent, ConnectorTypeOK, New
<1>5. ConnectorTypeOK'
  BY <1>1, <1>2, <1>3, <1>4
     DEF ConnectorConsistent, ConnectorTypeOK, ReaderOK, Cached
<1>6. BoundedStaleness'
  <2>1. SUFFICES ASSUME NEW e \in store', e.left >= 0
                 PROVE  (\E c \in Contents : /\ e.data = Reads!Document(c)
                                             /\ age[c] <= 1 + MaxFetch + (TTL[kind] - e.left))'
    BY DEF BoundedStaleness, Servable
  <2>2. CASE e \in store
    <3>1. \E c \in Contents : /\ e.data = Reads!Document(c)
                              /\ age[c] <= 1 + MaxFetch + (TTL[kind] - e.left)
      BY <2>1, <2>2 DEF ConnectorConsistent, BoundedStaleness, Servable
    <3> QED
      BY <1>1, <3>1
  <2>3. CASE New(e)
    <3>1. PICK c \in Contents : e.data = Reads!Document(c) /\ age[c] <= 1 + MaxFetch
      BY <2>3 DEF New
    <3>2. e.left = TTL[kind] /\ TTL[kind] \in Nat
      BY <2>3, TimesToLive DEF New
    <3>3. age[c] <= 1 + MaxFetch + (TTL[kind] - e.left)
      BY <3>1, <3>2
    <3> QED
      BY <1>1, <3>1, <3>3
  <2> QED
    BY <2>2, <2>3
<1>7. AnswersRecent'
  BY <1>3 DEF AnswersRecent, Recent
<1> QED
  BY <1>5, <1>6, <1>7 DEF ConnectorConsistent

-----------------------------------------------------------------------------
(* A read as its caller sees it, and the reads of DocumentReads.           *)
ReadOf(s) ==
  [status |-> Status(s.phase), data |-> IF s.phase = "done" THEN s.data ELSE NoData]

Abstract == [r \in Readers |-> ReadOf(reader[r])]

LEMMA AbstractStep ==
  ASSUME ConnectorTypeOK, NEW r \in Readers, NEW s, Go(r, s)
  PROVE  Abstract' = [Abstract EXCEPT ![r] = ReadOf(s)]
  BY DEF Abstract, Go, ConnectorTypeOK

(* A step that no caller sees.                                             *)
LEMMA HiddenStep ==
  ASSUME ConnectorTypeOK, NEW r \in Readers, NEW s, Go(r, s),
         ReadOf(s) = ReadOf(reader[r]), UNCHANGED <<kind, host, sap, age>>
  PROVE  UNCHANGED Reads!vars
<1>1. Abstract' = Abstract
  BY AbstractStep DEF Abstract
<1> QED
  BY <1>1 DEF Reads!vars, Abstract, ReadOf

(* A read returns what was promised.                                       *)
LEMMA ReturnStep ==
  ASSUME ConnectorTypeOK, NEW r \in Readers, NEW data, Go(r, Done(data)),
         reader[r].phase # "done", UNCHANGED <<kind, host, sap, age>>,
         \/ data = NoData
         \/ \E c \in Contents : data = Reads!Document(c) /\ age[c] <= Reads!MaxAge
  PROVE  Reads!Next
<1>1. Abstract' = [Abstract EXCEPT ![r] = [status |-> "done", data |-> data]]
  BY AbstractStep, StatesOK DEF ReadOf, Status
<1>2. Abstract[r].status \in {"idle", "reading"}
  BY DEF Abstract, ReadOf, Status, ConnectorTypeOK
<1>3. data \in Reads!Promised
  BY SameDocuments DEF Reads!Promised
<1>4. Reads!Return(r)
  BY <1>1, <1>2, <1>3 DEF Reads!Return, Reads!Become, Abstract, ReadOf
<1> QED
  BY <1>4 DEF Reads!Next

-----------------------------------------------------------------------------
(* Every step keeps the invariant, and is a step or a stutter of the reads.*)
Kept == ConnectorConsistent' /\ (Reads!Next \/ UNCHANGED Reads!vars)

LEMMA HitKept ==
  ASSUME ConnectorConsistent, NEW r \in Readers, Hit(r)
  PROVE  Kept
<1>1. PICK e \in Servable : Go(r, Done(e.data))
  BY DEF Hit
<1>2. ConnectorTypeOK /\ version' \in Versions \cup {Unknown}
  BY DEF ConnectorConsistent, ConnectorTypeOK, Hit, Versions, Reads!Versions
<1>3. ConnectorConsistent'
  BY <1>1, <1>2, StatesOK, ReaderStep DEF Hit, Recent
<1>4. Cached /\ e.left \in -1..TTL[kind] /\ e.left >= 0
  BY <1>2 DEF ConnectorTypeOK, Servable
<1>5. PICK c \in Contents : /\ e.data = Reads!Document(c)
                            /\ age[c] <= 1 + MaxFetch + (TTL[kind] - e.left)
  BY DEF ConnectorConsistent, BoundedStaleness
<1>6. age[c] <= Reads!MaxAge
  BY <1>2, <1>4, <1>5, TimesToLive DEF ConnectorTypeOK
<1>7. Reads!Next
  BY <1>1, <1>2, <1>5, <1>6, ReturnStep DEF Hit
<1> QED
  BY <1>3, <1>7 DEF Kept

LEMMA MissKept ==
  ASSUME ConnectorConsistent, NEW r \in Readers, Miss(r)
  PROVE  Kept
<1>1. ConnectorTypeOK /\ version' \in Versions \cup {Unknown}
  BY DEF ConnectorConsistent, ConnectorTypeOK, Miss, Versions, Reads!Versions
<1> DEFINE s == IF ~ Cached THEN Asking(host)
                ELSE IF version # Unknown THEN Asking(version)
                ELSE Detecting
<1>2. ReaderOK(s) /\ s.phase \in {"asking", "detecting"} /\ Go(r, s)
  BY StatesOK DEF Miss
<1> HIDE DEF s
<1>3. ConnectorConsistent'
  BY <1>1, <1>2, ReaderStep DEF Miss, Recent
<1>4. Abstract' = [Abstract EXCEPT ![r] = [status |-> "reading", data |-> NoData]]
  BY <1>1, <1>2, AbstractStep DEF ReadOf, Status
<1>5. Abstract[r].status = "idle"
  BY DEF Abstract, ReadOf, Status, Miss
<1>6. Reads!Begin(r)
  BY <1>4, <1>5, SameDocuments DEF Reads!Begin, Reads!Become, Abstract, ReadOf, Miss
<1> QED
  BY <1>3, <1>6 DEF Kept, Reads!Next

LEMMA DetectKept ==
  ASSUME ConnectorConsistent, NEW r \in Readers, Detect(r) \/ DetectionFails(r)
  PROVE  Kept
<1>1. ConnectorTypeOK
  BY DEF ConnectorConsistent
<1>2. PICK v \in Versions : Go(r, Asking(v)) /\ version' = v
  BY <1>1 DEF Detect, DetectionFails, ConnectorTypeOK, Versions, Reads!Versions
<1>3. /\ reader[r].phase = "detecting"
      /\ UNCHANGED <<kind, host, sap, age, store>>
  BY DEF Detect, DetectionFails
<1>4. ConnectorConsistent'
  BY <1>2, <1>3, StatesOK, ReaderStep DEF Recent
<1>5. UNCHANGED Reads!vars
  BY <1>1, <1>2, <1>3, StatesOK, HiddenStep DEF ReadOf, Status
<1> QED
  BY <1>4, <1>5 DEF Kept

LEMMA AnswerKept ==
  ASSUME ConnectorConsistent, NEW r \in Readers, Answer(r)
  PROVE  Kept
<1>1. ConnectorTypeOK /\ version' \in Versions \cup {Unknown}
  BY DEF ConnectorConsistent, ConnectorTypeOK, Answer, Versions, Reads!Versions
<1> DEFINE s == State("answered", host, SAPPayload(kind, host, sap))
<1>2. Go(r, s) /\ reader[r].phase = "asking"
  BY DEF Answer
<1>3. /\ ReaderOK(s) /\ s.phase = "answered" /\ s.asked = host
      /\ s.data = SAPPayload(kind, host, sap) /\ s.wait = 0
  BY StateOK
<1> HIDE DEF s
<1>5. Recent(s)
  BY <1>1, <1>3 DEF Recent, ConnectorTypeOK
<1>6. ConnectorConsistent'
  BY <1>1, <1>2, <1>3, <1>5, ReaderStep DEF Answer
<1>7. UNCHANGED Reads!vars
  BY <1>1, <1>2, <1>3, HiddenStep DEF ReadOf, Status, Answer
<1> QED
  BY <1>6, <1>7 DEF Kept

LEMMA ArriveKept ==
  ASSUME ConnectorConsistent, NEW r \in Readers, Arrive(r)
  PROVE  Kept
<1>1. ConnectorTypeOK /\ version' \in Versions \cup {Unknown}
  BY DEF ConnectorConsistent, ConnectorTypeOK, Arrive, Versions, Reads!Versions
<1>2. /\ reader[r].phase = "answered" /\ reader[r].wait \in 0..MaxFetch
      /\ reader[r].asked = host
  BY <1>1 DEF Arrive, ConnectorTypeOK, ConnectorConsistent, AnswersRecent
<1>3. PICK c \in Contents : /\ reader[r].data = SAPPayload(kind, host, c)
                            /\ age[c] <= 1 + reader[r].wait
  BY <1>2 DEF ConnectorConsistent, AnswersRecent
<1> DEFINE data == MapDocument(kind, reader[r].asked, reader[r].data)
<1>4. data = Reads!Document(c)
  BY <1>2, <1>3, SameDocuments
<1>5. /\ Go(r, Done(data))
      /\ store' = IF Cached THEN {Entry(data)} ELSE store
  BY DEF Arrive
<1> HIDE DEF data
<1>6. age[c] \in Nat /\ age[c] <= 1 + MaxFetch /\ age[c] <= Reads!MaxAge
  BY <1>1, <1>2, <1>3, TimesToLive DEF ConnectorTypeOK
<1>7. \A e \in store' : e \in store \/ New(e)
  BY <1>4, <1>5, <1>6 DEF New, Entry
<1>8. ConnectorConsistent'
  BY <1>1, <1>5, <1>7, StatesOK, ReaderStep DEF Arrive, Recent
<1>9. Reads!Next
  BY <1>1, <1>2, <1>4, <1>5, <1>6, ReturnStep DEF Arrive
<1> QED
  BY <1>8, <1>9 DEF Kept

LEMMA FailKept ==
  ASSUME ConnectorConsistent, NEW r \in Readers, Fail(r)
  PROVE  Kept
<1>1. ConnectorTypeOK /\ version' \in Versions \cup {Unknown}
  BY DEF ConnectorConsistent, ConnectorTypeOK, Fail, Versions, Reads!Versions
<1>2. ConnectorConsistent'
  BY <1>1, StatesOK, ReaderStep DEF Fail, Recent
<1>3. Reads!Next
  BY <1>1, ReturnStep DEF Fail
<1> QED
  BY <1>2, <1>3 DEF Kept

LEMMA TakeKept ==
  ASSUME ConnectorConsistent, NEW r \in Readers, Take(r)
  PROVE  Kept
<1>1. ConnectorTypeOK /\ version' \in Versions \cup {Unknown}
  BY DEF ConnectorConsistent, ConnectorTypeOK, Take, Versions, Reads!Versions
<1>2. ConnectorConsistent'
  BY <1>1, StatesOK, ReaderStep DEF Take, Recent
<1>3. Abstract' = [Abstract EXCEPT ![r] = [status |-> "idle", data |-> NoData]]
  BY <1>1, StatesOK, AbstractStep DEF ReadOf, Status, Take
<1>4. Abstract[r].status = "done"
  BY DEF Abstract, ReadOf, Status, Take
<1>5. Reads!Take(r)
  BY <1>3, <1>4, SameDocuments DEF Reads!Take, Reads!Become, Abstract, ReadOf, Take
<1> QED
  BY <1>2, <1>5 DEF Kept, Reads!Next

(* A change makes nothing older than the shortest promise.                 *)
LEMMA ChangeKept ==
  ASSUME ConnectorConsistent, Change
  PROVE  Kept
<1>1. ConnectorTypeOK /\ UNCHANGED <<kind, host, version, store, reader>>
  BY DEF ConnectorConsistent, Change, Reads!Change
<1>2. PICK c \in Contents : c # sap /\ sap' = c /\ age' = [age EXCEPT ![sap] = 1, ![c] = 0]
  BY SameDocuments DEF Change, Reads!Change
<1>3. /\ age' \in [Contents -> Nat] /\ age'[sap'] = 0
      /\ \A x \in Contents : age'[x] <= 1 \/ age'[x] <= age[x]
  BY <1>1, <1>2 DEF ConnectorTypeOK
<1>4. /\ \A x : Reads!Document(x)' = Reads!Document(x)
      /\ Versions' = Versions
  BY <1>1, SameDocumentsNext DEF Versions, Reads!Versions
<1>5. ConnectorTypeOK'
  BY <1>1, <1>2, <1>3, <1>4 DEF ConnectorTypeOK, Cached
<1>6. BoundedStaleness'
  <2>1. SUFFICES ASSUME NEW e \in store, e.left >= 0
                 PROVE  (\E x \in Contents : /\ e.data = Reads!Document(x)
                                             /\ age[x] <= 1 + MaxFetch + (TTL[kind] - e.left))'
    BY <1>1 DEF BoundedStaleness, Servable
  <2>2. PICK x \in Contents : /\ e.data = Reads!Document(x)
                              /\ age[x] <= 1 + MaxFetch + (TTL[kind] - e.left)
    BY <2>1 DEF ConnectorConsistent, BoundedStaleness, Servable
  <2>3. e.left \in -1..TTL[kind] /\ TTL[kind] \in Nat
    BY <1>1, TimesToLive DEF ConnectorTypeOK
  <2>4. age'[x] <= 1 + MaxFetch + (TTL[kind] - e.left)
    BY <1>1, <1>3, <2>2, <2>3 DEF ConnectorTypeOK
  <2> QED
    BY <1>1, <1>4, <2>2, <2>4
<1>7. AnswersRecent'
  <2>1. SUFFICES ASSUME NEW r \in Readers, reader[r].phase = "answered"
                 PROVE  (/\ reader[r].asked = host
                         /\ \E x \in Contents :
                              /\ reader[r].data = SAPPayload(kind, host, x)
                              /\ age[x] <= 1 + reader[r].wait)'
    BY <1>1 DEF AnswersRecent
  <2>2. /\ reader[r].asked = host /\ reader[r].wait \in 0..MaxFetch
        /\ \E x \in Contents : /\ reader[r].data = SAPPayload(kind, host, x)
                               /\ age[x] <= 1 + reader[r].wait
    BY <1>1, <2>1 DEF ConnectorConsistent, ConnectorTypeOK, AnswersRecent
  <2>3. PICK x \in Contents : /\ reader[r].data = SAPPayload(kind, host, x)
                              /\ age[x] <= 1 + reader[r].wait
    BY <2>2
  <2>4. age'[x] <= 1 + reader[r].wait
    BY <1>1, <1>3, <2>2, <2>3 DEF ConnectorTypeOK
  <2> QED
    BY <1>1, <2>2, <2>3, <2>4
<1>8. Reads!Next
  BY <1>1 DEF Reads!Next, Change
<1> QED
  BY <1>5, <1>6, <1>7, <1>8 DEF Kept, ConnectorConsistent

(* With every tick what is cached may be one tick older, and so what is    *)
(* under way.                                                              *)
LEMMA TickKept ==
  ASSUME ConnectorConsistent, Tick
  PROVE  Kept
<1>1. /\ ConnectorTypeOK
      /\ UNCHANGED <<kind, host, sap, version>>
  BY DEF ConnectorConsistent, Tick, Reads!Tick
<1>2. age' = [c \in Contents |-> Reads!Older(age[c])]
  BY SameDocuments DEF Tick, Reads!Tick
<1>3. /\ age' \in [Contents -> Nat] /\ age'[sap] = 0
      /\ \A x \in Contents : age'[x] <= age[x] + 1
  BY <1>1, <1>2 DEF Reads!Older, ConnectorTypeOK
<1>4. /\ \A x : Reads!Document(x)' = Reads!Document(x)
      /\ Versions' = Versions
  BY <1>1, SameDocumentsNext DEF Versions, Reads!Versions
<1>5. ASSUME NEW r \in Readers
      PROVE  /\ ReaderOK(reader[r]) /\ ReaderOK(reader'[r])
             /\ reader'[r].phase = reader[r].phase
             /\ reader'[r].asked = reader[r].asked
             /\ reader'[r].data = reader[r].data
             /\ reader[r].phase = "answered" => reader'[r].wait = reader[r].wait + 1
  <2>1. ReaderOK(reader[r])
    BY <1>1 DEF ConnectorTypeOK, ReaderOK
  <2>2. reader'[r] = Waited(reader[r])
    BY DEF Tick
  <2>3. CASE reader[r].phase # "answered"
    BY <2>1, <2>2, <2>3 DEF Waited
  <2>4. CASE reader[r].phase = "answered"
    <3>1. reader'[r] = [reader[r] EXCEPT !.wait = reader[r].wait + 1]
      BY <2>2, <2>4 DEF Waited
    <3>2. reader[r] = [phase |-> reader[r].phase, asked |-> reader[r].asked,
                       data |-> reader[r].data, wait |-> reader[r].wait]
      BY <2>1 DEF ReaderOK
    <3>3. reader'[r] = [phase |-> reader[r].phase, asked |-> reader[r].asked,
                        data |-> reader[r].data, wait |-> reader[r].wait + 1]
      BY <3>1, <3>2
    <3>4. reader[r].wait \in 0..MaxFetch /\ reader[r].wait < MaxFetch
      BY <2>1, <2>4 DEF ReaderOK, Tick
    <3> QED
      BY <2>1, <2>4, <3>3, <3>4 DEF ReaderOK
  <2> QED
    BY <2>3, <2>4
<1>6. ASSUME NEW e \in store'
      PROVE  /\ Cached /\ e.left \in -1..TTL[kind]
             /\ e = [data |-> e.data, left |-> e.left]
             /\ e.left >= 0 =>
                  \E f \in store : /\ f.left >= 0 /\ f.data = e.data
                                   /\ f.left = e.left + 1 /\ f.left \in -1..TTL[kind]
  <2>1. PICK f \in store : e = Aged(f)
    BY DEF Tick
  <2>2. /\ Cached /\ f.left \in -1..TTL[kind]
        /\ f = [data |-> f.data, left |-> f.left]
        /\ TTL[kind] \in Nat
    BY <1>1, TimesToLive DEF ConnectorTypeOK
  <2>3. CASE f.left < 0
    BY <2>1, <2>2, <2>3 DEF Aged
  <2>4. CASE f.left >= 0
    <3>1. e = [f EXCEPT !.left = f.left - 1]
      BY <2>1, <2>4 DEF Aged
    <3>2. e = [data |-> f.data, left |-> f.left - 1]
      BY <2>2, <3>1
    <3> QED
      BY <2>2, <2>4, <3>2
  <2> QED
    BY <2>2, <2>3, <2>4
<1>7. ConnectorTypeOK'
  <2>1. DOMAIN reader' = Readers
    BY DEF Tick
  <2> QED
    BY <1>1, <1>3, <1>4, <1>5, <1>6, <2>1 DEF ConnectorTypeOK, Cached, ReaderOK
<1>8. BoundedStaleness'
  <2>1. SUFFICES ASSUME NEW e \in store', e.left >= 0
                 PROVE  (\E x \in Contents : /\ e.data = Reads!Document(x)
                                             /\ age[x] <= 1 + MaxFetch + (TTL[kind] - e.left))'
    BY DEF BoundedStaleness, Servable
  <2>2. PICK f \in store : /\ f.left >= 0 /\ f.data = e.data
                           /\ f.left = e.left + 1 /\ f.left \in -1..TTL[kind]
    BY <1>6, <2>1
  <2>3. PICK x \in Contents : /\ f.data = Reads!Document(x)
                              /\ age[x] <= 1 + MaxFetch + (TTL[kind] - f.left)
    BY <2>2 DEF ConnectorConsistent, BoundedStaleness, Servable
  <2>4. TTL[kind] \in Nat /\ e.left \in -1..TTL[kind]
    BY <1>6, TimesToLive
  <2>5. age'[x] <= 1 + MaxFetch + (TTL[kind] - e.left)
    BY <1>1, <1>3, <2>2, <2>3, <2>4 DEF ConnectorTypeOK
  <2> QED
    BY <1>1, <1>4, <2>2, <2>3, <2>5
<1>9. AnswersRecent'
  <2>1. SUFFICES ASSUME NEW r \in Readers, reader'[r].phase = "answered"
                 PROVE  (/\ reader[r].asked = host
                         /\ \E x \in Contents :
                              /\ reader[r].data = SAPPayload(kind, host, x)
                              /\ age[x] <= 1 + reader[r].wait)'
    BY DEF AnswersRecent
  <2>2. PICK x \in Contents : /\ reader[r].asked = host
                              /\ reader[r].data = SAPPayload(kind, host, x)
                              /\ age[x] <= 1 + reader[r].wait
    BY <1>5, <2>1 DEF ConnectorConsistent, AnswersRecent
  <2>3. age'[x] <= 1 + reader'[r].wait
    <3>1. reader[r].wait \in 0..MaxFetch /\ reader'[r].wait = reader[r].wait + 1
      BY <1>5, <2>1 DEF ReaderOK
    <3>2. age[x] \in Nat /\ age'[x] \in Nat /\ age'[x] <= age[x] + 1
      BY <1>1, <1>3 DEF ConnectorTypeOK
    <3> QED
      BY <2>2, <3>1, <3>2
  <2> QED
    BY <1>1, <1>5, <2>2, <2>3
<1>10. Reads!Next
  <2>1. Abstract' = Abstract
    BY <1>5 DEF Abstract, ReadOf
  <2> QED
    BY <2>1 DEF Tick, Reads!Next, Abstract, ReadOf
<1> QED
  BY <1>7, <1>8, <1>9, <1>10 DEF Kept, ConnectorConsistent

-----------------------------------------------------------------------------
LEMMA InitReads == ConnectorInit => ConnectorConsistent /\ Reads!Init
<1> SUFFICES ASSUME ConnectorInit PROVE ConnectorConsistent /\ Reads!Init
  OBVIOUS
<1>1. \A r \in Readers : ReaderOK(reader[r]) /\ reader[r].phase = "idle"
  BY StatesOK DEF ConnectorInit
<1>2. ConnectorTypeOK
  BY <1>1, TimesToLive DEF ConnectorInit, ConnectorTypeOK, ReaderOK
<1>3. BoundedStaleness /\ AnswersRecent
  BY <1>1 DEF ConnectorInit, BoundedStaleness, Servable, AnswersRecent
<1>4. Abstract = [r \in Readers |-> [status |-> "idle", data |-> NoData]]
  BY <1>1 DEF Abstract, ReadOf, Status
<1>5. Reads!Init
  BY <1>4, SameDocuments DEF ConnectorInit, Reads!Init, Abstract, ReadOf, Versions
<1> QED
  BY <1>2, <1>3, <1>5 DEF ConnectorConsistent

LEMMA NextKept == ConnectorConsistent /\ [ConnectorNext]_connectorVars => Kept
<1> SUFFICES ASSUME ConnectorConsistent, [ConnectorNext]_connectorVars PROVE Kept
  OBVIOUS
<1>1. CASE \E r \in Readers : Hit(r) \/ Miss(r) \/ ReadSteps(r) \/ Take(r)
  BY <1>1, HitKept, MissKept, DetectKept, AnswerKept, ArriveKept, FailKept, TakeKept
     DEF ReadSteps
<1>2. CASE UNCHANGED connectorVars
  <2>1. /\ UNCHANGED <<kind, host, sap, age, version, store, reader>>
        /\ \A c : Reads!Document(c)' = Reads!Document(c)
    BY <1>2, SameDocumentsNext DEF connectorVars
  <2>2. ConnectorConsistent'
    BY <2>1 DEF ConnectorConsistent, ConnectorTypeOK, BoundedStaleness, AnswersRecent,
       Servable, Cached, Versions, Reads!Versions
  <2> QED
    BY <2>1, <2>2 DEF Kept, Reads!vars
<1> QED
  BY <1>1, <1>2, ChangeKept, TickKept DEF ConnectorNext

(* Entries that may be served and answers under way are as young as the    *)
(* times to live and the time under way say.                               *)
THEOREM ConnectorAlwaysConsistent == ConnectorSpec => []ConnectorConsistent
<1>1. ConnectorInit => ConnectorConsistent
  BY InitReads
<1>2. ConnectorConsistent /\ [ConnectorNext]_connectorVars => ConnectorConsistent'
  BY NextKept DEF Kept
<1> QED
  BY <1>1, <1>2, PTL DEF ConnectorSpec

(* A read that has ended returns nothing or a document that SAP may hold,  *)
(* mapped for the system that is there: it is so for DocumentReads, and    *)
(* the connector takes its steps.                                          *)
ReturnsDocuments ==
  \A r \in Readers :
    reader[r].phase = "done" =>
      reader[r].data = NoData \/ \E c \in Contents : reader[r].data = Reads!Document(c)

LEMMA ReadsReturnDocuments == ConnectorSpec => []ReturnsDocuments
<1> DEFINE OK(s) == s.status = "done" =>
                      s.data = NoData \/ \E c \in Contents : s.data = Reads!Document(c)
           Inv == \A r \in Readers : OK(Abstract[r])
<1>1. Inv <=> ReturnsDocuments
  <2>1. ASSUME NEW r \in Readers
        PROVE  OK(Abstract[r]) <=>
                 (reader[r].phase = "done" =>
                    reader[r].data = NoData \/ \E c \in Contents : reader[r].data = Reads!Document(c))
    <3>1. Abstract[r].status = Status(reader[r].phase)
      BY DEF Abstract, ReadOf
    <3>2. reader[r].phase = "done" => Abstract[r].data = reader[r].data
      BY DEF Abstract, ReadOf
    <3> QED
      BY <3>1, <3>2 DEF Status
  <2> HIDE DEF OK
  <2> QED
    BY <2>1 DEF ReturnsDocuments
<1>2. ConnectorInit => Inv
  <2>1. ConnectorInit => \A r \in Readers : Abstract[r].status = "idle"
    BY StatesOK DEF ConnectorInit, Abstract, ReadOf, Status
  <2> QED
    BY <2>1
<1>3. ASSUME Inv, ConnectorConsistent, [ConnectorNext]_connectorVars
      PROVE  Inv'
  <2>1. Reads!Next \/ UNCHANGED Reads!vars
    BY <1>3, NextKept DEF Kept
  <2>2. /\ UNCHANGED <<kind, host>>
        /\ \A c : Reads!Document(c)' = Reads!Document(c)
    <3>1. UNCHANGED <<kind, host>>
      BY <2>1 DEF Reads!Next, Reads!vars, Reads!Begin, Reads!Return, Reads!Take,
         Reads!Become, Reads!Change, Reads!Tick
    <3> QED
      BY <3>1, SameDocumentsNext
  <2>3. CASE Abstract' = Abstract
    BY <1>3, <2>2, <2>3
  <2>4. ASSUME NEW r \in Readers, NEW status, NEW data, Reads!Become(r, status, data),
               status = "done" => data \in Reads!Promised
        PROVE  Inv'
    <3>1. Abstract' = [Abstract EXCEPT ![r] = [status |-> status, data |-> data]]
      BY <2>4 DEF Reads!Become, Abstract, ReadOf
    <3>2. status = "done" => data = NoData \/ \E c \in Contents : data = Reads!Document(c)
      BY <2>4, SameDocuments DEF Reads!Promised
    <3>3. \A q \in Readers :
            Abstract'[q] = IF q = r THEN [status |-> status, data |-> data] ELSE Abstract[q]
      BY <3>1 DEF Abstract
    <3> HIDE DEF Abstract
    <3>4. \A q \in Readers : OK(Abstract[q])'
      BY <1>3, <2>2, <3>2, <3>3
    <3> QED
      BY <3>4
  <2>5. CASE Reads!Next
    <3>1. ASSUME NEW r \in Readers, Reads!Begin(r) PROVE Inv'
      BY <2>4, <3>1 DEF Reads!Begin
    <3>2. ASSUME NEW r \in Readers, Reads!Return(r) PROVE Inv'
      BY <2>4, <3>2 DEF Reads!Return
    <3>3. ASSUME NEW r \in Readers, Reads!Take(r) PROVE Inv'
      BY <2>4, <3>3 DEF Reads!Take
    <3>4. (Reads!Change \/ Reads!Tick) /\ Abstract' = Abstract => Inv'
      BY <2>3
    <3> HIDE DEF Inv
    <3> QED
      BY <2>5, <3>1, <3>2, <3>3, <3>4 DEF Reads!Next, Abstract, ReadOf
  <2>6. CASE UNCHANGED Reads!vars
    BY <2>3, <2>6 DEF Reads!vars, Abstract, ReadOf
  <2> QED
    BY <2>1, <2>5, <2>6
<1> HIDE DEF Inv
<1> QED
  BY <1>1, <1>2, <1>3, ConnectorAlwaysConsistent, PTL DEF ConnectorSpec

(* The connector refines DocumentReads.                                    *)
THEOREM ConnectorRefinesReads == ConnectorSpec => ReadsAsPromised
<1>1. ConnectorInit => Reads!Init
  BY InitReads
<1>2. ConnectorConsistent /\ [ConnectorNext]_connectorVars => [Reads!Next]_(Reads!vars)
  BY NextKept DEF Kept
<1> QED
  BY <1>1, <1>2, ConnectorAlwaysConsistent, PTL DEF ConnectorSpec, ReadsAsPromised, Reads!Spec
=============================================================================
