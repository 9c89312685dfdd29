--------------------------- MODULE AccountsProofs ---------------------------
(***************************************************************************)
(* Accounts for any number of accounts, workers and calls.                 *)
(***************************************************************************)
EXTENDS Accounts, FiniteSetTheorems, TLAPS

USE FirstAdminAssumption, RolesAssumption, WorkersAssumption, MaxRestartsAssumption

LEMMA NoUserIsNoAccount == NoUser \notin Accounts
  BY DEF NoUser, Accounts

(* A new id is of nobody, and no token names it.                           *)
LEMMA NewIdIsFresh ==
  ASSUME SomeFresh
  PROVE  NewId \in Ids /\ Fresh(NewId)
  BY DEF SomeFresh, NewId

LEMMA PlentyIsSome ==
  ASSUME Plenty
  PROVE  SomeFresh
<1>1. SUFFICES ASSUME ~ SomeFresh PROVE FALSE
  OBVIOUS
<1>2. {id \in Ids : Fresh(id)} = {}
  BY <1>1 DEF SomeFresh
<1>3. Cardinality({id \in Ids : Fresh(id)}) = 0
  BY <1>2, FS_EmptySet
<1>4. Cardinality(Workers) \in Nat
  BY FS_CardinalityType
<1> QED
  BY <1>3, <1>4 DEF Plenty

LEMMA UserType ==
  ASSUME NEW store \in Workers \cup {Shared}, NEW email \in Emails, NEW role \in DOMAIN Level
  PROVE  /\ User(store, email, role) \in Accounts
         /\ User(store, email, role).store = store
         /\ User(store, email, role).email = email
         /\ User(store, email, role).role = role
  BY DEF User, Accounts

LEMMA UserActive ==
  ASSUME NEW store, NEW email, NEW role
  PROVE  User(store, email, role).active
  BY DEF User

LEMMA RolesHaveLevels == "admin" \in DOMAIN Level /\ Roles \subseteq DOMAIN Level
  BY DEF Level

LEMMA SeedType ==
  /\ Seed \in Accounts
  /\ Seed.store = Shared /\ Seed.email = FirstAdmin /\ Seed.role = "admin"
  BY UserType, RolesHaveLevels DEF Seed

LEMMA StoreOfType ==
  ASSUME NEW w \in Workers
  PROVE  StoreOf(w) \in Workers \cup {Shared}
  BY DEF StoreOf

-----------------------------------------------------------------------------
(* What the accounts say about e-mails and stores.                         *)

(* Nothing changes but who is active.                                      *)
SameAccounts ==
  /\ users' \in [Ids -> Accounts \cup {NoUser}]
  /\ database' = database
  /\ \A id \in Ids :
       /\ Exists(id)' <=> Exists(id)
       /\ users'[id].store = users[id].store
       /\ users'[id].email = users[id].email
       /\ users'[id].role = users[id].role

LEMMA SameViews ==
  ASSUME SameAccounts
  PROVE  /\ \A id \in Ids : \A store : InStore(id, store)' <=> InStore(id, store)
         /\ \A store, email : EmailTaken(store, email)' <=> EmailTaken(store, email)
         /\ \A store : AdminOf(store)' <=> AdminOf(store)
         /\ UniqueEmails => UniqueEmails'
         /\ AdminFirst => AdminFirst'
<1>1. \A id \in Ids : \A store : InStore(id, store)' <=> InStore(id, store)
  BY DEF SameAccounts, InStore
<1>2. \A store, email : EmailTaken(store, email)' <=> EmailTaken(store, email)
  BY <1>1 DEF SameAccounts, EmailTaken
<1>3. \A store : AdminOf(store)' <=> AdminOf(store)
  BY <1>1 DEF SameAccounts, AdminOf
<1>4. UniqueEmails => UniqueEmails'
  BY DEF SameAccounts, UniqueEmails
<1>5. AdminFirst => AdminFirst'
  BY <1>3 DEF SameAccounts, AdminFirst
<1> QED
  BY <1>1, <1>2, <1>3, <1>4, <1>5

LEMMA UnchangedIsSame ==
  ASSUME TypeOK, UNCHANGED <<database, users>>
  PROVE  SameAccounts
  BY DEF SameAccounts, TypeOK, Exists

LEMMA DeactivatedIsSame ==
  ASSUME TypeOK, NEW id \in Ids, Exists(id), Deactivated(id), database' = database
  PROVE  SameAccounts
<1> DEFINE u == [users[id] EXCEPT !.active = FALSE]
<1>1. users[id] \in Accounts
  BY DEF TypeOK, Exists
<1>2. /\ u \in Accounts
      /\ u.store = users[id].store /\ u.email = users[id].email
      /\ u.role = users[id].role
  BY <1>1 DEF Accounts
<1>3. users' = [users EXCEPT ![id] = u]
  BY DEF Deactivated
<1> HIDE DEF u
<1>4. u # NoUser
  BY <1>2, NoUserIsNoAccount
<1> QED
  BY <1>2, <1>3, <1>4 DEF SameAccounts, TypeOK, Exists

(* An account is stored whose e-mail was free.                             *)
LEMMA GrownViews ==
  ASSUME TypeOK, UniqueEmails, AdminFirst,
         NEW id \in Ids, NEW user \in Accounts, Store(id, user),
         ~ Exists(id), ~ EmailTaken(user.store, user.email), database' = database,
         user.store \in IF database THEN {Shared} ELSE Workers,
         AdminOf(user.store) \/ (user.email = FirstAdmin /\ user.role = "admin")
  PROVE  /\ users' \in [Ids -> Accounts \cup {NoUser}]
         /\ \A j \in Ids : \A store : InStore(j, store) => InStore(j, store)'
         /\ \A j \in Ids : \A store :
              InStore(j, store)' => InStore(j, store) \/ (j = id /\ store = user.store)
         /\ \A j \in Ids : Exists(j)' => Exists(j) \/ j = id
         /\ \A store, email : EmailTaken(store, email) => EmailTaken(store, email)'
         /\ \A store, email :
              EmailTaken(store, email)' =>
                EmailTaken(store, email) \/ (store = user.store /\ email = user.email)
         /\ \A store : AdminOf(store) => AdminOf(store)'
         /\ AdminOf(user.store)'
         /\ UniqueEmails'
         /\ AdminFirst'
<1>1. users' \in [Ids -> Accounts \cup {NoUser}]
  BY DEF TypeOK, Store
<1>2. /\ users'[id] = user /\ Exists(id)'
      /\ \A j \in Ids \ {id} : users'[j] = users[j] /\ (Exists(j)' <=> Exists(j))
  BY NoUserIsNoAccount DEF TypeOK, Store, Exists
<1>3. /\ \A j \in Ids : \A store : InStore(j, store) => InStore(j, store)'
      /\ \A j \in Ids : \A store :
           InStore(j, store)' => InStore(j, store) \/ (j = id /\ store = user.store)
  BY <1>2 DEF InStore
<1>4. \A store, email : EmailTaken(store, email) => EmailTaken(store, email)'
  BY <1>2 DEF EmailTaken, InStore
<1>5. \A store, email :
        EmailTaken(store, email)' =>
          EmailTaken(store, email) \/ (store = user.store /\ email = user.email)
  BY <1>2 DEF EmailTaken, InStore
<1>6. \A store : AdminOf(store) => AdminOf(store)'
  BY <1>2 DEF AdminOf, InStore
<1>7. AdminOf(user.store)'
  BY <1>2, <1>6 DEF AdminOf, InStore
<1>8. UniqueEmails'
  <2>1. SUFFICES ASSUME NEW j \in Ids, NEW k \in Ids, Exists(j)', Exists(k)',
                        users'[j].store = users'[k].store,
                        users'[j].email = users'[k].email
                 PROVE  j = k
    BY DEF UniqueEmails
  <2>2. CASE j # id /\ k # id
    BY <1>2, <2>1, <2>2 DEF UniqueEmails
  <2>3. CASE j = id /\ k # id
    BY <1>2, <2>1, <2>3 DEF EmailTaken, InStore
  <2>4. CASE j # id /\ k = id
    BY <1>2, <2>1, <2>4 DEF EmailTaken, InStore
  <2> QED
    BY <2>2, <2>3, <2>4
<1>9. AdminFirst'
  <2>1. SUFFICES ASSUME NEW j \in Ids, Exists(j)'
                 PROVE  (/\ users[j].store \in IF database THEN {Shared} ELSE Workers
                         /\ AdminOf(users[j].store))'
    BY DEF AdminFirst
  <2>2. CASE j = id
    BY <1>2, <1>7, <2>2 DEF AdminOf, InStore
  <2>3. CASE j # id
    <3>1. users'[j] = users[j] /\ Exists(j)
      BY <1>2, <2>1, <2>3
    <3>2. AdminOf(users[j].store) /\ users[j].store \in IF database THEN {Shared} ELSE Workers
      BY <3>1 DEF AdminFirst
    <3> QED
      BY <1>2, <3>1, <3>2 DEF AdminOf, InStore
  <2> QED
    BY <2>2, <2>3
<1> QED
  BY <1>1, <1>2, <1>3, <1>4, <1>5, <1>6, <1>7, <1>8, <1>9

-----------------------------------------------------------------------------
(* What a call's state has to do with its phase.                           *)
LEMMA CallShapes ==
  ASSUME NEW s \in CallStates
  PROVE  /\ s.phase \in {"idle", "authenticated", "checked", "inserted", "deactivating"}
         /\ s.phase = "authenticated" => s.worker \in Workers /\ s.id \in Ids /\ s.user \in Accounts
         /\ s.phase = "checked" => s.worker \in Workers /\ s.user \in Accounts
         /\ s.phase = "inserted" => s.worker \in Workers /\ s.id \in Ids /\ s.user \in Accounts
         /\ s.phase = "deactivating" => s.worker \in Workers /\ s.id \in Ids
  BY DEF CallStates, Idle

LEMMA WorkerShapes ==
  ASSUME NEW s \in WorkerStates
  PROVE  /\ s.phase \in {"down", "up", "seeding", "inserted"}
         /\ s.phase = "inserted" => s.worker \in Workers /\ s.id \in Ids /\ s.user = Seed
  BY DEF WorkerStates, Down, Up

(* A step that changes no account but who is active, and no worker.        *)
LEMMA SameStep ==
  ASSUME Consistent, SameAccounts, UNCHANGED <<worker, restarts>>,
         tokens' \subseteq [sub : Ids, type : {"access", "refresh"}],
         \A t \in tokens' : t \in tokens \/ Exists(t.sub),
         call' \in [Calls -> CallStates],
         \A d \in Calls : CallInv(call'[d]),
         CallsApart'
  PROVE  Consistent'
<1> USE DEF Consistent
<1>1. TypeOK'
  BY DEF TypeOK, SameAccounts
<1>2. /\ \A id \in Ids : \A store : InStore(id, store)' <=> InStore(id, store)
      /\ \A store, email : EmailTaken(store, email)' <=> EmailTaken(store, email)
      /\ \A store : AdminOf(store)' <=> AdminOf(store)
      /\ UniqueEmails' /\ AdminFirst'
  BY SameViews
<1>3. \A w \in Workers : StoreOf(w)' = StoreOf(w)
  BY DEF StoreOf, SameAccounts
<1>4. FirstAdminSeeded'
  <2>1. SUFFICES ASSUME NEW w \in Workers, worker'[w].phase = "up"
                 PROVE  AdminOf(StoreOf(w))'
    BY DEF FirstAdminSeeded
  <2>2. AdminOf(StoreOf(w))
    BY <2>1 DEF FirstAdminSeeded
  <2> QED
    BY <1>2, <1>3, <2>2 DEF AdminOf
<1>5. \A w \in Workers : WorkerInv(w)'
  <2>1. SUFFICES ASSUME NEW w \in Workers PROVE WorkerInv(w)'
    OBVIOUS
  <2>2. WorkerInv(w) /\ worker[w] \in WorkerStates /\ worker'[w] = worker[w]
    BY DEF TypeOK
  <2>3. worker[w].phase = "inserted" => Pending(worker[w])'
    BY <1>2, <2>2, WorkerShapes DEF WorkerInv, Pending, SameAccounts
  <2> QED
    BY <1>2, <2>2, <2>3 DEF WorkerInv, SameAccounts
<1>6. OneSeeds'
  BY DEF OneSeeds
<1>7. \A d \in Calls : CallInv(call[d])'
  <2>1. SUFFICES ASSUME NEW d \in Calls PROVE CallInv(call[d])'
    OBVIOUS
  <2>2. call'[d] \in CallStates /\ CallInv(call'[d])
    OBVIOUS
  <2>3. call'[d].phase = "inserted" => Pending(call[d])'
    BY <1>2, <2>2, CallShapes DEF CallInv, Pending, SameAccounts
  <2> QED
    BY <1>2, <2>2, <2>3, CallShapes DEF CallInv, SameAccounts
<1> QED
  BY <1>1, <1>2, <1>4, <1>5, <1>6, <1>7

(* One call goes on.                                                       *)
LEMMA OneCall ==
  ASSUME Consistent, NEW c \in Calls, NEW s \in CallStates,
         call' = [call EXCEPT ![c] = s], CallInv(s),
         s.phase = "inserted" =>
           \A d \in Calls \ {c} : call[d].phase = "inserted" =>
             s.id # call[d].id /\ s.user.email # call[d].user.email
  PROVE  /\ call' \in [Calls -> CallStates]
         /\ \A d \in Calls : CallInv(call'[d])
         /\ CallsApart'
<1>1. call \in [Calls -> CallStates]
  BY DEF Consistent, TypeOK
<1>2. /\ call' \in [Calls -> CallStates]
      /\ call'[c] = s
      /\ \A d \in Calls \ {c} : call'[d] = call[d]
  BY <1>1
<1>3. \A d \in Calls : CallInv(call'[d])
  BY <1>2 DEF Consistent
<1>4. CallsApart'
  BY <1>2 DEF CallsApart, Consistent
<1> QED
  BY <1>2, <1>3, <1>4

LEMMA SameCalls ==
  ASSUME Consistent, UNCHANGED call
  PROVE  /\ call' \in [Calls -> CallStates]
         /\ \A d \in Calls : CallInv(call'[d])
         /\ CallsApart'
  BY DEF Consistent, TypeOK, CallsApart

LEMMA IdleInv == Idle \in CallStates /\ CallInv(Idle) /\ Idle.phase = "idle"
  BY DEF Idle, CallStates, CallInv

LEMMA FinishStep ==
  ASSUME Consistent, NEW c \in Calls, Finish(c)
  PROVE  /\ call' \in [Calls -> CallStates]
         /\ \A d \in Calls : CallInv(call'[d])
         /\ CallsApart'
  BY OneCall, IdleInv DEF Finish, Continue

LEMMA IssuedType ==
  ASSUME NEW id \in Ids
  PROVE  /\ Issued(id) \subseteq [sub : Ids, type : {"access", "refresh"}]
         /\ \A t \in Issued(id) : t.sub = id
  BY DEF Issued

-----------------------------------------------------------------------------
(* The steps that change no account but who is active.                     *)

LEMMA AuthenticateConsistent ==
  ASSUME Consistent, NEW c \in Calls, NEW w \in Workers, NEW id \in Ids,
         Authenticate(c, w, id)
  PROVE  Consistent'
<1>1. Exists(id) /\ users[id] \in Accounts /\ InStore(id, StoreOf(w)) /\ TypeOK
  BY DEF Authenticate, Active, InStore, Exists, Consistent, TypeOK
<1>2. SameAccounts
  BY <1>1, UnchangedIsSame DEF Authenticate
<1>3. CASE database
  <2> DEFINE s == [phase |-> "authenticated", worker |-> w, id |-> id, user |-> users[id]]
  <2>1. s \in CallStates /\ s.phase = "authenticated" /\ s.id = id
    BY <1>1 DEF CallStates
  <2>2. Continue(c, s) /\ tokens' = tokens
    BY <1>3 DEF Authenticate
  <2> HIDE DEF s
  <2>3. CallInv(s)
    BY <1>1, <1>3, <2>1 DEF CallInv, StoreOf
  <2>4. /\ call' \in [Calls -> CallStates]
        /\ \A d \in Calls : CallInv(call'[d])
        /\ CallsApart'
    BY <2>1, <2>2, <2>3, OneCall DEF Continue
  <2> QED
    BY <1>1, <1>2, <2>2, <2>4, SameStep DEF Authenticate, TypeOK
<1>4. CASE ~ database
  <2>1. tokens' = tokens \cup Issued(id) /\ UNCHANGED call
    BY <1>4 DEF Authenticate
  <2>2. \A t \in tokens' : t \in tokens \/ Exists(t.sub)
    BY <1>1, <2>1, IssuedType
  <2>3. tokens' \subseteq [sub : Ids, type : {"access", "refresh"}]
    BY <1>1, <2>1, IssuedType DEF TypeOK
  <2> QED
    BY <1>2, <2>1, <2>2, <2>3, SameCalls, SameStep DEF Authenticate
<1> QED
  BY <1>3, <1>4

LEMMA LoginConsistent ==
  ASSUME Consistent, NEW c \in Calls, Login(c)
  PROVE  Consistent'
<1>1. TypeOK /\ call[c] \in CallStates /\ CallInv(call[c])
  BY DEF Consistent, TypeOK
<1>2. call[c].id \in Ids /\ Exists(call[c].id)
  BY <1>1, CallShapes DEF Login, CallInv, InStore
<1>3. SameAccounts
  BY <1>1, UnchangedIsSame DEF Login
<1>4. \A t \in tokens' : t \in tokens \/ Exists(t.sub)
  BY <1>2, IssuedType DEF Login
<1>5. tokens' \subseteq [sub : Ids, type : {"access", "refresh"}]
  BY <1>1, <1>2, IssuedType DEF Login, TypeOK
<1> QED
  BY <1>3, <1>4, <1>5, FinishStep, SameStep DEF Login

LEMMA RefreshConsistent ==
  ASSUME Consistent, NEW c \in Calls, NEW w \in Workers, NEW id \in Ids,
         Refresh(c, w, id)
  PROVE  Consistent'
<1>1. TypeOK /\ Exists(id)
  BY DEF Consistent, Refresh, Active, InStore
<1>2. SameAccounts
  BY <1>1, UnchangedIsSame DEF Refresh
<1>3. \A t \in tokens' : t \in tokens \/ Exists(t.sub)
  BY <1>1, IssuedType DEF Refresh
<1>4. tokens' \subseteq [sub : Ids, type : {"access", "refresh"}]
  BY <1>1, IssuedType DEF Refresh, TypeOK
<1> QED
  BY <1>2, <1>3, <1>4, SameCalls, SameStep DEF Refresh

LEMMA ExpireConsistent ==
  ASSUME Consistent, Expire
  PROVE  Consistent'
<1>1. TypeOK
  BY DEF Consistent
<1>2. SameAccounts
  BY <1>1, UnchangedIsSame DEF Expire
<1>3. tokens' \subseteq tokens
  BY DEF Expire
<1>4. tokens' \subseteq [sub : Ids, type : {"access", "refresh"}]
  BY <1>1, <1>3 DEF TypeOK
<1> QED
  BY <1>2, <1>3, <1>4, SameCalls, SameStep DEF Expire

LEMMA InsertUserConsistent ==
  ASSUME Consistent, NEW c \in Calls, InsertUser(c)
  PROVE  Consistent'
<1>1. TypeOK /\ call[c] \in CallStates /\ CallInv(call[c])
  BY DEF Consistent, TypeOK
<1>2. call[c].worker \in Workers /\ call[c].user \in Accounts /\ database
  BY <1>1, CallShapes DEF InsertUser, CallInv
<1>3. SameAccounts /\ tokens' = tokens
  BY <1>1, UnchangedIsSame DEF InsertUser
<1>4. NewId \in Ids /\ Fresh(NewId)
  BY NewIdIsFresh DEF InsertUser
<1> DEFINE s == Inserting(call[c].worker, NewId, call[c].user)
<1>5. /\ s \in CallStates /\ s.phase = "inserted"
      /\ s.id = NewId /\ s.user = call[c].user
  BY <1>2, <1>4 DEF CallStates, Inserting
<1>6. call' = [call EXCEPT ![c] = IF Unique(call[c].user.email) THEN s ELSE Idle]
  BY DEF InsertUser, Continue
<1> HIDE DEF s
<1>7. CASE Unique(call[c].user.email)
  <2>1. CallInv(s)
    BY <1>1, <1>2, <1>4, <1>5, <1>7 DEF CallInv, Pending, Unique, Fresh, InsertUser
  <2>2. \A d \in Calls \ {c} : call[d].phase = "inserted" =>
          s.id # call[d].id /\ s.user.email # call[d].user.email
    BY <1>4, <1>5 DEF InsertUser, MustWait, Fresh, Inserted, Sessions
  <2>3. /\ call' \in [Calls -> CallStates]
        /\ \A d \in Calls : CallInv(call'[d])
        /\ CallsApart'
    BY <1>5, <1>6, <1>7, <2>1, <2>2, OneCall
  <2> QED
    BY <1>1, <1>3, <2>3, SameStep DEF InsertUser, TypeOK
<1>8. CASE ~ Unique(call[c].user.email)
  <2>1. Finish(c)
    BY <1>6, <1>8 DEF Finish, Continue
  <2> QED
    BY <1>1, <1>3, <2>1, FinishStep, SameStep DEF InsertUser, TypeOK
<1> QED
  BY <1>7, <1>8

LEMMA DeactivateUserConsistent ==
  ASSUME Consistent, NEW c \in Calls, NEW w \in Workers, NEW admin \in Ids,
         NEW id \in Ids, DeactivateUser(c, w, admin, id)
  PROVE  Consistent'
<1>1. TypeOK /\ Exists(id) /\ InStore(id, StoreOf(w))
  BY DEF Consistent, DeactivateUser, InStore
<1>2. CASE database
  <2> DEFINE s == [phase |-> "deactivating", worker |-> w, id |-> id]
  <2>1. s \in CallStates /\ s.phase = "deactivating" /\ s.id = id
    BY DEF CallStates
  <2>2. Continue(c, s) /\ UNCHANGED users
    BY <1>2 DEF DeactivateUser
  <2> HIDE DEF s
  <2>3. CallInv(s)
    BY <1>1, <1>2, <2>1 DEF CallInv, StoreOf
  <2>4. SameAccounts
    BY <1>1, <2>2, UnchangedIsSame DEF DeactivateUser
  <2>5. /\ call' \in [Calls -> CallStates]
        /\ \A d \in Calls : CallInv(call'[d])
        /\ CallsApart'
    BY <2>1, <2>2, <2>3, OneCall DEF Continue
  <2> QED
    BY <1>1, <2>4, <2>5, SameStep DEF DeactivateUser, TypeOK
<1>3. CASE ~ database
  <2>1. Deactivated(id) /\ UNCHANGED call
    BY <1>3 DEF DeactivateUser
  <2>2. SameAccounts
    BY <1>1, <2>1, DeactivatedIsSame DEF DeactivateUser
  <2> QED
    BY <1>1, <2>1, <2>2, SameCalls, SameStep DEF DeactivateUser, TypeOK
<1> QED
  BY <1>2, <1>3

LEMMA CommitDeactivationConsistent ==
  ASSUME Consistent, NEW c \in Calls, CommitDeactivation(c)
  PROVE  Consistent'
<1>1. TypeOK /\ call[c] \in CallStates /\ CallInv(call[c])
  BY DEF Consistent, TypeOK
<1>2. call[c].id \in Ids /\ Exists(call[c].id)
  BY <1>1, CallShapes DEF CommitDeactivation, CallInv, InStore
<1>3. SameAccounts
  BY <1>1, <1>2, DeactivatedIsSame DEF CommitDeactivation
<1> QED
  BY <1>1, <1>3, FinishStep, SameStep DEF CommitDeactivation, TypeOK

LEMMA RollBackConsistent ==
  ASSUME Consistent, NEW c \in Calls, RollBack(c)
  PROVE  Consistent'
<1>1. TypeOK
  BY DEF Consistent
<1>2. SameAccounts
  BY <1>1, UnchangedIsSame DEF RollBack
<1> QED
  BY <1>1, <1>2, FinishStep, SameStep DEF RollBack, TypeOK

-----------------------------------------------------------------------------
(* The steps of a worker that change no account.                           *)
LEMMA WorkerStep ==
  ASSUME Consistent, UNCHANGED <<database, users, tokens, call, restarts>>,
         NEW w \in Workers, NEW s \in WorkerStates,
         worker' = [worker EXCEPT ![w] = s],
         s.phase = "up" => AdminOf(StoreOf(w)),
         s.phase = "seeding" => database,
         s.phase = "inserted" =>
           Pending(s) /\ \A v \in Workers : worker[v].phase # "inserted",
         s.phase = "down" => database
  PROVE  Consistent'
<1> USE DEF Consistent
<1>1. TypeOK /\ SameAccounts
  BY UnchangedIsSame
<1>2. /\ worker' \in [Workers -> WorkerStates]
      /\ worker'[w] = s
      /\ \A v \in Workers \ {w} : worker'[v] = worker[v]
  BY <1>1 DEF TypeOK
<1>3. TypeOK'
  BY <1>1, <1>2 DEF TypeOK
<1>4. UniqueEmails' /\ AdminFirst'
  BY <1>1, SameViews
<1>5. FirstAdminSeeded'
  <2>1. SUFFICES ASSUME NEW v \in Workers, worker'[v].phase = "up"
                 PROVE  AdminOf(StoreOf(v))'
    BY DEF FirstAdminSeeded
  <2>2. AdminOf(StoreOf(v))
    BY <1>2, <2>1 DEF FirstAdminSeeded
  <2> QED
    BY <2>2 DEF AdminOf, InStore, Exists, StoreOf
<1>6. \A v \in Workers : WorkerInv(v)'
  <2>1. SUFFICES ASSUME NEW v \in Workers PROVE WorkerInv(v)'
    OBVIOUS
  <2>2. CASE v = w
    BY <1>2, <2>2 DEF WorkerInv, Pending, Exists, EmailTaken, InStore
  <2>3. CASE v # w
    <3>1. worker'[v] = worker[v] /\ WorkerInv(v)
      BY <1>2, <2>3
    <3> QED
      BY <3>1 DEF WorkerInv, Pending, Exists, EmailTaken, InStore
  <2> QED
    BY <2>2, <2>3
<1>7. OneSeeds'
  BY <1>2 DEF OneSeeds
<1>8. \A c \in Calls : CallInv(call[c])'
  <2>1. SUFFICES ASSUME NEW c \in Calls PROVE CallInv(call[c])'
    OBVIOUS
  <2>2. CallInv(call[c])
    OBVIOUS
  <2> QED
    BY <2>2 DEF CallInv, Pending, Exists, EmailTaken, InStore
<1>9. CallsApart'
  BY DEF CallsApart
<1> QED
  BY <1>3, <1>4, <1>5, <1>6, <1>7, <1>8, <1>9

(* The steps that store an account.                                        *)
LEMMA GrowStep ==
  ASSUME Consistent, UNCHANGED <<database, tokens, restarts>>,
         NEW id \in Ids, NEW user \in Accounts, Store(id, user),
         ~ Exists(id), ~ EmailTaken(user.store, user.email),
         user.store \in IF database THEN {Shared} ELSE Workers,
         AdminOf(user.store) \/ (user.email = FirstAdmin /\ user.role = "admin"),
         worker' \in [Workers -> WorkerStates],
         \A w \in Workers :
           /\ worker'[w].phase = "up" =>
                worker[w].phase = "up" \/ StoreOf(w) = user.store
           /\ worker'[w].phase # "up" => worker'[w] = worker[w] /\ user.store # w
           /\ worker'[w].phase = "inserted" =>
                worker'[w].id # id /\ worker'[w].user.email # user.email,
         call' \in [Calls -> CallStates],
         \A d \in Calls : CallInv(call'[d]),
         CallsApart',
         \A d \in Calls : call'[d].phase = "inserted" =>
           call'[d].id # id /\ call'[d].user.email # user.email
  PROVE  Consistent'
<1> USE DEF Consistent
<1>1. /\ users' \in [Ids -> Accounts \cup {NoUser}]
      /\ \A j \in Ids : \A store : InStore(j, store) => InStore(j, store)'
      /\ \A j \in Ids : \A store :
           InStore(j, store)' => InStore(j, store) \/ (j = id /\ store = user.store)
      /\ \A j \in Ids : Exists(j)' => Exists(j) \/ j = id
      /\ \A store, email : EmailTaken(store, email) => EmailTaken(store, email)'
      /\ \A store, email :
           EmailTaken(store, email)' =>
             EmailTaken(store, email) \/ (store = user.store /\ email = user.email)
      /\ \A store : AdminOf(store) => AdminOf(store)'
      /\ AdminOf(user.store)'
      /\ UniqueEmails'
      /\ AdminFirst'
  BY GrownViews
<1>2. TypeOK'
  BY <1>1 DEF TypeOK
<1>3. FirstAdminSeeded'
  <2>1. SUFFICES ASSUME NEW w \in Workers, worker'[w].phase = "up"
                 PROVE  AdminOf(StoreOf(w))'
    BY DEF FirstAdminSeeded
  <2>2. StoreOf(w)' = StoreOf(w)
    BY DEF StoreOf
  <2>3. CASE worker[w].phase = "up"
    <3>1. AdminOf(StoreOf(w))
      BY <2>3 DEF FirstAdminSeeded
    <3> QED
      BY <1>1, <2>2, <3>1 DEF AdminOf
  <2>4. CASE StoreOf(w) = user.store
    BY <1>1, <2>2, <2>4 DEF AdminOf
  <2> QED
    BY <2>1, <2>3, <2>4
<1>4. \A w \in Workers : WorkerInv(w)'
  <2>1. SUFFICES ASSUME NEW w \in Workers PROVE WorkerInv(w)'
    OBVIOUS
  <2>2. CASE worker'[w].phase = "up"
    BY <2>2 DEF WorkerInv
  <2>3. CASE worker'[w].phase # "up"
    <3>1. worker'[w] = worker[w] /\ WorkerInv(w) /\ worker[w] \in WorkerStates
      BY <2>3 DEF TypeOK
    <3>2. worker[w].phase = "inserted" => Pending(worker[w])'
      BY <1>1, <3>1, WorkerShapes DEF WorkerInv, Pending
    <3> QED
      BY <1>1, <2>3, <3>1, <3>2 DEF WorkerInv
  <2> QED
    BY <2>2, <2>3
<1>5. OneSeeds'
  BY DEF OneSeeds
<1>6. \A d \in Calls : CallInv(call[d])'
  <2>1. SUFFICES ASSUME NEW d \in Calls PROVE CallInv(call[d])'
    OBVIOUS
  <2>2. call'[d] \in CallStates /\ CallInv(call'[d])
    OBVIOUS
  <2>3. call'[d].phase = "inserted" => Pending(call[d])'
    BY <1>1, <2>2, CallShapes DEF CallInv, Pending
  <2> QED
    BY <1>1, <2>2, <2>3, CallShapes DEF CallInv
<1> QED
  BY <1>1, <1>2, <1>3, <1>4, <1>5, <1>6

LEMMA TakenHasAdmin ==
  ASSUME AdminFirst, NEW store, NEW email, EmailTaken(store, email)
  PROVE  AdminOf(store)
  BY DEF EmailTaken, InStore, AdminFirst

(* Without a database no call and no seeding is under way.                 *)
LEMMA NothingPending ==
  ASSUME Consistent, ~ database
  PROVE  /\ \A c \in Calls : call[c].phase = "idle"
         /\ \A w \in Workers : worker[w].phase \in {"down", "up"}
  BY WorkerShapes DEF Consistent, TypeOK, CallInv, WorkerInv

LEMMA StartConsistent ==
  ASSUME Consistent, NEW w \in Workers, Start(w)
  PROVE  Consistent'
<1>1. /\ TypeOK /\ AdminFirst
      /\ Up \in WorkerStates /\ Up.phase = "up"
      /\ [phase |-> "seeding"] \in WorkerStates
  BY DEF Consistent, WorkerStates, Up
<1>2. CASE Registered(StoreOf(w), FirstAdmin)
  <2>1. AdminOf(StoreOf(w))
    BY <1>1, <1>2, TakenHasAdmin DEF Registered
  <2> QED
    BY <1>1, <1>2, <2>1, WorkerStep DEF Start
<1>3. CASE ~ Registered(StoreOf(w), FirstAdmin) /\ database
  BY <1>1, <1>3, WorkerStep DEF Start
<1>4. CASE ~ Registered(StoreOf(w), FirstAdmin) /\ ~ database
  <2> DEFINE user == User(w, FirstAdmin, "admin")
  <2>1. /\ user \in Accounts /\ user.store = w
        /\ user.email = FirstAdmin /\ user.role = "admin"
    BY UserType, RolesHaveLevels
  <2>2. NewId \in Ids /\ ~ Exists(NewId) /\ Store(NewId, user)
    BY <1>4, NewIdIsFresh DEF Start, Fresh
  <2> HIDE DEF user
  <2>3. StoreOf(w) = w /\ ~ EmailTaken(user.store, user.email)
    BY <1>4, <2>1 DEF StoreOf, Registered
  <2>4. /\ worker' \in [Workers -> WorkerStates]
        /\ worker'[w] = Up
        /\ \A v \in Workers \ {w} : worker'[v] = worker[v]
    BY <1>1, <1>4 DEF Start, TypeOK
  <2>5. UNCHANGED <<database, tokens, call, restarts>>
    BY DEF Start
  <2>6. /\ \A c \in Calls : call'[c].phase = "idle"
        /\ \A v \in Workers : worker'[v].phase # "inserted"
    BY <1>1, <1>4, <2>4, <2>5, NothingPending
  <2>7. /\ call' \in [Calls -> CallStates]
        /\ \A d \in Calls : CallInv(call'[d])
        /\ CallsApart'
    BY <2>5, SameCalls
  <2>8. \A v \in Workers :
          /\ worker'[v].phase = "up" =>
               worker[v].phase = "up" \/ StoreOf(v) = user.store
          /\ worker'[v].phase # "up" => worker'[v] = worker[v] /\ user.store # v
    BY <1>1, <2>1, <2>3, <2>4
  <2> QED
    BY <1>4, <2>1, <2>2, <2>3, <2>4, <2>5, <2>6, <2>7, <2>8, GrowStep
<1> QED
  BY <1>2, <1>3, <1>4

LEMMA SeedInsertConsistent ==
  ASSUME Consistent, NEW w \in Workers, SeedInsert(w)
  PROVE  Consistent'
<1>1. TypeOK /\ WorkerInv(w) /\ database
  BY DEF Consistent, SeedInsert, WorkerInv
<1>2. CASE Unique(FirstAdmin)
  <2> DEFINE s == Inserting(w, NewId, Seed)
  <2>1. NewId \in Ids /\ Fresh(NewId)
    BY NewIdIsFresh DEF SeedInsert
  <2>2. /\ s \in WorkerStates /\ s.phase = "inserted"
        /\ s.id = NewId /\ s.user = Seed
    BY <2>1 DEF WorkerStates, Inserting
  <2>3. worker' = [worker EXCEPT ![w] = s]
    BY <1>2 DEF SeedInsert
  <2> HIDE DEF s
  <2>4. Pending(s)
    BY <1>1, <1>2, <2>1, <2>2, SeedType DEF Pending, Fresh, Unique
  <2>5. \A v \in Workers : worker[v].phase # "inserted"
    BY <1>1, WorkerShapes, SeedType DEF SeedInsert, MustWait, Inserted, Sessions, TypeOK
  <2>6. UNCHANGED <<database, users, tokens, call, restarts>>
    BY DEF SeedInsert
  <2> QED
    BY <2>2, <2>3, <2>4, <2>5, <2>6, WorkerStep
<1>3. CASE ~ Unique(FirstAdmin)
  <2>1. worker' = [worker EXCEPT ![w] = Down] /\ Down \in WorkerStates /\ Down.phase = "down"
    BY <1>3 DEF SeedInsert, Down, WorkerStates
  <2> QED
    BY <1>1, <2>1, WorkerStep DEF SeedInsert
<1> QED
  BY <1>2, <1>3

LEMMA SeedCommitConsistent ==
  ASSUME Consistent, NEW w \in Workers, SeedCommit(w)
  PROVE  Consistent'
<1>1. TypeOK /\ worker[w] \in WorkerStates /\ WorkerInv(w) /\ OneSeeds
  BY DEF Consistent, TypeOK
<1>2. /\ worker[w].id \in Ids /\ worker[w].user = Seed
      /\ Pending(worker[w]) /\ database
  BY <1>1, WorkerShapes DEF SeedCommit, WorkerInv, Pending
<1>3. ~ EmailTaken(Shared, FirstAdmin) /\ ~ Exists(worker[w].id)
  BY <1>2, SeedType DEF Pending
<1>4. UNCHANGED <<database, tokens, call, restarts>>
  BY DEF SeedCommit
<1>5. /\ worker' \in [Workers -> WorkerStates]
      /\ worker'[w] = Up /\ Up.phase = "up"
      /\ \A v \in Workers \ {w} : worker'[v] = worker[v]
  BY <1>1 DEF SeedCommit, TypeOK, WorkerStates, Up
<1>6. \A v \in Workers : worker'[v].phase # "inserted"
  BY <1>1, <1>5 DEF OneSeeds, SeedCommit
<1>7. \A d \in Calls : call'[d].phase # "inserted"
  BY <1>3, <1>4 DEF Consistent, CallInv
<1>8. /\ call' \in [Calls -> CallStates]
      /\ \A d \in Calls : CallInv(call'[d])
      /\ CallsApart'
  BY <1>4, SameCalls
<1>9. StoreOf(w) = Shared /\ \A v \in Workers : Shared # v
  BY <1>2 DEF StoreOf
<1>10. Store(worker[w].id, Seed)
  BY <1>2 DEF SeedCommit
<1> QED
  BY <1>2, <1>3, <1>4, <1>5, <1>6, <1>7, <1>8, <1>9, <1>10, SeedType, GrowStep

LEMMA CreateUserConsistent ==
  ASSUME Consistent, NEW c \in Calls, NEW w \in Workers, NEW admin \in Ids,
         NEW email \in Emails, NEW role \in Roles, CreateUser(c, w, admin, email, role)
  PROVE  Consistent'
<1>1. /\ TypeOK /\ AdminFirst /\ worker[w].phase = "up"
      /\ ~ EmailTaken(StoreOf(w), email)
      /\ NewId \in Ids /\ Fresh(NewId)
  BY PlentyIsSome, NewIdIsFresh DEF Consistent, CreateUser, Free, Registered
<1>2. AdminOf(StoreOf(w))
  BY <1>1 DEF CreateUser, Admitted, Active, InStore, AdminFirst
<1> DEFINE user == User(StoreOf(w), email, role)
<1>3. user \in Accounts /\ user.store = StoreOf(w) /\ user.email = email
  BY UserType, StoreOfType, RolesHaveLevels
<1>4. user.active
  BY UserActive
<1>7. UNCHANGED <<database, tokens, worker, restarts>>
  BY DEF CreateUser
<1>5. CASE database
  <2> DEFINE s == [phase |-> "checked", worker |-> w, user |-> user]
  <2>1. s \in CallStates /\ s.phase = "checked" /\ s.user = user
    BY <1>3 DEF CallStates
  <2>2. Continue(c, s) /\ UNCHANGED users
    BY <1>5 DEF CreateUser, StoreOf
  <2> HIDE DEF s, user
  <2>3. StoreOf(w) = Shared /\ EmailTaken(Shared, FirstAdmin)
    BY <1>2, <1>5 DEF StoreOf, AdminOf, EmailTaken
  <2>4. CallInv(s)
    BY <1>1, <1>3, <1>4, <1>5, <2>1, <2>3 DEF CallInv
  <2>5. /\ call' \in [Calls -> CallStates]
        /\ \A d \in Calls : CallInv(call'[d])
        /\ CallsApart'
    BY <2>1, <2>2, <2>4, OneCall DEF Continue
  <2>6. SameAccounts
    BY <1>1, <1>7, <2>2, UnchangedIsSame
  <2> QED
    BY <1>1, <1>7, <2>5, <2>6, SameStep DEF TypeOK
<1>6. CASE ~ database
  <2>1. StoreOf(w) = w /\ Store(NewId, user) /\ UNCHANGED call
    BY <1>6 DEF CreateUser, StoreOf
  <2> HIDE DEF user
  <2>2. /\ \A d \in Calls : call'[d].phase = "idle"
        /\ \A v \in Workers : worker'[v] = worker[v] /\ worker[v].phase # "inserted"
    BY <1>7, <1>6, <2>1, NothingPending
  <2>3. /\ call' \in [Calls -> CallStates]
        /\ \A d \in Calls : CallInv(call'[d])
        /\ CallsApart'
    BY <2>1, SameCalls
  <2>4. worker' \in [Workers -> WorkerStates]
    BY <1>1, <1>7 DEF TypeOK
  <2> QED
    BY <1>1, <1>2, <1>3, <1>7, <1>6, <2>1, <2>2, <2>3, <2>4, GrowStep DEF Fresh
<1> QED
  BY <1>5, <1>6

LEMMA CommitUserConsistent ==
  ASSUME Consistent, NEW c \in Calls, CommitUser(c)
  PROVE  Consistent'
<1>1. /\ TypeOK /\ AdminFirst /\ CallsApart
      /\ call[c] \in CallStates /\ CallInv(call[c])
  BY DEF Consistent, TypeOK
<1>2. /\ call[c].id \in Ids /\ call[c].user \in Accounts
      /\ Pending(call[c]) /\ database
      /\ call[c].user.store = Shared /\ EmailTaken(Shared, FirstAdmin)
  BY <1>1, CallShapes DEF CommitUser, CallInv
<1>3. AdminOf(Shared)
  BY <1>1, <1>2, TakenHasAdmin
<1>4. UNCHANGED <<database, tokens, worker, restarts>>
  BY DEF CommitUser
<1>5. \A v \in Workers : worker'[v] = worker[v] /\ worker[v].phase # "inserted" /\ Shared # v
  <2>1. SUFFICES ASSUME NEW v \in Workers, worker[v].phase = "inserted" PROVE FALSE
    BY <1>4
  <2>2. worker[v].user = Seed /\ Pending(worker[v])
    BY <2>1, WorkerShapes DEF Consistent, TypeOK, WorkerInv
  <2> QED
    BY <1>2, <2>2, SeedType DEF Pending
<1>6. worker' \in [Workers -> WorkerStates]
  BY <1>1, <1>4 DEF TypeOK
<1>7. /\ call' \in [Calls -> CallStates]
      /\ \A d \in Calls : CallInv(call'[d])
      /\ CallsApart'
  BY FinishStep DEF CommitUser
<1>8. /\ call'[c] = Idle
      /\ \A d \in Calls \ {c} : call'[d] = call[d]
  BY <1>1 DEF CommitUser, Finish, Continue, TypeOK
<1>9. \A d \in Calls : call'[d].phase = "inserted" =>
        call'[d].id # call[c].id /\ call'[d].user.email # call[c].user.email
  BY <1>1, <1>8, IdleInv DEF CallsApart, CommitUser
<1>10. Store(call[c].id, call[c].user)
  BY DEF CommitUser
<1> QED
  BY <1>2, <1>3, <1>4, <1>5, <1>6, <1>7, <1>9, <1>10, GrowStep DEF Pending

(* With a database a worker takes only its calls with it; without one its  *)
(* store, and there are no calls.                                          *)
LEMMA RestartConsistent ==
  ASSUME Consistent, NEW w \in Workers, Restart(w)
  PROVE  Consistent'
<1> USE DEF Consistent
<1>1. TypeOK /\ database' = database /\ tokens' = tokens
  BY DEF Restart
<1>2. /\ Down \in WorkerStates /\ Down.phase = "down"
      /\ worker' \in [Workers -> WorkerStates]
      /\ worker'[w] = Down
      /\ \A v \in Workers \ {w} : worker'[v] = worker[v]
  BY <1>1 DEF Restart, TypeOK, Down, WorkerStates
<1>3. restarts' \in 0..MaxRestarts
  BY <1>1 DEF Restart, TypeOK
<1>4. /\ call' \in [Calls -> CallStates]
      /\ \A c \in Calls : call'[c] = Idle \/ call'[c] = call[c]
  BY <1>1, IdleInv DEF Restart, TypeOK
<1>5. CallsApart'
  BY <1>4, IdleInv DEF CallsApart
<1>6. OneSeeds'
  BY <1>2 DEF OneSeeds
<1>7. CASE database
  <2>1. \A id \in Ids : ~ InStore(id, w)
    BY <1>7 DEF InStore, AdminFirst
  <2>2. users' = users
    BY <1>1, <2>1 DEF Restart, TypeOK
  <2>3. TypeOK' /\ UniqueEmails' /\ AdminFirst'
    BY <1>1, <1>2, <1>3, <1>4, <2>2, UnchangedIsSame, SameViews DEF TypeOK
  <2>4. FirstAdminSeeded'
    BY <1>1, <1>2, <2>2 DEF FirstAdminSeeded, StoreOf, AdminOf, InStore, Exists
  <2>5. \A v \in Workers : WorkerInv(v)'
    <3>1. SUFFICES ASSUME NEW v \in Workers PROVE WorkerInv(v)'
      OBVIOUS
    <3>2. worker'[v] = Down \/ (worker'[v] = worker[v] /\ WorkerInv(v))
      BY <1>2
    <3> QED
      BY <1>1, <1>2, <1>7, <2>2, <3>2 DEF WorkerInv, Pending, Exists, EmailTaken, InStore
  <2>6. \A c \in Calls : CallInv(call[c])'
    <3>1. SUFFICES ASSUME NEW c \in Calls PROVE CallInv(call[c])'
      OBVIOUS
    <3>2. CallInv(call'[c])
      BY <1>4, IdleInv
    <3> QED
      BY <1>1, <2>2, <3>2 DEF CallInv, Pending, Exists, EmailTaken, InStore
  <2> QED
    BY <1>5, <1>6, <2>3, <2>4, <2>5, <2>6
<1>8. CASE ~ database
  <2>1. /\ users' = [id \in Ids |-> IF InStore(id, w) THEN NoUser ELSE users[id]]
        /\ users' \in [Ids -> Accounts \cup {NoUser}]
    BY <1>1 DEF Restart, TypeOK
  <2>2. /\ \A id \in Ids : Exists(id)' => Exists(id) /\ users'[id] = users[id]
        /\ \A id \in Ids : \A store : InStore(id, store)' => store # w
        /\ \A id \in Ids : \A store : store # w /\ InStore(id, store) =>
             InStore(id, store)' /\ users'[id] = users[id]
    BY <2>1 DEF Exists, InStore
  <2>3. TypeOK'
    BY <1>1, <1>2, <1>3, <1>4, <2>1 DEF TypeOK
  <2>4. UniqueEmails'
    BY <2>2 DEF UniqueEmails
  <2>5. \A store : store # w /\ AdminOf(store) => AdminOf(store)'
    BY <2>2 DEF AdminOf
  <2>6. AdminFirst'
    <3>1. SUFFICES ASSUME NEW id \in Ids, Exists(id)'
                   PROVE  (/\ users[id].store \in IF database THEN {Shared} ELSE Workers
                           /\ AdminOf(users[id].store))'
      BY DEF AdminFirst
    <3>2. /\ users'[id] = users[id] /\ users[id].store # w
          /\ users[id].store \in Workers /\ AdminOf(users[id].store)
      BY <1>8, <2>2, <3>1 DEF AdminFirst, InStore
    <3> QED
      BY <1>1, <1>8, <2>5, <3>2 DEF AdminOf
  <2>7. FirstAdminSeeded'
    <3>1. SUFFICES ASSUME NEW v \in Workers, worker'[v].phase = "up"
                   PROVE  AdminOf(StoreOf(v))'
      BY DEF FirstAdminSeeded
    <3>2. v # w /\ AdminOf(v)
      BY <1>2, <1>8, <3>1 DEF FirstAdminSeeded, StoreOf
    <3>3. StoreOf(v)' = v
      BY <1>1, <1>8 DEF StoreOf
    <3> QED
      BY <2>5, <3>2, <3>3 DEF AdminOf
  <2>8. \A v \in Workers : WorkerInv(v)'
    <3>1. SUFFICES ASSUME NEW v \in Workers PROVE WorkerInv(v)'
      OBVIOUS
    <3>2. worker'[v].phase \in {"down", "up"}
      BY <1>2, <1>8, NothingPending
    <3>3. worker'[v].phase = "down" => \A id \in Ids : ~ InStore(id, v)'
      BY <1>2, <1>8, <2>2 DEF WorkerInv, InStore
    <3> QED
      BY <3>2, <3>3 DEF WorkerInv
  <2>9. \A c \in Calls : CallInv(call[c])'
    <3>1. \A c \in Calls : call'[c].phase = "idle"
      BY <1>4, <1>8, IdleInv, NothingPending
    <3> QED
      BY <3>1 DEF CallInv
  <2> QED
    BY <1>5, <1>6, <2>3, <2>4, <2>6, <2>7, <2>8, <2>9
<1> QED
  BY <1>7, <1>8

-----------------------------------------------------------------------------
LEMMA InitConsistent == Init => Consistent
<1> SUFFICES ASSUME Init PROVE Consistent
  OBVIOUS
<1>1. /\ \A id \in Ids : ~ Exists(id)
      /\ \A w \in Workers : worker[w] = Down
      /\ \A c \in Calls : call[c] = Idle
  BY DEF Init, Exists
<1>2. TypeOK
  BY MaxRestartsAssumption DEF Init, TypeOK, WorkerStates, CallStates
<1>3. \A w \in Workers : WorkerInv(w)
  BY <1>1 DEF WorkerInv, Down, InStore
<1>4. \A c \in Calls : CallInv(call[c])
  BY <1>1, IdleInv
<1> QED
  BY <1>1, <1>2, <1>3, <1>4, IdleInv
     DEF Consistent, UniqueEmails, FirstAdminSeeded, AdminFirst, OneSeeds, CallsApart, Down

LEMMA NextConsistent == Consistent /\ Next => Consistent'
<1> SUFFICES ASSUME Consistent, Next PROVE Consistent'
  OBVIOUS
<1>1. CASE \E w \in Workers : Start(w) \/ SeedInsert(w) \/ SeedCommit(w) \/ Restart(w)
  BY <1>1, StartConsistent, SeedInsertConsistent, SeedCommitConsistent, RestartConsistent
<1>2. CASE \E c \in Calls, w \in Workers, id \in Ids :
             \/ Authenticate(c, w, id)
             \/ Refresh(c, w, id)
             \/ \E email \in Emails, role \in Roles : CreateUser(c, w, id, email, role)
             \/ \E target \in Ids : DeactivateUser(c, w, id, target)
  BY <1>2, AuthenticateConsistent, RefreshConsistent, CreateUserConsistent,
     DeactivateUserConsistent
<1>3. CASE \E c \in Calls : \/ Login(c) \/ InsertUser(c) \/ CommitUser(c)
                            \/ CommitDeactivation(c) \/ RollBack(c)
  BY <1>3, LoginConsistent, InsertUserConsistent, CommitUserConsistent,
     CommitDeactivationConsistent, RollBackConsistent
<1>4. CASE Expire
  BY <1>4, ExpireConsistent
<1> QED
  BY <1>1, <1>2, <1>3, <1>4 DEF Next

LEMMA StutterConsistent == Consistent /\ UNCHANGED vars => Consistent'
<1> SUFFICES ASSUME Consistent, UNCHANGED vars PROVE Consistent'
  OBVIOUS
<1>1. TypeOK
  BY DEF Consistent
<1> QED
  BY <1>1, UnchangedIsSame, SameCalls, SameStep DEF vars, TypeOK

(* The accounts, the workers and the calls always agree: e-mails are       *)
(* unique among accounts and among those being inserted, and nobody gets   *)
(* ahead of the seeded admin.                                              *)
THEOREM AlwaysConsistent == Spec => []Consistent
<1>1. Init => Consistent
  BY InitConsistent
<1>2. Consistent /\ [Next]_vars => Consistent'
  BY NextConsistent, StutterConsistent
<1> QED
  BY <1>1, <1>2, PTL DEF Spec

(* No two accounts of a store have one e-mail, although the lookup that    *)
(* create_user and _seed_admin do is over when they insert.                *)
THEOREM EmailsUnique == Spec => []UniqueEmails
<1>1. Consistent => UniqueEmails
  BY DEF Consistent
<1> QED
  BY <1>1, AlwaysConsistent, PTL

(* A worker that serves calls has the first admin in its store, however    *)
(* many workers seed him at a time.                                        *)
THEOREM FirstAdminThere == Spec => []FirstAdminSeeded
<1>1. Consistent => FirstAdminSeeded
  BY DEF Consistent
<1> QED
  BY <1>1, AlwaysConsistent, PTL

-----------------------------------------------------------------------------
Refused == \A t \in tokens : ~ Usable(t.sub) => ~ Usable(t.sub)'

LEMMA UnchangedRefused ==
  ASSUME UNCHANGED users PROVE Refused
  BY DEF Refused, Usable, Exists

LEMMA StoreRefused ==
  ASSUME TypeOK, NEW id \in Ids, NEW user, Store(id, user), \A t \in tokens : t.sub # id
  PROVE  Refused
  BY DEF Refused, Usable, Exists, Store, TypeOK

LEMMA DeactivatedRefused ==
  ASSUME TypeOK, NEW id \in Ids, Exists(id), Deactivated(id)
  PROVE  Refused
<1> DEFINE u == [users[id] EXCEPT !.active = FALSE]
<1>1. users[id] \in Accounts
  BY DEF TypeOK, Exists
<1>2. ~ u.active
  BY <1>1 DEF Accounts
<1>3. users' = [users EXCEPT ![id] = u]
  BY DEF Deactivated
<1> HIDE DEF u
<1> QED
  BY <1>2, <1>3 DEF Refused, Usable, Exists, TypeOK

LEMMA RestartRefused ==
  ASSUME TypeOK, NEW w \in Workers, Restart(w)
  PROVE  Refused
  BY DEF Refused, Usable, Exists, Restart, TypeOK

LEMMA StartRefused ==
  ASSUME TypeOK, NEW w \in Workers, Start(w)
  PROVE  Refused
<1>1. CASE UNCHANGED users
  BY <1>1, UnchangedRefused
<1>2. CASE SomeFresh /\ Store(NewId, User(w, FirstAdmin, "admin"))
  BY <1>2, NewIdIsFresh, StoreRefused DEF Fresh
<1> QED
  BY <1>1, <1>2 DEF Start

LEMMA CreateUserRefused ==
  ASSUME TypeOK, NEW c \in Calls, NEW w \in Workers, NEW admin \in Ids,
         NEW email \in Emails, NEW role \in Roles, CreateUser(c, w, admin, email, role)
  PROVE  Refused
<1>1. CASE UNCHANGED users
  BY <1>1, UnchangedRefused
<1>2. CASE Plenty /\ Store(NewId, User(w, email, role))
  BY <1>2, PlentyIsSome, NewIdIsFresh, StoreRefused DEF Fresh
<1> QED
  BY <1>1, <1>2 DEF CreateUser

LEMMA DeactivateUserRefused ==
  ASSUME TypeOK, NEW c \in Calls, NEW w \in Workers, NEW admin \in Ids,
         NEW id \in Ids, DeactivateUser(c, w, admin, id)
  PROVE  Refused
  BY UnchangedRefused, DeactivatedRefused DEF DeactivateUser, InStore

LEMMA CommitsRefused ==
  ASSUME Consistent
  PROVE  /\ \A w \in Workers : SeedCommit(w) => Refused
         /\ \A c \in Calls : CommitUser(c) => Refused
         /\ \A c \in Calls : CommitDeactivation(c) => Refused
<1>1. TypeOK
  BY DEF Consistent
<1>2. ASSUME NEW w \in Workers, SeedCommit(w) PROVE Refused
  <2>1. worker[w].id \in Ids /\ Pending(worker[w])
    BY <1>1, <1>2, WorkerShapes DEF Consistent, TypeOK, WorkerInv, SeedCommit
  <2> QED
    BY <1>1, <1>2, <2>1, StoreRefused DEF SeedCommit, Pending
<1>3. ASSUME NEW c \in Calls, CommitUser(c) PROVE Refused
  <2>1. call[c].id \in Ids /\ Pending(call[c])
    BY <1>1, <1>3, CallShapes DEF Consistent, TypeOK, CallInv, CommitUser
  <2> QED
    BY <1>1, <1>3, <2>1, StoreRefused DEF CommitUser, Pending
<1>4. ASSUME NEW c \in Calls, CommitDeactivation(c) PROVE Refused
  <2>1. call[c].id \in Ids /\ Exists(call[c].id)
    BY <1>1, <1>4, CallShapes DEF Consistent, TypeOK, CallInv, CommitDeactivation, InStore
  <2> QED
    BY <1>1, <1>4, <2>1, DeactivatedRefused DEF CommitDeactivation
<1> QED
  BY <1>2, <1>3, <1>4

LEMMA NextRefused == Consistent /\ [Next]_vars => Refused
<1> SUFFICES ASSUME Consistent, [Next]_vars PROVE Refused
  OBVIOUS
<1>1. TypeOK
  BY DEF Consistent
<1>2. CASE UNCHANGED vars
  BY <1>2, UnchangedRefused DEF vars
<1>3. CASE \E w \in Workers : Start(w) \/ SeedInsert(w) \/ SeedCommit(w) \/ Restart(w)
  BY <1>1, <1>3, StartRefused, RestartRefused, CommitsRefused, UnchangedRefused DEF SeedInsert
<1>4. CASE \E c \in Calls, w \in Workers, id \in Ids :
             \/ Authenticate(c, w, id)
             \/ Refresh(c, w, id)
             \/ \E email \in Emails, role \in Roles : CreateUser(c, w, id, email, role)
             \/ \E target \in Ids : DeactivateUser(c, w, id, target)
  BY <1>1, <1>4, CreateUserRefused, DeactivateUserRefused, UnchangedRefused
     DEF Authenticate, Refresh
<1>5. CASE \E c \in Calls : \/ Login(c) \/ InsertUser(c) \/ CommitUser(c)
                            \/ CommitDeactivation(c) \/ RollBack(c)
  BY <1>5, CommitsRefused, UnchangedRefused DEF Login, InsertUser, RollBack
<1>6. CASE Expire
  BY <1>6, UnchangedRefused DEF Expire
<1> QED
  BY <1>2, <1>3, <1>4, <1>5, <1>6 DEF Next

(* A token whose account was deactivated or lost is refused for good: by   *)
(* no step does its account come back or its id get another account.       *)
THEOREM TokensRefusedForGood == Spec => RefusedForGood
<1>1. Consistent /\ [Next]_vars => [\A t \in tokens : ~ Usable(t.sub) => ~ Usable(t.sub)']_vars
  BY NextRefused DEF Refused
<1> QED
  BY <1>1, AlwaysConsistent, PTL DEF Spec, RefusedForGood

-----------------------------------------------------------------------------
(* The accounts are a directory.                                           *)

Holders(s, e) == {id \in Ids : InStore(id, s) /\ users[id].email = e}

LEMMA FoundAt ==
  ASSUME NEW s \in Stores, NEW e \in Emails
  PROVE  Found[s][e] = {View(id) : id \in Holders(s, e)}
<1>1. \A j \in Ids : users[j].store = s <=> InStore(j, s)
  BY DEF InStore, Exists, Stores, NoUser, Shared
<1>2. Found[s][e] = {View(id) : id \in {j \in Ids : users[j].store = s /\ users[j].email = e}}
  BY DEF Found
<1> QED
  BY <1>1, <1>2 DEF Holders

LEMMA FoundAtNext ==
  ASSUME NEW s \in Stores, NEW e \in Emails
  PROVE  Found'[s][e] = {View(id)' : id \in Holders(s, e)'}
<1>1. \A j \in Ids : users'[j].store = s <=> InStore(j, s)'
  BY DEF InStore, Exists, Stores, NoUser, Shared
<1>2. Found'[s][e] = {View(id)' : id \in {j \in Ids : users'[j].store = s /\ users'[j].email = e}}
  BY DEF Found
<1> QED
  BY <1>1, <1>2 DEF Holders

LEMMA SameFoundAt ==
  ASSUME NEW s \in Stores, NEW e \in Emails, Holders(s, e)' = Holders(s, e),
         \A id \in Holders(s, e) : View(id)' = View(id)
  PROVE  Found'[s][e] = Found[s][e]
<1>1. {View(id)' : id \in Holders(s, e)'} = {View(id) : id \in Holders(s, e)}
  OBVIOUS
<1> QED
  BY <1>1, FoundAt, FoundAtNext

LEMMA HolderFound ==
  ASSUME TypeOK, NEW id \in Ids, Exists(id)
  PROVE  /\ users[id] \in Accounts
         /\ users[id].store \in Stores /\ users[id].email \in Emails
         /\ View(id) \in Found[users[id].store][users[id].email]
<1>1. /\ users[id] \in Accounts
      /\ users[id].store \in Stores /\ users[id].email \in Emails
  BY DEF TypeOK, Exists, Accounts, Stores
<1>2. id \in Holders(users[id].store, users[id].email)
  BY DEF Holders, InStore
<1> QED
  BY <1>1, <1>2, FoundAt

(* The function Found is known by what it finds.                           *)
LEMMA FoundChange ==
  ASSUME NEW s \in Stores, NEW e \in Emails, NEW new,
         Found'[s][e] = new,
         \A t \in Stores, f \in Emails : t # s \/ f # e => Found'[t][f] = Found[t][f]
  PROVE  Found' = [Found EXCEPT ![s][e] = new]
<1> DEFINE F == Found
           G == Found'
<1>1. /\ F = [t \in Stores |-> [f \in Emails |-> F[t][f]]]
      /\ G = [t \in Stores |-> [f \in Emails |-> G[t][f]]]
  BY DEF Found
<1> HIDE DEF F, G
<1>2. [F EXCEPT ![s][e] = new] =
        [t \in Stores |-> [f \in Emails |-> IF t = s /\ f = e THEN new ELSE F[t][f]]]
  BY <1>1
<1>3. \A t \in Stores, f \in Emails : G[t][f] = IF t = s /\ f = e THEN new ELSE F[t][f]
  BY DEF F, G
<1>4. G = [F EXCEPT ![s][e] = new]
  BY <1>1, <1>2, <1>3
<1> QED
  BY <1>4 DEF F, G

LEMMA CreateSeen ==
  ASSUME Consistent, NEW id \in Ids, NEW user \in Accounts, Store(id, user),
         ~ Exists(id), ~ EmailTaken(user.store, user.email),
         \A t \in tokens : t.sub # id, UNCHANGED tokens, user.active,
         IF user.email = FirstAdmin THEN user.role = "admin" ELSE AdminOf(user.store)
  PROVE  Directory!Next
<1> DEFINE s == user.store
           e == user.email
           a == [id |-> id, role |-> user.role, active |-> TRUE]
<1>1. TypeOK /\ s \in Stores /\ e \in Emails /\ user.role \in DOMAIN Level
  BY DEF Consistent, Accounts, Stores
<1>2. /\ users'[id] = user /\ Exists(id)'
      /\ \A j \in Ids \ {id} : users'[j] = users[j] /\ (Exists(j)' <=> Exists(j))
  BY <1>1, NoUserIsNoAccount DEF TypeOK, Store, Exists
<1>3. Holders(s, e) = {}
  BY DEF Holders, EmailTaken
<1>4. Holders(s, e)' = {id}
  <2>1. InStore(id, s)'
    BY <1>2 DEF InStore
  <2>2. ASSUME NEW j \in Ids \ {id} PROVE j \notin Holders(s, e)'
    BY <1>2, <1>3 DEF Holders, InStore
  <2> QED
    BY <1>2, <2>1, <2>2 DEF Holders
<1>5. View(id)' = a
  BY <1>2 DEF View
<1>6. \A t \in Stores, f \in Emails : t # s \/ f # e => Found'[t][f] = Found[t][f]
  <2>1. SUFFICES ASSUME NEW t \in Stores, NEW f \in Emails, t # s \/ f # e
                 PROVE  Found'[t][f] = Found[t][f]
    OBVIOUS
  <2>2. Holders(t, f)' = Holders(t, f) /\ id \notin Holders(t, f)
    BY <1>2, <2>1 DEF Holders, InStore
  <2>3. \A j \in Holders(t, f) : View(j)' = View(j)
    BY <1>2, <2>2 DEF View, Holders
  <2> QED
    BY <2>2, <2>3, SameFoundAt
<1> HIDE DEF s, e, a
<1>7. Found[s][e] = {} /\ Found'[s][e] = {a}
  BY <1>1, <1>3, <1>4, <1>5, FoundAt, FoundAtNext
<1>8. Found' = [Found EXCEPT ![s][e] = {a}]
  BY <1>1, <1>6, <1>7, FoundChange
<1>9. a \in [id : Ids, role : DOMAIN Level, active : {TRUE}] /\ a.id = id /\ a.role = user.role
  BY <1>1 DEF a
<1>10. \A t \in Stores, f \in Emails : \A b \in Found[t][f] : b.id # a.id
  BY <1>9, FoundAt DEF Holders, InStore, View
<1>11. IF e = FirstAdmin THEN a.role = "admin" ELSE Found[s][FirstAdmin] # {}
  <2>1. CASE e = FirstAdmin
    BY <1>9, <2>1 DEF e
  <2>2. CASE e # FirstAdmin
    <3>1. PICK j \in Ids : InStore(j, s) /\ users[j].email = FirstAdmin
      BY <2>2 DEF e, s, AdminOf
    <3>2. j \in Holders(s, FirstAdmin)
      BY <3>1 DEF Holders
    <3> QED
      BY <1>1, <2>2, <3>2, FoundAt
  <2> QED
    BY <2>1, <2>2
<1>12. Directory!Create(s, e, a)
  BY <1>7, <1>8, <1>9, <1>10, <1>11 DEF Directory!Create, Directory!NewAccounts
<1> QED
  BY <1>1, <1>7, <1>12 DEF Directory!Next

LEMMA DeactivateSeen ==
  ASSUME Consistent, NEW id \in Ids, Exists(id), Deactivated(id), UNCHANGED tokens,
         NEW s, s = users[id].store, NEW e, e = users[id].email,
         NEW new, new = [id |-> id, role |-> users[id].role, active |-> FALSE]
  PROVE  Directory!Next \/ UNCHANGED <<Found, tokens>>
<1>1. /\ TypeOK /\ UniqueEmails /\ users[id] \in Accounts
      /\ s \in Stores /\ e \in Emails /\ View(id) \in Found[s][e]
  BY HolderFound DEF Consistent
<1>2. /\ users'[id].store = s /\ users'[id].email = e /\ Exists(id)'
      /\ users'[id].role = users[id].role /\ users'[id].active = FALSE
      /\ \A j \in Ids \ {id} : users'[j] = users[j]
  <2> DEFINE u == [users[id] EXCEPT !.active = FALSE]
  <2>1. /\ u.store = s /\ u.email = e /\ u.role = users[id].role /\ u.active = FALSE
        /\ u \in Accounts
    BY <1>1 DEF Accounts
  <2>2. users' = [users EXCEPT ![id] = u]
    BY DEF Deactivated
  <2> HIDE DEF u
  <2> QED
    BY <1>1, <2>1, <2>2, NoUserIsNoAccount DEF TypeOK, Exists
<1>3. Holders(s, e) = {id} /\ Holders(s, e)' = {id}
  <2>1. ASSUME NEW j \in Ids \ {id} PROVE ~ (InStore(j, s) /\ users[j].email = e)
    BY <1>1 DEF UniqueEmails, InStore
  <2>2. InStore(id, s) /\ InStore(id, s)'
    BY <1>2 DEF InStore
  <2>3. \A j \in Ids \ {id} : InStore(j, s)' <=> InStore(j, s)
    BY <1>2 DEF InStore, Exists
  <2> QED
    BY <1>2, <2>1, <2>2, <2>3 DEF Holders
<1>4. View(id)' = new
  BY <1>2 DEF View
<1>5. \A t \in Stores, f \in Emails : t # s \/ f # e => Found'[t][f] = Found[t][f]
  <2>1. SUFFICES ASSUME NEW t \in Stores, NEW f \in Emails, t # s \/ f # e
                 PROVE  Found'[t][f] = Found[t][f]
    OBVIOUS
  <2>2. id \notin Holders(t, f) /\ id \notin Holders(t, f)'
    BY <1>2, <2>1 DEF Holders, InStore
  <2>3. \A j \in Ids \ {id} : InStore(j, t)' <=> InStore(j, t)
    BY <1>2 DEF InStore, Exists
  <2>4. Holders(t, f)' = Holders(t, f)
    BY <1>2, <2>2, <2>3 DEF Holders
  <2>5. \A j \in Holders(t, f) : View(j)' = View(j)
    BY <1>2, <2>2 DEF View, Holders
  <2> QED
    BY <2>4, <2>5, SameFoundAt
<1>6. Found[s][e] = {View(id)} /\ Found'[s][e] = {new}
  <2>1. {View(j) : j \in Holders(s, e)} = {View(id)}
    BY <1>3
  <2>2. {View(j)' : j \in Holders(s, e)'} = {new}
    <3>1. {View(j)' : j \in {id}} = {View(id)'}
      OBVIOUS
    <3> QED
      BY <1>3, <1>4, <3>1
  <2> QED
    BY <1>1, <2>1, <2>2, FoundAt, FoundAtNext
<1>7. Found' = [Found EXCEPT ![s][e] = {new}]
  <2> DEFINE held == {new}
  <2>1. Found'[s][e] = held
    BY <1>6
  <2> HIDE DEF held
  <2>2. Found' = [Found EXCEPT ![s][e] = held]
    BY <1>1, <1>5, <2>1, FoundChange
  <2> QED
    BY <2>2 DEF held
<1>8. CASE users[id].active = TRUE
  <2>1. View(id).active /\ new = [id |-> View(id).id, role |-> View(id).role, active |-> FALSE]
    BY <1>8 DEF View
  <2>2. Directory!Deactivate(s, e, View(id))
    BY <1>7, <2>1 DEF Directory!Deactivate
  <2> QED
    BY <1>1, <2>2 DEF Directory!Next
<1>9. CASE users[id].active = FALSE
  <2>1. View(id) = new
    BY <1>9 DEF View
  <2>2. \A t \in Stores, f \in Emails : Found'[t][f] = Found[t][f]
    BY <1>5, <1>6, <2>1
  <2>3. Found' = Found
    BY <2>2 DEF Found
  <2> QED
    BY <2>3
<1> QED
  BY <1>1, <1>8, <1>9 DEF Accounts

(* An account that is there gets tokens.                                   *)
LEMMA IssueSeen ==
  ASSUME Consistent, NEW id \in Ids, Exists(id), tokens' = tokens \cup Issued(id),
         UNCHANGED users, users[id].store \in Workers => users[id].active
  PROVE  Directory!Next
<1>1. /\ users[id].store \in Stores /\ users[id].email \in Emails
      /\ View(id) \in Found[users[id].store][users[id].email]
  BY HolderFound DEF Consistent
<1>2. Found' = Found
  BY DEF Found, View
<1>3. View(id).id = id /\ (users[id].active => View(id).active)
  BY DEF View
<1>4. Directory!Issue(users[id].store, View(id))
  BY <1>2, <1>3 DEF Directory!Issue, Issued
<1> QED
  BY <1>1, <1>4 DEF Directory!Next

(* A worker's memory is lost; if it had none, nothing is.                  *)
LEMMA RestartSeen ==
  ASSUME Consistent, NEW w \in Workers, Restart(w)
  PROVE  Directory!Next \/ UNCHANGED <<Found, tokens>>
<1>1. /\ TypeOK /\ w \in Stores
      /\ users' = [id \in Ids |-> IF InStore(id, w) THEN NoUser ELSE users[id]]
      /\ tokens' = tokens
  BY DEF Consistent, Restart, Stores
<1>2. ASSUME NEW e \in Emails PROVE Found'[w][e] = {}
  <2>1. Holders(w, e)' = {}
    BY <1>1 DEF Holders, InStore, Exists
  <2> QED
    BY <1>1, <2>1, FoundAtNext
<1>3. ASSUME NEW s \in Stores, s # w, NEW e \in Emails PROVE Found'[s][e] = Found[s][e]
  <2>1. \A id \in Ids : InStore(id, s) => users'[id] = users[id]
    BY <1>1, <1>3 DEF InStore
  <2>2. \A id \in Ids : InStore(id, s)' => InStore(id, s) /\ users'[id] = users[id]
    BY <1>1, <1>3 DEF InStore, Exists
  <2>3. \A id \in Ids : InStore(id, s)' <=> InStore(id, s)
    BY <2>1, <2>2 DEF InStore, Exists
  <2>4. Holders(s, e)' = Holders(s, e)
    BY <2>1, <2>3 DEF Holders
  <2>5. \A id \in Holders(s, e) : View(id)' = View(id)
    BY <2>1 DEF Holders, View
  <2> QED
    BY <2>4, <2>5, SameFoundAt
<1>4. Found' = [Found EXCEPT ![w] = [e \in Emails |-> {}]]
  <2>1. Found' = [s \in Stores |-> IF s = w THEN [e \in Emails |-> {}] ELSE Found[s]]
    <3>1. Found' = [s \in Stores |-> [e \in Emails |-> Found'[s][e]]]
      BY DEF Found
    <3>2. ASSUME NEW s \in Stores PROVE Found[s] = [e \in Emails |-> Found[s][e]]
      BY DEF Found
    <3> QED
      BY <1>2, <1>3, <3>1, <3>2
  <2>2. Found = [s \in Stores |-> Found[s]]
    BY DEF Found
  <2> QED
    BY <2>1, <2>2
<1>5. CASE \E e \in Emails : Found[w][e] # {}
  BY <1>1, <1>4, <1>5 DEF Directory!Forget, Directory!Next
<1>6. CASE \A e \in Emails : Found[w][e] = {}
  <2>1. \A s \in Stores, e \in Emails : Found'[s][e] = Found[s][e]
    BY <1>2, <1>3, <1>6
  <2>2. Found' = Found
    BY <2>1 DEF Found
  <2> QED
    BY <1>1, <2>2
<1> QED
  BY <1>5, <1>6

LEMMA StartSeen ==
  ASSUME Consistent, NEW w \in Workers, Start(w)
  PROVE  Directory!Next \/ UNCHANGED <<users, tokens>>
<1>1. CASE UNCHANGED users
  BY <1>1 DEF Start
<1>2. CASE ~ database /\ SomeFresh /\ ~ Registered(StoreOf(w), FirstAdmin)
           /\ Store(NewId, User(w, FirstAdmin, "admin"))
  <2> DEFINE user == User(w, FirstAdmin, "admin")
  <2>1. /\ user \in Accounts /\ user.store = w
        /\ user.email = FirstAdmin /\ user.role = "admin"
    BY UserType, RolesHaveLevels
  <2>2. user.active
    BY UserActive
  <2> HIDE DEF user
  <2>3. NewId \in Ids /\ Fresh(NewId)
    BY <1>2, NewIdIsFresh
  <2>4. ~ EmailTaken(user.store, user.email)
    BY <1>2, <2>1 DEF StoreOf, Registered
  <2>5. tokens' = tokens /\ Store(NewId, user)
    BY <1>2 DEF Start, user
  <2> QED
    BY <2>1, <2>2, <2>3, <2>4, <2>5, CreateSeen DEF Fresh
<1> QED
  BY <1>1, <1>2 DEF Start

LEMMA CreateUserSeen ==
  ASSUME Consistent, NEW c \in Calls, NEW w \in Workers, NEW admin \in Ids,
         NEW email \in Emails, NEW role \in Roles, CreateUser(c, w, admin, email, role)
  PROVE  Directory!Next \/ UNCHANGED <<users, tokens>>
<1>1. CASE UNCHANGED users
  BY <1>1 DEF CreateUser
<1>2. CASE ~ database /\ Store(NewId, User(w, email, role))
  <2> DEFINE user == User(w, email, role)
  <2>1. user \in Accounts /\ user.store = w /\ user.email = email
    <3>1. w \in Stores /\ role \in DOMAIN Level
      BY RolesHaveLevels DEF Stores
    <3> QED
      BY <3>1, UserType
  <2>2. user.active
    BY UserActive
  <2> HIDE DEF user
  <2>3. NewId \in Ids /\ Fresh(NewId)
    BY PlentyIsSome, NewIdIsFresh DEF CreateUser
  <2>4. StoreOf(w) = w /\ ~ EmailTaken(user.store, user.email) /\ AdminOf(user.store)
    <3>1. InStore(admin, StoreOf(w))
      BY DEF CreateUser, Admitted, Active
    <3> QED
      BY <1>2, <2>1, <3>1 DEF CreateUser, StoreOf, Registered, Consistent, AdminFirst, InStore
  <2>5. user.email # FirstAdmin
    BY <2>4 DEF AdminOf, EmailTaken
  <2>6. tokens' = tokens /\ Store(NewId, user)
    BY <1>2 DEF CreateUser, user
  <2> QED
    BY <2>1, <2>2, <2>3, <2>4, <2>5, <2>6, CreateSeen DEF Fresh
<1> QED
  BY <1>1, <1>2 DEF CreateUser

LEMMA CommitsSeen ==
  ASSUME Consistent
  PROVE  /\ \A w \in Workers : SeedCommit(w) => Directory!Next
         /\ \A c \in Calls : CommitUser(c) => Directory!Next
         /\ \A c \in Calls : CommitDeactivation(c) =>
              Directory!Next \/ UNCHANGED <<Found, tokens>>
<1>1. TypeOK
  BY DEF Consistent
<1>2. ASSUME NEW w \in Workers, SeedCommit(w) PROVE Directory!Next
  <2>1. worker[w].id \in Ids /\ worker[w].user = Seed /\ Pending(worker[w])
    BY <1>1, <1>2, WorkerShapes DEF Consistent, TypeOK, WorkerInv, SeedCommit
  <2>2. Seed.active
    BY UserActive DEF Seed
  <2>3. /\ Store(worker[w].id, Seed) /\ tokens' = tokens /\ ~ Exists(worker[w].id)
        /\ ~ EmailTaken(Seed.store, Seed.email)
        /\ \A t \in tokens : t.sub # worker[w].id
    BY <1>2, <2>1, SeedType DEF SeedCommit, Pending
  <2> QED
    BY <2>1, <2>2, <2>3, SeedType, CreateSeen
<1>3. ASSUME NEW c \in Calls, CommitUser(c) PROVE Directory!Next
  <2>1. /\ call[c].id \in Ids /\ call[c].user \in Accounts
        /\ CallInv(call[c]) /\ call[c].phase = "inserted"
    BY <1>1, <1>3, CallShapes DEF Consistent, TypeOK, CommitUser
  <2>2. /\ call[c].user.active /\ call[c].user.store = Shared
        /\ call[c].user.email # FirstAdmin
        /\ EmailTaken(Shared, FirstAdmin) /\ Pending(call[c])
    BY <2>1 DEF CallInv
  <2>3. AdminOf(Shared)
    BY <2>2, TakenHasAdmin DEF Consistent
  <2>4. /\ Store(call[c].id, call[c].user) /\ tokens' = tokens /\ ~ Exists(call[c].id)
        /\ ~ EmailTaken(call[c].user.store, call[c].user.email)
        /\ \A t \in tokens : t.sub # call[c].id
    BY <1>3, <2>2 DEF CommitUser, Pending
  <2> QED
    BY <2>1, <2>2, <2>3, <2>4, CreateSeen
<1>4. ASSUME NEW c \in Calls, CommitDeactivation(c)
      PROVE  Directory!Next \/ UNCHANGED <<Found, tokens>>
  <2>1. call[c].id \in Ids /\ Exists(call[c].id)
    BY <1>1, <1>4, CallShapes DEF Consistent, TypeOK, CallInv, CommitDeactivation, InStore
  <2> QED
    BY <1>4, <2>1, DeactivateSeen DEF CommitDeactivation
<1> QED
  BY <1>2, <1>3, <1>4

LEMMA LoginSeen ==
  ASSUME Consistent, NEW c \in Calls, Login(c)
  PROVE  Directory!Next
<1>1. call[c].id \in Ids /\ InStore(call[c].id, Shared)
  BY CallShapes DEF Login, Consistent, TypeOK, CallInv
<1> QED
  BY <1>1, IssueSeen DEF Login, InStore

(* Every step is a step of the directory, or none that it shows.           *)
LEMMA StepSeen ==
  ASSUME Consistent, [Next]_vars
  PROVE  [Directory!Next]_(Directory!vars)
<1> DEFINE Goal == Directory!Next \/ UNCHANGED <<Found, tokens>>
<1>1. ASSUME UNCHANGED <<users, tokens>> PROVE Goal
  BY <1>1 DEF Found, View
<1>2. ASSUME UNCHANGED vars PROVE Goal
  BY <1>1, <1>2 DEF vars
<1>3. ASSUME NEW w \in Workers, Start(w) \/ SeedInsert(w) \/ SeedCommit(w) \/ Restart(w)
      PROVE  Goal
  BY <1>1, <1>3, StartSeen, CommitsSeen, RestartSeen DEF SeedInsert
<1>4. ASSUME NEW c \in Calls, NEW w \in Workers, NEW id \in Ids,
             Authenticate(c, w, id) \/ Refresh(c, w, id)
      PROVE  Goal
  <2>1. CASE UNCHANGED <<users, tokens>>
    BY <1>1, <2>1
  <2>2. CASE tokens' = tokens \cup Issued(id) /\ UNCHANGED users
    <3>1. Exists(id) /\ users[id].active
      BY <1>4 DEF Authenticate, Refresh, Active, InStore
    <3> QED
      BY <2>2, <3>1, IssueSeen
  <2> QED
    BY <1>4, <2>1, <2>2 DEF Authenticate, Refresh
<1>5. ASSUME NEW c \in Calls, NEW w \in Workers, NEW id \in Ids,
             \/ \E email \in Emails, role \in Roles : CreateUser(c, w, id, email, role)
             \/ \E target \in Ids : DeactivateUser(c, w, id, target)
      PROVE  Goal
  <2>1. ASSUME NEW email \in Emails, NEW role \in Roles, CreateUser(c, w, id, email, role)
        PROVE  Goal
    BY <1>1, <2>1, CreateUserSeen
  <2>2. ASSUME NEW target \in Ids, DeactivateUser(c, w, id, target)
        PROVE  Goal
    <3>1. CASE UNCHANGED <<users, tokens>>
      BY <1>1, <3>1
    <3>2. CASE Deactivated(target) /\ UNCHANGED tokens
      BY <2>2, <3>2, DeactivateSeen DEF DeactivateUser, InStore
    <3> QED
      BY <2>2, <3>1, <3>2 DEF DeactivateUser
  <2> QED
    BY <1>5, <2>1, <2>2
<1>6. ASSUME NEW c \in Calls, \/ Login(c) \/ InsertUser(c) \/ CommitUser(c)
                              \/ CommitDeactivation(c) \/ RollBack(c)
      PROVE  Goal
  BY <1>1, <1>6, LoginSeen, CommitsSeen DEF InsertUser, RollBack
<1>7. ASSUME Expire PROVE Goal
  <2>1. PICK t \in tokens : tokens' = tokens \ {t}
    BY <1>7 DEF Expire
  <2>2. Found' = Found
    BY <1>7 DEF Expire, Found, View
  <2> QED
    BY <2>1, <2>2 DEF Directory!Next, Directory!Expire
<1>8. Goal
  BY <1>2, <1>3, <1>4, <1>5, <1>6, <1>7 DEF Next
<1> QED
  BY <1>8 DEF Directory!vars

(* The accounts implement AccountDirectory, whatever overlaps.             *)
THEOREM DirectoryRefinement == Spec => DirectoryFollowed
<1>1. Init => Directory!Init
  BY DEF Init, Directory!Init, Found, View, Stores, NoUser, Shared
<1>2. Consistent /\ [Next]_vars => [Directory!Next]_(Directory!vars)
  BY StepSeen
<1> QED
  BY <1>1, <1>2, AlwaysConsistent, PTL DEF Spec, DirectoryFollowed, Directory!Spec
=============================================================================
