------------------------------ MODULE Accounts ------------------------------
(***************************************************************************)
(* User accounts: the routes of api/routes/auth.py over auth_service.py    *)
(* and user_repository.py, the gate in deps.py, and the first admin that   *)
(* every worker seeds when it starts (main.py).                            *)
(*                                                                         *)
(* With a database all workers share one store, and a call is cut where it *)
(* awaits the database; without one every worker has a store of its own,   *)
(* and no call is interrupted.  E-mails stand for their lower-case form,   *)
(* which is what is stored and looked up; a user who logs in knows his     *)
(* password.  Rows lock each other out only by their e-mail: an UPDATE     *)
(* that waits for another one of the same row just comes later.            *)
(***************************************************************************)
EXTENDS Naturals, FiniteSets

CONSTANTS Ids,          \* the uuids accounts may get
          Emails,       \* the e-mails they may be created with
          FirstAdmin,   \* settings.first_admin_email
          Roles,        \* the roles an admin gives in the run
          Workers,      \* the workers of the server
          Calls,        \* the calls under way at a time
          MaxRestarts   \* bound: how often workers restart after they were up

ASSUME FirstAdminAssumption == FirstAdmin \in Emails
ASSUME RolesAssumption == Roles \subseteq {"service", "consultant", "manager", "admin"}
ASSUME MaxRestartsAssumption == MaxRestarts \in Nat

VARIABLES database,   \* is there a database?
          users,      \* the accounts that are stored, by id
          tokens,     \* the tokens that were issued and have not expired
          worker,     \* where each worker is in its life
          call,       \* where each call is
          restarts    \* how often workers were restarted

vars == <<database, users, tokens, worker, call, restarts>>

NoUser == [store |-> "none"]
Shared == "database"

ASSUME WorkersAssumption ==
  IsFiniteSet(Workers) /\ Shared \notin Workers /\ NoUser.store \notin Workers

(* The store a worker works on: _MEM_STORE is one per process.             *)
StoreOf(w) == IF database THEN Shared ELSE w

User(store, email, role) ==
  [store |-> store, email |-> email, role |-> role, active |-> TRUE]

Exists(id) == users[id] # NoUser
InStore(id, store) == Exists(id) /\ users[id].store = store
Active(id, store) == InStore(id, store) /\ users[id].active

Idle == [phase |-> "idle"]
Down == [phase |-> "down"]
Up == [phase |-> "up"]

(* An account that was inserted into the database and not committed yet.   *)
Inserting(w, id, user) ==
  [phase |-> "inserted", worker |-> w, id |-> id, user |-> user]

Sessions == {worker[w] : w \in Workers} \cup {call[c] : c \in Calls}
Inserted == {s \in Sessions : s.phase = "inserted"}

Init ==
  /\ database \in BOOLEAN
  /\ users = [id \in Ids |-> NoUser]
  /\ tokens = {}
  /\ worker = [w \in Workers |-> Down]
  /\ call = [c \in Calls |-> Idle]
  /\ restarts = 0

(* ---- UserRepository ---- *)

(* get_by_email: also accounts that are not active.                        *)
EmailTaken(store, email) ==
  \E id \in Ids : InStore(id, store) /\ users[id].email = email

(* Faulty variant: accounts that are not active are overlooked.            *)
EmailTakenByActive(store, email) ==
  \E id \in Ids : Active(id, store) /\ users[id].email = email

(* The lookup that seeding and create_user do before they insert.          *)
Registered(store, email) == EmailTaken(store, email)

(* uuid4: an id that no account has or had.                                *)
Fresh(id) ==
  /\ ~ Exists(id)
  /\ \A s \in Inserted : s.id # id
  /\ \A t \in tokens : t.sub # id

SomeFresh == \E id \in Ids : Fresh(id)
NewId == CHOOSE id \in Ids : Fresh(id)

(* bound: enough ids are left for the workers that seed their admin.       *)
Plenty == Cardinality({id \in Ids : Fresh(id)}) > Cardinality(Workers)

(* An INSERT waits for another one of the same e-mail to be committed or   *)
(* rolled back, and fails if the e-mail is in the table then.              *)
MustWait(email) == \E s \in Inserted : s.user.email = email

(* Faulty variant: the index is not unique, the lookup has to do.          *)
NotUnique(email) == TRUE

(* The unique index on the e-mail.                                         *)
Unique(email) == ~ EmailTaken(Shared, email)

Store(id, user) == users' = [users EXCEPT ![id] = user]

(* ---- A worker starts: _seed_admin ---- *)

Seed == User(Shared, FirstAdmin, "admin")

(* The admin is there, or is created at once in memory, or is to be        *)
(* inserted into the database.                                             *)
Start(w) ==
  /\ worker[w].phase = "down"
  /\ IF Registered(StoreOf(w), FirstAdmin)
     THEN worker' = [worker EXCEPT ![w] = Up] /\ UNCHANGED users
     ELSE IF database
     THEN /\ worker' = [worker EXCEPT ![w] = [phase |-> "seeding"]]
          /\ UNCHANGED users
     ELSE /\ worker' = [worker EXCEPT ![w] = Up]
          /\ SomeFresh
          /\ Store(NewId, User(w, FirstAdmin, "admin"))
  /\ UNCHANGED <<database, tokens, call, restarts>>

(* INSERT: when another worker was faster the IntegrityError ends the      *)
(* lifespan, and the worker is started again.                              *)
SeedInsert(w) ==
  /\ worker[w].phase = "seeding"
  /\ ~ MustWait(FirstAdmin)
  /\ SomeFresh
  /\ worker' = [worker EXCEPT ![w] =
       IF Unique(FirstAdmin) THEN Inserting(w, NewId, Seed) ELSE Down]
  /\ UNCHANGED <<database, users, tokens, call, restarts>>

(* Faulty variant: nobody commits a session that is not get_db's.          *)
SeedForgotten(w) ==
  /\ worker[w].phase = "inserted"
  /\ worker' = [worker EXCEPT ![w] = Up]
  /\ UNCHANGED <<database, users, tokens, call, restarts>>

SeedCommit(w) ==
  /\ worker[w].phase = "inserted"
  /\ Store(worker[w].id, worker[w].user)
  /\ worker' = [worker EXCEPT ![w] = Up]
  /\ UNCHANGED <<database, tokens, call, restarts>>

(* A worker dies: its calls are rolled back, its memory is lost.           *)
Restart(w) ==
  /\ worker[w].phase # "down"
  /\ restarts < MaxRestarts
  /\ restarts' = restarts + 1
  /\ worker' = [worker EXCEPT ![w] = Down]
  /\ users' = [id \in Ids |-> IF InStore(id, w) THEN NoUser ELSE users[id]]
  /\ call' = [c \in Calls |->
       IF call[c].phase # "idle" /\ call[c].worker = w THEN Idle ELSE call[c]]
  /\ UNCHANGED <<database, tokens>>

(* ---- The gate ---- *)

Level == [service |-> 1, consultant |-> 2, manager |-> 3, admin |-> 4]

(* get_current_user, require_role: the token names an account of the store *)
(* that is active and whose role, as stored, is high enough.               *)
Admitted(w, id, role) ==
  /\ [sub |-> id, type |-> "access"] \in tokens
  /\ Active(id, StoreOf(w))
  /\ Level[users[id].role] >= Level[role]

(* A call comes to a worker that is up; without a database none is under   *)
(* way there.                                                              *)
Free(c, w) == call[c].phase = "idle" /\ worker[w].phase = "up"

Continue(c, state) == call' = [call EXCEPT ![c] = state]
Finish(c) == Continue(c, Idle)

Issued(id) == {[sub |-> id, type |-> type] : type \in {"access", "refresh"}}

(* ---- POST /auth/login ---- *)

(* authenticate_user                                                       *)
Authenticate(c, w, id) ==
  /\ Free(c, w)
  /\ Active(id, StoreOf(w))
  /\ IF database
     THEN /\ Continue(c, [phase |-> "authenticated", worker |-> w, id |-> id,
                          user |-> users[id]])
          /\ UNCHANGED tokens
     ELSE tokens' = tokens \cup Issued(id) /\ UNCHANGED call
  /\ UNCHANGED <<database, users, worker, restarts>>

(* Faulty variant: the row is written as it was read.                      *)
LoginWritesRow(c) ==
  /\ call[c].phase = "authenticated"
  /\ tokens' = tokens \cup Issued(call[c].id)
  /\ Store(call[c].id, call[c].user)
  /\ Finish(c)
  /\ UNCHANGED <<database, worker, restarts>>

(* update_last_login writes two columns of the row, that the model leaves  *)
(* out; the tokens are issued although the account may have been           *)
(* deactivated since it was read.                                          *)
Login(c) ==
  /\ call[c].phase = "authenticated"
  /\ tokens' = tokens \cup Issued(call[c].id)
  /\ Finish(c)
  /\ UNCHANGED <<database, users, worker, restarts>>

(* ---- POST /auth/refresh ---- *)

Refresh(c, w, id) ==
  /\ Free(c, w)
  /\ [sub |-> id, type |-> "refresh"] \in tokens
  /\ Active(id, StoreOf(w))
  /\ tokens' = tokens \cup Issued(id)
  /\ UNCHANGED <<database, users, worker, call, restarts>>

(* Time passes beyond the exp of a token.                                  *)
Expire ==
  /\ \E t \in tokens : tokens' = tokens \ {t}
  /\ UNCHANGED <<database, users, worker, call, restarts>>

(* ---- POST /auth/users ---- *)

(* The gate and the lookup; 409 when the e-mail is taken.                  *)
CreateUser(c, w, admin, email, role) ==
  /\ Free(c, w)
  /\ Admitted(w, admin, "admin")
  /\ ~ Registered(StoreOf(w), email)
  /\ Plenty
  /\ IF database
     THEN /\ Continue(c, [phase |-> "checked", worker |-> w,
                          user |-> User(Shared, email, role)])
          /\ UNCHANGED users
     ELSE Store(NewId, User(w, email, role)) /\ UNCHANGED call
  /\ UNCHANGED <<database, tokens, worker, restarts>>

(* flush; 500 when another call was faster.                                *)
InsertUser(c) ==
  /\ call[c].phase = "checked"
  /\ ~ MustWait(call[c].user.email)
  /\ SomeFresh
  /\ Continue(c, IF Unique(call[c].user.email)
                 THEN Inserting(call[c].worker, NewId, call[c].user)
                 ELSE Idle)
  /\ UNCHANGED <<database, users, tokens, worker, restarts>>

CommitUser(c) ==
  /\ call[c].phase = "inserted"
  /\ Store(call[c].id, call[c].user)
  /\ Finish(c)
  /\ UNCHANGED <<database, tokens, worker, restarts>>

(* ---- PATCH /auth/users/{id}/deactivate ---- *)

Deactivated(id) == users' = [users EXCEPT ![id] = [@ EXCEPT !.active = FALSE]]

(* The gate and the lookup; 404 when there is no such account.             *)
DeactivateUser(c, w, admin, id) ==
  /\ Free(c, w)
  /\ Admitted(w, admin, "admin")
  /\ InStore(id, StoreOf(w))
  /\ IF database
     THEN /\ Continue(c, [phase |-> "deactivating", worker |-> w, id |-> id])
          /\ UNCHANGED users
     ELSE Deactivated(id) /\ UNCHANGED call
  /\ UNCHANGED <<database, tokens, worker, restarts>>

CommitDeactivation(c) ==
  /\ call[c].phase = "deactivating"
  /\ Deactivated(call[c].id)
  /\ Finish(c)
  /\ UNCHANGED <<database, tokens, worker, restarts>>

(* A statement or the COMMIT fails: get_db rolls back.                     *)
RollBack(c) ==
  /\ call[c].phase # "idle"
  /\ Finish(c)
  /\ UNCHANGED <<database, users, tokens, worker, restarts>>

-----------------------------------------------------------------------------
Next ==
  \/ \E w \in Workers : Start(w) \/ SeedInsert(w) \/ SeedCommit(w) \/ Restart(w)
  \/ \E c \in Calls, w \in Workers, id \in Ids :
       \/ Authenticate(c, w, id)
       \/ Refresh(c, w, id)
       \/ \E email \in Emails, role \in Roles : CreateUser(c, w, id, email, role)
       \/ \E target \in Ids : DeactivateUser(c, w, id, target)
  \/ \E c \in Calls :
       Login(c) \/ InsertUser(c) \/ CommitUser(c) \/ CommitDeactivation(c) \/ RollBack(c)
  \/ Expire

Spec == Init /\ [][Next]_vars

(* A process that dies is started again, and the database answers.         *)
FairSpec ==
  /\ Spec
  /\ \A w \in Workers : WF_vars(Start(w) \/ SeedInsert(w) \/ SeedCommit(w))
  /\ \A c \in Calls : WF_vars(CommitUser(c) \/ RollBack(c))

-----------------------------------------------------------------------------
Accounts == [store : Workers \cup {Shared}, email : Emails, role : DOMAIN Level,
             active : BOOLEAN]

WorkerStates ==
  {Down, Up, [phase |-> "seeding"]}
    \cup [phase : {"inserted"}, worker : Workers, id : Ids, user : {Seed}]

CallStates ==
  {Idle}
    \cup [phase : {"authenticated"}, worker : Workers, id : Ids, user : Accounts]
    \cup [phase : {"checked"}, worker : Workers, user : Accounts]
    \cup [phase : {"inserted"}, worker : Workers, id : Ids, user : Accounts]
    \cup [phase : {"deactivating"}, worker : Workers, id : Ids]

TypeOK ==
  /\ database \in BOOLEAN
  /\ users \in [Ids -> Accounts \cup {NoUser}]
  /\ tokens \subseteq [sub : Ids, type : {"access", "refresh"}]
  /\ worker \in [Workers -> WorkerStates]
  /\ call \in [Calls -> CallStates]
  /\ restarts \in 0..MaxRestarts

(* In a store an e-mail belongs to one account, although seeding workers   *)
(* and create_user look for it first and insert it later.                  *)
UniqueEmails ==
  \A id, other \in Ids :
    /\ Exists(id) /\ Exists(other)
    /\ users[id].store = users[other].store
    /\ users[id].email = users[other].email
    => id = other

(* The first admin is in a store, and is an admin.                         *)
AdminOf(store) ==
  \E id \in Ids :
    /\ InStore(id, store)
    /\ users[id].email = FirstAdmin
    /\ users[id].role = "admin"

(* Whoever reaches a worker that serves calls finds the first admin in its *)
(* store, and as an admin: nobody can have taken his e-mail before him.    *)
FirstAdminSeeded == \A w \in Workers : worker[w].phase = "up" => AdminOf(StoreOf(w))

(* The first account of a store is the seeded admin.                       *)
AdminFirst ==
  \A id \in Ids : Exists(id) =>
    /\ users[id].store \in IF database THEN {Shared} ELSE Workers
    /\ AdminOf(users[id].store)

(* What keeps an account apart while it is being inserted.                 *)
Pending(s) ==
  /\ database
  /\ s.user.store = Shared
  /\ ~ Exists(s.id)
  /\ ~ EmailTaken(Shared, s.user.email)
  /\ \A t \in tokens : t.sub # s.id

WorkerInv(w) ==
  /\ worker[w].phase \in {"seeding", "inserted"} => database
  /\ worker[w].phase = "inserted" => Pending(worker[w])
  /\ worker[w].phase = "down" /\ ~ database => \A id \in Ids : ~ InStore(id, w)

OneSeeds ==
  \A w, v \in Workers :
    worker[w].phase = "inserted" /\ worker[v].phase = "inserted" => w = v

CallInv(s) ==
  /\ s.phase # "idle" => database
  /\ s.phase \in {"checked", "inserted"} =>
       /\ s.user.store = Shared /\ s.user.active
       /\ EmailTaken(Shared, FirstAdmin)
       /\ s.user.email # FirstAdmin
  /\ s.phase = "inserted" => Pending(s)
  /\ s.phase \in {"authenticated", "deactivating"} => InStore(s.id, Shared)

CallsApart ==
  \A c, d \in Calls :
    call[c].phase = "inserted" /\ call[d].phase = "inserted" /\ c # d =>
      call[c].id # call[d].id /\ call[c].user.email # call[d].user.email

(* The inductive invariant.  Its types; e-mails are unique among accounts  *)
(* and among those being inserted, whoever inserts them; the first account *)
(* of a store is the seeded admin, so that nobody creates one of his       *)
(* e-mail; an account that a database call holds is stored.                *)
Consistent ==
  /\ TypeOK
  /\ UniqueEmails
  /\ FirstAdminSeeded
  /\ AdminFirst
  /\ \A w \in Workers : WorkerInv(w)
  /\ OneSeeds
  /\ \A c \in Calls : CallInv(call[c])
  /\ CallsApart

(* A token that is of no use any more, its account being deactivated or    *)
(* lost with its worker, is never of use again: not by a login that read   *)
(* the account before, nor by a restart, nor by another account.           *)
Usable(id) == Exists(id) /\ users[id].active
RefusedForGood ==
  [][\A t \in tokens : ~ Usable(t.sub) => ~ Usable(t.sub)']_vars

(* Every worker comes up for good once restarts stop, however its seeding  *)
(* raced with the others' and whatever became of the first admin since.    *)
WorkersStart == \A w \in Workers : <>[](worker[w].phase = "up")

(* What a lookup by e-mail finds in each store; NoUser is in none.         *)
Stores == Workers \cup {Shared}
View(id) == [id |-> id, role |-> users[id].role, active |-> users[id].active]
Found ==
  [s \in Stores |-> [e \in Emails |->
     {View(id) : id \in {j \in Ids : users[j].store = s /\ users[j].email = e}}]]

Directory == INSTANCE AccountDirectory
               WITH Roles <- DOMAIN Level, Memories <- Workers, directory <- Found

(* However seeding workers, calls, rollbacks and restarts overlap, the      *)
(* accounts are the directory that AccountDirectory promises: every e-mail  *)
(* means one account, an account comes into being at one moment and after   *)
(* the first admin, only deactivation changes it, and tokens are issued for *)
(* accounts that are there.                                                 *)
DirectoryFollowed == Directory!Spec
=============================================================================
