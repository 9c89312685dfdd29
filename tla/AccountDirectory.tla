-------------------------- MODULE AccountDirectory --------------------------
(***************************************************************************)
(* What the user accounts promise, whatever runs at a time: a directory in *)
(* which a lookup by e-mail finds one account or none, that changes by one *)
(* account at a time, and whose accounts are never taken for one another.  *)
(* Workers, sessions, inserts that wait and lookups that are out of date   *)
(* are no part of the promise.                                             *)
(***************************************************************************)
CONSTANTS Ids, Emails, Roles, FirstAdmin, Stores, Memories

VARIABLES
  directory,   \* directory[s][e]: what a lookup of e in store s finds, as a set
  tokens       \* the tokens that were issued and have not expired

vars == <<directory, tokens>>

Init ==
  /\ directory = [s \in Stores |-> [e \in Emails |-> {}]]
  /\ tokens = {}

NewAccounts == [id : Ids, role : Roles, active : {TRUE}]

(* The account that is found afterwards.  Nobody gets an id, or an e-mail,  *)
(* that means somebody else, not even one who was forgotten while his       *)
(* tokens are good; and nobody comes before the first admin, who is one.    *)
Create(s, e, a) ==
  /\ a \in NewAccounts
  /\ directory[s][e] = {}
  /\ \A t \in Stores, f \in Emails : \A b \in directory[t][f] : b.id # a.id
  /\ \A t \in tokens : t.sub # a.id
  /\ IF e = FirstAdmin THEN a.role = "admin" ELSE directory[s][FirstAdmin] # {}
  /\ directory' = [directory EXCEPT ![s][e] = {a}]
  /\ UNCHANGED tokens

(* There is no way back.                                                    *)
Deactivate(s, e, a) ==
  /\ a.active
  /\ directory' =
       [directory EXCEPT ![s][e] = {[id |-> a.id, role |-> a.role, active |-> FALSE]}]
  /\ UNCHANGED tokens

(* Only what is in the memory of a process is forgotten, all of it.         *)
Forget(s) ==
  /\ \E e \in Emails : directory[s][e] # {}
  /\ directory' = [directory EXCEPT ![s] = [e \in Emails |-> {}]]
  /\ UNCHANGED tokens

(* Tokens are for an account that is there.  In a shared store it may have  *)
(* been deactivated just now, while its login was under way.                *)
Issue(s, a) ==
  /\ s \in Memories => a.active
  /\ tokens' = tokens \cup {[sub |-> a.id, type |-> type] : type \in {"access", "refresh"}}
  /\ UNCHANGED directory

Expire(t) ==
  /\ tokens' = tokens \ {t}
  /\ UNCHANGED directory

Next ==
  \/ \E s \in Stores, e \in Emails :
       \/ \E a \in directory'[s][e] : Create(s, e, a)
       \/ \E a \in directory[s][e] : Deactivate(s, e, a) \/ Issue(s, a)
  \/ \E s \in Memories : Forget(s)
  \/ \E t \in tokens : Expire(t)

Spec == Init /\ [][Next]_vars
=============================================================================
