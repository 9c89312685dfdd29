---------------------------- MODULE TokenRefresh ----------------------------
(***************************************************************************)
(* One browser tab: the 401 interceptor of the API client, the tokens in   *)
(* localStorage and the signed-in user of the persisted store, while       *)
(* requests, token refreshes, logins, logouts and page loads overlap.      *)
(*                                                                         *)
(* Access and refresh token are always written and removed together: a     *)
(* pair is a number, 0 stands for none.  A callback runs alone, so every   *)
(* answer is one action.                                                   *)
(***************************************************************************)
EXTENDS Naturals

CONSTANTS
  Calls,     \* the requests that can be in flight together
  MaxPairs   \* bound of the model: token pairs the server issues

ASSUME PairsAssumption == MaxPairs \in Nat

VARIABLES
  page,      \* "login", "app", or "leaving" for a document being unloaded
  store,     \* useAuthStore, persisted, has a user and an access token
  token,     \* the pair in localStorage
  issued,    \* pairs issued so far
  standing,  \* what the server still accepts of a pair
  gate,      \* isRefreshing
  req        \* requests in flight

vars == <<page, store, token, issued, standing, gate, req>>

Pairs == 1..MaxPairs
MaybePair == 0..MaxPairs

(* tok is the access token a request carries or, while it refreshes, the     *)
(* pair whose refresh token it sent; retried is _retry; refused is the last  *)
(* access token it got a 401 for; login is the pair a login waits to store.  *)
Request == [pc      : {"none", "sent", "parked", "refreshing"},
            kind    : {"call", "me", "logout"},
            tok     : MaybePair, retried : BOOLEAN,
            refused : MaybePair, login : MaybePair]

NoRequest == [pc |-> "none", kind |-> "call", tok |-> 0, retried |-> FALSE,
              refused |-> 0, login |-> 0]

NewRequest(kind, tok, login) ==
  [pc |-> "sent", kind |-> kind, tok |-> tok, retried |-> FALSE,
   refused |-> 0, login |-> login]

(* A request that a 401 parks, and one that refreshes with pair t.          *)
Parked(r) == [r EXCEPT !.pc = "parked", !.refused = r.tok]

Refreshing(r, t) ==
  [r EXCEPT !.pc = "refreshing", !.retried = TRUE, !.refused = r.tok, !.tok = t]

TypeOK ==
  /\ page \in {"login", "app", "leaving"}
  /\ store \in BOOLEAN
  /\ token \in MaybePair
  /\ issued \in MaybePair
  /\ standing \in [Pairs -> {"valid", "expired", "dead"}]
  /\ gate \in BOOLEAN
  /\ req \in [Calls -> Request]

Init ==
  /\ page = "login"
  /\ store = FALSE
  /\ token = 0
  /\ issued = 0
  /\ standing = [t \in Pairs |-> "valid"]
  /\ gate = FALSE
  /\ req = [q \in Calls |-> NoRequest]

-----------------------------------------------------------------------------
(* A component or the 30-second poll of the list sends a request; it stays  *)
(* mounted while the document is being left.                                *)
Send(q) ==
  /\ req[q].pc = "none"
  /\ page # "login" /\ store
  /\ req' = [req EXCEPT ![q] = NewRequest("call", token, 0)]
  /\ UNCHANGED <<page, store, token, issued, standing, gate>>

SendLogout(q) ==
  /\ req[q].pc = "none"
  /\ page # "login" /\ store
  /\ req' = [req EXCEPT ![q] = NewRequest("logout", token, 0)]
  /\ UNCHANGED <<page, store, token, issued, standing, gate>>

(* The login is answered: its tokens are stored and GET /auth/me is sent.   *)
(* The form it was sent from may be shown by a document that is being left. *)
Login(q) ==
  /\ req[q].pc = "none"
  /\ page # "app" /\ ~ store
  /\ \A p \in Calls : req[p].kind # "me"
  /\ issued < MaxPairs
  /\ issued' = issued + 1
  /\ token' = issued'
  /\ req' = [req EXCEPT ![q] = NewRequest("me", token', token')]
  /\ UNCHANGED <<page, store, standing, gate>>

(* The caller of q gets its answer, with token t stored and page p shown:   *)
(* a logout, failed or not, clears tokens and store; me() completes a login. *)
Finish(q, ok, t, p) ==
  LET r == req[q]
      shown(there) == IF p = "leaving" THEN p ELSE there
  IN  /\ req' = [req EXCEPT ![q] = NoRequest]
      /\ CASE r.kind = "logout" ->
                token' = 0 /\ store' = FALSE /\ page' = shown("login")
           [] r.kind = "me" /\ ok ->
                token' = r.login /\ store' = TRUE /\ page' = shown("app")
           [] OTHER ->
                token' = t /\ store' = store /\ page' = p

(* Any answer but a 401, or none: it goes to the caller. *)
Settle(q) ==
  /\ req[q].pc = "sent"
  /\ \E ok \in BOOLEAN : Finish(q, ok, token, page)
  /\ UNCHANGED <<issued, standing, gate>>

Accepted(t) == t # 0 /\ standing[t] = "valid"

Unauthorized(q) == req[q].pc = "sent" /\ ~ Accepted(req[q].tok)

(* Refused again with a new token: the caller gets the 401. *)
Reject(q) ==
  /\ Unauthorized(q)
  /\ req[q].retried
  /\ Finish(q, FALSE, token, page)
  /\ UNCHANGED <<issued, standing, gate>>

Park(q) ==
  /\ Unauthorized(q)
  /\ ~ req[q].retried /\ gate
  /\ req' = [req EXCEPT ![q] = Parked(req[q])]
  /\ UNCHANGED <<page, store, token, issued, standing, gate>>

(* Faulty variant: isRefreshing is not asked. *)
StartAnother(q) ==
  /\ Unauthorized(q)
  /\ ~ req[q].retried
  /\ token # 0
  /\ gate' = TRUE
  /\ req' = [req EXCEPT ![q] = Refreshing(req[q], token)]
  /\ UNCHANGED <<page, store, token, issued, standing>>

StartRefresh(q) ==
  /\ Unauthorized(q)
  /\ ~ req[q].retried /\ ~ gate
  /\ token # 0
  /\ gate' = TRUE
  /\ req' = [req EXCEPT ![q] = Refreshing(req[q], token)]
  /\ UNCHANGED <<page, store, token, issued, standing>>

(* The catch block: tokens removed, the document is left for /login. *)
GiveUp(q) ==
  /\ Finish(q, FALSE, 0, "leaving")
  /\ gate' = FALSE
  /\ UNCHANGED <<issued, standing>>

NothingToRefresh(q) ==
  /\ Unauthorized(q)
  /\ ~ req[q].retried /\ ~ gate
  /\ token = 0
  /\ GiveUp(q)

(* Faulty variant: only the request that refreshed is sent again. *)
ResendOne(r, t) == [r EXCEPT !.pc = IF @ = "refreshing" THEN "sent" ELSE @, !.tok = t]

(* Faulty variant: a parked request goes out as it is. *)
ResendUnchanged(r, t) ==
  IF r.pc = "parked" THEN [r EXCEPT !.pc = "sent"]
  ELSE [r EXCEPT !.pc = "sent", !.tok = t]

(* Sent again with the new access token. *)
Resend(r, t) == [r EXCEPT !.pc = "sent", !.tok = t]

(* The refresh is answered: everybody parked goes out again, then q.        *)
Refreshed(q) ==
  /\ req[q].pc = "refreshing"
  /\ standing[req[q].tok] # "dead"
  /\ issued < MaxPairs
  /\ issued' = issued + 1
  /\ token' = issued'
  /\ gate' = FALSE
  /\ req' = [p \in Calls |->
              IF p = q \/ req[p].pc = "parked" THEN Resend(req[p], token') ELSE req[p]]
  /\ UNCHANGED <<page, store, standing>>

(* Refused, no answer, no connection. *)
RefreshFailed(q) ==
  /\ req[q].pc = "refreshing"
  /\ GiveUp(q)

(* The browser has left for /login: all of the script's state is gone.      *)
Load ==
  /\ page = "leaving"
  /\ page' = "login"
  /\ gate' = FALSE
  /\ req' = [q \in Calls |-> NoRequest]
  /\ UNCHANGED <<store, token, issued, standing>>

(* The user reloads. *)
Reload ==
  /\ page # "leaving"
  /\ gate' = FALSE
  /\ req' = [q \in Calls |-> NoRequest]
  /\ UNCHANGED <<page, store, token, issued, standing>>

(* LoginPage sends a signed-in user back into the application. *)
Bounce ==
  /\ page = "login" /\ store
  /\ page' = "app"
  /\ UNCHANGED <<store, token, issued, standing, gate, req>>

(* An access token expires; later, or if the account is deactivated, the    *)
(* refresh token is refused too.                                            *)
Expire(t) ==
  /\ t <= issued /\ standing[t] = "valid"
  /\ standing' = [standing EXCEPT ![t] = "expired"]
  /\ UNCHANGED <<page, store, token, issued, gate, req>>

Die(t) ==
  /\ t <= issued /\ standing[t] # "dead"
  /\ standing' = [standing EXCEPT ![t] = "dead"]
  /\ UNCHANGED <<page, store, token, issued, gate, req>>

Answer(q) ==
  \/ Settle(q) \/ Reject(q) \/ Park(q) \/ StartRefresh(q) \/ NothingToRefresh(q)
  \/ Refreshed(q) \/ RefreshFailed(q)

Next ==
  \/ \E q \in Calls : Send(q) \/ SendLogout(q) \/ Login(q) \/ Answer(q)
  \/ Load \/ Reload \/ Bounce
  \/ \E t \in Pairs : Expire(t) \/ Die(t)

Spec == Init /\ [][Next]_vars

(* Every connection is answered or breaks, a document that is left is left, *)
(* effects run, and the list is polled while the application is shown.      *)
Fairness ==
  /\ \A q \in Calls : WF_vars(Answer(q))
  /\ WF_vars(Load)
  /\ WF_vars(Bounce)
  /\ WF_vars(\E q \in Calls : Send(q))

FairSpec == Spec /\ Fairness

-----------------------------------------------------------------------------
(* isRefreshing is set exactly while one request refreshes, whatever ends it. *)
GateMatchesRefresh ==
  /\ gate <=> \E q \in Calls : req[q].pc = "refreshing"
  /\ \A p, q \in Calls : req[p].pc = "refreshing" /\ req[q].pc = "refreshing" => p = q

(* A request waits in refreshSubscribers only while somebody refreshes or   *)
(* the document, and the request with it, is about to go.                   *)
NobodyForgotten ==
  \A q \in Calls : req[q].pc = "parked" => gate \/ page = "leaving"

(* A request that is sent again carries a newer access token than the one   *)
(* that was refused, so no 401 is provoked twice.                           *)
ResentWithNewer ==
  \A q \in Calls : req[q].pc = "sent" /\ req[q].refused # 0 => req[q].tok > req[q].refused

(* Pairs are numbered as they are issued: nobody holds one of the future.   *)
IssuedOnly ==
  /\ token <= issued
  /\ \A q \in Calls :
       req[q].tok <= issued /\ req[q].refused <= issued /\ req[q].login <= issued

Consistent ==
  /\ TypeOK
  /\ GateMatchesRefresh
  /\ NobodyForgotten
  /\ ResentWithNewer
  /\ IssuedOnly

(* Every request gets its answer, or the document it belongs to is left.    *)
EveryRequestSettled == \A q \in Calls : req[q].pc # "none" ~> req[q].pc = "none"

(* A refresh renews tokens; it does not bring them back after a logout. *)
RefreshOnlyRenews ==
  [][token = 0 /\ token' # 0 =>
       \E q \in Calls : "me" \in {req[q].kind, req'[q].kind}]_vars
=============================================================================
