------------------------- MODULE TokenRefreshProofs -------------------------
(***************************************************************************)
(* TokenRefresh for any number of requests in flight and of pairs issued.  *)
(***************************************************************************)
EXTENDS TokenRefresh, TLAPS

USE PairsAssumption

LEMMA NoRequestType == NoRequest \in Request
  BY DEF NoRequest, Request, MaybePair

LEMMA NewRequestType ==
  ASSUME NEW kind \in {"call", "me", "logout"}, NEW t \in MaybePair, NEW l \in MaybePair
  PROVE  /\ NewRequest(kind, t, l) \in Request
         /\ NewRequest(kind, t, l).pc = "sent" /\ NewRequest(kind, t, l).tok = t
         /\ NewRequest(kind, t, l).refused = 0 /\ NewRequest(kind, t, l).login = l
  BY DEF NewRequest, Request, MaybePair

LEMMA ResendEffect ==
  ASSUME NEW r \in Request, NEW t \in MaybePair
  PROVE  /\ Resend(r, t) \in Request
         /\ Resend(r, t).pc = "sent" /\ Resend(r, t).tok = t
         /\ Resend(r, t).refused = r.refused /\ Resend(r, t).login = r.login
  BY DEF Resend, Request

LEMMA ParkedEffect ==
  ASSUME NEW r \in Request
  PROVE  /\ Parked(r) \in Request
         /\ Parked(r).pc = "parked" /\ Parked(r).tok = r.tok
         /\ Parked(r).refused = r.tok /\ Parked(r).login = r.login
  BY DEF Parked, Request

LEMMA RefreshingEffect ==
  ASSUME NEW r \in Request, NEW t \in MaybePair
  PROVE  /\ Refreshing(r, t) \in Request
         /\ Refreshing(r, t).pc = "refreshing" /\ Refreshing(r, t).tok = t
         /\ Refreshing(r, t).refused = r.tok /\ Refreshing(r, t).login = r.login
  BY DEF Refreshing, Request

-----------------------------------------------------------------------------
(* One request changes: what the new value must satisfy.                    *)
LEMMA OneRequest ==
  ASSUME Consistent, NEW q \in Calls, NEW r \in Request,
         req' = [req EXCEPT ![q] = r],
         page' \in {"login", "app", "leaving"}, store' \in BOOLEAN,
         token' \in MaybePair, issued' \in MaybePair, token' <= issued', issued <= issued',
         standing' \in [Pairs -> {"valid", "expired", "dead"}], gate' \in BOOLEAN,
         page = "leaving" => page' = "leaving",
         r.pc = "parked" => gate' \/ page' = "leaving",
         r.pc = "sent" /\ r.refused # 0 => r.tok > r.refused,
         r.tok <= issued', r.refused <= issued', r.login <= issued',
         \/ gate' = gate /\ req[q].pc # "refreshing" /\ r.pc # "refreshing"
         \/ gate' /\ ~ gate /\ r.pc = "refreshing"
         \/ ~ gate' /\ r.pc # "refreshing" /\ page' = "leaving"
              /\ (gate => req[q].pc = "refreshing")
  PROVE  Consistent'
<1> USE DEF Consistent
<1>1. /\ req' \in [Calls -> Request]
      /\ req'[q] = r
      /\ \A p \in Calls \ {q} : req'[p] = req[p]
  BY DEF TypeOK
<1>2. TypeOK'
  BY <1>1 DEF TypeOK
<1>3. GateMatchesRefresh'
  BY <1>1 DEF GateMatchesRefresh, TypeOK
<1>4. NobodyForgotten'
  BY <1>1 DEF NobodyForgotten
<1>5. ResentWithNewer'
  BY <1>1 DEF ResentWithNewer
<1>6. IssuedOnly'
  <2>1. \A p \in Calls : req'[p] \in Request /\ req[p] \in Request
    BY <1>1 DEF TypeOK
  <2>2. issued \in Nat /\ issued' \in Nat
    BY DEF TypeOK, MaybePair
  <2>3. ASSUME NEW p \in Calls
        PROVE  req'[p].tok <= issued' /\ req'[p].refused <= issued' /\ req'[p].login <= issued'
    <3>1. CASE p = q
      BY <1>1, <3>1
    <3>2. CASE p # q
      BY <1>1, <2>1, <2>2, <3>2 DEF IssuedOnly, Request, MaybePair
    <3>3. QED
      BY <3>1, <3>2
  <2>4. QED
    BY <2>3 DEF IssuedOnly
<1>7. QED
  BY <1>2, <1>3, <1>4, <1>5, <1>6

(* The answer reaches the caller.                                           *)
LEMMA FinishEffect ==
  ASSUME Consistent, NEW q \in Calls, NEW ok \in BOOLEAN, NEW t \in MaybePair,
         t <= issued, NEW p \in {"login", "app", "leaving"}, Finish(q, ok, t, p)
  PROVE  /\ req' = [req EXCEPT ![q] = NoRequest]
         /\ page' \in {"login", "app", "leaving"} /\ (p = "leaving" => page' = "leaving")
         /\ store' \in BOOLEAN
         /\ token' \in MaybePair /\ token' <= issued
<1>1. /\ req[q] \in Request /\ req[q].login \in MaybePair /\ req[q].login <= issued
      /\ store \in BOOLEAN /\ issued \in MaybePair /\ 0 \in MaybePair /\ 0 <= issued
  BY DEF Consistent, TypeOK, IssuedOnly, Request, MaybePair
<1>2. CASE req[q].kind = "logout"
  BY <1>1, <1>2 DEF Finish
<1>3. CASE req[q].kind # "logout" /\ req[q].kind = "me" /\ ok
  BY <1>1, <1>3 DEF Finish
<1>4. CASE req[q].kind # "logout" /\ ~ (req[q].kind = "me" /\ ok)
  BY <1>1, <1>4 DEF Finish
<1>5. QED
  BY <1>2, <1>3, <1>4

LEMMA NoRequestFacts ==
  /\ NoRequest.pc = "none" /\ NoRequest.tok = 0
  /\ NoRequest.refused = 0 /\ NoRequest.login = 0
  BY DEF NoRequest

LEMMA Ranges ==
  ASSUME Consistent
  PROVE  /\ page \in {"login", "app", "leaving"} /\ store \in BOOLEAN /\ gate \in BOOLEAN
         /\ token \in MaybePair /\ issued \in MaybePair /\ issued \in Nat /\ token \in Nat
         /\ token <= issued /\ 0 <= issued
         /\ standing \in [Pairs -> {"valid", "expired", "dead"}]
         /\ req \in [Calls -> Request]
         /\ \A q \in Calls :
              /\ req[q] \in Request
              /\ req[q].tok \in MaybePair /\ req[q].refused \in MaybePair
              /\ req[q].login \in MaybePair
              /\ req[q].tok <= issued /\ req[q].refused <= issued /\ req[q].login <= issued
  BY DEF Consistent, TypeOK, IssuedOnly, Request, MaybePair

-----------------------------------------------------------------------------
(* Requests that end.                                                       *)

LEMMA SettleStep ==
  ASSUME Consistent, NEW q \in Calls, Settle(q) \/ Reject(q)
  PROVE  Consistent'
<1>1. PICK ok \in BOOLEAN : Finish(q, ok, token, page)
  BY DEF Settle, Reject
<1>2. req[q].pc = "sent" /\ UNCHANGED <<issued, standing, gate>>
  BY DEF Settle, Reject, Unauthorized
<1>3. /\ req' = [req EXCEPT ![q] = NoRequest]
      /\ page' \in {"login", "app", "leaving"} /\ (page = "leaving" => page' = "leaving")
      /\ store' \in BOOLEAN /\ token' \in MaybePair /\ token' <= issued
  BY <1>1, Ranges, FinishEffect
<1> DEFINE r == NoRequest
<1>4. r \in Request /\ r.pc = "none" /\ r.tok = 0 /\ r.refused = 0 /\ r.login = 0
  BY NoRequestType, NoRequestFacts
<1>5. /\ req' = [req EXCEPT ![q] = r]
      /\ issued' = issued /\ 0 <= issued' /\ issued <= issued' /\ token' <= issued'
      /\ issued' \in MaybePair /\ gate' \in BOOLEAN
      /\ standing' \in [Pairs -> {"valid", "expired", "dead"}]
  BY <1>2, <1>3, Ranges
<1> HIDE DEF r
<1>6. QED
  BY <1>2, <1>3, <1>4, <1>5, OneRequest

LEMMA GiveUpStep ==
  ASSUME Consistent, NEW q \in Calls, NothingToRefresh(q) \/ RefreshFailed(q)
  PROVE  Consistent'
<1>1. /\ Finish(q, FALSE, 0, "leaving") /\ gate' = FALSE /\ UNCHANGED <<issued, standing>>
      /\ gate => req[q].pc = "refreshing"
  BY DEF NothingToRefresh, RefreshFailed, GiveUp
<1>2. 0 \in MaybePair /\ 0 <= issued
  BY Ranges DEF MaybePair
<1>3. /\ req' = [req EXCEPT ![q] = NoRequest]
      /\ page' = "leaving"
      /\ store' \in BOOLEAN /\ token' \in MaybePair /\ token' <= issued
  BY <1>1, <1>2, FinishEffect
<1> DEFINE r == NoRequest
<1>4. r \in Request /\ r.pc = "none" /\ r.tok = 0 /\ r.refused = 0 /\ r.login = 0
  BY NoRequestType, NoRequestFacts
<1>5. /\ req' = [req EXCEPT ![q] = r]
      /\ issued' = issued /\ 0 <= issued' /\ issued <= issued' /\ token' <= issued'
      /\ issued' \in MaybePair
      /\ page' \in {"login", "app", "leaving"}
      /\ standing' \in [Pairs -> {"valid", "expired", "dead"}]
  BY <1>1, <1>3, Ranges
<1> HIDE DEF r
<1>6. QED
  BY <1>1, <1>3, <1>4, <1>5, OneRequest

(* Requests that begin, wait or refresh.                                    *)

LEMMA SendStep ==
  ASSUME Consistent, NEW q \in Calls, Send(q) \/ SendLogout(q)
  PROVE  Consistent'
<1>1. PICK kind \in {"call", "logout"} : req' = [req EXCEPT ![q] = NewRequest(kind, token, 0)]
  BY DEF Send, SendLogout
<1>2. req[q].pc = "none" /\ UNCHANGED <<page, store, token, issued, standing, gate>>
  BY DEF Send, SendLogout
<1> DEFINE r == NewRequest(kind, token, 0)
<1>3. 0 \in MaybePair
  BY DEF MaybePair
<1>4. r \in Request /\ r.pc = "sent" /\ r.tok = token /\ r.refused = 0 /\ r.login = 0
  BY <1>3, Ranges, NewRequestType
<1>5. req' = [req EXCEPT ![q] = r]
  BY <1>1
<1> HIDE DEF r
<1>6. /\ page' \in {"login", "app", "leaving"} /\ store' \in BOOLEAN
      /\ token' \in MaybePair /\ issued' \in MaybePair
      /\ token' <= issued' /\ issued <= issued' /\ 0 <= issued'
      /\ standing' \in [Pairs -> {"valid", "expired", "dead"}]
      /\ gate' \in BOOLEAN
  BY <1>2, Ranges
<1>7. QED
  BY <1>2, <1>4, <1>5, <1>6, OneRequest

LEMMA LoginStep ==
  ASSUME Consistent, NEW q \in Calls, Login(q)
  PROVE  Consistent'
<1> DEFINE r == NewRequest("me", token', token')
<1>1. /\ token' \in MaybePair /\ issued' = token' /\ issued <= issued' /\ token' <= issued'
      /\ issued' \in Nat
  BY Ranges DEF Login, MaybePair
<1>2. r \in Request /\ r.pc = "sent" /\ r.tok = token' /\ r.refused = 0 /\ r.login = token'
  BY <1>1, NewRequestType
<1>3. /\ req' = [req EXCEPT ![q] = r] /\ req[q].pc = "none"
      /\ UNCHANGED <<page, store, standing, gate>>
  BY DEF Login
<1> HIDE DEF r
<1>4. /\ page' \in {"login", "app", "leaving"} /\ store' \in BOOLEAN
      /\ token' \in MaybePair /\ issued' \in MaybePair
      /\ token' <= issued' /\ issued <= issued' /\ 0 <= issued'
      /\ standing' \in [Pairs -> {"valid", "expired", "dead"}]
      /\ gate' \in BOOLEAN
  BY <1>1, <1>3, Ranges
<1>5. QED
  BY <1>1, <1>2, <1>3, <1>4, OneRequest

LEMMA ParkStep ==
  ASSUME Consistent, NEW q \in Calls, Park(q)
  PROVE  Consistent'
<1> DEFINE r == Parked(req[q])
<1>1. /\ r \in Request /\ r.pc = "parked" /\ r.tok = req[q].tok
      /\ r.refused = req[q].tok /\ r.login = req[q].login
  BY Ranges, ParkedEffect
<1>2. /\ req' = [req EXCEPT ![q] = r] /\ gate /\ req[q].pc = "sent"
      /\ UNCHANGED <<page, store, token, issued, standing, gate>>
  BY Ranges DEF Park, Unauthorized
<1> HIDE DEF r
<1>3. /\ page' \in {"login", "app", "leaving"} /\ store' \in BOOLEAN
      /\ token' \in MaybePair /\ issued' \in MaybePair
      /\ token' <= issued' /\ issued <= issued' /\ 0 <= issued'
      /\ standing' \in [Pairs -> {"valid", "expired", "dead"}]
      /\ gate' \in BOOLEAN /\ req[q].tok <= issued' /\ req[q].login <= issued'
  BY <1>2, Ranges
<1>4. QED
  BY <1>1, <1>2, <1>3, OneRequest

LEMMA StartRefreshStep ==
  ASSUME Consistent, NEW q \in Calls, StartRefresh(q)
  PROVE  Consistent'
<1> DEFINE r == Refreshing(req[q], token)
<1>1. /\ r \in Request /\ r.pc = "refreshing" /\ r.tok = token
      /\ r.refused = req[q].tok /\ r.login = req[q].login
  BY Ranges, RefreshingEffect
<1>2. /\ req' = [req EXCEPT ![q] = r] /\ ~ gate /\ gate' = TRUE
      /\ UNCHANGED <<page, store, token, issued, standing>>
  BY Ranges DEF StartRefresh
<1> HIDE DEF r
<1>3. /\ page' \in {"login", "app", "leaving"} /\ store' \in BOOLEAN
      /\ token' \in MaybePair /\ issued' \in MaybePair
      /\ token' <= issued' /\ issued <= issued' /\ 0 <= issued'
      /\ standing' \in [Pairs -> {"valid", "expired", "dead"}]
      /\ req[q].tok <= issued' /\ req[q].login <= issued'
  BY <1>2, Ranges
<1>4. QED
  BY <1>1, <1>2, <1>3, OneRequest

(* The refresh succeeds: everybody waiting goes out again.                  *)
LEMMA RefreshedStep ==
  ASSUME Consistent, NEW q \in Calls, Refreshed(q)
  PROVE  Consistent'
<1>1. /\ token' \in MaybePair /\ issued' = token' /\ issued' = issued + 1
      /\ issued \in Nat /\ issued' \in Nat /\ gate' = FALSE /\ UNCHANGED <<page, store, standing>>
  BY Ranges DEF Refreshed, MaybePair
<1>2. ASSUME NEW p \in Calls
      PROVE  /\ req'[p] \in Request
             /\ req'[p].pc \notin {"refreshing", "parked"}
             /\ req'[p].tok <= issued' /\ req'[p].refused <= issued' /\ req'[p].login <= issued'
             /\ req'[p].pc = "sent" /\ req'[p].refused # 0 => req'[p].tok > req'[p].refused
  <2>0. /\ req[p].tok \in Nat /\ req[p].refused \in Nat /\ req[p].login \in Nat
        /\ req[p].tok <= issued /\ req[p].refused <= issued /\ req[p].login <= issued
    BY Ranges DEF MaybePair
  <2>1. CASE p = q \/ req[p].pc = "parked"
    <3>1. req'[p] = Resend(req[p], token')
      BY <2>1 DEF Refreshed
    <3>2. req[p] \in Request
      BY Ranges
    <3>3. \A t \in MaybePair :
            /\ Resend(req[p], t) \in Request /\ Resend(req[p], t).pc = "sent"
            /\ Resend(req[p], t).tok = t
            /\ Resend(req[p], t).refused = req[p].refused
            /\ Resend(req[p], t).login = req[p].login
      BY <3>2, ResendEffect
    <3>4. /\ req'[p] \in Request /\ req'[p].pc = "sent" /\ req'[p].tok = token'
          /\ req'[p].refused = req[p].refused /\ req'[p].login = req[p].login
      BY <1>1, <3>1, <3>3
    <3>5. token' \in Nat /\ token' <= issued' /\ req[p].refused < token'
          /\ req[p].refused <= issued' /\ req[p].login <= issued'
      BY <1>1, <2>0
    <3>6. QED
      BY <3>4, <3>5
  <2>2. CASE p # q /\ req[p].pc # "parked"
    <3>1. req'[p] = req[p]
      BY <2>2 DEF Refreshed
    <3>2. req[p].pc # "refreshing"
      BY <2>2 DEF Refreshed, Consistent, GateMatchesRefresh
    <3>3. req[p].pc = "sent" /\ req[p].refused # 0 => req[p].tok > req[p].refused
      BY DEF Consistent, ResentWithNewer
    <3>4. QED
      BY <1>1, <2>0, <2>2, <3>1, <3>2, <3>3, Ranges
  <2>3. QED
    BY <2>1, <2>2
<1>3. req' \in [Calls -> Request]
  BY <1>2 DEF Refreshed
<1>4. TypeOK'
  BY <1>1, <1>3, Ranges DEF TypeOK
<1>5. GateMatchesRefresh' /\ NobodyForgotten' /\ ResentWithNewer'
  BY <1>1, <1>2 DEF GateMatchesRefresh, NobodyForgotten, ResentWithNewer
<1>6. IssuedOnly'
  BY <1>1, <1>2 DEF IssuedOnly
<1>7. QED
  BY <1>4, <1>5, <1>6 DEF Consistent

(* The document is replaced: no request is left.                            *)
LEMMA LoadStep ==
  ASSUME Consistent, Load \/ Reload
  PROVE  Consistent'
<1>1. /\ req' = [q \in Calls |-> NoRequest] /\ gate' = FALSE
      /\ page' \in {"login", "app", "leaving"}
      /\ UNCHANGED <<store, token, issued, standing>>
  BY Ranges DEF Load, Reload
<1>2. TypeOK'
  BY <1>1, Ranges, NoRequestType DEF TypeOK
<1>3. \A q \in Calls : req'[q] = NoRequest
  BY <1>1
<1>4. GateMatchesRefresh' /\ NobodyForgotten' /\ ResentWithNewer'
  BY <1>1, <1>3, NoRequestFacts DEF GateMatchesRefresh, NobodyForgotten, ResentWithNewer
<1>5. IssuedOnly'
  BY <1>1, <1>3, Ranges, NoRequestFacts DEF IssuedOnly
<1>6. QED
  BY <1>2, <1>4, <1>5 DEF Consistent

(* Steps that leave the requests alone.                                     *)
LEMMA OtherStep ==
  ASSUME Consistent, UNCHANGED <<store, token, issued, gate, req>>,
         page' \in {"login", "app", "leaving"}, page = "leaving" => page' = "leaving",
         standing' \in [Pairs -> {"valid", "expired", "dead"}]
  PROVE  Consistent'
  BY DEF Consistent, TypeOK, GateMatchesRefresh, NobodyForgotten, ResentWithNewer, IssuedOnly

-----------------------------------------------------------------------------
LEMMA InitConsistent == Init => Consistent
<1> SUFFICES ASSUME Init PROVE Consistent
  OBVIOUS
<1>1. \A q \in Calls : req[q] = NoRequest
  BY DEF Init
<1>2. TypeOK
  <2>1. 0 \in MaybePair
    BY DEF MaybePair
  <2>2. req \in [Calls -> Request]
    BY NoRequestType DEF Init
  <2>3. standing \in [Pairs -> {"valid", "expired", "dead"}]
    BY DEF Init
  <2>4. QED
    BY <2>1, <2>2, <2>3 DEF Init, TypeOK
<1>3. GateMatchesRefresh /\ NobodyForgotten /\ ResentWithNewer /\ IssuedOnly
  BY <1>1, NoRequestFacts
     DEF Init, GateMatchesRefresh, NobodyForgotten, ResentWithNewer, IssuedOnly
<1>4. QED
  BY <1>2, <1>3 DEF Consistent

LEMMA NextConsistent == Consistent /\ [Next]_vars => Consistent'
<1> SUFFICES ASSUME Consistent, [Next]_vars PROVE Consistent'
  OBVIOUS
<1>1. CASE \E q \in Calls : Answer(q)
  BY <1>1, SettleStep, GiveUpStep, ParkStep, StartRefreshStep, RefreshedStep DEF Answer
<1>2. CASE \E q \in Calls : Send(q) \/ SendLogout(q) \/ Login(q)
  BY <1>2, SendStep, LoginStep
<1>3. CASE Load \/ Reload
  BY <1>3, LoadStep
<1>4. CASE Bounce \/ UNCHANGED vars
  BY <1>4, Ranges, OtherStep DEF Bounce, vars
<1>5. CASE \E t \in Pairs : Expire(t) \/ Die(t)
  BY <1>5, Ranges, OtherStep DEF Expire, Die
<1>6. QED
  BY <1>1, <1>2, <1>3, <1>4, <1>5 DEF Next

(* In every reachable state the requests in flight, isRefreshing and the    *)
(* tokens fit together.                                                     *)
THEOREM AlwaysConsistent == Spec => []Consistent
  BY InitConsistent, NextConsistent, PTL DEF Spec

(* isRefreshing is set exactly while one request, and only one, refreshes.  *)
THEOREM OneRefreshAtATime == Spec => []GateMatchesRefresh
<1>1. Consistent => GateMatchesRefresh
  BY DEF Consistent
<1>2. QED
  BY <1>1, AlwaysConsistent, PTL

(* Nobody waits for a refresh that is not under way in a page that stays.   *)
THEOREM NobodyLeftBehind == Spec => []NobodyForgotten
<1>1. Consistent => NobodyForgotten
  BY DEF Consistent
<1>2. QED
  BY <1>1, AlwaysConsistent, PTL

(* No request is sent again with the access token it was refused with.      *)
THEOREM NewTokenEachTime == Spec => []ResentWithNewer
<1>1. Consistent => ResentWithNewer
  BY DEF Consistent
<1>2. QED
  BY <1>1, AlwaysConsistent, PTL

-----------------------------------------------------------------------------
(* What keeps a refresh from bringing tokens back.                          *)

(* Nobody logs out while another request refreshes.                         *)
LogoutAlone ==
  \A p, q \in Calls :
    req[p].pc # "none" /\ req[p].kind = "logout" /\ req[q].pc = "refreshing" => p = q

(* A refresh has a session to renew, and a login a pair to store.           *)
HasSession ==
  \A q \in Calls :
    /\ req[q].pc = "refreshing" => token # 0
    /\ req[q].kind = "me" => req[q].login # 0

LEMMA InitHasSession == Init => HasSession
<1>1. NoRequest.pc = "none" /\ NoRequest.kind = "call"
  BY DEF NoRequest
<1>2. QED
  BY <1>1 DEF Init, HasSession

(* A request that ends.                                                     *)
LEMMA FinishKeepsSession ==
  ASSUME Consistent, HasSession, NEW q \in Calls, NEW ok, NEW t, NEW p, Finish(q, ok, t, p),
         \A r \in Calls \ {q} : req[r].pc = "refreshing" => t # 0 /\ req[q].kind # "logout"
  PROVE  HasSession'
<1>1. /\ req'[q] = NoRequest /\ \A r \in Calls \ {q} : req'[r] = req[r]
  <2>1. req' = [req EXCEPT ![q] = NoRequest]
    BY DEF Finish
  <2>2. QED
    BY <2>1, Ranges
<1>2. NoRequest.pc = "none" /\ NoRequest.kind = "call"
  BY DEF NoRequest
<1>3. ASSUME NEW r \in Calls \ {q}, req[r].pc = "refreshing" PROVE token' # 0
  <2>1. t # 0 /\ req[q].kind # "logout"
    BY <1>3
  <2>2. CASE req[q].kind = "me" /\ ok
    BY <2>1, <2>2 DEF Finish, HasSession
  <2>3. CASE ~ (req[q].kind = "me" /\ ok)
    BY <2>1, <2>3 DEF Finish
  <2>4. QED
    BY <2>2, <2>3
<1>4. QED
  BY <1>1, <1>2, <1>3 DEF HasSession

LEMMA AnswerKeepsSession ==
  ASSUME Consistent, HasSession, LogoutAlone, NEW q \in Calls, Answer(q)
  PROVE  HasSession'
<1>0. /\ GateMatchesRefresh
      /\ \A r \in Calls : req[r].pc = "refreshing" => token # 0 /\ gate
  BY DEF Consistent, HasSession, GateMatchesRefresh
<1>1. CASE Settle(q) \/ Reject(q)
  <2>1. PICK ok \in BOOLEAN : Finish(q, ok, token, page)
    BY <1>1 DEF Settle, Reject
  <2>2. req[q].pc # "none"
    BY <1>1 DEF Settle, Reject, Unauthorized
  <2>3. \A r \in Calls \ {q} : req[r].pc = "refreshing" => req[q].kind # "logout"
    BY <2>2 DEF LogoutAlone
  <2>4. QED
    BY <1>0, <2>1, <2>3, FinishKeepsSession
<1>2. CASE NothingToRefresh(q) \/ RefreshFailed(q)
  <2>1. Finish(q, FALSE, 0, "leaving")
    BY <1>2 DEF NothingToRefresh, RefreshFailed, GiveUp
  <2>2. \A r \in Calls \ {q} : req[r].pc # "refreshing"
    BY <1>0, <1>2 DEF NothingToRefresh, RefreshFailed, GateMatchesRefresh
  <2>3. QED
    BY <2>1, <2>2, FinishKeepsSession
<1>3. CASE Park(q) \/ StartRefresh(q)
  <2>1. PICK r : /\ req' = [req EXCEPT ![q] = r] /\ token' = token
                 /\ r.kind = req[q].kind /\ r.login = req[q].login
                 /\ r.pc = "refreshing" => token # 0
    <3>1. req[q] \in Request /\ token \in MaybePair
      BY Ranges
    <3>2. /\ Parked(req[q]).kind = req[q].kind /\ Parked(req[q]).login = req[q].login
          /\ Parked(req[q]).pc = "parked"
      BY <3>1 DEF Parked, Request
    <3>3. /\ Refreshing(req[q], token).kind = req[q].kind
          /\ Refreshing(req[q], token).login = req[q].login
      BY <3>1 DEF Refreshing, Request
    <3>4. QED
      BY <1>3, <3>2, <3>3 DEF Park, StartRefresh
  <2>2. req'[q] = r /\ \A p \in Calls \ {q} : req'[p] = req[p]
    BY <2>1, Ranges
  <2>3. QED
    BY <2>1, <2>2 DEF HasSession
<1>4. CASE Refreshed(q)
  <2>1. token' # 0
    BY <1>4, Ranges DEF Refreshed
  <2>2. ASSUME NEW p \in Calls
        PROVE  req'[p].kind = req[p].kind /\ req'[p].login = req[p].login
    <3>1. /\ Resend(req[p], token').kind = req[p].kind
          /\ Resend(req[p], token').login = req[p].login
      BY Ranges DEF Resend, Request
    <3>2. QED
      BY <1>4, <3>1 DEF Refreshed
  <2>3. QED
    BY <2>1, <2>2 DEF HasSession
<1>5. QED
  BY <1>1, <1>2, <1>3, <1>4 DEF Answer

LEMMA NextKeepsSession ==
  ASSUME Consistent, HasSession, LogoutAlone, [Next]_vars
  PROVE  HasSession'
<1>1. ASSUME NEW q \in Calls, Send(q) \/ SendLogout(q) PROVE HasSession'
  <2>1. PICK kind \in {"call", "logout"} : req' = [req EXCEPT ![q] = NewRequest(kind, token, 0)]
    BY <1>1 DEF Send, SendLogout
  <2>2. /\ NewRequest(kind, token, 0).pc = "sent" /\ NewRequest(kind, token, 0).kind # "me"
    BY DEF NewRequest
  <2>3. token' = token
    BY <1>1 DEF Send, SendLogout
  <2>4. QED
    BY <2>1, <2>2, <2>3, Ranges DEF HasSession
<1>2. ASSUME NEW q \in Calls, Login(q) PROVE HasSession'
  <2>1. token' # 0 /\ req' = [req EXCEPT ![q] = NewRequest("me", token', token')]
    BY <1>2, Ranges DEF Login
  <2>2. /\ NewRequest("me", token', token').pc = "sent"
        /\ NewRequest("me", token', token').login = token'
    BY DEF NewRequest
  <2>3. QED
    BY <2>1, <2>2, Ranges DEF HasSession
<1>3. ASSUME NEW q \in Calls, Answer(q) PROVE HasSession'
  BY <1>3, AnswerKeepsSession
<1>4. CASE Load \/ Reload
  <2>1. NoRequest.pc = "none" /\ NoRequest.kind = "call"
    BY DEF NoRequest
  <2>2. QED
    BY <1>4, <2>1 DEF Load, Reload, HasSession
<1>5. CASE UNCHANGED <<token, req>>
  BY <1>5 DEF HasSession
<1>6. QED
  BY <1>1, <1>2, <1>3, <1>4, <1>5 DEF Next, Bounce, Expire, Die, vars

LEMMA NextOnlyRenews ==
  ASSUME Consistent, HasSession, [Next]_vars, token = 0, token' # 0
  PROVE  \E q \in Calls : "me" \in {req[q].kind, req'[q].kind}
<1>1. PICK q \in Calls : Login(q) \/ Answer(q)
  BY DEF Next, Send, SendLogout, Load, Reload, Bounce, Expire, Die, vars
<1>2. CASE Login(q)
  <2>1. req'[q] = NewRequest("me", token', token')
    BY <1>2, Ranges DEF Login
  <2>2. QED
    BY <2>1 DEF NewRequest
<1>3. CASE Refreshed(q)
  BY <1>3 DEF Refreshed, HasSession
<1>4. ASSUME NEW ok, NEW t, NEW p, Finish(q, ok, t, p), t = 0 PROVE req[q].kind = "me"
  BY <1>4 DEF Finish
<1>5. QED
  BY <1>1, <1>2, <1>3, <1>4
     DEF Answer, Settle, Reject, Park, StartRefresh, NothingToRefresh, RefreshFailed, GiveUp

(* It takes a logout: as long as none is under way while somebody else's    *)
(* request refreshes, no refresh brings tokens back that were removed, in   *)
(* whatever order answers, failures, reloads and expiries come.             *)
THEOREM RefreshRenewsUnlessLogout == Spec /\ []LogoutAlone => RefreshOnlyRenews
<1>1. Spec /\ []LogoutAlone => []HasSession
  BY InitHasSession, NextKeepsSession, AlwaysConsistent, PTL DEF Spec
<1>2. Consistent /\ HasSession /\ [Next]_vars =>
        (token = 0 /\ token' # 0 => \E q \in Calls : "me" \in {req[q].kind, req'[q].kind})
  BY NextOnlyRenews
<1>3. Spec /\ []LogoutAlone =>
        [][token = 0 /\ token' # 0 =>
             \E q \in Calls : "me" \in {req[q].kind, req'[q].kind}]_vars
  BY <1>1, <1>2, AlwaysConsistent, PTL DEF Spec
<1>4. QED
  BY <1>3 DEF RefreshOnlyRenews
=============================================================================
