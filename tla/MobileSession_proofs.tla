------------------------- MODULE MobileSession_proofs -------------------------
(***************************************************************************)
(* Proofs about MobileSession, for any number of users, requests under way,  *)
(* logins and faults: the type invariant and the three promises of one        *)
(* session: who is signed in has the storage on his side, who signed out gets *)
(* no pushes, and the token of an ended session is deleted at the server.    *)
(***************************************************************************)
EXTENDS MobileSession, TLAPS

(***************************************************************************)
(* What holds whatever goes wrong: requests and routines name tokens that     *)
(* were issued, a refused token stays refused, and the restoring of a session *)
(* when the app starts has the phone for itself.                             *)
(***************************************************************************)
SaneRequest(r) ==
  /\ r.token \in Issued \cup {NoToken} /\ r.captured \in Issued \cup {NoToken}
  /\ r.stage = "ok" => r.token # NoToken
  /\ r.stage = "refused" => r.token \notin valid
  /\ r.kind \in {"boot", "restore", "revoke"} => r.captured # NoToken
  /\ r.kind = "revoke" /\ r.stage # "starting" => r.token # NoToken

RequestsAreSane == \A q \in Slots : request[q] # None => SaneRequest(request[q])

PhoneIsSane ==
  /\ session # None => session.token \in Issued
  /\ login # None /\ login.pc = "post" => Len(holder) < MaxLogins
  /\ login # None /\ login.pc # "post" =>
       login.token \in Issued /\ holder[login.token] = login.user
  /\ logout # None => /\ logout.token \in Issued \cup {NoToken}
                      /\ logout.pc = "revoke" => logout.token # NoToken

BootIsAlone ==
  \A q \in Slots : request[q] # None /\ request[q].kind = "boot" =>
    /\ session = None /\ login = None /\ logout = None
    /\ \A p \in Slots \ {q} : request[p] = None

SaneInv == TypeOK /\ RequestsAreSane /\ PhoneIsSane /\ BootIsAlone

(* Issued tokens are tokens, and an issued token has an owner.               *)
LEMMA IssuedTokens ==
  ASSUME TypeOK
  PROVE  /\ Issued = 1 .. Len(holder) /\ Len(holder) \in Nat /\ Issued \subseteq Tokens
         /\ NoToken \notin Issued
         /\ \A t \in Issued : holder[t] \in Users
BY ConstantsAssumption DEF TypeOK, Issued, Tokens

(* What is under way in a slot is a request with sane contents.              *)
LEMMA UnderWayIsRequest ==
  ASSUME SaneInv, NEW q \in Slots, request[q] # None
  PROVE  request[q] \in Request /\ SaneRequest(request[q])
BY DEF SaneInv, TypeOK, RequestsAreSane

(* The requests stay sane when one slot is filled sanely or emptied, and no  *)
(* token is issued meanwhile.                                                *)
LEMMA OneRequest ==
  ASSUME SaneInv, NEW q \in Slots, NEW x, request' = [request EXCEPT ![q] = x],
         x # None => x \in Request /\ SaneRequest(x)',
         UNCHANGED holder, valid' \subseteq valid
  PROVE  /\ request' \in [Slots -> Request \cup {None}]
         /\ RequestsAreSane'
         /\ request'[q] = x /\ \A p \in Slots \ {q} : request'[p] = request[p]
<1>1. request \in [Slots -> Request \cup {None}]
  BY DEF SaneInv, TypeOK
<1>2. ASSUME NEW p \in Slots \ {q}, request[p] # None PROVE SaneRequest(request[p])'
  <2>1. SaneRequest(request[p]) /\ request'[p] = request[p]
    BY <1>1, <1>2, UnderWayIsRequest
  <2> QED BY <2>1 DEF SaneRequest, Issued
<1>3. /\ request'[q] = x /\ \A p \in Slots \ {q} : request'[p] = request[p]
      /\ request' \in [Slots -> Request \cup {None}]
  BY <1>1
<1>4. ASSUME NEW p \in Slots, request'[p] # None PROVE SaneRequest(request[p])'
  <2>1. CASE p = q
    BY <1>3, <1>4, <2>1 DEF SaneRequest
  <2>2. CASE p # q
    BY <1>2, <1>3, <1>4, <2>2
  <2> QED BY <2>1, <2>2
<1> QED BY <1>3, <1>4 DEF RequestsAreSane

(* A request that starts is one.                                             *)
LEMMA StartIsSane ==
  ASSUME SaneInv, NEW q \in Slots, NEW kind \in Kinds, NEW user \in Users \cup {NoUser},
         NEW captured \in Issued \cup {NoToken},
         kind \in {"boot", "restore", "revoke"} => captured # NoToken,
         Start(q, kind, user, captured), holder' = holder, valid' = valid
  PROVE  /\ request' \in [Slots -> Request \cup {None}]
         /\ RequestsAreSane'
         /\ request[q] = None
         /\ request'[q] = [kind |-> kind, user |-> user, captured |-> captured,
                           token |-> NoToken, stage |-> "starting"]
         /\ request'[q] # None
         /\ \A p \in Slots \ {q} : request'[p] = request[p]
<1> DEFINE x == [kind |-> kind, user |-> user, captured |-> captured,
                 token |-> NoToken, stage |-> "starting"]
<1>1. TypeOK
  BY DEF SaneInv
<1>2. x \in Request
  BY <1>1, IssuedTokens DEF Request, Kinds
<1>3. SaneRequest(x)'
  BY DEF SaneRequest, Issued
<1>4. request' = [request EXCEPT ![q] = x] /\ request[q] = None
  BY DEF Start
<1>5. x # None
  BY <1>2, NamesAssumption
<1> HIDE DEF x
<1>6. /\ request' \in [Slots -> Request \cup {None}] /\ RequestsAreSane'
      /\ request'[q] = x /\ \A p \in Slots \ {q} : request'[p] = request[p]
  BY <1>2, <1>3, <1>4, OneRequest
<1> QED BY <1>4, <1>5, <1>6 DEF x

(* Nothing about the requests changes.                                       *)
LEMMA SameRequests ==
  ASSUME SaneInv, UNCHANGED <<request, holder>>, valid' \subseteq valid
  PROVE  /\ request' \in [Slots -> Request \cup {None}]
         /\ RequestsAreSane'
BY DEF SaneInv, TypeOK, RequestsAreSane, SaneRequest, Issued

(* The app starts anew only when told: as long as no restoring is begun, and *)
(* no routine begins or session appears where one is restored, it stays so.  *)
LEMMA StillAlone ==
  ASSUME SaneInv,
         \A q \in Slots : request'[q] # None =>
           \/ request[q] # None /\ request'[q].kind = request[q].kind
           \/ request[q] = None /\ request'[q].kind # "boot"
                /\ (session # None \/ login # None \/ logout # None),
         session' # None => \/ session # None
                            \/ login # None
                            \/ \E q \in Slots : request[q] # None /\ request'[q] = None,
         login' # None => login # None \/ \A q \in Slots : request[q] # None => request[q].kind # "boot",
         logout' # None => logout # None \/ session # None
  PROVE  BootIsAlone'
<1> SUFFICES ASSUME NEW q \in Slots, request'[q] # None, request'[q].kind = "boot"
             PROVE  /\ session' = None /\ login' = None /\ logout' = None
                    /\ \A p \in Slots \ {q} : request'[p] = None
  BY DEF BootIsAlone
<1>1. request[q] # None /\ request[q].kind = "boot"
  OBVIOUS
<1>2. /\ session = None /\ login = None /\ logout = None
      /\ \A p \in Slots \ {q} : request[p] = None
  BY <1>1 DEF SaneInv, BootIsAlone
<1>3. \A p \in Slots \ {q} : request'[p] = None
  BY <1>2
<1>4. session' = None
  BY <1>2
<1> QED BY <1>1, <1>2, <1>3, <1>4

(* Login and logout: routines of the app that start no request.              *)
LEMMA LoginSane ==
  ASSUME SaneInv,
         (\E u \in Users : LoginStart(u)) \/ LoginIssued \/ LoginFails \/ LoginWrite \/ LoginDone
  PROVE  SaneInv'
<1>0. /\ TypeOK /\ RequestsAreSane /\ PhoneIsSane /\ BootIsAlone
      /\ login # None => login \in Login
  BY DEF SaneInv, TypeOK
<1> USE NamesAssumption
<1>1. ASSUME NEW u \in Users, LoginStart(u) PROVE SaneInv'
  <2>1. login' = [user |-> u, token |-> NoToken, pc |-> "post"] /\ login' \in Login
    BY <1>1 DEF LoginStart, Login
  <2>2. UNCHANGED <<session, stored, cached, logout, request, holder, valid, device, faults>>
    BY <1>1 DEF LoginStart, server
  <2>3. TypeOK'
    <3>1. ended' \subseteq Issued /\ trouble' \in {"none", "failed", "crossed"}
      BY <1>0, <1>1 DEF LoginStart, Crossing, Record, TypeOK
    <3> QED BY <1>0, <2>1, <2>2, <3>1 DEF TypeOK, Issued
  <2>4. RequestsAreSane'
    BY <2>2, SameRequests
  <2>5. PhoneIsSane'
    BY <1>0, <1>1, <2>1, <2>2 DEF PhoneIsSane, Issued, LoginStart
  <2>6. BootIsAlone'
    BY <1>1, <2>2, StillAlone DEF LoginStart, UnderWay
  <2> QED BY <2>3, <2>4, <2>5, <2>6 DEF SaneInv
<1>2. CASE LoginIssued
  <2> DEFINE t == Len(holder) + 1
  <2>1. /\ login \in Login /\ login.pc = "post" /\ login.user \in Users
        /\ Len(holder) < MaxLogins /\ holder \in Seq(Users)
    BY <1>0, <1>2 DEF LoginIssued, PhoneIsSane, TypeOK, Login
  <2>2. /\ holder' = Append(holder, login.user)
        /\ DOMAIN holder' = Issued \cup {t} /\ Len(holder') = t /\ t \in Tokens
        /\ \A i \in Issued : holder'[i] = holder[i]
        /\ holder'[t] = login.user /\ t \notin Issued
    BY <1>2, <2>1, ConstantsAssumption DEF LoginIssued, Issued, Tokens
  <2>3. login' = [login EXCEPT !.token = t, !.pc = "write"] /\ login' \in Login
    BY <1>2, <2>1, <2>2 DEF LoginIssued, Login
  <2>4. /\ valid' = valid \cup {t}
        /\ UNCHANGED <<session, stored, cached, logout, request, device, ended, trouble, faults>>
    BY <1>2 DEF LoginIssued, history
  <2>5. TypeOK'
    <3>1. holder' \in Seq(Users) /\ Len(holder') <= MaxLogins
      BY <2>1, <2>2, ConstantsAssumption
    <3> QED BY <1>0, <2>2, <2>3, <2>4, <3>1 DEF TypeOK, Issued
  <2>6. RequestsAreSane'
    <3> SUFFICES ASSUME NEW q \in Slots, request[q] # None PROVE SaneRequest(request[q])'
      BY <2>4 DEF RequestsAreSane
    <3>1. SaneRequest(request[q]) /\ NoToken # t
      BY <2>2, UnderWayIsRequest, ConstantsAssumption DEF Tokens
    <3> QED BY <2>2, <2>4, <3>1 DEF SaneRequest, Issued
  <2>7. PhoneIsSane'
    <3>1. login'.token = t /\ login'.pc = "write" /\ login'.user = login.user
      BY <2>1, <2>3 DEF Login
    <3> QED BY <1>0, <2>2, <2>4, <3>1 DEF PhoneIsSane, Issued
  <2>8. BootIsAlone'
    BY <1>2, <2>4, StillAlone DEF LoginIssued
  <2> QED BY <2>5, <2>6, <2>7, <2>8 DEF SaneInv
<1>3. CASE LoginFails
  <2>1. /\ login' = None
        /\ UNCHANGED <<session, stored, cached, logout, request, holder, valid, device, ended, trouble, faults>>
    BY <1>3 DEF LoginFails, server, history
  <2>2. TypeOK' /\ PhoneIsSane' /\ RequestsAreSane'
    BY <1>0, <2>1, SameRequests DEF TypeOK, Issued, PhoneIsSane
  <2>3. BootIsAlone'
    BY <2>1, StillAlone
  <2> QED BY <2>2, <2>3 DEF SaneInv
<1>4. CASE LoginWrite
  <2>1. /\ login \in Login /\ login.pc = "write" /\ login.token \in Issued
        /\ holder[login.token] = login.user
    BY <1>0, <1>4 DEF LoginWrite, PhoneIsSane
  <2>2. /\ stored' = login.token /\ login' = [login EXCEPT !.pc = "save"]
        /\ UNCHANGED <<session, cached, logout, request, holder, valid, device, ended, trouble, faults>>
    BY <1>4 DEF LoginWrite, server, history
  <2>3. login' \in Login /\ login'.pc = "save" /\ login'.token = login.token /\ login'.user = login.user
    BY <2>1, <2>2 DEF Login
  <2>4. TypeOK' /\ PhoneIsSane' /\ RequestsAreSane'
    <3>1. TypeOK'
      BY <1>0, <2>1, <2>2, <2>3 DEF TypeOK, Issued
    <3>2. PhoneIsSane'
      BY <1>0, <2>1, <2>2, <2>3 DEF PhoneIsSane, Issued
    <3> QED BY <2>2, <3>1, <3>2, SameRequests
  <2>5. BootIsAlone'
    BY <1>4, <2>2, StillAlone DEF LoginWrite
  <2> QED BY <2>4, <2>5 DEF SaneInv
<1>5. CASE LoginDone
  <2>1. login \in Login /\ login.pc = "save" /\ login.token \in Issued
    BY <1>0, <1>5 DEF LoginDone, PhoneIsSane
  <2>2. /\ cached' = login.user /\ session' = [user |-> login.user, token |-> login.token]
        /\ login' = None
        /\ UNCHANGED <<stored, logout, request, holder, valid, device, ended, trouble, faults>>
    BY <1>5 DEF LoginDone, server, history
  <2>3. TypeOK' /\ PhoneIsSane' /\ RequestsAreSane'
    <3>1. session' \in Session /\ cached' \in Users
      BY <1>0, <2>1, <2>2, IssuedTokens DEF Session, Login
    <3>2. TypeOK'
      BY <1>0, <2>2, <3>1 DEF TypeOK, Issued
    <3>3. PhoneIsSane'
      BY <1>0, <2>1, <2>2 DEF PhoneIsSane, Issued
    <3> QED BY <2>2, <3>2, <3>3, SameRequests
  <2>4. BootIsAlone'
    BY <1>5, <2>2, StillAlone DEF LoginDone
  <2> QED BY <2>3, <2>4 DEF SaneInv
<1> QED BY <1>1, <1>2, <1>3, <1>4, <1>5

LEMMA LogoutSane ==
  ASSUME SaneInv, LogoutStart \/ LogoutRead \/ LogoutClear \/ LogoutRevoke
  PROVE  SaneInv'
<1>0. /\ TypeOK /\ RequestsAreSane /\ PhoneIsSane /\ BootIsAlone
      /\ logout # None => logout \in Logout
      /\ trouble \in {"none", "failed", "crossed"} /\ ended \subseteq Issued
      /\ stored \in Tokens \cup {NoToken} /\ NoToken \notin Issued
  BY IssuedTokens DEF SaneInv, TypeOK
<1> USE NamesAssumption
<1>1. CASE LogoutStart
  <2>1. /\ session # None /\ session.token \in Issued /\ session' = None
        /\ logout' = [token |-> NoToken, pc |-> "unregister"] /\ logout' \in Logout
        /\ UNCHANGED <<stored, cached, login, holder, valid, device, faults>>
    BY <1>0, <1>1 DEF LogoutStart, SignedOut, server, PhoneIsSane, Logout
  <2>2. ended' \subseteq Issued /\ trouble' \in {"none", "failed", "crossed"}
    BY <1>0, <1>1, <2>1 DEF LogoutStart, SignedOut, Crossing, Record
  <2>3. /\ request' \in [Slots -> Request \cup {None}] /\ RequestsAreSane'
        /\ \A q \in Slots : request'[q] # None =>
             \/ request[q] # None /\ request'[q].kind = request[q].kind
             \/ request[q] = None /\ request'[q].kind # "boot"
    <3>1. CASE UNCHANGED request
      BY <2>1, <3>1, SameRequests
    <3>2. ASSUME NEW q \in Slots, Start(q, "unregister", NoUser, NoToken)
          PROVE  /\ request' \in [Slots -> Request \cup {None}] /\ RequestsAreSane'
                 /\ \A p \in Slots : request'[p] # None =>
                      \/ request[p] # None /\ request'[p].kind = request[p].kind
                      \/ request[p] = None /\ request'[p].kind # "boot"
      <4>1. /\ request' \in [Slots -> Request \cup {None}] /\ RequestsAreSane'
            /\ request[q] = None /\ request'[q].kind = "unregister"
            /\ \A p \in Slots \ {q} : request'[p] = request[p]
        <5>1. "unregister" \in Kinds
          BY DEF Kinds
        <5>2. holder' = holder /\ valid' = valid
          BY <2>1
        <5>3. request'[q] = [kind |-> "unregister", user |-> NoUser, captured |-> NoToken,
                              token |-> NoToken, stage |-> "starting"]
          BY <3>2, <5>1, <5>2, StartIsSane
        <5> QED BY <3>2, <5>1, <5>2, <5>3, StartIsSane
      <4> QED BY <4>1
    <3> QED BY <1>1, <3>1, <3>2 DEF LogoutStart
  <2>4. TypeOK'
    BY <1>0, <2>1, <2>2, <2>3 DEF TypeOK, Issued, RequestsAreSane, SaneRequest
  <2>5. PhoneIsSane'
    BY <1>0, <2>1 DEF PhoneIsSane, Issued
  <2>6. BootIsAlone'
    BY <2>1, <2>3, StillAlone
  <2> QED BY <2>3, <2>4, <2>5, <2>6 DEF SaneInv
<1>2. CASE LogoutRead
  <2>1. /\ logout # None /\ logout' = [token |-> stored, pc |-> "clear"] /\ logout' \in Logout
        /\ UNCHANGED <<session, stored, cached, login, request, holder, valid, device, faults>>
    BY <1>0, <1>2 DEF LogoutRead, server, Logout
  <2>2. ended' \subseteq Issued /\ trouble' \in {"none", "failed", "crossed"}
    BY <1>0, <1>2 DEF LogoutRead, Failing, Record
  <2>3. TypeOK' /\ RequestsAreSane'
    BY <1>0, <2>1, <2>2, SameRequests DEF TypeOK, Issued
  <2>4. PhoneIsSane'
    BY <1>0, <2>1 DEF PhoneIsSane, Issued, TypeOK
  <2>5. BootIsAlone'
    BY <2>1, StillAlone
  <2> QED BY <2>3, <2>4, <2>5 DEF SaneInv
<1>3. CASE LogoutClear
  <2>1. /\ logout # None /\ stored' = NoToken /\ cached' = NoUser
        /\ logout' = IF logout.token = NoToken THEN None ELSE [logout EXCEPT !.pc = "revoke"]
        /\ UNCHANGED <<session, login, request, holder, valid, device, ended, trouble, faults>>
    BY <1>3 DEF LogoutClear, Clear, server, history
  <2>2. logout' # None => /\ logout' \in Logout /\ logout'.token = logout.token
                          /\ logout.token # NoToken
    BY <1>0, <2>1 DEF Logout
  <2>3. TypeOK' /\ RequestsAreSane'
    BY <1>0, <2>1, <2>2, SameRequests DEF TypeOK, Issued
  <2>4. PhoneIsSane'
    BY <1>0, <2>1, <2>2 DEF PhoneIsSane, Issued
  <2>5. BootIsAlone'
    BY <2>1, StillAlone
  <2> QED BY <2>3, <2>4, <2>5 DEF SaneInv
<1>4. CASE LogoutRevoke
  <2>1. /\ logout # None /\ stored' = NoToken /\ cached' = NoUser /\ logout' = None
        /\ UNCHANGED <<session, login, holder, valid, device, ended, trouble, faults>>
    BY <1>4 DEF LogoutRevoke, Clear, server, history
  <2>2. PICK q \in Slots : Start(q, "revoke", NoUser, logout.token)
    BY <1>4 DEF LogoutRevoke
  <2>3. logout.token \in Issued /\ logout.token # NoToken
    BY <1>0, <1>4 DEF LogoutRevoke, PhoneIsSane
  <2>4. /\ request' \in [Slots -> Request \cup {None}] /\ RequestsAreSane'
        /\ request[q] = None /\ request'[q].kind = "revoke"
        /\ \A p \in Slots \ {q} : request'[p] = request[p]
    <3>1. "revoke" \in Kinds
      BY DEF Kinds
    <3>2. PICK t \in Issued : t = logout.token
      BY <2>3
    <3>3. Start(q, "revoke", NoUser, t) /\ holder' = holder /\ valid' = valid /\ t # NoToken
      BY <2>1, <2>2, <2>3, <3>2
    <3>4. request'[q] = [kind |-> "revoke", user |-> NoUser, captured |-> t,
                          token |-> NoToken, stage |-> "starting"]
      BY <3>1, <3>3, StartIsSane
    <3> QED BY <3>1, <3>3, <3>4, StartIsSane
  <2>5. TypeOK'
    BY <1>0, <2>1, <2>4 DEF TypeOK, Issued, RequestsAreSane, SaneRequest
  <2>6. PhoneIsSane'
    BY <1>0, <2>1 DEF PhoneIsSane, Issued
  <2>7. BootIsAlone'
    BY <2>1, <2>4, StillAlone
  <2> QED BY <2>4, <2>5, <2>6, <2>7 DEF SaneInv
<1> QED BY <1>1, <1>2, <1>3, <1>4

LEMMA RequestSane ==
  ASSUME SaneInv, NEW q \in Slots, Send(q) \/ Handle(q) \/ AnswerOk(q) \/ AnswerRefused(q)
                                    \/ Fail(q) \/ ClearAgain(q) \/ ExpireState(q)
  PROVE  SaneInv'
<1> DEFINE r == request[q]
<1>0. /\ TypeOK /\ RequestsAreSane /\ PhoneIsSane /\ BootIsAlone
      /\ r # None /\ r \in Request /\ SaneRequest(r)
      /\ request \in [Slots -> Request \cup {None}]
      /\ stored \in Issued \cup {NoToken} /\ NoToken \notin Issued /\ Issued \subseteq Tokens
      /\ \A t \in Issued : holder[t] \in Users
  BY IssuedTokens, UnderWayIsRequest
     DEF SaneInv, TypeOK, Send, Handle, AnswerOk, AnswerRefused, Fail, ClearAgain, ExpireState
<1> USE NamesAssumption
\* What the slot holds after the step decides about all but the session.
<1>a. ASSUME NEW x, request' = [request EXCEPT ![q] = x],
             x # None => x \in Request /\ SaneRequest(x)' /\ x.kind = r.kind,
             UNCHANGED <<login, logout, holder>>, valid' \subseteq valid,
             session' = session \/ x = None,
             session' # None => session' \in Session /\ session'.token \in Issued,
             stored' \in Issued \cup {NoToken}, cached' \in Users \cup {NoUser},
             device' \in Users \cup {NoUser},
             ended' \subseteq Issued /\ trouble' \in {"none", "failed", "crossed"},
             faults' = faults
      PROVE  SaneInv'
  <2>1. /\ request' \in [Slots -> Request \cup {None}] /\ RequestsAreSane'
        /\ request'[q] = x /\ \A p \in Slots \ {q} : request'[p] = request[p]
    BY <1>a, OneRequest
  <2>2. TypeOK'
    BY <1>0, <1>a, <2>1 DEF TypeOK, Issued, RequestsAreSane, SaneRequest
  <2>3. PhoneIsSane'
    BY <1>0, <1>a DEF PhoneIsSane, Issued
  <2>4. BootIsAlone'
    <3>1. \A p \in Slots : request'[p] # None =>
            request[p] # None /\ request'[p].kind = request[p].kind
      BY <1>0, <1>a, <2>1
    <3>2. session' # None => session # None \/ (request[q] # None /\ request'[q] = None)
      BY <1>0, <1>a, <2>1
    <3> QED BY <1>a, <3>1, <3>2, StillAlone
  <2> QED BY <2>1, <2>2, <2>3, <2>4 DEF SaneInv
\* The slot is emptied.
<1>b. ASSUME request' = [request EXCEPT ![q] = None], UNCHANGED <<login, logout, server, faults>>,
             session' # None => session' \in Session /\ session'.token \in Issued,
             stored' \in Issued \cup {NoToken}, cached' \in Users \cup {NoUser},
             ended' \subseteq Issued /\ trouble' \in {"none", "failed", "crossed"}
      PROVE  SaneInv'
  <2>1. UNCHANGED <<holder, valid, device>> /\ device \in Users \cup {NoUser}
    BY <1>0, <1>b DEF server, TypeOK
  <2> QED BY <1>a, <1>b, <2>1
<1>c. session # None => session \in Session /\ session.token \in Issued
  BY <1>0 DEF TypeOK, PhoneIsSane
<1>d. /\ ended \subseteq Issued /\ trouble \in {"none", "failed", "crossed"}
      /\ cached \in Users \cup {NoUser} /\ device \in Users \cup {NoUser}
  BY <1>0 DEF TypeOK
<1>e. \A b \in BOOLEAN : Failing(b) =>
        ended' \subseteq Issued /\ trouble' \in {"none", "failed", "crossed"}
  BY <1>d DEF Failing, Record
<1>1. CASE Send(q)
  <2>1. PICK x : x = [r EXCEPT !.stage = "sent", !.token = Header(r)]
    OBVIOUS
  <2>2. /\ request' = [request EXCEPT ![q] = x]
        /\ UNCHANGED <<session, stored, cached, login, logout, holder, valid, device, ended, trouble, faults>>
    BY <1>0, <1>1, <2>1 DEF Send, phone, server, history
  <2>3. Header(r) \in Issued \cup {NoToken} /\ (r.kind = "revoke" => Header(r) # NoToken)
    BY <1>0 DEF Header, SaneRequest
  <2>4. x \in Request /\ x.kind = r.kind
    BY <1>0, <2>1, <2>3 DEF Request
  <2>5. SaneRequest(x)'
    BY <1>0, <2>1, <2>2, <2>3 DEF SaneRequest, Issued, Request
  <2> QED BY <1>0, <1>a, <1>c, <1>d, <2>2, <2>4, <2>5
<1>2. CASE Handle(q)
  <2>1. /\ holder' = holder /\ valid' \subseteq valid
        /\ UNCHANGED <<session, stored, cached, login, logout, ended, trouble, faults>>
    BY <1>2 DEF Handle, phone, history
  <2>2. PICK stage \in {"ok", "refused"} :
          /\ request' = [request EXCEPT ![q] = [r EXCEPT !.stage = stage]]
          /\ stage = "ok" => r.token \in valid
          /\ stage = "refused" => r.token \notin valid
    BY <1>0, <1>2 DEF Handle
  <2>3. PICK x : x = [r EXCEPT !.stage = stage]
    OBVIOUS
  <2>4. x \in Request /\ x.kind = r.kind
    BY <1>0, <2>3 DEF Request
  <2>5. SaneRequest(x)'
    <3>1. r.token \in valid => r.token # NoToken
      BY <1>0 DEF TypeOK
    <3>2. r.stage = "sent"
      BY <1>2 DEF Handle
    <3> QED BY <1>0, <2>1, <2>2, <2>3, <3>1, <3>2 DEF SaneRequest, Issued, Request
  <2>6. device' \in Users \cup {NoUser}
    <3>1. r.token \in valid => holder[r.token] \in Users
      BY <1>0 DEF TypeOK
    <3> QED BY <1>d, <1>2, <3>1 DEF Handle
  <2> QED BY <1>0, <1>a, <1>c, <1>d, <2>1, <2>2, <2>3, <2>4, <2>5, <2>6
<1>3. CASE AnswerOk(q)
  <2>1. /\ request' = [request EXCEPT ![q] = None] /\ UNCHANGED <<stored, login, logout, server, history>>
        /\ r.stage = "ok" /\ r.token \in Issued /\ holder[r.token] \in Users
    BY <1>0, <1>3 DEF AnswerOk, SaneRequest
  <2>2. cached' \in Users \cup {NoUser}
    BY <1>d, <1>3, <2>1 DEF AnswerOk
  <2>3. session' # None => session' \in Session /\ session'.token \in Issued
    <3>1. CASE r.kind = "me"
      <4>1. session' = session \/ (session # None /\ session' = [session EXCEPT !.user = holder[r.token]])
        BY <1>3, <3>1 DEF AnswerOk, ProfileAnswer
      <4> QED BY <1>c, <2>1, <4>1 DEF Session
    <3>2. CASE r.kind \in {"boot", "restore"}
      <4>1. session' = [user |-> holder[r.token], token |-> r.captured] /\ r.captured \in Issued
        BY <1>0, <1>3, <3>2 DEF AnswerOk, SaneRequest
      <4> QED BY <1>0, <2>1, <4>1 DEF Session
    <3>3. CASE r.kind \notin {"me", "boot", "restore"}
      <4>1. session' = session
        BY <1>3, <3>3 DEF AnswerOk
      <4> QED BY <1>c, <4>1
    <3> QED BY <3>1, <3>2, <3>3
  <2> QED BY <1>0, <1>b, <1>d, <2>1, <2>2, <2>3 DEF history
<1>4. CASE AnswerRefused(q) \/ ClearAgain(q)
  <2>1. /\ \/ request' = [request EXCEPT ![q] = None]
           \/ \E stage \in {"clearing", "ending"} :
                request' = [request EXCEPT ![q] = [r EXCEPT !.stage = stage]]
        /\ stored' = NoToken /\ cached' = NoUser
        /\ UNCHANGED <<session, login, logout, holder, valid, device, faults>>
    BY <1>0, <1>4 DEF AnswerRefused, ClearAgain, Clear, server, history
  <2>2. ended' \subseteq Issued /\ trouble' \in {"none", "failed", "crossed"}
    BY <1>d, <1>e, <1>4 DEF AnswerRefused, ClearAgain, history
  <2>3. ASSUME NEW stage \in {"clearing", "ending"},
               request' = [request EXCEPT ![q] = [r EXCEPT !.stage = stage]]
        PROVE  SaneInv'
    <3>1. PICK x : x = [r EXCEPT !.stage = stage]
      OBVIOUS
    <3>2. x \in Request /\ x.kind = r.kind
      BY <1>0, <3>1 DEF Request
    <3>3. r.stage # "starting"
      BY <1>4 DEF AnswerRefused, ClearAgain
    <3>4. SaneRequest(x)'
      BY <1>0, <2>1, <3>1, <3>3 DEF SaneRequest, Issued, Request
    <3> QED BY <1>0, <1>a, <1>c, <1>d, <2>1, <2>2, <2>3, <3>1, <3>2, <3>4
  <2>4. CASE request' = [request EXCEPT ![q] = None]
    BY <1>b, <1>c, <2>1, <2>2, <2>4 DEF server
  <2> QED BY <2>1, <2>3, <2>4
<1>5. CASE Fail(q)
  <2>1. /\ request' = [request EXCEPT ![q] = None] /\ session' = Fallback(r)
        /\ UNCHANGED <<stored, cached, login, logout, server, faults>>
    BY <1>5 DEF Fail
  <2>2. ended' \subseteq Issued /\ trouble' \in {"none", "failed", "crossed"}
    BY <1>e, <1>5 DEF Fail
  <2>3. session' # None => session' \in Session /\ session'.token \in Issued
    <3>1. CASE r.kind \in {"boot", "restore"} /\ r.user # NoUser
      <4>1. session' = [user |-> r.user, token |-> r.captured]
            /\ r.user \in Users /\ r.captured \in Issued
        BY <1>0, <2>1, <3>1 DEF Fallback, SaneRequest, Request
      <4> QED BY <1>0, <4>1 DEF Session
    <3>2. CASE ~(r.kind \in {"boot", "restore"} /\ r.user # NoUser)
      BY <1>c, <2>1, <3>2 DEF Fallback
    <3> QED BY <3>1, <3>2
  <2> QED BY <1>0, <1>b, <1>d, <2>1, <2>2, <2>3
<1>6. CASE ExpireState(q)
  <2>1. /\ request' = [request EXCEPT ![q] = None] /\ session' = None
        /\ UNCHANGED <<stored, cached, login, logout, server, history>>
    BY <1>6 DEF ExpireState
  <2> QED BY <1>0, <1>b, <1>d, <2>1 DEF history
<1> QED BY <1>1, <1>2, <1>3, <1>4, <1>5, <1>6

(* Whatever a signed-in app asks for.                                        *)
LEMMA AskSane ==
  ASSUME SaneInv, NEW q \in Slots, Ask(q)
  PROVE  SaneInv'
<1>0. /\ TypeOK /\ PhoneIsSane /\ session # None /\ session \in Session
      /\ cached \in Users \cup {NoUser} /\ stored \in Issued \cup {NoToken}
  BY DEF SaneInv, TypeOK, Ask
<1>1. UNCHANGED <<session, stored, cached, login, logout, holder, valid, device, ended, trouble, faults>>
  BY DEF Ask, phone, server, history
<1>2. PICK kind \in {"me", "restore", "register"}, user \in Users \cup {NoUser},
           captured \in Issued \cup {NoToken} :
        /\ Start(q, kind, user, captured)
        /\ kind = "restore" => captured # NoToken
  BY <1>0 DEF Ask, Session
<1>3. kind \in Kinds /\ kind # "boot" /\ (kind \in {"boot", "restore", "revoke"} => captured # NoToken)
  BY <1>2 DEF Kinds
<1>4. holder' = holder /\ valid' = valid
  BY <1>1
<1>5. request'[q] = [kind |-> kind, user |-> user, captured |-> captured,
                     token |-> NoToken, stage |-> "starting"]
  BY <1>2, <1>3, <1>4, StartIsSane
<1>6. /\ request' \in [Slots -> Request \cup {None}] /\ RequestsAreSane'
      /\ request[q] = None /\ request'[q].kind = kind
      /\ \A p \in Slots \ {q} : request'[p] = request[p]
  BY <1>2, <1>3, <1>4, <1>5, StartIsSane
<1>7. TypeOK'
  BY <1>0, <1>1, <1>6 DEF TypeOK, Issued, RequestsAreSane, SaneRequest
<1>8. PhoneIsSane'
  BY <1>0, <1>1 DEF PhoneIsSane, Issued
<1>9. BootIsAlone'
  BY <1>0, <1>1, <1>3, <1>6, StillAlone
<1> QED BY <1>6, <1>7, <1>8, <1>9 DEF SaneInv

(* The app starts again, with at most the restoring of its session.          *)
LEMMA AppStartSane ==
  ASSUME SaneInv, AppStart
  PROVE  SaneInv'
<1>0. /\ TypeOK /\ cached \in Users \cup {NoUser} /\ stored \in Issued \cup {NoToken}
      /\ Issued \subseteq Tokens /\ NoToken \notin Issued
      /\ ended \subseteq Issued /\ trouble \in {"none", "failed", "crossed"}
  BY IssuedTokens DEF SaneInv, TypeOK
<1>1. /\ session' = None /\ login' = None /\ logout' = None /\ faults' = faults + 1
      /\ faults < MaxFaults
      /\ UNCHANGED <<stored, cached, holder, valid, device>>
  BY DEF AppStart, server
<1>2. PICK x : x = [kind |-> "boot", user |-> cached, captured |-> stored,
                    token |-> NoToken, stage |-> "starting"]
  OBVIOUS
<1>3. PICK first \in Slots :
        request' = [q \in Slots |-> IF q = first /\ stored # NoToken THEN x ELSE None]
  BY <1>2 DEF AppStart
<1>4. request' \in [Slots -> Request \cup {None}] /\ RequestsAreSane'
  <2>1. ASSUME stored # NoToken PROVE x \in Request /\ SaneRequest(x)'
    <3>1. SaneRequest(x)'
      BY <1>0, <1>1, <1>2, <2>1 DEF SaneRequest, Issued
    <3> QED BY <1>0, <1>2, <2>1, <3>1 DEF Request, Kinds
  <2>2. ASSUME NEW q \in Slots, request'[q] # None
        PROVE  request'[q] = x /\ stored # NoToken
    BY <1>3, <2>2
  <2>3. RequestsAreSane'
    BY <2>1, <2>2 DEF RequestsAreSane
  <2> QED BY <1>3, <2>1, <2>3
<1>5. ended' \subseteq Issued /\ trouble' \in {"none", "failed", "crossed"}
  BY <1>0 DEF AppStart, Failing, Record
<1>6. TypeOK'
  BY <1>0, <1>1, <1>4, <1>5, ConstantsAssumption DEF TypeOK, Issued, RequestsAreSane, SaneRequest
<1>7. PhoneIsSane'
  BY <1>1 DEF PhoneIsSane
<1>8. BootIsAlone'
  BY <1>1, <1>3 DEF BootIsAlone
<1> QED BY <1>4, <1>6, <1>7, <1>8 DEF SaneInv

(* A token that is deleted elsewhere leaves the phone as it was.             *)
LEMMA ServerRevokesSane ==
  ASSUME SaneInv, NEW t \in Tokens, ServerRevokes(t)
  PROVE  SaneInv'
<1>1. /\ UNCHANGED <<session, stored, cached, login, logout, request, holder, device, ended, trouble>>
      /\ valid' \subseteq valid /\ faults' = faults + 1 /\ faults < MaxFaults
  BY DEF ServerRevokes, phone
<1>2. TypeOK'
  BY <1>1, ConstantsAssumption DEF SaneInv, TypeOK, Issued
<1>3. RequestsAreSane'
  BY <1>1, SameRequests
<1>4. PhoneIsSane' /\ BootIsAlone'
  BY <1>1 DEF SaneInv, PhoneIsSane, BootIsAlone, Issued
<1> QED BY <1>2, <1>3, <1>4 DEF SaneInv

LEMMA SaneInit == Init => SaneInv
<1> SUFFICES ASSUME Init PROVE SaneInv
  OBVIOUS
<1>1. /\ session = None /\ stored = NoToken /\ cached = NoUser /\ login = None /\ logout = None
      /\ request = [q \in Slots |-> None] /\ holder = <<>> /\ valid = {} /\ device = NoUser
      /\ ended = {} /\ trouble = "none" /\ faults = 0
  BY DEF Init
<1>2. TypeOK
  BY <1>1, ConstantsAssumption DEF TypeOK, Issued
<1>3. RequestsAreSane /\ PhoneIsSane /\ BootIsAlone
  BY <1>1 DEF RequestsAreSane, PhoneIsSane, BootIsAlone
<1> QED BY <1>2, <1>3 DEF SaneInv

LEMMA SaneStep == SaneInv /\ [Next]_vars => SaneInv'
<1> SUFFICES ASSUME SaneInv, [Next]_vars PROVE SaneInv'
  OBVIOUS
<1>1. CASE UNCHANGED vars
  BY <1>1 DEF SaneInv, TypeOK, RequestsAreSane, SaneRequest, PhoneIsSane, BootIsAlone, Issued,
              vars, phone, server, history
<1>2. CASE Next
  BY <1>2, LoginSane, LogoutSane, RequestSane, AskSane, AppStartSane, ServerRevokesSane DEF Next
<1> QED BY <1>1, <1>2

LEMMA SaneCorrect == Spec => []SaneInv
BY SaneInit, SaneStep, PTL DEF Spec

(* Type correctness: the state has its type, and a request to revoke names a  *)
(* token once it is sent.                                                    *)
THEOREM TypeCorrect == Spec => []TypeOK
<1>1. SaneInv => TypeOK
  BY DEF SaneInv
<1> QED BY <1>1, SaneCorrect, PTL

(***************************************************************************)
(* One session.  As long as nothing of an older session crosses it, all the   *)
(* phone holds belongs to one token t, and while somebody is signed in, or    *)
(* about to be, a phone that lost the token holds one that is deleted.        *)
(***************************************************************************)
Restoring(q) == /\ request[q] # None /\ request[q].kind \in {"boot", "restore"}
                /\ request[q].stage \in {"starting", "sent", "ok"}

Alive == session # None \/ \E q \in Slots : Restoring(q)

Lost(r) == \/ r.stage \in {"refused", "clearing", "ending"}
           \/ r.stage # "starting" /\ r.token = NoToken

Cut == stored = NoToken \/ \E q \in Slots : request[q] # None /\ Lost(request[q])

StorageOf(t) ==
  /\ stored \in {t, NoToken}
  /\ cached # NoUser => t \in Issued /\ cached = holder[t]

SessionOf(t) == session # None => session.token = t /\ session.user = holder[t]

LoginAlone ==
  login # None =>
    /\ cached = NoUser /\ session = None /\ logout = None
    /\ \A q \in Slots : request[q] = None
    /\ login.pc = "save" => stored = login.token

LogoutOf(t) == logout # None => logout.token \in {t, NoToken} /\ ~Alive

RequestOf(t, r) ==
  /\ r.token \in {t, NoToken} /\ r.captured \in {t, NoToken}
  /\ r.kind \in {"boot", "restore"} /\ r.user # NoUser => r.user = holder[t]

RequestsOf(t) == \A q \in Slots : request[q] # None => RequestOf(t, request[q])

CutIsRevoked(t) == Alive /\ Cut => t \notin valid

Epoch(t) ==
  /\ StorageOf(t) /\ SessionOf(t) /\ LoginAlone /\ LogoutOf(t)
  /\ RequestsOf(t) /\ CutIsRevoked(t)

(* And as long as nothing failed: the token is there until logout() clears    *)
(* it, the device is registered for a session or about to be unregistered,    *)
(* and an ended session's token is about to be deleted.                      *)
CalmRequest(t, r) ==
  /\ r.stage \notin {"clearing", "ending"}
  /\ r.kind = "register" => session # None
  /\ r.kind = "unregister" => /\ logout # None /\ logout.pc = "unregister"
                              /\ r.stage # "starting" => r.token = t
  /\ r.kind = "revoke" => /\ stored = NoToken
                          /\ r.stage # "starting" => r.token = t

RequestsAreCalm(t) == \A q \in Slots : request[q] # None => CalmRequest(t, request[q])

LogoutHasToken(t) ==
  logout # None => t # NoToken /\ IF logout.pc = "unregister" THEN stored = t ELSE logout.token = t

DeviceOf(t) ==
  device # NoUser =>
    /\ t \in Issued /\ device = holder[t]
    /\ \/ session # None
       \/ \E q \in Slots : /\ request[q] # None
                           /\ \/ request[q].kind = "boot"
                              \/ request[q].kind = "unregister" /\ request[q].stage # "ok"

EndedIsT(t) ==
  \A x \in ended \cap valid :
    /\ x = t
    /\ \/ logout # None
       \/ \E q \in Slots : request[q] # None /\ request[q].kind = "revoke" /\ request[q].stage # "ok"

Calm(t) ==
  /\ RequestsAreCalm(t) /\ LogoutHasToken(t) /\ DeviceOf(t) /\ EndedIsT(t)
  /\ Alive => stored # NoToken

Holds(t) == Epoch(t) /\ (trouble = "none" => Calm(t))

EpochInv == SaneInv /\ (trouble # "crossed" => \E t \in Issued \cup {NoToken} : Holds(t))

(* What holds of one session says the three promises.                        *)
LEMMA EpochPromises ==
  ASSUME EpochInv
  PROVE  SignedInIsWhole /\ SignedOutIsUnregistered /\ TokenIsRevoked
<1>1. ASSUME session # None, session.token \in valid, trouble # "crossed"
      PROVE  stored = session.token /\ session.user = holder[session.token]
  BY <1>1 DEF EpochInv, Holds, Epoch, StorageOf, SessionOf, CutIsRevoked, Cut, Alive
<1>2. ASSUME Quiet, trouble = "none"
      PROVE  (session = None => device = NoUser) /\ ended \cap valid = {}
  <2>1. \A q \in Slots : request[q] = None
    BY <1>2, UnderWayIsRequest DEF Quiet, UnderWay, EpochInv, Request
  <2>2. logout = None
    BY <1>2 DEF Quiet
  <2>3. PICK t \in Issued \cup {NoToken} : DeviceOf(t) /\ EndedIsT(t)
    BY <1>2 DEF EpochInv, Holds, Calm
  <2> QED BY <2>1, <2>2, <2>3 DEF DeviceOf, EndedIsT
<1> QED BY <1>1, <1>2 DEF SignedInIsWhole, SignedOutIsUnregistered, TokenIsRevoked

LEMMA EpochInit == Init => EpochInv
<1> SUFFICES ASSUME Init PROVE EpochInv
  OBVIOUS
<1>1. /\ session = None /\ stored = NoToken /\ cached = NoUser /\ login = None /\ logout = None
      /\ request = [q \in Slots |-> None] /\ device = NoUser /\ ended = {}
  BY DEF Init
<1>2. Epoch(NoToken)
  BY <1>1 DEF Epoch, StorageOf, SessionOf, LoginAlone, LogoutOf, RequestsOf, CutIsRevoked, Alive, Restoring
<1>3. Calm(NoToken)
  BY <1>1 DEF Calm, RequestsAreCalm, LogoutHasToken, DeviceOf, EndedIsT, Alive, Restoring
<1> QED BY <1>2, <1>3, SaneInit DEF EpochInv, Holds

(* No request is under way: none of any kind.                                *)
LEMMA NothingUnderWay ==
  ASSUME SaneInv, ~UnderWay(Kinds)
  PROVE  \A q \in Slots : request[q] = None
BY UnderWayIsRequest DEF UnderWay, Request

(* login(): it begins with an empty phone, and its token then is the phone's. *)
LEMMA LoginEpoch ==
  ASSUME SaneInv, NEW t \in Issued \cup {NoToken}, Holds(t),
         (\E u \in Users : LoginStart(u)) \/ LoginIssued \/ LoginFails \/ LoginDone,
         trouble' # "crossed"
  PROVE  Holds(t)'
<1> USE NamesAssumption DEF Restoring, Alive
<1>0. Epoch(t) /\ TypeOK /\ PhoneIsSane /\ NoToken \notin Issued
  BY IssuedTokens DEF Holds, SaneInv
<1>1. ASSUME NEW u \in Users, LoginStart(u) PROVE Holds(t)'
  <2>1. /\ login' # None /\ login'.pc = "post" /\ session = None /\ login = None
        /\ UNCHANGED <<session, stored, cached, logout, request, holder, valid, device>>
    <3>1. login' = [user |-> u, token |-> NoToken, pc |-> "post"] /\ login' \in Login
      BY <1>1 DEF LoginStart, Login
    <3> QED BY <1>1, <3>1 DEF LoginStart, server
  <2>2. /\ ~UnderWay(Kinds) /\ logout = None /\ cached = NoUser
        /\ trouble' = trouble /\ (trouble = "none" => ended' = ended)
    BY <1>1 DEF LoginStart, Crossing, Record
  <2>3. \A q \in Slots : request[q] = None
    BY <2>2, NothingUnderWay
  <2>4. Epoch(t)'
    BY <1>0, <2>1, <2>2, <2>3
       DEF Epoch, StorageOf, SessionOf, LoginAlone, LogoutOf, RequestsOf, CutIsRevoked, Issued
  <2>5. Calm(t) /\ trouble = "none" => Calm(t)'
    BY <2>1, <2>2, <2>3
       DEF Calm, RequestsAreCalm, LogoutHasToken, DeviceOf, EndedIsT, Issued
  <2> QED BY <2>2, <2>4, <2>5 DEF Holds
<1>2. CASE LoginIssued
  <2>1. /\ login # None /\ login.pc = "post" /\ login \in Login
        /\ login'.pc = "write"
        /\ UNCHANGED <<session, stored, cached, logout, request, device, ended, trouble>>
    BY <1>0, <1>2 DEF LoginIssued, history, TypeOK, Login
  <2>2. /\ session = None /\ cached = NoUser /\ logout = None
        /\ \A q \in Slots : request[q] = None
    BY <1>0, <2>1 DEF Epoch, LoginAlone
  <2>3. PICK n : n = Len(holder) + 1 /\ n \notin Issued /\ valid' = valid \cup {n}
    BY <1>0, <1>2, IssuedTokens DEF LoginIssued
  <2>4. Epoch(t)'
    BY <1>0, <2>1, <2>2
       DEF Epoch, StorageOf, SessionOf, LoginAlone, LogoutOf, RequestsOf, CutIsRevoked
  <2>5. Calm(t) => Calm(t)'
    <3>1. ended \subseteq Issued
      BY <1>0 DEF TypeOK
    <3> QED BY <2>1, <2>2, <2>3, <3>1
            DEF Calm, RequestsAreCalm, LogoutHasToken, DeviceOf, EndedIsT
  <2> QED BY <2>1, <2>4, <2>5 DEF Holds
<1>3. CASE LoginFails
  <2>1. /\ login' = None
        /\ UNCHANGED <<session, stored, cached, logout, request, holder, valid, device, ended, trouble>>
    BY <1>3 DEF LoginFails, server, history
  <2> QED BY <2>1 DEF Holds, Epoch, StorageOf, SessionOf, LoginAlone, LogoutOf, RequestsOf, RequestOf, Cut, Lost,
                      CutIsRevoked, Calm, RequestsAreCalm, CalmRequest, LogoutHasToken, DeviceOf, EndedIsT, Issued
<1>4. CASE LoginDone
  <2>1. /\ login # None /\ login.pc = "save" /\ login.token \in Issued /\ holder[login.token] = login.user
        /\ cached' = login.user /\ session' = [user |-> login.user, token |-> login.token] /\ login' = None
        /\ UNCHANGED <<stored, logout, request, holder, valid, device, ended, trouble>>
    BY <1>0, <1>4 DEF LoginDone, server, history, PhoneIsSane
  <2>2. /\ session = None /\ logout = None /\ stored = login.token
        /\ \A q \in Slots : request[q] = None
    BY <1>0, <2>1 DEF Epoch, LoginAlone
  <2>3. login.token = t
    BY <1>0, <2>1, <2>2 DEF Epoch, StorageOf
  <2>4. Epoch(t)'
    BY <1>0, <2>1, <2>2, <2>3
       DEF Epoch, StorageOf, SessionOf, LoginAlone, LogoutOf, RequestsOf, CutIsRevoked, Cut, Issued
  <2>5. Calm(t) => Calm(t)'
    BY <1>0, <2>1, <2>2 DEF Calm, RequestsAreCalm, LogoutHasToken, DeviceOf, EndedIsT
  <2> QED BY <2>1, <2>4, <2>5 DEF Holds
<1> QED BY <1>1, <1>2, <1>3, <1>4

(* The token that login() stores is the phone's from then on.                *)
LEMMA LoginWriteEpoch ==
  ASSUME SaneInv, NEW t \in Issued \cup {NoToken}, Holds(t), LoginWrite
  PROVE  login.token \in Issued /\ \A x : x = login.token => Holds(x)'
<1> USE NamesAssumption DEF Restoring, Alive
<1>1. /\ login # None /\ login.pc = "write" /\ login \in Login /\ login.token \in Issued
      /\ stored' = login.token /\ login'.pc = "save" /\ login'.token = login.token
      /\ UNCHANGED <<session, cached, logout, request, holder, valid, device, ended, trouble>>
  BY DEF LoginWrite, server, history, SaneInv, TypeOK, PhoneIsSane, Login
<1>2. /\ session = None /\ cached = NoUser /\ logout = None
      /\ \A q \in Slots : request[q] = None
  BY <1>1 DEF Holds, Epoch, LoginAlone
<1>3. PICK x : x = login.token
  OBVIOUS
<1>4. Epoch(x)'
  BY <1>1, <1>2, <1>3
     DEF Epoch, StorageOf, SessionOf, LoginAlone, LogoutOf, RequestsOf, CutIsRevoked
<1>5. Calm(t) => Calm(x)'
  BY <1>1, <1>2, <1>3
     DEF Calm, RequestsAreCalm, LogoutHasToken, DeviceOf, EndedIsT
<1> QED BY <1>1, <1>3, <1>4, <1>5 DEF Holds

(* logout(): its token is the session's, and no session is left to restore.  *)
LEMMA LogoutEpoch ==
  ASSUME SaneInv, NEW t \in Issued \cup {NoToken}, Holds(t),
         LogoutStart \/ LogoutRead \/ LogoutClear \/ LogoutRevoke,
         trouble' # "crossed"
  PROVE  Holds(t)'
<1> USE NamesAssumption DEF Restoring, Alive
<1>0. /\ Epoch(t) /\ TypeOK /\ PhoneIsSane /\ BootIsAlone /\ NoToken \notin Issued
      /\ logout # None => logout \in Logout
  BY IssuedTokens DEF Holds, SaneInv, TypeOK
<1>1. CASE LogoutStart
  <2>1. /\ session # None /\ logout = None /\ session' = None
        /\ ~UnderWay({"restore", "register"})
        /\ trouble' = trouble /\ (trouble = "none" => ended' = ended \cup {session.token})
        /\ UNCHANGED <<stored, cached, login, holder, valid, device>>
    BY <1>1 DEF LogoutStart, SignedOut, Crossing, Record, server
  <2>2. /\ logout' # None /\ logout'.pc = "unregister" /\ logout'.token = NoToken
    <3>1. logout' = [token |-> NoToken, pc |-> "unregister"] /\ logout' \in Logout
      BY <1>1 DEF LogoutStart, Logout
    <3> QED BY <3>1
  <2>3. \A q \in Slots : request[q] # None => request[q].kind \notin {"boot", "restore", "register"}
    BY <1>0, <2>1 DEF BootIsAlone, UnderWay
  <2>4. session.token = t /\ t # NoToken /\ login = None
    BY <1>0, <2>1 DEF Epoch, SessionOf, LoginAlone, PhoneIsSane
  <2>5. /\ \A p \in Slots : request'[p] # None =>
             \/ request'[p] = request[p]
             \/ /\ request'[p].kind = "unregister" /\ request'[p].stage = "starting"
                /\ request'[p].token = NoToken /\ request'[p].captured = NoToken
        /\ stored # NoToken => \E p \in Slots : /\ request'[p] # None
                                                /\ request'[p].kind = "unregister"
                                                /\ request'[p].stage = "starting"
    <3>1. ASSUME NEW q \in Slots, Start(q, "unregister", NoUser, NoToken)
          PROVE  /\ \A p \in Slots \ {q} : request'[p] = request[p]
                 /\ request'[q] # None
                 /\ request'[q] = [kind |-> "unregister", user |-> NoUser, captured |-> NoToken,
                                   token |-> NoToken, stage |-> "starting"]
      <4>1. "unregister" \in Kinds
        BY DEF Kinds
      <4>2. holder' = holder /\ valid' = valid
        BY <2>1
      <4> QED BY <3>1, <4>1, <4>2, StartIsSane
    <3>2. CASE stored = NoToken /\ UNCHANGED request
      BY <3>2
    <3>3. CASE \E q \in Slots : Start(q, "unregister", NoUser, NoToken)
      <4>1. PICK q \in Slots : Start(q, "unregister", NoUser, NoToken)
        BY <3>3
      <4>2. /\ request'[q].kind = "unregister" /\ request'[q].stage = "starting"
            /\ request'[q].token = NoToken /\ request'[q].captured = NoToken
        BY <3>1, <4>1
      <4> QED BY <3>1, <4>1, <4>2
    <3> QED BY <1>1, <3>2, <3>3 DEF LogoutStart
  <2>6. Epoch(t)'
    <3>1. ~Alive'
      BY <2>1, <2>3, <2>5
    <3>2. RequestsOf(t)'
      BY <1>0, <2>1, <2>5 DEF Epoch, RequestsOf, RequestOf
    <3> QED BY <1>0, <2>1, <2>2, <2>4, <3>1, <3>2
            DEF Epoch, StorageOf, SessionOf, LoginAlone, LogoutOf, CutIsRevoked, Issued
  <2>7. Calm(t) /\ trouble = "none" => Calm(t)'
    <3> SUFFICES ASSUME Calm(t), trouble = "none" PROVE Calm(t)'
      OBVIOUS
    <3>1. stored = t
      BY <1>0, <2>1 DEF Calm, Epoch, StorageOf
    <3>2. \A p \in Slots : request[p] # None => request[p].kind \notin {"unregister", "revoke"}
      BY <2>1, <2>4, <3>1 DEF Calm, RequestsAreCalm, CalmRequest
    <3>3. RequestsAreCalm(t)'
      BY <2>1, <2>2, <2>3, <2>5, <3>2 DEF Calm, RequestsAreCalm, CalmRequest
    <3>4. DeviceOf(t)'
      BY <2>1, <2>4, <2>5, <3>1 DEF Calm, DeviceOf, Issued
    <3>5. EndedIsT(t)'
      BY <2>1, <2>2, <2>4 DEF Calm, EndedIsT
    <3> QED BY <2>1, <2>2, <2>3, <2>4, <2>5, <3>1, <3>3, <3>4, <3>5 DEF Calm, LogoutHasToken
  <2> QED BY <2>1, <2>6, <2>7 DEF Holds
<1>2. CASE LogoutRead
  <2>1. /\ logout # None /\ logout.pc = "unregister" /\ logout'.token = stored /\ logout'.pc = "clear"
        /\ trouble' = "none" => trouble = "none" /\ ~UnderWay({"unregister"}) /\ ended' = ended
        /\ UNCHANGED <<session, stored, cached, login, request, holder, valid, device>>
    BY <1>2 DEF LogoutRead, Failing, Record, server
  <2>2. Epoch(t)'
    BY <1>0, <2>1 DEF Epoch, StorageOf, SessionOf, LoginAlone, LogoutOf, RequestsOf, RequestOf,
                      CutIsRevoked, Cut, Lost, Issued
  <2>3. ASSUME trouble' = "none", Calm(t) PROVE Calm(t)'
    <3>1. \A q \in Slots : request[q] # None => request[q].kind \notin {"boot", "unregister"}
      BY <1>0, <2>1, <2>3 DEF UnderWay, BootIsAlone
    <3>2. logout' # None
      <4>1. logout' = [token |-> stored, pc |-> "clear"] /\ logout' \in Logout
        BY <1>0, <1>2, IssuedTokens DEF LogoutRead, Logout, TypeOK
      <4> QED BY <4>1
    <3>3. session = None /\ stored = t
      BY <1>0, <2>1, <2>3 DEF Epoch, LogoutOf, Calm, LogoutHasToken
    <3>4. RequestsAreCalm(t)' /\ DeviceOf(t)' /\ EndedIsT(t)' /\ LogoutHasToken(t)'
      BY <2>1, <2>3, <3>1, <3>2, <3>3
         DEF Calm, RequestsAreCalm, CalmRequest, DeviceOf, EndedIsT, LogoutHasToken
    <3> QED BY <2>1, <2>3, <3>4 DEF Calm
  <2> QED BY <2>1, <2>2, <2>3 DEF Holds
<1>3. CASE LogoutClear
  <2>1. /\ logout # None /\ logout.pc = "clear" /\ stored' = NoToken /\ cached' = NoUser
        /\ logout' = IF logout.token = NoToken THEN None ELSE [logout EXCEPT !.pc = "revoke"]
        /\ UNCHANGED <<session, login, request, holder, valid, device, ended, trouble>>
    BY <1>3 DEF LogoutClear, Clear, server, history
  <2>2. logout' # None => logout'.token = logout.token /\ logout'.pc = "revoke"
    BY <1>0, <2>1 DEF Logout
  <2>3. ~Alive /\ ~Alive' /\ login = None
    BY <1>0, <2>1 DEF Epoch, LogoutOf, LoginAlone
  <2>4. Epoch(t)'
    BY <1>0, <2>1, <2>2, <2>3 DEF Epoch, StorageOf, SessionOf, LoginAlone, LogoutOf, RequestsOf, RequestOf,
                                  CutIsRevoked, Issued
  <2>5. ASSUME Calm(t) PROVE Calm(t)'
    <3>1. logout' # None /\ logout.token = t
      <4>1. logout.token = t /\ t # NoToken
        BY <2>1, <2>5 DEF Calm, LogoutHasToken
      <4>2. logout' \in Logout
        BY <1>0, <2>1, <4>1 DEF Logout
      <4> QED BY <4>1, <4>2
    <3>2. RequestsAreCalm(t)'
      BY <2>1, <2>5 DEF Calm, RequestsAreCalm, CalmRequest
    <3>3. DeviceOf(t)' /\ EndedIsT(t)' /\ LogoutHasToken(t)'
      BY <2>1, <2>2, <2>5, <3>1 DEF Calm, DeviceOf, EndedIsT, LogoutHasToken, Issued
    <3> QED BY <2>3, <3>2, <3>3 DEF Calm
  <2> QED BY <2>1, <2>4, <2>5 DEF Holds
<1>4. CASE LogoutRevoke
  <2>1. /\ logout # None /\ logout.pc = "revoke" /\ stored' = NoToken /\ cached' = NoUser
        /\ logout' = None /\ logout.token \in Issued
        /\ UNCHANGED <<session, login, holder, valid, device, ended, trouble>>
    BY <1>0, <1>4 DEF LogoutRevoke, Clear, server, history, PhoneIsSane
  <2>2. logout.token = t /\ t # NoToken /\ ~Alive /\ login = None
    BY <1>0, <2>1 DEF Epoch, LogoutOf, LoginAlone
  <2>3. PICK q \in Slots : Start(q, "revoke", NoUser, t)
    BY <1>4, <2>2 DEF LogoutRevoke
  <2>4. /\ request[q] = None /\ request'[q] # None
        /\ request'[q] = [kind |-> "revoke", user |-> NoUser, captured |-> t,
                          token |-> NoToken, stage |-> "starting"]
        /\ \A p \in Slots \ {q} : request'[p] = request[p]
    <3>1. "revoke" \in Kinds
      BY DEF Kinds
    <3>2. holder' = holder /\ valid' = valid
      BY <2>1
    <3> QED BY <2>2, <2>3, <3>1, <3>2, StartIsSane
  <2>5. /\ request'[q].kind = "revoke" /\ request'[q].stage = "starting"
        /\ request'[q].token = NoToken /\ request'[q].captured = t
    BY <2>4
  <2>6. Epoch(t)'
    <3>1. ~Alive'
      BY <2>1, <2>2, <2>4, <2>5
    <3>2. RequestsOf(t)'
      BY <1>0, <2>1, <2>4, <2>5 DEF Epoch, RequestsOf, RequestOf
    <3> QED BY <1>0, <2>1, <2>2, <3>1, <3>2
            DEF Epoch, StorageOf, SessionOf, LoginAlone, LogoutOf, CutIsRevoked, Issued
  <2>7. ASSUME Calm(t) PROVE Calm(t)'
    <3>1. device = NoUser /\ \A p \in Slots : request[p] # None => request[p].kind \notin {"unregister", "register"}
      BY <1>0, <2>1, <2>2, <2>7 DEF Calm, DeviceOf, RequestsAreCalm, CalmRequest, BootIsAlone
    <3>2. RequestsAreCalm(t)'
      BY <2>1, <2>2, <2>4, <2>5, <2>7, <3>1 DEF Calm, RequestsAreCalm, CalmRequest
    <3>3. DeviceOf(t)' /\ EndedIsT(t)' /\ LogoutHasToken(t)'
      BY <2>1, <2>2, <2>4, <2>5, <2>7, <3>1 DEF Calm, DeviceOf, EndedIsT, LogoutHasToken
    <3>4. ~Alive'
      BY <2>1, <2>2, <2>4, <2>5
    <3> QED BY <3>2, <3>3, <3>4 DEF Calm
  <2> QED BY <2>1, <2>6, <2>7 DEF Holds
<1> QED BY <1>1, <1>2, <1>3, <1>4

(* How a request moves on.                                                   *)
LEMMA Moves ==
  ASSUME SaneInv, NEW q \in Slots,
         Send(q) \/ Handle(q) \/ AnswerRefused(q) \/ ClearAgain(q)
  PROVE  /\ request[q] # None
         /\ \A p \in Slots \ {q} : request'[p] = request[p]
         /\ request'[q] # None =>
              /\ request'[q].kind = request[q].kind /\ request'[q].user = request[q].user
              /\ request'[q].captured = request[q].captured
              /\ ~Send(q) => request'[q].token = request[q].token
         /\ Send(q) => /\ request[q].stage = "starting" /\ request'[q] # None
                       /\ request'[q].stage = "sent" /\ request'[q].token = Header(request[q])
         /\ Handle(q) =>
              /\ request[q].stage = "sent" /\ request'[q] # None
              /\ \/ request'[q].stage = "ok" /\ request[q].token \in valid
                 \/ /\ request'[q].stage = "refused" /\ request[q].token \notin valid
                    /\ UNCHANGED <<valid, device>>
         /\ AnswerRefused(q) =>
              /\ request[q].stage = "refused"
              /\ request'[q] # None => request'[q].stage = "clearing"
         /\ ClearAgain(q) =>
              /\ request[q].stage = "clearing"
              /\ request'[q] # None => request'[q].stage = "ending"
<1> USE NamesAssumption
<1> DEFINE r == request[q]
<1>1. /\ r # None /\ r \in Request /\ request \in [Slots -> Request \cup {None}]
      /\ \A p \in Slots \ {q} : request'[p] = request[p]
  BY UnderWayIsRequest DEF SaneInv, TypeOK, Send, Handle, AnswerRefused, ClearAgain
<1>2. request' \in [Slots -> Request \cup {None}]
  BY RequestSane DEF SaneInv, TypeOK
<1>3. CASE Send(q)
  <2>1. /\ r.stage = "starting"
        /\ request'[q] = [r EXCEPT !.stage = "sent", !.token = Header(r)]
    BY <1>1, <1>3 DEF Send
  <2>2. /\ request'[q].stage = "sent" /\ request'[q].token = Header(r) /\ request'[q].kind = r.kind
        /\ request'[q].user = r.user /\ request'[q].captured = r.captured
    BY <1>1, <2>1 DEF Request
  <2>3. request'[q] # None
    <3>1. Header(r) \in Tokens \cup {NoToken}
      BY <1>1, IssuedTokens DEF Header, SaneInv, TypeOK, Request
    <3>2. request'[q] \in Request
      BY <1>1, <2>1, <3>1 DEF Request
    <3> QED BY <3>2
  <2>4. ~Handle(q) /\ ~AnswerRefused(q) /\ ~ClearAgain(q)
    BY <2>1 DEF Handle, AnswerRefused, ClearAgain
  <2> QED BY <1>1, <1>3, <2>1, <2>2, <2>3, <2>4
<1>5. ASSUME NEW stage \in {"ok", "refused", "clearing", "ending"},
             request' = [request EXCEPT ![q] = [r EXCEPT !.stage = stage]]
      PROVE  /\ request'[q] # None /\ request'[q].stage = stage /\ request'[q].token = r.token
             /\ request'[q].kind = r.kind /\ request'[q].user = r.user
             /\ request'[q].captured = r.captured
  <2>1. request'[q] = [r EXCEPT !.stage = stage]
    BY <1>1, <1>5
  <2>2. request'[q] \in Request
    BY <1>1, <2>1 DEF Request
  <2> QED BY <1>1, <2>1, <2>2 DEF Request
<1>6. CASE Handle(q)
  <2>1. r.stage = "sent" /\ ~Send(q) /\ ~AnswerRefused(q) /\ ~ClearAgain(q)
    BY <1>6 DEF Handle, Send, AnswerRefused, ClearAgain
  <2>2. \/ /\ request' = [request EXCEPT ![q] = [r EXCEPT !.stage = "ok"]] /\ r.token \in valid
        \/ /\ request' = [request EXCEPT ![q] = [r EXCEPT !.stage = "refused"]] /\ r.token \notin valid
           /\ UNCHANGED <<valid, device>>
    BY <1>1, <1>6 DEF Handle
  <2> QED BY <1>1, <1>5, <2>1, <2>2
<1>7. CASE AnswerRefused(q)
  <2>1. r.stage = "refused" /\ ~Send(q) /\ ~Handle(q) /\ ~ClearAgain(q)
    BY <1>7 DEF Handle, Send, AnswerRefused, ClearAgain
  <2>2. \/ request' = [request EXCEPT ![q] = [r EXCEPT !.stage = "clearing"]]
        \/ request'[q] = None
    BY <1>1, <1>7 DEF AnswerRefused
  <2> QED BY <1>1, <1>5, <2>1, <2>2
<1>8. CASE ClearAgain(q)
  <2>1. r.stage = "clearing" /\ ~Send(q) /\ ~Handle(q) /\ ~AnswerRefused(q)
    BY <1>8 DEF Handle, Send, AnswerRefused, ClearAgain
  <2>2. \/ request' = [request EXCEPT ![q] = [r EXCEPT !.stage = "ending"]]
        \/ request'[q] = None
    BY <1>1, <1>8 DEF ClearAgain
  <2> QED BY <1>1, <1>5, <2>1, <2>2
<1> QED BY <1>3, <1>6, <1>7, <1>8

(* Asking, sending and handling: the session's requests carry its token.     *)
LEMMA SendEpoch ==
  ASSUME SaneInv, NEW t \in Issued \cup {NoToken}, Holds(t), NEW q \in Slots, Send(q)
  PROVE  Holds(t)'
<1> USE DEF Restoring, Alive
<1> DEFINE r == request[q]
<1>0. /\ Epoch(t) /\ BootIsAlone /\ NoToken \notin Issued /\ SaneRequest(r) /\ RequestOf(t, r)
      /\ r # None /\ r.stage = "starting" /\ request'[q] # None /\ request'[q].kind = r.kind
      /\ request'[q].user = r.user /\ request'[q].captured = r.captured
      /\ request'[q].stage = "sent" /\ request'[q].token = Header(r)
      /\ \A p \in Slots \ {q} : request'[p] = request[p]
  BY IssuedTokens, UnderWayIsRequest, Moves DEF Holds, SaneInv, Epoch, RequestsOf
<1>1. UNCHANGED <<session, stored, cached, login, logout, holder, valid, device, ended, trouble>>
  BY DEF Send, phone, server, history
<1>2. Alive' = Alive /\ login = None
  <2>1. \A p \in Slots : Restoring(p)' = Restoring(p)
    BY <1>0
  <2> QED BY <1>0, <1>1, <2>1 DEF Epoch, LoginAlone
<1>3. Header(r) \in {t, NoToken} /\ (Header(r) = NoToken => stored = NoToken)
  BY <1>0 DEF Header, RequestOf, Epoch, StorageOf, SaneRequest
<1>4. Epoch(t)'
  <2>1. RequestsOf(t)'
    BY <1>0, <1>1, <1>3 DEF Epoch, RequestsOf, RequestOf
  <2>2. Cut' => Cut
    BY <1>0, <1>1, <1>3 DEF Cut, Lost
  <2> QED BY <1>0, <1>1, <1>2, <2>1, <2>2
          DEF Epoch, StorageOf, SessionOf, LoginAlone, LogoutOf, CutIsRevoked, Issued
<1>5. ASSUME Calm(t) PROVE Calm(t)'
  <2>1. /\ r.kind = "unregister" => Header(r) = t
        /\ r.kind = "revoke" => Header(r) = t
    BY <1>0, <1>3, <1>5 DEF Calm, RequestsAreCalm, CalmRequest, LogoutHasToken, Header, SaneRequest, RequestOf
  <2>2. RequestsAreCalm(t)'
    BY <1>0, <1>1, <1>5, <2>1 DEF Calm, RequestsAreCalm, CalmRequest
  <2>3. DeviceOf(t)' /\ EndedIsT(t)'
    BY <1>0, <1>1, <1>5 DEF Calm, DeviceOf, EndedIsT, Issued
  <2> QED BY <1>1, <1>2, <1>5, <2>2, <2>3 DEF Calm, LogoutHasToken
<1> QED BY <1>1, <1>4, <1>5 DEF Holds

LEMMA HandleEpoch ==
  ASSUME SaneInv, NEW t \in Issued \cup {NoToken}, Holds(t), NEW q \in Slots, Handle(q)
  PROVE  Holds(t)'
<1> USE DEF Restoring, Alive
<1> DEFINE r == request[q]
<1>0. /\ Epoch(t) /\ BootIsAlone /\ NoToken \notin Issued /\ SaneRequest(r) /\ RequestOf(t, r)
      /\ r # None /\ r.stage = "sent" /\ request'[q] # None /\ request'[q].kind = r.kind
      /\ request'[q].user = r.user /\ request'[q].captured = r.captured
      /\ request'[q].token = r.token
      /\ \A p \in Slots \ {q} : request'[p] = request[p]
      /\ \/ request'[q].stage = "ok" /\ r.token \in valid
         \/ request'[q].stage = "refused" /\ r.token \notin valid /\ UNCHANGED <<valid, device>>
  <2>1. ~Send(q)
    BY DEF Handle, Send
  <2> QED BY <2>1, IssuedTokens, UnderWayIsRequest, Moves DEF Holds, SaneInv, Epoch, RequestsOf
<1>1. /\ UNCHANGED <<session, stored, cached, login, logout, holder, ended, trouble>>
      /\ valid' \subseteq valid
  BY DEF Handle, phone, history
<1>2. /\ \A p \in Slots : Restoring(p)' => Restoring(p)
      /\ Alive' => Alive
      /\ login = None /\ NoToken \notin valid
  BY <1>0, <1>1 DEF Epoch, LoginAlone, SaneInv, TypeOK
<1>3. Epoch(t)'
  <2>1. RequestsOf(t)'
    BY <1>0, <1>1 DEF Epoch, RequestsOf, RequestOf
  <2>2. Cut' => Cut \/ t \notin valid
    BY <1>0, <1>1 DEF Cut, Lost, RequestOf
  <2> QED BY <1>0, <1>1, <1>2, <2>1, <2>2
          DEF Epoch, StorageOf, SessionOf, LoginAlone, LogoutOf, CutIsRevoked, Issued
<1>4. ASSUME Calm(t) PROVE Calm(t)'
  <2>1. RequestsAreCalm(t)'
    BY <1>0, <1>1, <1>4 DEF Calm, RequestsAreCalm, CalmRequest
  <2>2. LogoutHasToken(t)' /\ (Alive' => stored' # NoToken)
    BY <1>1, <1>2, <1>4 DEF Calm, LogoutHasToken
  <2>3. CASE request'[q].stage = "refused"
    <3>1. UNCHANGED <<valid, device>>
      BY <1>0, <2>3
    <3> QED BY <1>0, <1>1, <1>4, <2>1, <2>2, <2>3, <3>1 DEF Calm, DeviceOf, EndedIsT, Issued
  <2>4. CASE request'[q].stage = "ok" /\ r.token \in valid
    <3>1. /\ r.token = t
          /\ valid' = IF r.kind = "revoke" THEN valid \ {t} ELSE valid
          /\ device' = IF r.kind = "register" THEN holder[t]
                       ELSE IF r.kind = "unregister" /\ device = holder[t] THEN NoUser
                       ELSE device
      BY <1>0, <1>2, <2>4 DEF Handle, RequestOf
    <3>2. t \in Issued /\ (r.kind = "register" => session # None)
      BY <1>0, <1>4, <2>4, <3>1 DEF SaneInv, TypeOK, Calm, RequestsAreCalm, CalmRequest
    <3>3. DeviceOf(t)'
      BY <1>0, <1>1, <1>4, <2>4, <3>1, <3>2 DEF Calm, DeviceOf, Issued
    <3>4. EndedIsT(t)'
      BY <1>0, <1>1, <1>4, <2>4, <3>1 DEF Calm, EndedIsT
    <3> QED BY <2>1, <2>2, <3>3, <3>4 DEF Calm
  <2> QED BY <1>0, <2>3, <2>4
<1> QED BY <1>1, <1>3, <1>4 DEF Holds

(* An answer ends its request, or a refused one goes on to end the session:   *)
(* then the token is deleted already.                                        *)
LEMMA AnswerOkEpoch ==
  ASSUME SaneInv, NEW t \in Issued \cup {NoToken}, Holds(t), NEW q \in Slots, AnswerOk(q)
  PROVE  Holds(t)'
<1> USE NamesAssumption DEF Restoring, Alive
<1> DEFINE r == request[q]
<1>0. /\ Epoch(t) /\ TypeOK /\ NoToken \notin Issued /\ Issued \subseteq Tokens
      /\ SaneRequest(r) /\ RequestOf(t, r)
      /\ r # None /\ r.stage = "ok" /\ request'[q] = None
      /\ \A p \in Slots \ {q} : request'[p] = request[p]
  BY IssuedTokens, UnderWayIsRequest DEF AnswerOk, Holds, SaneInv, TypeOK, Epoch, RequestsOf
<1>1. UNCHANGED <<stored, login, logout, holder, valid, device, ended, trouble>>
  BY DEF AnswerOk, server, history
<1>2. r.token = t /\ t \in Issued /\ holder[t] \in Users /\ login = None
  BY <1>0, IssuedTokens DEF SaneRequest, RequestOf, Epoch, LoginAlone
<1>3. /\ cached' = cached \/ cached' = holder[t]
      /\ session' # None => /\ session'.token = t /\ session'.user = holder[t]
                            /\ session # None \/ Restoring(q)
      /\ session # None \/ r.kind = "boot" => session' # None
  <2>1. CASE r.kind = "me"
    <3>1. session' = session \/ (session # None /\ session' = [session EXCEPT !.user = holder[t]])
      BY <1>2, <2>1 DEF AnswerOk, ProfileAnswer
    <3>2. session # None => session \in Session /\ [session EXCEPT !.user = holder[t]] \in Session
      BY <1>0, <1>2 DEF TypeOK, Session
    <3>3. cached' = holder[t]
      BY <1>2, <2>1 DEF AnswerOk
    <3> QED BY <1>0, <2>1, <3>1, <3>2, <3>3 DEF Epoch, SessionOf, Session
  <2>2. CASE r.kind \in {"boot", "restore"}
    <3>1. session' = [user |-> holder[t], token |-> r.captured] /\ r.captured = t /\ cached' = holder[t]
      BY <1>0, <1>2, <2>2 DEF AnswerOk, SaneRequest, RequestOf
    <3>2. session' \in Session
      BY <1>0, <1>2, <3>1 DEF Session
    <3> QED BY <1>0, <2>2, <3>1, <3>2
  <2>3. CASE r.kind \notin {"me", "boot", "restore"}
    <3>1. session' = session /\ cached' = cached
      BY <2>3 DEF AnswerOk
    <3> QED BY <1>0, <2>3, <3>1 DEF Epoch, SessionOf
  <2> QED BY <2>1, <2>2, <2>3
<1>4. /\ \A p \in Slots : Restoring(p)' => Restoring(p)
      /\ Alive' => Alive
  BY <1>0, <1>3
<1>5. Epoch(t)'
  <2>1. RequestsOf(t)' /\ SessionOf(t)' /\ StorageOf(t)'
    BY <1>0, <1>1, <1>2, <1>3 DEF Epoch, RequestsOf, RequestOf, SessionOf, StorageOf, Issued
  <2>2. Cut' => Cut
    BY <1>0, <1>1 DEF Cut
  <2> QED BY <1>0, <1>1, <1>2, <1>4, <2>1, <2>2 DEF Epoch, LoginAlone, LogoutOf, CutIsRevoked
<1>6. ASSUME Calm(t) PROVE Calm(t)'
  <2>1. RequestsAreCalm(t)'
    BY <1>0, <1>1, <1>3, <1>6 DEF Calm, RequestsAreCalm, CalmRequest
  <2>2. DeviceOf(t)' /\ EndedIsT(t)'
    BY <1>0, <1>1, <1>3, <1>6 DEF Calm, DeviceOf, EndedIsT, Issued
  <2> QED BY <1>1, <1>4, <1>6, <2>1, <2>2 DEF Calm, LogoutHasToken
<1> QED BY <1>1, <1>5, <1>6 DEF Holds

(* All that goes wrong with a request.                                       *)
LEMMA TroubleEpoch ==
  ASSUME SaneInv, NEW t \in Issued \cup {NoToken}, Holds(t), NEW q \in Slots,
         AnswerRefused(q) \/ ClearAgain(q) \/ ExpireState(q) \/ Fail(q)
  PROVE  Holds(t)'
<1> USE DEF Restoring, Alive
<1> DEFINE r == request[q]
<1>0. /\ Epoch(t) /\ TypeOK /\ NoToken \notin Issued /\ r # None /\ SaneRequest(r) /\ RequestOf(t, r)
      /\ request \in [Slots -> Request \cup {None}]
  BY IssuedTokens, UnderWayIsRequest
     DEF AnswerRefused, ClearAgain, ExpireState, Fail, Holds, SaneInv, TypeOK, Epoch, RequestsOf
<1>1. UNCHANGED <<login, logout, holder, valid>> /\ login = None
  BY <1>0 DEF AnswerRefused, ClearAgain, ExpireState, Fail, server, Epoch, LoginAlone
<1>2. CASE AnswerRefused(q) \/ ClearAgain(q)
  <2>1. /\ stored' = NoToken /\ cached' = NoUser /\ session' = session
        /\ r.stage \in {"refused", "clearing"} /\ ~Send(q)
        /\ \A p \in Slots \ {q} : request'[p] = request[p]
        /\ request'[q] # None =>
             /\ request'[q].kind = r.kind /\ request'[q].user = r.user
             /\ request'[q].captured = r.captured /\ request'[q].token = r.token
             /\ request'[q].stage \in {"clearing", "ending"}
    BY <1>2, Moves DEF AnswerRefused, ClearAgain, Clear, Send
  <2>2. Alive' => Alive
    <3>1. \A p \in Slots : Restoring(p)' => Restoring(p)
      BY <2>1
    <3> QED BY <2>1, <3>1
  <2>3. Cut
    BY <1>0, <2>1 DEF Cut, Lost
  <2>4. Epoch(t)'
    <3>1. RequestsOf(t)'
      BY <1>0, <1>1, <2>1 DEF Epoch, RequestsOf, RequestOf
    <3> QED BY <1>0, <1>1, <2>1, <2>2, <2>3, <3>1
            DEF Epoch, StorageOf, SessionOf, LoginAlone, LogoutOf, CutIsRevoked
  <2>5. trouble' # "none" \/ (~Calm(t) /\ trouble' = trouble)
    <3>1. ASSUME AnswerRefused(q) PROVE trouble' # "none"
      BY <3>1 DEF AnswerRefused, Failing, Record
    <3>2. ASSUME ClearAgain(q) PROVE ~Calm(t) /\ trouble' = trouble
      <4>1. r.stage \in {"clearing", "ending"} /\ trouble' = trouble
        BY <3>2 DEF ClearAgain, history
      <4>2. Calm(t) => CalmRequest(t, r)
        BY <1>0 DEF Calm, RequestsAreCalm
      <4> QED BY <4>1, <4>2 DEF CalmRequest
    <3> QED BY <1>2, <3>1, <3>2
  <2> QED BY <2>4, <2>5 DEF Holds
<1>3. CASE ExpireState(q) \/ Fail(q)
  <2>1. /\ request'[q] = None /\ \A p \in Slots \ {q} : request'[p] = request[p]
        /\ UNCHANGED <<stored, cached>>
    BY <1>0, <1>3 DEF ExpireState, Fail
  <2>2. session' # None => /\ session'.token = t /\ session'.user = holder[t]
                           /\ session # None \/ Restoring(q)
    <3>1. CASE Fail(q) /\ r.kind \in {"boot", "restore"} /\ r.user # NoUser
      <4>1. session' = [user |-> r.user, token |-> r.captured] /\ Restoring(q)
        BY <1>0, <3>1 DEF Fail, Fallback
      <4>2. r.captured = t /\ r.user = holder[t]
        BY <1>0, <3>1 DEF SaneRequest, RequestOf
      <4> QED BY <4>1, <4>2
    <3>2. CASE ~(Fail(q) /\ r.kind \in {"boot", "restore"} /\ r.user # NoUser)
      <4>1. session' \in {session, None}
        BY <1>3, <3>2 DEF Fail, Fallback, ExpireState
      <4> QED BY <1>0, <4>1 DEF Epoch, SessionOf
    <3> QED BY <3>1, <3>2
  <2>3. Alive' => Alive
    <3>1. \A p \in Slots : Restoring(p)' => Restoring(p)
      BY <2>1
    <3> QED BY <2>2, <3>1
  <2>4. Epoch(t)'
    <3>1. RequestsOf(t)' /\ SessionOf(t)'
      BY <1>0, <1>1, <2>1, <2>2 DEF Epoch, RequestsOf, RequestOf, SessionOf
    <3>2. Cut' => Cut
      BY <2>1 DEF Cut
    <3> QED BY <1>0, <1>1, <2>1, <2>3, <3>1, <3>2
            DEF Epoch, StorageOf, LoginAlone, LogoutOf, CutIsRevoked, Issued
  <2>5. trouble' # "none" \/ (~Calm(t) /\ trouble' = trouble)
    <3>1. ASSUME Fail(q) PROVE trouble' # "none"
      BY <3>1 DEF Fail, Failing, Record
    <3>2. ASSUME ExpireState(q) PROVE ~Calm(t) /\ trouble' = trouble
      <4>1. r.stage \in {"clearing", "ending"} /\ trouble' = trouble
        BY <3>2 DEF ExpireState, history
      <4>2. Calm(t) => CalmRequest(t, r)
        BY <1>0 DEF Calm, RequestsAreCalm
      <4> QED BY <4>1, <4>2 DEF CalmRequest
    <3> QED BY <1>3, <3>1, <3>2
  <2> QED BY <2>4, <2>5 DEF Holds
<1> QED BY <1>2, <1>3

LEMMA AskEpoch ==
  ASSUME SaneInv, NEW t \in Issued \cup {NoToken}, Holds(t), NEW q \in Slots, Ask(q)
  PROVE  Holds(t)'
<1> USE DEF Restoring, Alive
<1>0. /\ Epoch(t) /\ TypeOK /\ session # None /\ session \in Session
      /\ cached \in Users \cup {NoUser} /\ stored \in Issued \cup {NoToken} /\ NoToken \notin Issued
      /\ UNCHANGED <<session, stored, cached, login, logout, holder, valid, device, ended, trouble>>
  BY IssuedTokens DEF Ask, Holds, SaneInv, TypeOK, phone, server, history
<1>1. login = None /\ logout = None
  BY <1>0 DEF Epoch, LoginAlone, LogoutOf
<1>2. PICK kind \in {"me", "restore", "register"}, user \in Users \cup {NoUser},
           captured \in Issued \cup {NoToken} :
        /\ Start(q, kind, user, captured)
        /\ kind = "restore" => captured # NoToken /\ captured = stored /\ user = cached
        /\ kind # "restore" => captured = NoToken
  BY <1>0 DEF Ask, Session
<1>3. kind \in Kinds /\ (kind \in {"boot", "restore", "revoke"} => captured # NoToken)
  BY <1>2 DEF Kinds
<1>4. holder' = holder /\ valid' = valid
  BY <1>0
<1>5. request'[q] = [kind |-> kind, user |-> user, captured |-> captured,
                     token |-> NoToken, stage |-> "starting"]
  BY <1>2, <1>3, <1>4, StartIsSane
<1>6. request[q] = None /\ \A p \in Slots \ {q} : request'[p] = request[p]
  BY <1>2, <1>3, <1>4, StartIsSane
<1>7. Epoch(t)'
  <2>1. RequestOf(t, request[q])'
    BY <1>0, <1>2, <1>5 DEF Epoch, StorageOf, RequestOf
  <2>2. RequestsOf(t)'
    BY <1>0, <1>6, <2>1 DEF Epoch, RequestsOf, RequestOf
  <2>3. Cut' => Cut
    BY <1>0, <1>5, <1>6 DEF Cut, Lost
  <2> QED BY <1>0, <1>1, <2>2, <2>3
          DEF Epoch, StorageOf, SessionOf, LoginAlone, LogoutOf, CutIsRevoked, Issued
<1>8. ASSUME Calm(t) PROVE Calm(t)'
  <2>1. CalmRequest(t, request[q])'
    BY <1>0, <1>2, <1>5 DEF CalmRequest
  <2>2. RequestsAreCalm(t)'
    BY <1>0, <1>6, <1>8, <2>1 DEF Calm, RequestsAreCalm, CalmRequest
  <2>3. DeviceOf(t)' /\ EndedIsT(t)'
    BY <1>0, <1>6, <1>8 DEF Calm, DeviceOf, EndedIsT, Issued
  <2> QED BY <1>0, <1>1, <1>8, <2>2, <2>3 DEF Calm, LogoutHasToken
<1> QED BY <1>0, <1>7, <1>8 DEF Holds

LEMMA AppStartEpoch ==
  ASSUME SaneInv, NEW t \in Issued \cup {NoToken}, Holds(t), AppStart
  PROVE  Holds(t)'
<1> USE NamesAssumption DEF Restoring, Alive
<1>0. /\ Epoch(t) /\ TypeOK /\ cached \in Users \cup {NoUser} /\ stored \in Issued \cup {NoToken}
      /\ NoToken \notin Issued /\ Issued \subseteq Tokens
  BY IssuedTokens DEF Holds, SaneInv, TypeOK
<1>1. /\ session' = None /\ login' = None /\ logout' = None
      /\ UNCHANGED <<stored, cached, holder, valid, device>>
      /\ trouble' = "none" => trouble = "none" /\ ~UnderWay(Kinds) /\ logout = None /\ ended' = ended
  BY DEF AppStart, server, Failing, Record
<1>2. PICK x : x = [kind |-> "boot", user |-> cached, captured |-> stored,
                    token |-> NoToken, stage |-> "starting"]
  OBVIOUS
<1>3. PICK first \in Slots :
        request' = [q \in Slots |-> IF q = first /\ stored # NoToken THEN x ELSE None]
  BY <1>2 DEF AppStart
<1>4. stored # NoToken => request'[first] = x /\ x # None
  <2>1. stored # NoToken => x \in Request
    BY <1>0, <1>2 DEF Request, Kinds
  <2> QED BY <1>3, <2>1
<1>5. \A q \in Slots : request'[q] # None => request'[q] = x /\ stored # NoToken
  BY <1>3
<1>6. Epoch(t)'
  <2>1. RequestsOf(t)'
    BY <1>0, <1>1, <1>2, <1>5 DEF Epoch, StorageOf, RequestsOf, RequestOf
  <2>2. Alive' => ~Cut'
    BY <1>1, <1>2, <1>5 DEF Cut, Lost
  <2> QED BY <1>0, <1>1, <2>1, <2>2
          DEF Epoch, StorageOf, SessionOf, LoginAlone, LogoutOf, CutIsRevoked, Issued
<1>7. ASSUME trouble' = "none", Calm(t) PROVE Calm(t)'
  <2>1. \A q \in Slots : request[q] = None
    BY <1>1, <1>7, NothingUnderWay
  <2>2. RequestsAreCalm(t)'
    BY <1>1, <1>2, <1>5 DEF RequestsAreCalm, CalmRequest
  <2>3. DeviceOf(t)'
    BY <1>1, <1>2, <1>4, <1>7, <2>1 DEF Calm, DeviceOf, Issued
  <2>4. EndedIsT(t)' /\ (Alive' => stored' # NoToken)
    BY <1>1, <1>5, <1>7, <2>1 DEF Calm, EndedIsT
  <2> QED BY <1>1, <2>2, <2>3, <2>4 DEF Calm, LogoutHasToken
<1> QED BY <1>1, <1>6, <1>7 DEF Holds

LEMMA ServerRevokesEpoch ==
  ASSUME SaneInv, NEW t \in Issued \cup {NoToken}, Holds(t), NEW k \in Tokens, ServerRevokes(k)
  PROVE  Holds(t)'
<1>1. /\ UNCHANGED <<session, stored, cached, login, logout, request, holder, device, ended, trouble>>
      /\ valid' \subseteq valid
  BY DEF ServerRevokes, phone
<1>2. Epoch(t) => Epoch(t)'
  BY <1>1 DEF Epoch, StorageOf, SessionOf, LoginAlone, LogoutOf, RequestsOf, RequestOf, CutIsRevoked,
              Cut, Lost, Alive, Restoring, Issued
<1>3. Calm(t) => Calm(t)'
  BY <1>1 DEF Calm, RequestsAreCalm, CalmRequest, LogoutHasToken, DeviceOf, EndedIsT, Alive, Restoring, Issued
<1> QED BY <1>1, <1>2, <1>3 DEF Holds

LEMMA EpochStep == EpochInv /\ [Next]_vars => EpochInv'
<1> SUFFICES ASSUME EpochInv, [Next]_vars PROVE EpochInv'
  OBVIOUS
<1>0. SaneInv /\ SaneInv'
  BY SaneStep DEF EpochInv
<1> SUFFICES ASSUME trouble' # "crossed"
             PROVE  \E x \in Issued' \cup {NoToken} : Holds(x)'
  BY <1>0 DEF EpochInv
<1>1. trouble # "crossed" /\ Issued \subseteq Issued'
  <2>1. CASE LoginIssued
    <3>1. holder' = Append(holder, login.user) /\ holder \in Seq(Users) /\ trouble' = trouble
      BY <1>0, <2>1 DEF LoginIssued, SaneInv, TypeOK, history
    <3> QED BY <3>1 DEF Issued
  <2>2. CASE UNCHANGED vars
    BY <2>2 DEF vars, server, history, Issued
  <2>3. CASE (\E u \in Users : LoginStart(u)) \/ LoginFails \/ LoginWrite \/ LoginDone
    BY <2>3 DEF LoginStart, LoginFails, LoginWrite, LoginDone, Crossing, Record, server, history, Issued
  <2>4. CASE LogoutStart \/ LogoutRead \/ LogoutClear \/ LogoutRevoke
    BY <2>4 DEF LogoutStart, SignedOut, LogoutRead, LogoutClear, LogoutRevoke, Crossing, Failing, Record,
                server, history, Issued
  <2>5. CASE \E q \in Slots : Ask(q) \/ Send(q) \/ Handle(q)
    BY <2>5 DEF Ask, Send, Handle, server, history, Issued
  <2>6. CASE \E q \in Slots : AnswerOk(q) \/ AnswerRefused(q) \/ Fail(q) \/ ClearAgain(q) \/ ExpireState(q)
    BY <2>6 DEF AnswerOk, AnswerRefused, Fail, ClearAgain, ExpireState, Failing, Record, server, history, Issued
  <2>7. CASE AppStart \/ \E t \in Tokens : ServerRevokes(t)
    BY <2>7 DEF AppStart, ServerRevokes, Failing, Record, server, history, Issued
  <2> QED BY <2>1, <2>2, <2>3, <2>4, <2>5, <2>6, <2>7 DEF Next
<1>2. PICK t \in Issued \cup {NoToken} : Holds(t)
  BY <1>1 DEF EpochInv
<1>3. CASE UNCHANGED vars
  <2>1. Holds(t)'
    BY <1>2, <1>3 DEF Holds, Epoch, StorageOf, SessionOf, LoginAlone, LogoutOf, RequestsOf, RequestOf, CutIsRevoked,
                Cut, Lost, Alive, Restoring, Calm, RequestsAreCalm, CalmRequest, LogoutHasToken, DeviceOf,
                EndedIsT, Issued, vars, phone, server, history
  <2> QED BY <1>1, <2>1
<1>4. CASE LoginWrite
  BY <1>0, <1>1, <1>2, <1>4, LoginWriteEpoch
<1>5. CASE Next /\ ~LoginWrite
  <2>1. Holds(t)'
    BY <1>0, <1>2, <1>5, LoginEpoch, LogoutEpoch, SendEpoch, HandleEpoch, AnswerOkEpoch, TroubleEpoch, AskEpoch,
       AppStartEpoch, ServerRevokesEpoch DEF Next
  <2> QED BY <1>1, <2>1
<1> QED BY <1>3, <1>4, <1>5

LEMMA EpochCorrect == Spec => []EpochInv
BY EpochInit, EpochStep, PTL DEF Spec

(* Who is signed in with a token that the server accepts has it in the secure *)
(* storage and is shown as its owner, as long as nothing of an older session  *)
(* crosses his own: the routines of SessionController and the 401 handling of *)
(* the client never undo one another.                                        *)
THEOREM SessionIsWhole == Spec => []SignedInIsWhole
BY EpochPromises, EpochCorrect, PTL

(* Signing out leaves the phone registered for nobody's pushes, once all is   *)
(* answered and nothing failed: logout() unregisters the device while it has  *)
(* its token.                                                                *)
THEOREM SignedOutGetsNoPushes == Spec => []SignedOutIsUnregistered
BY EpochPromises, EpochCorrect, PTL

(* The token of a session its user ended is deleted at the server, once all   *)
(* is answered and nothing failed: logout() reads it before it clears the     *)
(* storage, and nothing else goes out in its place.                          *)
THEOREM EndedTokenIsRevoked == Spec => []TokenIsRevoked
BY EpochPromises, EpochCorrect, PTL
=============================================================================
