---------------------------- MODULE MobileSession ----------------------------
(***************************************************************************)
(* Signing in and out of the mobile app: SessionController, AuthRepository,   *)
(* TokenStore, the token and 401 handling of LuxApiClient, and the            *)
(* registration of the device for pushes, with the server's tables of access  *)
(* tokens and devices.  Dart runs one callback at a time; every await on the  *)
(* network or the secure storage lets the others in.                         *)
(***************************************************************************)
EXTENDS Naturals, Sequences

CONSTANTS
  Users,
  NoUser,
  NoToken,
  Slots,        \* bound: requests under way at once
  None,         \* no session, no request, no routine
  MaxLogins,    \* bound: access tokens issued
  MaxFaults     \* bound: the app is killed, or a token is revoked elsewhere

ASSUME ConstantsAssumption ==
  /\ NoUser \notin Users
  /\ MaxLogins \in Nat /\ MaxFaults \in Nat
  /\ NoToken \notin 1 .. MaxLogins

VARIABLES
  session,   \* state.value of the controller: user and token
  stored,    \* the token in the secure storage
  cached,    \* the user in the secure storage
  login,     \* login(), if it is under way
  logout,    \* logout(), if it is under way: one at a time
  request,   \* requests under way
  holder,    \* personal_access_tokens: whose token it is
  valid,     \* the tokens that are not deleted
  device,    \* user_devices: whose pushes this phone gets
  ended,     \* tokens of sessions their user signed out of, until there is trouble
  trouble,   \* "failed": a request failed, timed out or was refused; "crossed", which
             \* outweighs it: something of an older session was under way or stored
             \* when the next began, or was about to restore or register it at its
             \* end (history variable)
  faults

phone == <<session, stored, cached, login, logout>>
server == <<holder, valid, device>>
history == <<ended, trouble, faults>>
vars == <<phone, request, server, history>>

Tokens == 1 .. MaxLogins
Issued == DOMAIN holder

Session == [user : Users, token : Tokens]
Kinds == {"boot", "me", "restore", "register", "unregister", "revoke"}
Request == [kind : Kinds,
            user : Users \cup {NoUser},         \* what the caller read before:
            captured : Tokens \cup {NoToken},   \* the user and the token
            token : Tokens \cup {NoToken},      \* the Authorization header
            stage : {"starting", "sent", "ok", "refused", "clearing", "ending"}]

Login  == [user : Users, token : Tokens \cup {NoToken}, pc : {"post", "write", "save"}]
Logout == [token : Tokens \cup {NoToken}, pc : {"unregister", "clear", "revoke"}]

ASSUME NamesAssumption == None \notin Session \cup Request \cup Login \cup Logout

UnderWay(kinds) == \E q \in Slots : request[q] # None /\ request[q].kind \in kinds

Start(q, kind, user, captured) ==
  /\ request[q] = None
  /\ request' = [request EXCEPT ![q] = [kind |-> kind, user |-> user, captured |-> captured,
                                        token |-> NoToken, stage |-> "starting"]]

Init ==
  /\ session = None /\ stored = NoToken /\ cached = NoUser
  /\ login = None /\ logout = None
  /\ request = [q \in Slots |-> None]
  /\ holder = <<>> /\ valid = {} /\ device = NoUser
  /\ ended = {} /\ trouble = "none" /\ faults = 0

(* What has ended is of interest only until there is trouble.                *)
Record(t, tokens) ==
  /\ trouble' = t
  /\ ended' = IF t = "none" THEN tokens ELSE {}

Failing(b)  == Record(IF b /\ trouble = "none" THEN "failed" ELSE trouble, ended)
Crossing(b, tokens) == Record(IF b THEN "crossed" ELSE trouble, tokens)
-----------------------------------------------------------------------------
(* login(), and register() likewise: state is loading until it is done.  The  *)
(* gate shows no login screen while the app still restores its session.      *)
LoginStart(u) ==
  /\ session = None /\ login = None /\ ~UnderWay({"boot"}) /\ Len(holder) < MaxLogins
  /\ login' = [user |-> u, token |-> NoToken, pc |-> "post"]
  /\ Crossing(UnderWay(Kinds) \/ logout # None \/ cached # NoUser, ended)
  /\ UNCHANGED <<session, stored, cached, logout, request, server, faults>>

LoginIssued ==
  /\ login # None /\ login.pc = "post"
  /\ holder' = Append(holder, login.user)
  /\ valid' = valid \cup {Len(holder) + 1}
  /\ login' = [login EXCEPT !.token = Len(holder) + 1, !.pc = "write"]
  /\ UNCHANGED <<session, stored, cached, logout, request, device, history>>

(* The password is wrong, or the answer is lost.                             *)
LoginFails ==
  /\ login # None /\ login.pc \in {"post", "write"}
  /\ login' = None
  /\ UNCHANGED <<session, stored, cached, logout, request, server, history>>

(* _saveSession(): the token, then the user; then the state is set.          *)
LoginWrite ==
  /\ login # None /\ login.pc = "write"
  /\ stored' = login.token
  /\ login' = [login EXCEPT !.pc = "save"]
  /\ UNCHANGED <<session, cached, logout, request, server, history>>

LoginDone ==
  /\ login # None /\ login.pc = "save"
  /\ cached' = login.user
  /\ session' = [user |-> login.user, token |-> login.token]
  /\ login' = None
  /\ UNCHANGED <<stored, logout, request, server, history>>
-----------------------------------------------------------------------------
Clear == stored' = NoToken /\ cached' = NoUser

SignedOut ==
  /\ session # None /\ logout = None
  /\ session' = None
  /\ Crossing(UnderWay({"restore", "register"}), ended \cup {session.token})

(* Mutant of LogoutStart: the credentials go before the device is dropped.    *)
LogoutStartClears ==
  /\ SignedOut
  /\ logout' = [token |-> stored, pc |-> "revoke"]
  /\ Clear
  /\ UNCHANGED <<login, request, server, faults>>

(* logout(): signed out at once; then the device is unregistered, which needs *)
(* a stored token, and waited for.                                           *)
LogoutStart ==
  /\ SignedOut
  /\ logout' = [token |-> NoToken, pc |-> "unregister"]
  /\ \/ stored # NoToken /\ \E q \in Slots : Start(q, "unregister", NoUser, NoToken)
     \/ stored = NoToken /\ UNCHANGED request
  /\ UNCHANGED <<stored, cached, login, server, faults>>

(* Mutant of LogoutRead: the storage is cleared before the token is read.    *)
LogoutReadTooLate ==
  /\ logout # None /\ logout.pc = "unregister"
  /\ Failing(UnderWay({"unregister"}))
  /\ logout' = [token |-> NoToken, pc |-> "clear"]
  /\ Clear
  /\ UNCHANGED <<session, login, request, server, faults>>

(* The device is unregistered, or two seconds have passed.                   *)
LogoutRead ==
  /\ logout # None /\ logout.pc = "unregister"
  /\ Failing(UnderWay({"unregister"}))
  /\ logout' = [token |-> stored, pc |-> "clear"]
  /\ UNCHANGED <<session, stored, cached, login, request, server, faults>>

LogoutClear ==
  /\ logout # None /\ logout.pc = "clear"
  /\ Clear
  /\ logout' = IF logout.token = NoToken THEN None ELSE [logout EXCEPT !.pc = "revoke"]
  /\ UNCHANGED <<session, login, request, server, history>>

(* AuthRepository.logout() clears once more, and posts with the token read.  *)
LogoutRevoke ==
  /\ logout # None /\ logout.pc = "revoke"
  /\ Clear
  /\ logout' = None
  /\ \E q \in Slots : Start(q, "revoke", NoUser, logout.token)
  /\ UNCHANGED <<session, login, server, history>>
-----------------------------------------------------------------------------
(* What a signed-in app asks for: its profile (one at a time; a screen's data *)
(* is read likewise, but leaves the state alone), the session anew after an   *)
(* e-mail verification, pushes.  restore() and registerCurrentDevice() look   *)
(* for a stored token first.                                                 *)
Ask(q) ==
  /\ session # None
  /\ \/ ~UnderWay({"me"}) /\ Start(q, "me", session.user, NoToken)
     \/ stored # NoToken /\ Start(q, "restore", cached, stored)
     \/ stored # NoToken /\ Start(q, "register", NoUser, NoToken)
  /\ UNCHANGED <<phone, server, history>>

(* Mutant of Header: an explicit header is ignored.                          *)
HeaderStoredOnly(r) == stored

(* onRequest: a stored token overrides the header that logout() passes.      *)
Header(r) ==
  IF stored # NoToken THEN stored ELSE IF r.kind = "revoke" THEN r.captured ELSE NoToken

(* The request leaves after the throttle and the challenge cookie.           *)
Send(q) ==
  /\ request[q] # None /\ request[q].stage = "starting"
  /\ request' = [request EXCEPT ![q].stage = "sent", ![q].token = Header(request[q])]
  /\ UNCHANGED <<phone, server, history>>

(* The server answers 401, or does what it is asked to.                      *)
Handle(q) ==
  /\ request[q] # None /\ request[q].stage = "sent"
  /\ LET r == request[q]
     IN  \/ /\ r.token \notin valid
            /\ request' = [request EXCEPT ![q].stage = "refused"]
            /\ UNCHANGED <<valid, device>>
         \/ /\ r.token \in valid
            /\ request' = [request EXCEPT ![q].stage = "ok"]
            /\ valid' = IF r.kind = "revoke" THEN valid \ {r.token} ELSE valid
            /\ device' = IF r.kind = "register" THEN holder[r.token]
                         ELSE IF r.kind = "unregister" /\ device = holder[r.token] THEN NoUser
                         ELSE device
  /\ UNCHANGED <<phone, holder, history>>

(* refreshCurrentUser(): the profile is put into the state if the same user   *)
(* is still signed in.                                                       *)
ProfileAnswer(r) ==
  IF session # None /\ session.user = r.user
  THEN [session EXCEPT !.user = holder[r.token]] ELSE session

(* The user is stored in any case; restore() also replaces the session.      *)
AnswerOk(q) ==
  /\ request[q] # None /\ request[q].stage = "ok"
  /\ request' = [request EXCEPT ![q] = None]
  /\ LET r == request[q]
     IN  /\ cached' = IF r.kind \in {"me", "boot", "restore"} THEN holder[r.token] ELSE cached
         /\ session' = CASE r.kind = "me" -> ProfileAnswer(r)
                         [] r.kind \in {"boot", "restore"} ->
                              [user |-> holder[r.token], token |-> r.captured]
                         [] OTHER -> session
  /\ UNCHANGED <<stored, login, logout, server, history>>

(* onError clears the storage, whoever's token it holds by now; restore() and *)
(* refreshCurrentUser() clear it again, which then ends the session.         *)
AnswerRefused(q) ==
  /\ request[q] # None /\ request[q].stage = "refused"
  /\ request' = [request EXCEPT ![q] = IF @.kind \in {"boot", "restore", "me"}
                                       THEN [@ EXCEPT !.stage = "clearing"] ELSE None]
  /\ Clear
  /\ Failing(TRUE)
  /\ UNCHANGED <<session, login, logout, server, faults>>

ClearAgain(q) ==
  /\ request[q] # None /\ request[q].stage = "clearing"
  /\ request' = [request EXCEPT ![q] = IF @.kind = "me"
                                       THEN [@ EXCEPT !.stage = "ending"] ELSE None]
  /\ Clear
  /\ UNCHANGED <<session, login, logout, server, history>>

ExpireState(q) ==
  /\ request[q] # None /\ request[q].stage = "ending"
  /\ request' = [request EXCEPT ![q] = None]
  /\ session' = None
  /\ UNCHANGED <<stored, cached, login, logout, server, history>>

(* restore() falls back on the cached user.                                  *)
Fallback(r) ==
  IF r.kind \in {"boot", "restore"} /\ r.user # NoUser
  THEN [user |-> r.user, token |-> r.captured] ELSE session

(* Mutant of Fail: a failed restore() clears the storage like a refused one.  *)
FailClears(q) ==
  /\ request[q] # None /\ request[q].stage \in {"starting", "sent", "ok"}
  /\ request' = [request EXCEPT ![q] = None]
  /\ Failing(TRUE)
  /\ session' = Fallback(request[q])
  /\ IF request[q].kind \in {"boot", "restore"} THEN Clear ELSE UNCHANGED <<stored, cached>>
  /\ UNCHANGED <<login, logout, server, faults>>

(* No connection, a timeout, an error of the server.                         *)
Fail(q) ==
  /\ request[q] # None /\ request[q].stage \in {"starting", "sent", "ok"}
  /\ request' = [request EXCEPT ![q] = None]
  /\ Failing(TRUE)
  /\ session' = Fallback(request[q])
  /\ UNCHANGED <<stored, cached, login, logout, server, faults>>
-----------------------------------------------------------------------------
(* The app is killed and started again: build() restores the session.  What   *)
(* had reached the server has been handled by then.                          *)
AppStart ==
  /\ faults < MaxFaults
  /\ faults' = faults + 1
  /\ session' = None /\ login' = None /\ logout' = None
  /\ Failing(UnderWay(Kinds) \/ logout # None)
  /\ \E first \in Slots :
       request' = [q \in Slots |->
                     IF q = first /\ stored # NoToken
                     THEN [kind |-> "boot", user |-> cached, captured |-> stored,
                           token |-> NoToken, stage |-> "starting"]
                     ELSE None]
  /\ UNCHANGED <<stored, cached, server>>

(* An admin deactivates the account, or the token is deleted elsewhere.      *)
ServerRevokes(t) ==
  /\ t \in valid /\ faults < MaxFaults
  /\ valid' = valid \ {t}
  /\ faults' = faults + 1
  /\ UNCHANGED <<phone, request, holder, device, ended, trouble>>

Next ==
  \/ \E u \in Users : LoginStart(u)
  \/ LoginIssued \/ LoginFails \/ LoginWrite \/ LoginDone
  \/ LogoutStart \/ LogoutRead \/ LogoutClear \/ LogoutRevoke
  \/ \E q \in Slots : Ask(q) \/ Send(q) \/ Handle(q) \/ AnswerOk(q) \/ AnswerRefused(q) \/ Fail(q)
                     \/ ClearAgain(q) \/ ExpireState(q)
  \/ AppStart
  \/ \E t \in Tokens : ServerRevokes(t)

Spec == Init /\ [][Next]_vars
-----------------------------------------------------------------------------
(* Type invariant: tokens in use were issued, and a request to revoke a token *)
(* names one.                                                                *)
TypeOK ==
  /\ session \in Session \cup {None}
  /\ stored \in Issued \cup {NoToken}
  /\ cached \in Users \cup {NoUser}
  /\ login \in Login \cup {None}
  /\ logout \in Logout \cup {None}
  /\ request \in [Slots -> Request \cup {None}]
  /\ holder \in Seq(Users) /\ Len(holder) <= MaxLogins
  /\ valid \subseteq Issued /\ ended \subseteq Issued
  /\ device \in Users \cup {NoUser}
  /\ \A q \in Slots : request[q] # None /\ request[q].kind = "revoke" /\ request[q].stage # "starting"
                      => request[q].token # NoToken
  /\ trouble \in {"none", "failed", "crossed"} /\ faults \in 0 .. MaxFaults

(* Who is signed in with a token the server accepts has it in the storage,    *)
(* and is shown as its owner, also when restored without a connection: the    *)
(* routines of one session never undo one another.  (logout() still running,  *)
(* or an answer still to come, when the next session begins can do that.)     *)
SignedInIsWhole ==
  session # None /\ session.token \in valid /\ trouble # "crossed" =>
    stored = session.token /\ session.user = holder[session.token]

Quiet == logout = None /\ ~UnderWay(Kinds)

(* Signing out leaves the phone registered for nobody's pushes, once all is   *)
(* answered without a failure.                                               *)
SignedOutIsUnregistered == session = None /\ Quiet /\ trouble = "none" => device = NoUser

(* The token of a session that its user ended is deleted at the server, once  *)
(* all is answered without a failure: nothing clears it away before it is     *)
(* read, and nothing else is sent in its place.                              *)
TokenIsRevoked == Quiet /\ trouble = "none" => ended \cap valid = {}
=============================================================================
