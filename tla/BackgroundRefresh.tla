--------------------------- MODULE BackgroundRefresh ---------------------------
(***************************************************************************)
(* BackgroundRefreshController of the mobile app, the base of the providers   *)
(* for notifications, the unread count, conversations, viewing requests and  *)
(* listings: build() loads the value when the signed-in user changes, and     *)
(* refresh() reloads it in place after an event.  A provider that nobody      *)
(* watches when the user changes is built again only when it is next read.   *)
(*                                                                          *)
(* The server's data is a version number per user; a load is a request that  *)
(* reads the version at one moment and is answered at a later one.           *)
(***************************************************************************)
EXTENDS Naturals

CONSTANTS
  Users,
  NoUser,       \* nobody is signed in
  NoLoad,       \* no request
  NoValue,      \* state.value is null: nothing was ever loaded
  Empty,        \* the empty list that loadValue() answers without a session
  MaxVersion,   \* bound: changes on the server, per user
  MaxSessions   \* bound: sign-ins and sign-outs

ASSUME ConstantsAssumption ==
  /\ NoUser \notin Users
  /\ MaxVersion \in Nat /\ MaxSessions \in Nat

VARIABLES
  session,          \* sessionUserIdProvider
  version,          \* the server's data of each user
  value,            \* state.value
  build,            \* the load of build(), if it is under way
  load,             \* the load of refresh(), if it is under way
  requestedUserId,  \* refresh()'s locals, meaningful while load is under way
  previous,
  refreshQueued,    \* _refreshQueued
  waiting,          \* refresh() waits for the first load
  errored,          \* the last build() ended with an error
  dirty,            \* the user has changed and build() is yet to run again
  events,           \* events on their way to the signed-in app
  sessions,         \* sign-ins and sign-outs so far (bounded by MaxSessions)
  failed,           \* a request has failed (history variable)
  refused,          \* a request was answered 401 or 403 (history variable)
  neglected         \* a sign-out found the provider unwatched (history variable)

(* _refreshInFlight is load # NoLoad.                                        *)
refreshVars == <<load, requestedUserId, previous>>
history == <<failed, refused, neglected>>
vars == <<session, version, value, build, refreshVars, refreshQueued, waiting, errored, dirty,
          events, sessions, history>>

Versions == 0 .. MaxVersion
Data     == [user : Users, ver : Versions]
Unread   == MaxVersion + 1                  \* the server has not read it yet
Load     == [user : Users, ver : Versions \cup {Unread}]

ASSUME NamesAssumption == NoValue \notin Data \cup {Empty} /\ Empty \notin Data /\ NoLoad \notin Load

NewLoad(u) == [user |-> u, ver |-> Unread]

-----------------------------------------------------------------------------
(* The app starts with a restored session, so that the first build() loads,  *)
(* or without one.                                                           *)
Init ==
  /\ session \in Users \cup {NoUser}
  /\ version = [u \in Users |-> 0]
  /\ value = IF session = NoUser THEN Empty ELSE NoValue
  /\ build = IF session = NoUser THEN NoLoad ELSE NewLoad(session)
  /\ load = NoLoad /\ requestedUserId = NoUser /\ previous = NoValue
  /\ refreshQueued = FALSE /\ waiting = FALSE /\ errored = FALSE /\ dirty = FALSE
  /\ events = 0 /\ sessions = 0
  /\ failed = FALSE /\ refused = FALSE /\ neglected = FALSE

(* Another party changes the user's data and the signed-in app is told.      *)
ServerChanges(u) ==
  /\ version[u] < MaxVersion
  /\ version' = [version EXCEPT ![u] = @ + 1]
  /\ events' = IF session = u THEN events + 1 ELSE events
  /\ UNCHANGED <<session, value, build, refreshVars, refreshQueued, waiting, errored, dirty,
                 sessions, history>>

ServerReads ==
  /\ \/ /\ build # NoLoad /\ build.ver = Unread
        /\ build' = [build EXCEPT !.ver = version[build.user]]
        /\ UNCHANGED load
     \/ /\ load # NoLoad /\ load.ver = Unread
        /\ load' = [load EXCEPT !.ver = version[load.user]]
        /\ UNCHANGED build
  /\ UNCHANGED <<session, version, value, requestedUserId, previous, refreshQueued, waiting,
                 errored, dirty, events, sessions, history>>

-----------------------------------------------------------------------------
(* refresh() from its last check on, v being state.value by then.  Without a  *)
(* session loadValue() has its fallback at once.                             *)
StartRefresh(v) ==
  IF session = NoUser
  THEN load' = NoLoad /\ value' = Empty /\ UNCHANGED <<requestedUserId, previous>>
  ELSE load' = NewLoad(session) /\ requestedUserId' = session /\ previous' = v /\ value' = v

(* refresh() before there is a value awaits the first load.  One that has     *)
(* failed is awaited only if the provider library is about to retry it.      *)
AwaitFirstLoad == waiting' \in {TRUE, waiting \/ build # NoLoad}

(* Mutant of Refresh: a call during a refresh is dropped.                    *)
RefreshDrops ==
  \/ load # NoLoad /\ UNCHANGED <<value, refreshVars, refreshQueued, waiting>>
  \/ load = NoLoad /\ value = NoValue /\ AwaitFirstLoad /\ UNCHANGED <<value, refreshVars, refreshQueued>>
  \/ load = NoLoad /\ value # NoValue /\ StartRefresh(value) /\ UNCHANGED <<refreshQueued, waiting>>

(* refresh(): queued behind a running one.                                   *)
Refresh ==
  \/ load # NoLoad /\ refreshQueued' = TRUE /\ UNCHANGED <<value, refreshVars, waiting>>
  \/ load = NoLoad /\ value = NoValue /\ AwaitFirstLoad /\ UNCHANGED <<value, refreshVars, refreshQueued>>
  \/ load = NoLoad /\ value # NoValue /\ StartRefresh(value) /\ UNCHANGED <<refreshQueued, waiting>>

(* A WebSocket or push event reaches the app.  Reading the provider builds it *)
(* again first if that is due: that is Look.                                 *)
Event ==
  /\ events > 0 /\ session # NoUser /\ ~dirty
  /\ events' = events - 1
  /\ Refresh
  /\ UNCHANGED <<session, version, build, errored, dirty, sessions, history>>

(* Mutant of Answer: the user is not compared after the await.               *)
AnswerAnyUser(v) ==
  /\ refreshQueued' = FALSE
  /\ errored' = FALSE
  /\ IF refreshQueued THEN StartRefresh(v)
     ELSE load' = NoLoad /\ value' = v /\ UNCHANGED <<requestedUserId, previous>>
  /\ UNCHANGED <<session, version, build, waiting, dirty, events, sessions, neglected>>

(* The answer v is written unless the user has changed, and the finally block *)
(* starts a queued refresh.                                                  *)
Answer(v) ==
  LET shown == IF requestedUserId = session THEN v ELSE value
  IN  /\ refreshQueued' = FALSE
      /\ errored' = (errored /\ requestedUserId # session)
      /\ IF refreshQueued THEN StartRefresh(shown)
         ELSE load' = NoLoad /\ value' = shown /\ UNCHANGED <<requestedUserId, previous>>
      /\ UNCHANGED <<session, version, build, waiting, dirty, events, sessions, neglected>>

RefreshDone == load # NoLoad /\ load.ver # Unread /\ Answer(load) /\ UNCHANGED <<failed, refused>>

(* Mutant of RefreshFails: the failure is shown instead of the old value.    *)
RefreshFailsErases == load # NoLoad /\ Answer(Empty) /\ failed' = TRUE /\ UNCHANGED refused

RefreshFails == load # NoLoad /\ Answer(previous) /\ failed' = TRUE /\ UNCHANGED refused

(* 401 or 403: the answer is the fallback, and the session will be cleared    *)
(* (SignOut) once the token store is.                                        *)
RefreshRefused == load # NoLoad /\ Answer(Empty) /\ refused' = TRUE /\ UNCHANGED failed

-----------------------------------------------------------------------------
(* build() has v, and a refresh() that waited for it goes on at once.        *)
Built(v) ==
  /\ build' = NoLoad /\ waiting' = FALSE /\ errored' = FALSE
  /\ IF waiting /\ load = NoLoad THEN StartRefresh(v) ELSE value' = v /\ UNCHANGED refreshVars
  /\ UNCHANGED <<session, version, refreshQueued, dirty, events, sessions, neglected>>

BuildDone == build # NoLoad /\ build.ver # Unread /\ Built(build) /\ UNCHANGED <<failed, refused>>

BuildRefused == build # NoLoad /\ Built(Empty) /\ refused' = TRUE /\ UNCHANGED failed

BuildFails ==
  /\ build # NoLoad
  /\ build' = NoLoad /\ errored' = TRUE /\ failed' = TRUE
  /\ waiting' \in {waiting, FALSE}
  /\ UNCHANGED <<session, version, value, refreshVars, refreshQueued, dirty, events, sessions,
                 refused, neglected>>

(* The error screen's retry button, or the provider library's own retry.     *)
Retry ==
  /\ errored /\ build = NoLoad /\ ~dirty /\ session # NoUser
  /\ build' = NewLoad(session) /\ errored' = FALSE
  /\ UNCHANGED <<session, version, value, refreshVars, refreshQueued, waiting, dirty, events,
                 sessions, history>>

-----------------------------------------------------------------------------
(* build() runs again for u, with the old value still readable.  A refresh    *)
(* under way either goes on, when the notifier outlives the rebuild, or is    *)
(* left unmounted, when it does not.                                         *)
Rebuild(u) ==
  /\ dirty' = FALSE /\ errored' = FALSE
  /\ IF u = NoUser THEN value' = Empty /\ build' = NoLoad ELSE build' = NewLoad(u) /\ UNCHANGED value
  /\ waiting' \in {FALSE, waiting /\ u # NoUser}
  /\ \/ UNCHANGED <<refreshVars, refreshQueued>>
     \/ load' = NoLoad /\ refreshQueued' = FALSE /\ UNCHANGED <<requestedUserId, previous>>

(* The user changes to u.  A watched provider is built again, an unwatched    *)
(* one is only marked.                                                       *)
ChangeUser(u) ==
  /\ sessions < MaxSessions
  /\ session' = u
  /\ sessions' = sessions + 1
  /\ \/ ~dirty /\ Rebuild(u) /\ UNCHANGED neglected
     \/ /\ dirty' = TRUE
        /\ neglected' = (neglected \/ session # NoUser)
        /\ UNCHANGED <<value, build, refreshVars, refreshQueued, waiting, errored>>
  /\ UNCHANGED <<version, failed, refused>>

(* logout(), or an expired session is cleared.                               *)
SignOut == session # NoUser /\ ChangeUser(NoUser) /\ events' = 0

SignIn(u) == session = NoUser /\ ChangeUser(u) /\ UNCHANGED events

(* A screen or a handler reads a provider that has to be built again.        *)
Look ==
  /\ dirty
  /\ Rebuild(session)
  /\ UNCHANGED <<session, version, events, sessions, history>>

Next ==
  \/ \E u \in Users : ServerChanges(u) \/ SignIn(u)
  \/ ServerReads \/ Event
  \/ RefreshDone \/ RefreshFails \/ RefreshRefused
  \/ BuildDone \/ BuildFails \/ BuildRefused \/ Retry
  \/ SignOut \/ Look

Spec == Init /\ [][Next]_vars
-----------------------------------------------------------------------------
(* Type invariant: a request under way is for a user, and there is nothing   *)
(* to refresh before there is a value.                                       *)
TypeOK ==
  /\ session \in Users \cup {NoUser}
  /\ version \in [Users -> Versions]
  /\ value \in Data \cup {NoValue, Empty}
  /\ build \in Load \cup {NoLoad}
  /\ load \in Load \cup {NoLoad}
  /\ requestedUserId \in Users \cup {NoUser}
  /\ previous \in Data \cup {NoValue, Empty}
  /\ {refreshQueued, waiting, errored, dirty, failed, refused, neglected} \subseteq BOOLEAN
  /\ value = NoValue => load = NoLoad
  /\ events \in Nat /\ sessions \in 0 .. MaxSessions

Quiet == build = NoLoad /\ load = NoLoad /\ events = 0 /\ ~waiting

(* "So the event cannot be lost to a stale read" (providers.dart:382): once  *)
(* every event is handled and every request answered, without a failure or a *)
(* refusal, the screen shows the server's latest data (in the session the    *)
(* app started with).                                                        *)
EventNotLost ==
  sessions = 0 /\ ~failed /\ ~refused /\ Quiet /\ session # NoUser =>
    value = [user |-> session, ver |-> version[session]]

Usable(v) == v # NoValue /\ v # Empty

(* "Failed background refreshes do not erase usable data"                    *)
(* (FLUTTER_REFRESH_POLICY.md:7): in the session the app started with, data  *)
(* once shown is only ever replaced by data as new or newer, whatever fails, *)
(* as long as no request is refused (which ends the session).                *)
NeverErased ==
  [][Usable(value) /\ sessions' = 0 /\ ~refused' =>
       Usable(value') /\ value'.user = value.user /\ value'.ver >= value.ver]_vars

Foreign(v) == Usable(v) /\ v.user # session

(* Data of somebody who is not signed in is readable only in a provider that  *)
(* was unwatched at a sign-out, and there only until it was built again for  *)
(* the user of now, unless a request failed: a late answer brings none back. *)
ForeignOnlyIfNeglected ==
  Foreign(value) => neglected /\ (dirty \/ build # NoLoad \/ failed)
=============================================================================
