---------------------- MODULE BackgroundRefresh_proofs ----------------------
(***************************************************************************)
(* Proofs about BackgroundRefresh, for any number of users, changes and       *)
(* sessions: the type invariant, that data of another user is only ever left  *)
(* over, never brought back, and, of the session the app started with, that   *)
(* no event is lost and that data once shown is only replaced by data as new  *)
(* or newer.                                                                 *)
(***************************************************************************)
EXTENDS BackgroundRefresh, TLAPS

LEMMA Distinct ==
  /\ Unread \in Nat /\ Unread \notin Versions
  /\ NoValue # Empty /\ NoValue \notin Data /\ Empty \notin Data
  /\ \A u \in Users : NewLoad(u) \in Load /\ NewLoad(u) # NoLoad /\ NewLoad(u).user = u
                      /\ NewLoad(u).ver = Unread
  /\ \A l \in Load : l # NoLoad /\ (l.ver # Unread => l \in Data)
  /\ \A l \in Load \cup Data : l.user \in Users /\ l.user # NoUser
<1>1. Unread \in Nat /\ Unread \notin Versions
  BY ConstantsAssumption DEF Unread, Versions
<1>2. \A u \in Users : NewLoad(u) \in Load
  BY DEF NewLoad, Load
<1>3. \A l \in Load : l.ver # Unread => l \in Data
  BY DEF Load, Data
<1>4. \A l \in Load \cup Data : l.user \in Users /\ l.user # NoUser
  BY ConstantsAssumption DEF Load, Data
<1> QED BY <1>1, <1>2, <1>3, <1>4, NamesAssumption DEF NewLoad

(* Loads belong to the user they were started for; once build() has run for   *)
(* the user of now, its load and, without a failure, its value are that       *)
(* user's; and if no sign-out found the provider unwatched, all is owned:    *)
(* the value kept for a failure too.                                         *)
Owned ==
  /\ load # NoLoad => load.user = requestedUserId /\ previous # NoValue
  /\ ~dirty /\ build # NoLoad => build.user = session
  /\ ~dirty /\ build = NoLoad /\ ~failed => ~Foreign(value)
  /\ ~neglected => /\ build # NoLoad => build.user = session
                   /\ load # NoLoad /\ Usable(previous) => previous.user = requestedUserId
                   /\ ~Foreign(value)

Inv == TypeOK /\ Owned

(* The two outcomes of starting a refresh from v.                            *)
LEMMA StartLemma ==
  ASSUME TypeOK, NEW v \in Data \cup {Empty}, StartRefresh(v)
  PROVE  \/ /\ session = NoUser /\ load' = NoLoad /\ value' = Empty
            /\ requestedUserId' = requestedUserId /\ previous' = previous
         \/ /\ session \in Users /\ session # NoUser
            /\ load' \in Load /\ load' # NoLoad /\ load'.user = session /\ load'.ver = Unread
            /\ requestedUserId' = session
            /\ previous' = v /\ previous' # NoValue /\ value' = v
BY Distinct, ConstantsAssumption DEF StartRefresh, TypeOK

(* What an answer leaves behind: the value it shows is v, the old one, or,    *)
(* signed out, the fallback; a queued refresh starts from the value shown.   *)
LEMMA AnswerLemma ==
  ASSUME TypeOK, load # NoLoad, NEW v \in Data \cup {Empty}, Answer(v)
  PROVE  /\ \/ value' = Empty /\ session = NoUser
            \/ value' = v /\ requestedUserId = session
            \/ value' = value /\ requestedUserId # session
         /\ value' \in Data \cup {Empty}
         /\ \/ load' = NoLoad /\ requestedUserId' = requestedUserId /\ previous' = previous
            \/ /\ refreshQueued /\ session \in Users /\ session # NoUser
               /\ load' \in Load /\ load' # NoLoad /\ load'.user = session /\ load'.ver = Unread
               /\ requestedUserId' = session
               /\ previous' = value' /\ previous' # NoValue
         /\ refreshQueued /\ session # NoUser => load' # NoLoad
         /\ refreshQueued' = FALSE /\ errored' \in BOOLEAN
         /\ UNCHANGED <<session, version, build, waiting, dirty, events, sessions, neglected>>
<1> DEFINE shown == IF requestedUserId = session THEN v ELSE value
<1>1. shown \in Data \cup {Empty}
  BY DEF TypeOK
<1>2. IF refreshQueued THEN StartRefresh(shown)
      ELSE load' = NoLoad /\ value' = shown /\ UNCHANGED <<requestedUserId, previous>>
  BY DEF Answer
<1>3. errored' \in BOOLEAN
  BY DEF Answer, TypeOK
<1>4. CASE refreshQueued
  <2>1. StartRefresh(shown)
    BY <1>2, <1>4
  <2> HIDE DEF shown
  <2>2. \/ /\ session = NoUser /\ load' = NoLoad /\ value' = Empty
           /\ requestedUserId' = requestedUserId /\ previous' = previous
        \/ /\ session \in Users /\ session # NoUser
           /\ load' \in Load /\ load' # NoLoad /\ load'.user = session /\ load'.ver = Unread
           /\ requestedUserId' = session
           /\ previous' = shown /\ previous' # NoValue /\ value' = shown
    BY <1>1, <2>1, StartLemma
  <2> QED BY <1>1, <1>3, <1>4, <2>2 DEF Answer, shown
<1>5. CASE ~refreshQueued
  BY <1>1, <1>2, <1>3, <1>5 DEF Answer
<1> QED BY <1>4, <1>5 DEF TypeOK

(* ... and so for the load of build().                                       *)
LEMMA BuiltLemma ==
  ASSUME TypeOK, NEW v \in Data \cup {Empty}, Built(v)
  PROVE  /\ value' = v \/ (value' = Empty /\ session = NoUser)
         /\ \/ load' = load /\ requestedUserId' = requestedUserId /\ previous' = previous
            \/ load' = NoLoad /\ requestedUserId' = requestedUserId /\ previous' = previous
            \/ /\ session \in Users /\ session # NoUser
               /\ load' \in Load /\ load' # NoLoad /\ load'.user = session /\ load'.ver = Unread
               /\ requestedUserId' = session
               /\ previous' = v /\ previous' # NoValue /\ value' = v
         /\ waiting /\ load = NoLoad /\ session # NoUser => load' # NoLoad
         /\ build' = NoLoad /\ waiting' = FALSE /\ errored' = FALSE
         /\ UNCHANGED <<session, version, refreshQueued, dirty, events, sessions, neglected>>
<1>1. CASE waiting /\ load = NoLoad
  <2>1. StartRefresh(v)
    BY <1>1 DEF Built
  <2> QED BY <1>1, <2>1, StartLemma DEF Built
<1>2. CASE ~(waiting /\ load = NoLoad)
  BY <1>2 DEF Built, refreshVars
<1> QED BY <1>1, <1>2

(* What a rebuild for u leaves behind.                                       *)
LEMMA RebuildLemma ==
  ASSUME TypeOK, NEW u \in Users \cup {NoUser}, Rebuild(u)
  PROVE  /\ dirty' = FALSE /\ errored' = FALSE
         /\ waiting' \in BOOLEAN /\ refreshQueued' \in BOOLEAN
         /\ \/ u = NoUser /\ value' = Empty /\ build' = NoLoad
            \/ u \in Users /\ value' = value /\ build' \in Load /\ build' # NoLoad /\ build'.user = u
         /\ load' = load \/ load' = NoLoad
         /\ requestedUserId' = requestedUserId /\ previous' = previous
<1>1. /\ \/ u = NoUser /\ value' = Empty /\ build' = NoLoad
         \/ u \in Users /\ value' = value /\ build' \in Load /\ build' # NoLoad /\ build'.user = u
  BY Distinct DEF Rebuild
<1>2. waiting' \in BOOLEAN
  BY DEF Rebuild, TypeOK
<1>3. refreshQueued' \in BOOLEAN
  BY DEF Rebuild, TypeOK
<1> QED BY <1>1, <1>2, <1>3 DEF Rebuild, refreshVars
-----------------------------------------------------------------------------
LEMMA InvStep == Inv /\ [Next]_vars => Inv'
<1> SUFFICES ASSUME Inv, [Next]_vars PROVE Inv'
  OBVIOUS
<1> USE DEF Inv, refreshVars, history
<1>0. /\ session # NoUser <=> session \in Users
      /\ \A d \in Data : Usable(d) /\ d.user # NoUser
      /\ ~Usable(Empty) /\ ~Usable(NoValue)
  BY ConstantsAssumption, Distinct DEF TypeOK, Usable
<1>1. ASSUME NEW u \in Users, ServerChanges(u) PROVE Inv'
  <2>1. version' \in [Users -> Versions]
    BY <1>1, ConstantsAssumption DEF TypeOK, ServerChanges, Versions
  <2>2. TypeOK'
    BY <1>1, <2>1 DEF TypeOK, ServerChanges
  <2>3. Owned'
    BY <1>1 DEF ServerChanges, Owned, Foreign, Usable
  <2> QED BY <2>2, <2>3
<1>2. ASSUME NEW u \in Users \cup {NoUser}, ChangeUser(u), u # session, events' \in Nat,
             u = NoUser \/ session = NoUser
      PROVE  Inv'
  <2>1. sessions' \in 0 .. MaxSessions /\ session' = u
    BY <1>2, ConstantsAssumption DEF TypeOK, ChangeUser
  <2>2. CASE Rebuild(u) /\ ~dirty /\ UNCHANGED neglected
    <3>1. TypeOK'
      BY <1>2, <2>1, <2>2, RebuildLemma, Distinct DEF TypeOK, ChangeUser
    <3>2. ~neglected => ~Foreign(value)'
      <4>1. CASE u = NoUser
        BY <2>2, <4>1, RebuildLemma, <1>0, ConstantsAssumption DEF Foreign, Usable
      <4>2. CASE session = NoUser
        BY <1>0, <2>2, <4>2, RebuildLemma DEF Owned, Foreign, Usable, TypeOK
      <4> QED BY <1>2, <4>1, <4>2
    <3>3. Owned'
      BY <1>0, <1>2, <2>1, <2>2, <3>2, RebuildLemma DEF Owned, Foreign, Usable, ChangeUser
    <3> QED BY <3>1, <3>3
  <2>3. CASE /\ dirty' = TRUE
             /\ neglected' = (neglected \/ session # NoUser)
             /\ UNCHANGED <<value, build, refreshVars, refreshQueued, waiting, errored>>
    <3>1. TypeOK'
      BY <1>2, <2>1, <2>3 DEF TypeOK, ChangeUser
    <3>2. ~neglected' => session = NoUser /\ build = NoLoad /\ ~Usable(value)
      BY <1>0, <2>3, Distinct DEF Owned, Foreign, Usable, TypeOK
    <3>3. Owned'
      BY <1>2, <2>3, <3>2 DEF Owned, Foreign, Usable, ChangeUser
    <3> QED BY <3>1, <3>3
  <2> QED BY <1>2, <2>2, <2>3 DEF ChangeUser
<1>3. CASE ServerReads
  <2>1. \A l \in Load : /\ [l EXCEPT !.ver = version[l.user]] \in Load
                        /\ [l EXCEPT !.ver = version[l.user]].user = l.user
    BY DEF Load, TypeOK
  <2>2. TypeOK'
    BY <1>3, <2>1, Distinct DEF TypeOK, ServerReads
  <2>3. Owned'
    BY <1>3, <2>1, Distinct DEF ServerReads, Owned, Foreign, Usable, TypeOK
  <2> QED BY <2>2, <2>3
<1>4. CASE Event
  <2>1. events' \in Nat /\ session \in Users
    BY <1>0, <1>4 DEF Event, TypeOK
  <2>2. CASE load # NoLoad \/ value = NoValue
    <3>1. UNCHANGED <<value, refreshVars>> /\ refreshQueued' \in BOOLEAN /\ waiting' \in BOOLEAN
      BY <1>4, <2>2 DEF Event, Refresh, AwaitFirstLoad, TypeOK
    <3>2. TypeOK'
      BY <1>4, <2>1, <3>1 DEF Event, TypeOK
    <3> QED BY <1>4, <3>1, <3>2 DEF Event, Owned, Foreign, Usable
  <2>3. CASE load = NoLoad /\ value # NoValue
    <3>1. value \in Data \cup {Empty} /\ StartRefresh(value) /\ UNCHANGED <<refreshQueued, waiting>>
      BY <1>4, <2>3 DEF Event, Refresh, TypeOK
    <3>2. /\ session # NoUser /\ load' \in Load /\ load' # NoLoad /\ load'.user = session
          /\ requestedUserId' = session /\ previous' = value /\ previous' # NoValue /\ value' = value
      BY <1>0, <2>1, <3>1, StartLemma
    <3>3. TypeOK'
      BY <1>4, <2>1, <3>1, <3>2 DEF Event, TypeOK
    <3> QED BY <1>4, <3>2, <3>3 DEF Event, Owned, Foreign, Usable
  <2> QED BY <2>2, <2>3
<1>5. ASSUME NEW v \in Data \cup {Empty}, Answer(v), load # NoLoad, value # NoValue,
             failed' \in BOOLEAN, refused' \in BOOLEAN, failed => failed',
             Foreign(v) /\ requestedUserId = session => neglected /\ failed'
      PROVE  Inv'
  <2>1. TypeOK'
    BY <1>5, AnswerLemma, Distinct DEF TypeOK
  <2>2. Foreign(value)' => Foreign(value) \/ (Foreign(v) /\ requestedUserId = session)
    BY <1>0, <1>5, AnswerLemma DEF Foreign, Usable
  <2>3. ~neglected => ~Foreign(value)'
    BY <1>5, <2>2 DEF Owned
  <2>4. ~neglected' /\ load' # NoLoad /\ Usable(previous)' => previous'.user = requestedUserId'
    BY <1>5, <2>3, AnswerLemma DEF Foreign, Usable
  <2>5. Owned'
    BY <1>5, <2>2, <2>3, <2>4, AnswerLemma DEF Owned
  <2> QED BY <2>1, <2>5
<1>6. ASSUME NEW v \in Data \cup {Empty}, Built(v), build # NoLoad,
             failed' = failed, refused' \in BOOLEAN, v = Empty \/ v.user = build.user
      PROVE  Inv'
  <2>1. TypeOK'
    BY <1>6, BuiltLemma, Distinct DEF TypeOK
  <2>2. ~neglected \/ ~dirty => ~Foreign(v) /\ ~Foreign(value)'
    BY <1>0, <1>6, BuiltLemma DEF Owned, Foreign, Usable
  <2>3. ~neglected' /\ load' # NoLoad /\ Usable(previous)' => previous'.user = requestedUserId'
    BY <1>6, <2>2, BuiltLemma DEF Owned, Foreign, Usable
  <2>4. Owned'
    BY <1>6, <2>2, <2>3, BuiltLemma DEF Owned
  <2> QED BY <2>1, <2>4
<1>7. CASE BuildFails
  <2>1. waiting' \in BOOLEAN
    BY <1>7 DEF BuildFails, TypeOK
  <2> QED BY <1>7, <2>1 DEF BuildFails, TypeOK, Owned, Foreign, Usable
<1>8. CASE Retry
  BY <1>0, <1>8, Distinct DEF Retry, TypeOK, Owned, Foreign, Usable
<1>9. CASE Look
  <2>1. TypeOK'
    BY <1>9, RebuildLemma, Distinct DEF Look, TypeOK
  <2>2. ~neglected => ~Foreign(value)'
    BY <1>0, <1>9, RebuildLemma DEF Look, Owned, Foreign, Usable, TypeOK
  <2>3. Owned'
    BY <1>0, <1>9, <2>2, RebuildLemma DEF Look, Owned, Foreign, Usable, TypeOK
  <2> QED BY <2>1, <2>3
<1>10. CASE UNCHANGED vars
  BY <1>10 DEF TypeOK, vars, Owned, Foreign, Usable
<1>11. CASE SignOut
  BY <1>2, <1>11, Distinct DEF SignOut
<1>12. ASSUME NEW u \in Users, SignIn(u) PROVE Inv'
  <2>1. ChangeUser(u) /\ u # session /\ events' \in Nat /\ session = NoUser
    BY <1>12, ConstantsAssumption DEF SignIn, TypeOK
  <2> QED BY <1>2, <2>1
<1>13. CASE RefreshDone \/ RefreshFails \/ RefreshRefused
  <2>1. load # NoLoad /\ value # NoValue
    BY <1>13 DEF RefreshDone, RefreshFails, RefreshRefused, TypeOK
  <2>2. CASE RefreshDone
    <3>1. load \in Data /\ Answer(load) /\ load.user = requestedUserId /\ failed' = failed /\ refused' = refused
      BY <2>1, <2>2, Distinct DEF RefreshDone, TypeOK, Owned
    <3> QED BY <1>5, <2>1, <3>1 DEF Foreign, TypeOK
  <2>3. CASE RefreshFails
    <3>1. previous \in Data \cup {Empty} /\ Answer(previous) /\ failed' = TRUE /\ refused' = refused
      BY <2>1, <2>3 DEF RefreshFails, TypeOK, Owned
    <3>2. Foreign(previous) /\ requestedUserId = session => neglected
      BY <2>1 DEF Owned, Foreign
    <3> QED BY <1>5, <2>1, <3>1, <3>2 DEF TypeOK
  <2>4. CASE RefreshRefused
    BY <1>0, <1>5, <2>1, <2>4 DEF RefreshRefused, Foreign, TypeOK
  <2> QED BY <1>13, <2>2, <2>3, <2>4
<1>14. CASE BuildDone \/ BuildRefused
  BY <1>6, <1>14, Distinct DEF BuildDone, BuildRefused, TypeOK
<1> QED BY <1>1, <1>3, <1>4, <1>7, <1>8, <1>9, <1>10, <1>11, <1>12, <1>13, <1>14 DEF Next

LEMMA InvInit == Init => Inv
<1> SUFFICES ASSUME Init PROVE Inv
  OBVIOUS
<1>1. version \in [Users -> Versions] /\ sessions \in 0 .. MaxSessions /\ events \in Nat
  BY ConstantsAssumption DEF Init, Versions
<1>2. /\ session \in Users \cup {NoUser} /\ requestedUserId = NoUser /\ load = NoLoad
      /\ value \in {NoValue, Empty} /\ previous = NoValue
      /\ {refreshQueued, waiting, errored, dirty, failed, refused, neglected} \subseteq BOOLEAN
  BY DEF Init
<1>3. build \in Load \cup {NoLoad} /\ (build # NoLoad => build.user = session)
  BY <1>2, Distinct DEF Init
<1>4. TypeOK
  BY <1>1, <1>2, <1>3 DEF TypeOK
<1>5. Owned
  BY <1>2, <1>3 DEF Owned, Foreign, Usable
<1> QED BY <1>4, <1>5 DEF Inv

LEMMA InvCorrect == Spec => []Inv
BY InvInit, InvStep, PTL DEF Spec

(* A request is for a user, and nothing is refreshed before there is a value. *)
THEOREM TypeCorrect == Spec => []TypeOK
<1>1. Inv => TypeOK
  BY DEF Inv
<1> QED BY <1>1, InvCorrect, PTL

(* Another user's data is readable only where a sign-out found the provider   *)
(* unwatched, and no longer once it was built again without a failure.       *)
THEOREM LeftoversCorrect == Spec => []ForeignOnlyIfNeglected
<1>1. Inv => ForeignOnlyIfNeglected
  BY DEF Inv, Owned, TypeOK, ForeignOnlyIfNeglected
<1> QED BY <1>1, InvCorrect, PTL
-----------------------------------------------------------------------------
(* In the session the app started with: build() loads only while nothing is   *)
(* shown, what is shown is data of the server, and the answer of a refresh is  *)
(* at least as new, because nothing else replaces the value meanwhile.        *)
Current ==
  /\ value # Empty
  /\ build # NoLoad \/ errored => value = NoValue
  /\ build # NoLoad /\ build.ver # Unread => build.ver <= version[session]
  /\ value # NoValue => value.ver <= version[session]
  /\ load # NoLoad => previous = value
  /\ load # NoLoad /\ load.ver # Unread =>
       value.ver <= load.ver /\ load.ver <= version[session]

FirstSession ==
  sessions = 0 =>
    /\ ~dirty /\ ~neglected
    /\ session = NoUser => build = NoLoad /\ load = NoLoad /\ value = Empty
    /\ session # NoUser /\ ~refused => Current

(* A read that starts later, or has seen the latest version, is on its way.    *)
Covered ==
  \/ value = [user |-> session, ver |-> version[session]]
  \/ events > 0
  \/ waiting
  \/ build # NoLoad /\ build.ver \in {Unread, version[session]}
  \/ load # NoLoad /\ (load.ver \in {Unread, version[session]} \/ refreshQueued)

Followed ==
  sessions = 0 /\ ~failed /\ ~refused /\ session # NoUser =>
    Covered /\ (value = NoValue => build # NoLoad)

LEMMA FirstStep == Inv /\ FirstSession /\ [Next]_vars => FirstSession'
<1> SUFFICES ASSUME Inv, FirstSession, [Next]_vars, sessions' = 0
             PROVE  /\ ~dirty' /\ ~neglected'
                    /\ session' = NoUser => build' = NoLoad /\ load' = NoLoad /\ value' = Empty
                    /\ session' # NoUser /\ ~refused' => Current'
  BY DEF FirstSession
<1> DEFINE Goal == /\ ~dirty' /\ ~neglected'
                   /\ session' = NoUser => build' = NoLoad /\ load' = NoLoad /\ value' = Empty
                   /\ session' # NoUser /\ ~refused' => Current'
<1> USE DEF Inv, refreshVars, history
<1>0. /\ session # NoUser <=> session \in Users
      /\ \A v \in Users : version[v] \in Nat
  BY ConstantsAssumption DEF TypeOK, Versions
<1>a. ASSUME sessions = 0
      PROVE  /\ ~dirty /\ ~neglected
             /\ session = NoUser => build = NoLoad /\ load = NoLoad /\ value = Empty
             /\ session # NoUser /\ ~refused => Current
  BY <1>a DEF FirstSession
<1>1. ASSUME NEW u \in Users, ServerChanges(u) PROVE Goal
  <2>1. \A v \in Users : version'[v] \in Nat /\ version[v] <= version'[v]
    BY <1>0, <1>1, ConstantsAssumption DEF ServerChanges, TypeOK, Versions
  <2>2. \A d \in Data : d.ver \in Nat
    BY ConstantsAssumption DEF Data, Versions
  <2>3. \A l \in Load : l.ver \in Nat
    BY Distinct, ConstantsAssumption DEF Load, Versions
  <2> QED BY <1>0, <1>a, <1>1, <2>1, <2>2, <2>3 DEF ServerChanges, Current, TypeOK
<1>2. ASSUME NEW u \in Users \cup {NoUser}, ChangeUser(u) PROVE FALSE
  BY <1>2, ConstantsAssumption DEF ChangeUser, TypeOK
<1>3. CASE ServerReads
  <2>1. \A l \in Load : [l EXCEPT !.ver = version[l.user]] # NoLoad
                       /\ [l EXCEPT !.ver = version[l.user]].ver = version[l.user]
    BY Distinct DEF Load, TypeOK
  <2>2. /\ UNCHANGED <<session, version, value, previous, sessions, dirty, neglected, refused, errored>>
        /\ sessions = 0
    BY <1>3 DEF ServerReads
  <2>3. CASE /\ load # NoLoad /\ load.ver = Unread
             /\ load' = [load EXCEPT !.ver = version[load.user]] /\ UNCHANGED build
    <3>1. load \in Load /\ load # NoLoad /\ load' # NoLoad /\ load'.ver = version[load.user]
      BY <2>1, <2>3, Distinct DEF TypeOK
    <3>2. session # NoUser /\ value # NoValue
      BY <1>a, <2>2, <3>1 DEF TypeOK
    <3>3. ~refused => load.user = session
      <4>1. ~refused => value \in Data /\ previous = value /\ value.user = session
        BY <1>a, <2>2, <3>1, <3>2 DEF Current, Owned, Foreign, Usable, TypeOK
      <4> QED BY <1>a, <2>2, <3>1, <4>1, Distinct DEF Owned, Usable
    <3>4. ~refused => load'.ver = version[session] /\ load'.ver <= version[session]
      BY <1>0, <3>1, <3>2, <3>3
    <3> QED BY <1>a, <2>2, <2>3, <3>1, <3>2, <3>4 DEF Current
  <2>4. CASE /\ build # NoLoad /\ build.ver = Unread
             /\ build' = [build EXCEPT !.ver = version[build.user]] /\ UNCHANGED load
    <3>1. /\ build \in Load /\ build.user = session /\ build' # NoLoad
          /\ build'.ver = version[session]
      BY <1>a, <2>1, <2>2, <2>4, Distinct DEF TypeOK, Owned
    <3>2. session # NoUser /\ build'.ver <= version[session]
      BY <1>0, <1>a, <2>2, <2>4, <3>1
    <3>3. ~refused => value = NoValue /\ load = NoLoad
      BY <1>a, <2>2, <2>4, <3>2 DEF Current, TypeOK
    <3> QED BY <1>a, <2>2, <2>4, <3>1, <3>2, <3>3 DEF Current
  <2> QED BY <1>3, <2>3, <2>4 DEF ServerReads
<1>4. CASE Event
  <2>1. UNCHANGED <<session, version, build, errored, dirty, sessions, neglected, refused>> /\ session # NoUser
    BY <1>4 DEF Event
  <2>2. CASE UNCHANGED <<value, refreshVars>>
    BY <1>a, <2>1, <2>2 DEF Current
  <2>3. CASE load = NoLoad /\ value # NoValue /\ StartRefresh(value)
    <3>1. /\ load' # NoLoad /\ load'.ver = Unread /\ previous' = value /\ value' = value
      BY <2>1, <2>3, StartLemma DEF TypeOK
    <3> QED BY <1>a, <2>1, <3>1 DEF Current
  <2> QED BY <1>4, <2>2, <2>3 DEF Event, Refresh
<1>5. ASSUME NEW v \in Data \cup {Empty}, Answer(v), load # NoLoad, value # NoValue,
             refused' \in BOOLEAN, refused => refused',
             Current /\ ~refused' => v # Empty /\ v.ver <= version[session]
      PROVE  Goal
  <2>1. sessions = 0 /\ session # NoUser
    BY <1>5, <1>a, AnswerLemma
  <2>2. ASSUME Current, ~refused' PROVE Current'
    <3>1. value' \in {v, value} /\ value' # Empty /\ value' # NoValue /\ value'.ver <= version[session]
      BY <1>5, <2>1, <2>2, AnswerLemma, Distinct DEF Current
    <3>2. build = NoLoad /\ build' = NoLoad /\ ~errored /\ ~errored'
      BY <1>5, <2>2, AnswerLemma DEF Current, Answer
    <3>3. load' # NoLoad => previous' = value' /\ load'.ver = Unread
      BY <1>5, AnswerLemma
    <3> QED BY <1>5, <3>1, <3>2, <3>3, AnswerLemma DEF Current
  <2> QED BY <1>5, <1>a, <2>1, <2>2, AnswerLemma
<1>6. ASSUME NEW v \in Data \cup {Empty}, Built(v), build # NoLoad,
             refused' \in BOOLEAN, refused => refused',
             Current /\ ~refused' => v # Empty /\ v.ver <= version[session]
      PROVE  Goal
  <2>1. sessions = 0 /\ session # NoUser
    BY <1>6, <1>a, BuiltLemma
  <2>2. ASSUME Current, ~refused' PROVE Current'
    <3>1. value' = v /\ value' # Empty /\ value' # NoValue /\ load = NoLoad
      BY <1>6, <2>1, <2>2, BuiltLemma, Distinct DEF Current, TypeOK
    <3>2. load' # NoLoad => previous' = value' /\ load'.ver = Unread
      BY <1>6, <3>1, BuiltLemma
    <3> QED BY <1>6, <2>2, <3>1, <3>2, BuiltLemma DEF Current
  <2> QED BY <1>6, <1>a, <2>1, <2>2, BuiltLemma
<1>7. CASE BuildFails
  BY <1>7, <1>a DEF BuildFails, Current
<1>8. CASE Retry
  BY <1>0, <1>8, <1>a, Distinct DEF Retry, Current
<1>9. CASE Look
  BY <1>9, <1>a DEF Look
<1>10. CASE UNCHANGED vars
  BY <1>10, <1>a DEF vars, Current
<1>11. CASE RefreshDone
  <2>1. load \in Data /\ Answer(load) /\ load # NoLoad /\ value # NoValue /\ refused' = refused /\ load.ver # Unread
    BY <1>11, Distinct DEF RefreshDone, TypeOK
  <2>2. Current => load # Empty /\ load.ver <= version[session]
    BY <2>1, Distinct DEF Current
  <2> QED BY <1>5, <2>1, <2>2 DEF TypeOK
<1>12. CASE RefreshFails
  <2>1. /\ previous \in Data \cup {Empty} /\ Answer(previous) /\ load # NoLoad /\ value # NoValue
        /\ refused' = refused
    BY <1>12 DEF RefreshFails, TypeOK, Owned
  <2>2. Current => previous # Empty /\ previous.ver <= version[session]
    BY <2>1 DEF Current
  <2> QED BY <1>5, <2>1, <2>2 DEF TypeOK
<1>13. CASE RefreshRefused
  BY <1>5, <1>13 DEF RefreshRefused, TypeOK
<1>14. CASE BuildDone
  <2>1. build \in Data /\ Built(build) /\ build # NoLoad /\ refused' = refused /\ build.ver # Unread
    BY <1>14, Distinct DEF BuildDone, TypeOK
  <2>2. Current => build # Empty /\ build.ver <= version[session]
    BY <2>1, Distinct DEF Current
  <2> QED BY <1>6, <2>1, <2>2 DEF TypeOK
<1>15. CASE BuildRefused
  BY <1>6, <1>15 DEF BuildRefused, TypeOK
<1>16. CASE SignOut \/ \E u \in Users : SignIn(u)
  BY <1>2, <1>16 DEF SignOut, SignIn
<1> QED
  BY <1>1, <1>3, <1>4, <1>7, <1>8, <1>9, <1>10, <1>11, <1>12, <1>13, <1>14, <1>15, <1>16 DEF Next

(* Without a failure or a refusal, Followed is kept; what each step leaves    *)
(* behind in the first session is taken from FirstStep.                      *)
LEMMA FollowedStep == Inv /\ FirstSession /\ Followed /\ [Next]_vars => Followed'
<1> SUFFICES ASSUME Inv, FirstSession, Followed, [Next]_vars,
                    sessions' = 0, ~failed', ~refused', session' # NoUser
             PROVE  Covered' /\ (value' = NoValue => build' # NoLoad)
  BY DEF Followed
<1> USE DEF Inv, refreshVars, history
<1>0. /\ session # NoUser <=> session \in Users
      /\ \A v \in Users : version[v] \in Nat
  BY ConstantsAssumption DEF TypeOK, Versions
<1>a. ASSUME sessions = 0, session # NoUser, ~failed, ~refused
      PROVE  /\ ~dirty /\ ~neglected /\ Current /\ Covered
             /\ value = NoValue => build # NoLoad
  BY <1>a DEF FirstSession, Followed
<1>1. ASSUME NEW u \in Users, ServerChanges(u) PROVE Covered' /\ (value' = NoValue => build' # NoLoad)
  <2>1. CASE u = session
    <3>1. events' > 0
      BY <1>1, <2>1 DEF ServerChanges, TypeOK
    <3> QED BY <1>1, <1>a, <3>1 DEF ServerChanges, Covered
  <2>2. CASE u # session
    <3>1. version'[session] = version[session] /\ events' = events
      BY <1>0, <1>1, <2>2 DEF ServerChanges, TypeOK
    <3> QED BY <1>1, <1>a, <3>1 DEF ServerChanges, Covered
  <2> QED BY <2>1, <2>2
<1>2. ASSUME NEW u \in Users \cup {NoUser}, ChangeUser(u) PROVE FALSE
  BY <1>2, ConstantsAssumption DEF ChangeUser, TypeOK
<1>3. CASE ServerReads
  <2>1. \A l \in Load : [l EXCEPT !.ver = version[l.user]] # NoLoad
                       /\ [l EXCEPT !.ver = version[l.user]].ver = version[l.user]
    BY Distinct DEF Load, TypeOK
  <2>2. /\ UNCHANGED <<session, version, value, waiting, events, refreshQueued>> /\ session # NoUser
        /\ ~neglected /\ ~dirty /\ Current /\ Covered /\ (value = NoValue => build # NoLoad)
    BY <1>3, <1>a DEF ServerReads
  <2>3. load # NoLoad => load.user = session
    BY <2>2, Distinct DEF TypeOK, Owned, Foreign, Usable, Current
  <2>4. build # NoLoad => build.user = session
    BY <2>2 DEF Owned
  <2> QED BY <1>0, <1>3, <2>1, <2>2, <2>3, <2>4 DEF ServerReads, Covered, TypeOK
<1>4. CASE Event
  <2>1. /\ UNCHANGED <<session, version, build>> /\ session # NoUser
        /\ Current /\ Covered /\ (value = NoValue => build # NoLoad)
    BY <1>4, <1>a DEF Event
  <2>2. CASE load # NoLoad
    BY <1>4, <2>1, <2>2 DEF Event, Refresh, Covered
  <2>3. CASE load = NoLoad /\ value = NoValue
    <3>1. waiting' = TRUE /\ value' = value
      BY <1>4, <2>1, <2>3 DEF Event, Refresh, AwaitFirstLoad
    <3> QED BY <2>1, <3>1 DEF Covered
  <2>4. CASE load = NoLoad /\ value # NoValue
    <3>1. /\ load' # NoLoad /\ load'.ver = Unread /\ value' = value
      BY <1>4, <2>1, <2>4, StartLemma DEF Event, Refresh, TypeOK
    <3> QED BY <2>4, <3>1 DEF Covered
  <2> QED BY <2>2, <2>3, <2>4
<1>5. CASE RefreshDone
  <2>1. /\ value # NoValue /\ load # NoLoad /\ load.ver # Unread /\ Answer(load) /\ load \in Data
        /\ UNCHANGED <<failed, refused>>
    BY <1>5, Distinct DEF RefreshDone, TypeOK
  <2>2. /\ UNCHANGED <<session, version, build, waiting, events>> /\ session # NoUser
        /\ ~neglected /\ Current /\ Covered
    BY <1>a, <2>1, AnswerLemma
  <2>3. value \in Data /\ value.user = session /\ previous = value
    BY <2>1, <2>2 DEF TypeOK, Owned, Foreign, Usable, Current
  <2>4. requestedUserId = session /\ load.user = session
    BY <2>1, <2>2, <2>3, Distinct DEF Owned, Usable
  <2>5. value' = load /\ value' # NoValue
    BY <2>1, <2>2, <2>4, AnswerLemma, Distinct
  <2>6. CASE refreshQueued
    BY <2>1, <2>2, <2>5, <2>6, AnswerLemma DEF Covered
  <2>7. CASE ~refreshQueued
    <3>1. value = [user |-> session, ver |-> version[session]] => load.ver = version[session]
      <4>1. value.ver <= load.ver /\ load.ver <= version[session]
        BY <2>1, <2>2 DEF Current
      <4>2. load.ver \in Nat
        BY <2>1, ConstantsAssumption DEF Data, Versions
      <4> QED BY <1>0, <2>2, <4>1, <4>2
    <3>2. load.ver = version[session] => load = [user |-> session, ver |-> version[session]]
      BY <2>1, <2>4 DEF Data
    <3>3. build = NoLoad
      BY <2>1, <2>2 DEF Current
    <3> QED BY <2>1, <2>2, <2>5, <2>7, <3>1, <3>2, <3>3 DEF Covered
  <2> QED BY <2>6, <2>7
<1>6. CASE BuildDone
  <2>1. build \in Data /\ Built(build) /\ build # NoLoad /\ build.ver # Unread /\ UNCHANGED <<failed, refused>>
    BY <1>6, Distinct DEF BuildDone, TypeOK
  <2>2. /\ UNCHANGED <<session, version, events>> /\ session # NoUser
        /\ ~neglected /\ Current /\ Covered
    BY <1>a, <2>1, BuiltLemma
  <2>3. build.user = session /\ value = NoValue /\ load = NoLoad /\ value' = build /\ value' # NoValue
    BY <2>1, <2>2, BuiltLemma, Distinct DEF Owned, Current, TypeOK
  <2>4. CASE waiting
    BY <2>1, <2>2, <2>3, <2>4, BuiltLemma DEF Covered
  <2>5. CASE ~waiting
    <3>1. build.ver = version[session] => build = [user |-> session, ver |-> version[session]]
      BY <2>1, <2>3 DEF Data
    <3>2. value # [user |-> session, ver |-> version[session]]
      <4>1. [user |-> session, ver |-> version[session]] \in Data
        BY <1>0, <2>2 DEF Data, TypeOK
      <4> QED BY <2>3, <4>1, Distinct
    <3> QED BY <2>1, <2>2, <2>3, <2>5, <3>1, <3>2 DEF Covered
  <2> QED BY <2>4, <2>5
<1>7. CASE Retry
  BY <1>0, <1>7, Distinct DEF Retry, Covered
<1>8. CASE RefreshFails \/ RefreshRefused \/ BuildFails \/ BuildRefused
  BY <1>8 DEF RefreshFails, RefreshRefused, BuildFails, BuildRefused
<1>9. CASE Look
  BY <1>9, <1>a DEF Look
<1>10. CASE UNCHANGED vars
  BY <1>10, <1>a DEF vars, Covered
<1>11. CASE SignOut \/ \E u \in Users : SignIn(u)
  BY <1>2, <1>11 DEF SignOut, SignIn
<1> QED BY <1>1, <1>3, <1>4, <1>5, <1>6, <1>7, <1>8, <1>9, <1>10, <1>11 DEF Next

LEMMA FirstInit == Init => FirstSession /\ Followed
<1> SUFFICES ASSUME Init PROVE FirstSession /\ Followed
  OBVIOUS
<1>1. FirstSession
  BY Distinct DEF Init, FirstSession, Current
<1>2. Followed
  BY Distinct DEF Init, Followed, Covered
<1> QED BY <1>1, <1>2

LEMMA FirstCorrect == Spec => [](Inv /\ FirstSession /\ Followed)
BY InvInit, InvStep, FirstInit, FirstStep, FollowedStep, PTL DEF Spec

(* Once every event is handled and every request answered, without a failure   *)
(* or a refusal, the screen shows the server's latest data.                  *)
THEOREM EventNotLostCorrect == Spec => []EventNotLost
<1>1. Inv /\ FirstSession /\ Followed => EventNotLost
  BY DEF Followed, Covered, EventNotLost, Quiet, Inv, TypeOK
<1> QED BY <1>1, FirstCorrect, PTL

(* Data once shown is only replaced by data of the same user, as new or newer,  *)
(* whatever fails, as long as no request is refused.                         *)
THEOREM NeverErasedCorrect == Spec => NeverErased
<1> DEFINE Body == Usable(value) /\ sessions' = 0 /\ ~refused' =>
                     Usable(value') /\ value'.user = value.user /\ value'.ver >= value.ver
<1>1. Inv /\ FirstSession /\ [Next]_vars => [Body]_vars
  <2> SUFFICES ASSUME Inv, FirstSession, Next, Usable(value), sessions' = 0, ~refused'
               PROVE  Usable(value') /\ value'.user = value.user /\ value'.ver >= value.ver
    BY DEF vars
  <2>1. value \in Data /\ value.ver \in Nat /\ value # NoValue
    BY ConstantsAssumption DEF Inv, TypeOK, Usable, Data, Versions
  <2>2. CASE value' = value
    BY <2>1, <2>2 DEF Usable
  <2>3. ASSUME sessions = 0, ~refused
        PROVE  ~dirty /\ ~neglected /\ session # NoUser /\ Current
    BY <2>3 DEF FirstSession, Usable
  <2>4. CASE RefreshDone
    <3>1. load \in Data /\ load # NoLoad /\ load.ver # Unread /\ load.ver \in Nat /\ Answer(load)
          /\ refused' = refused
      BY <2>4, Distinct, ConstantsAssumption DEF RefreshDone, Inv, TypeOK, Data, Versions
    <3>2. ~neglected /\ session # NoUser /\ Current
      BY <2>3, <3>1, AnswerLemma DEF Inv
    <3>3. value' = load \/ value' = value
      BY <3>1, <3>2, AnswerLemma DEF Inv
    <3>4. load.user = requestedUserId /\ value.user = session /\ previous = value
      BY <2>1, <3>1, <3>2 DEF Inv, Owned, Foreign, Usable, Current
    <3>5. load.user = value.user
      BY <2>1, <3>1, <3>2, <3>4 DEF Inv, Owned, Usable
    <3>6. value.ver <= load.ver
      BY <3>1, <3>2 DEF Current
    <3> QED BY <2>1, <2>2, <3>1, <3>3, <3>5, <3>6, Distinct DEF Usable
  <2>5. CASE RefreshFails
    <3>1. Answer(previous) /\ load # NoLoad /\ refused' = refused /\ previous \in Data \cup {Empty}
      BY <2>5 DEF RefreshFails, Inv, TypeOK, Owned
    <3>2. session # NoUser /\ Current
      BY <2>3, <3>1, AnswerLemma DEF Inv
    <3>3. value' = value
      BY <3>1, <3>2, AnswerLemma DEF Inv, Current
    <3> QED BY <2>2, <3>3
  <2>6. CASE BuildDone
    <3>1. build \in Data /\ Built(build) /\ build # NoLoad /\ refused' = refused
      BY <2>6, Distinct DEF BuildDone, Inv, TypeOK
    <3>2. Current
      BY <2>3, <3>1, BuiltLemma DEF Inv
    <3> QED BY <2>1, <3>1, <3>2 DEF Current
  <2>7. CASE Event
    <3>1. session # NoUser
      BY <2>7 DEF Event
    <3>2. value' = value
      BY <2>1, <2>7, <3>1, StartLemma DEF Event, Refresh, Inv
    <3> QED BY <2>2, <3>2
  <2>8. ~RefreshRefused /\ ~BuildRefused
    BY DEF RefreshRefused, BuildRefused
  <2>9. ~SignOut /\ \A u \in Users : ~SignIn(u)
    BY ConstantsAssumption DEF SignOut, SignIn, ChangeUser, Inv, TypeOK
  <2>10. ~Look
    BY <2>3 DEF Look, history
  <2> QED
    BY <2>2, <2>4, <2>5, <2>6, <2>7, <2>8, <2>9, <2>10 DEF Next, ServerChanges, ServerReads, BuildFails, Retry
<1> QED BY <1>1, FirstCorrect, PTL DEF Spec, NeverErased
=============================================================================
