------------------------ MODULE RealtimeServer_proofs ------------------------
(***************************************************************************)
(* Proofs about RealtimeServer, for any numbers of users, sockets, tickets,  *)
(* publications and seconds: the type invariant, that the rooms are exactly   *)
(* the sockets that have not closed, the limit of a room, that an event       *)
(* reaches every open socket of its user, and that a nonce is taken again     *)
(* only when the clock moves past its ticket's expiry inside one handler.     *)
(***************************************************************************)
EXTENDS RealtimeServer, FiniteSetTheorems, TLAPS

(* What SetRoom leaves behind: no empty room, and u's alone is changed.      *)
LEMMA SetRoomLemma ==
  ASSUME TypeOK, NEW u \in Users, NEW S \in SUBSET Sockets, SetRoom(u, S)
  PROVE  /\ DOMAIN clients' \subseteq Users
         /\ \A v \in DOMAIN clients' : clients'[v] \in (SUBSET Sockets) \ {{}}
         /\ room(u)' = S
         /\ \A v \in Users \ {u} : room(v)' = room(v)
<1>1. CASE S = {}
  <2>1. DOMAIN clients' = DOMAIN clients \ {u} /\ \A v \in DOMAIN clients' : clients'[v] = clients[v]
    BY <1>1 DEF SetRoom
  <2> QED BY <1>1, <2>1 DEF TypeOK, room
<1>2. CASE S # {}
  <2>1. /\ DOMAIN clients' = DOMAIN clients \cup {u}
        /\ \A v \in DOMAIN clients' : clients'[v] = IF v = u THEN S ELSE clients[v]
    BY <1>2 DEF SetRoom
  <2> QED BY <1>2, <2>1 DEF TypeOK, room
<1> QED BY <1>1, <1>2

LEMMA RoomType ==
  ASSUME TypeOK, NEW u \in Users
  PROVE  room(u) \in SUBSET Sockets
BY DEF TypeOK, room

(* The shapes a connection takes, and what the handlers make of one.         *)
LEMMA SocketShapes ==
  /\ Idle \in Socket /\ [Idle EXCEPT !.state = "tcp"] \in Socket
  /\ \A u \in Users : Upgraded(u) \in Socket
  /\ \A r \in Socket : r.state \in {"open", "closing"} =>
       /\ r.userId \in Users
       /\ [r EXCEPT !.state = "closing"] \in Socket
       /\ [r EXCEPT !.isAlive = TRUE] \in Socket /\ [r EXCEPT !.isAlive = FALSE] \in Socket
       /\ [r EXCEPT !.gone = TRUE] \in Socket
<1>1. /\ Idle \in Socket /\ [Idle EXCEPT !.state = "tcp"] \in Socket
      /\ \A u \in Users : Upgraded(u) \in Socket
  BY DEF Socket, Upgraded
<1>2. ASSUME NEW r \in Socket, r.state \in {"open", "closing"}
      PROVE  r \in [state : {"open", "closing"}, userId : Users, isAlive : BOOLEAN, gone : BOOLEAN]
  BY <1>2 DEF Socket, Idle
<1>3. ASSUME NEW r \in [state : {"open", "closing"}, userId : Users, isAlive : BOOLEAN, gone : BOOLEAN]
      PROVE  /\ r.userId \in Users
             /\ [r EXCEPT !.state = "closing"] \in Socket
             /\ [r EXCEPT !.isAlive = TRUE] \in Socket /\ [r EXCEPT !.isAlive = FALSE] \in Socket
             /\ [r EXCEPT !.gone = TRUE] \in Socket
  BY DEF Socket
<1> QED BY <1>1, <1>2, <1>3

(* What an upgrade does, step by step, under the type invariant.             *)
LEMMA UpgradeLemma ==
  ASSUME TypeOK, NEW s \in Sockets, NEW n \in Nonces, Upgrade(s, n)
  PROVE  /\ tickets[n] # NoTicket
         /\ tickets[n] \in [sub : Users, exp : 0 .. MaxTime + TicketLife]
         /\ now' \in 0 .. MaxTime /\ now' \in {now, now + 1} /\ tickets[n].exp >= now
         /\ phase' = phase /\ tickets' = tickets /\ publish' = publish
         /\ \/ usedNonces' = Unexpired(now') /\ uses' = uses
            \/ n \notin Unexpired(now') /\ Consume(n, now')
         /\ UpgradeRefused(s, n, now') \/ UpgradeAccepted(s, n, now')
<1> USE ConstantsAssumption
<1>1. tickets[n] # NoTicket /\ tickets[n] \in [sub : Users, exp : 0 .. MaxTime + TicketLife]
  BY DEF TypeOK, Upgrade, verifyTicket
<1>2. /\ now' \in 0 .. MaxTime /\ now' \in {now, now + 1} /\ tickets[n].exp >= now
      /\ (UpgradeRefused(s, n, now') \/ UpgradeAccepted(s, n, now'))
  BY DEF TypeOK, Upgrade, verifyTicket
<1>3. phase' = phase /\ tickets' = tickets /\ publish' = publish
  BY DEF Upgrade
<1>4. \/ usedNonces' = Unexpired(now') /\ uses' = uses
      \/ n \notin Unexpired(now') /\ Consume(n, now')
  BY <1>2 DEF UpgradeRefused, UpgradeAccepted
<1> QED BY <1>1, <1>2, <1>3, <1>4

(* The sockets after an upgrade, and the rooms.                              *)
LEMMA UpgradeSockets ==
  ASSUME TypeOK, NEW s \in Sockets, NEW n \in Nonces, Upgrade(s, n)
  PROVE  \/ UNCHANGED clients /\ socket' = [socket EXCEPT ![s] = Idle]
         \/ /\ ~RoomFull(tickets[n].sub)
            /\ SetRoom(tickets[n].sub, room(tickets[n].sub) \cup {s})
            /\ socket' = [socket EXCEPT ![s] = Upgraded(tickets[n].sub)]
BY UpgradeLemma DEF UpgradeRefused, UpgradeAccepted
-----------------------------------------------------------------------------
(* Proving TypeOK' in parts: the sockets, the publications, and the rest.    *)
LEMMA TypeStep == TypeOK /\ [Next]_vars => TypeOK'
<1> SUFFICES ASSUME TypeOK, [Next]_vars PROVE TypeOK'
  OBVIOUS
<1> USE ConstantsAssumption
<1>0. socket \in [Sockets -> Socket] /\ publish \in [Events -> Publication]
  BY DEF TypeOK
<1>1. ASSUME NEW n \in Nonces, NEW u \in Users, IssueTicket(n, u) PROVE TypeOK'
  <2>1. [sub |-> u, exp |-> now + TicketLife] \in [sub : Users, exp : 0 .. MaxTime + TicketLife]
    BY DEF TypeOK
  <2>2. \A k \in Nonces : uses[k] > 0 \/ k \in usedNonces => tickets'[k] # NoTicket
    BY <1>1 DEF TypeOK, IssueTicket
  <2> QED BY <1>1, <2>1, <2>2 DEF TypeOK, IssueTicket
<1>2. ASSUME NEW s \in Sockets, NEW n \in Nonces, Upgrade(s, n) PROVE TypeOK'
  <2> DEFINE u == tickets[n].sub
  <2>1. u \in Users
    BY <1>2, UpgradeLemma
  <2>2. usedNonces' \subseteq Nonces /\ uses' \in [Nonces -> Nat]
    BY <1>2, UpgradeLemma DEF TypeOK, Unexpired, Consume
  <2>3. \A k \in Nonces : uses'[k] > 0 \/ k \in usedNonces' => tickets'[k] # NoTicket
    BY <1>2, UpgradeLemma DEF TypeOK, Unexpired, Consume
  <2>4. socket' \in [Sockets -> Socket]
    BY <1>0, <1>2, <2>1, SocketShapes, UpgradeSockets
  <2>5. DOMAIN clients' \subseteq Users /\ \A v \in DOMAIN clients' : clients'[v] \in (SUBSET Sockets) \ {{}}
    <3>1. CASE UNCHANGED clients BY <3>1 DEF TypeOK
    <3>2. CASE SetRoom(u, room(u) \cup {s})
      <4> room(u) \cup {s} \in SUBSET Sockets BY <2>1, RoomType
      <4> QED BY <2>1, <3>2, SetRoomLemma
    <3> QED BY <1>2, <3>1, <3>2, UpgradeSockets
  <2> QED BY <1>2, UpgradeLemma, <2>2, <2>3, <2>4, <2>5 DEF TypeOK
<1>3. ASSUME NEW e \in Events, NEW u \in Users, PublishArrives(e, u) PROVE TypeOK'
  <2>1. now \in 0 .. MaxTime BY DEF TypeOK
  <2>2. publish' \in [Events -> Publication]
    BY <1>0, <1>3, <2>1 DEF PublishArrives, Publication
  <2> QED BY <1>3, <2>2 DEF TypeOK, PublishArrives
<1>4. ASSUME NEW e \in Events, FanOut(e) \/ PublishFails(e) PROVE TypeOK'
  <2>1. Unpublished \in Publication /\ [Unpublished EXCEPT !.stage = "sent"] \in Publication
    BY DEF Unpublished, Publication
  <2>2. publish' \in [Events -> Publication]
    BY <1>0, <1>4, <2>1 DEF FanOut, PublishFails
  <2> QED BY <1>4, <2>2 DEF TypeOK, FanOut, PublishFails
<1>5. ASSUME NEW s \in Sockets, Accept(s) \/ TurnAway(s) PROVE TypeOK'
  <2>1. \/ socket' = [socket EXCEPT ![s] = Idle]
        \/ socket' = [socket EXCEPT ![s] = [Idle EXCEPT !.state = "tcp"]]
    BY <1>5 DEF Accept, TurnAway
  <2>2. socket' \in [Sockets -> Socket]
    BY <1>0, <2>1, SocketShapes
  <2> QED BY <1>5, <2>2 DEF TypeOK, Accept, TurnAway
<1>6. ASSUME NEW s \in Sockets, StartClosing(s) \/ Pong(s) \/ Vanish(s) PROVE TypeOK'
  <2>1. socket[s].state = "open" /\ socket[s] \in Socket
    BY <1>0, <1>6 DEF StartClosing, Pong, Vanish
  <2>2. \E r \in {[socket[s] EXCEPT !.state = "closing"], [socket[s] EXCEPT !.isAlive = TRUE],
                 [socket[s] EXCEPT !.gone = TRUE]} : socket' = [socket EXCEPT ![s] = r]
    BY <1>6 DEF StartClosing, Pong, Vanish
  <2>3. ASSUME NEW r \in Socket, socket' = [socket EXCEPT ![s] = r] PROVE socket' \in [Sockets -> Socket]
    BY <1>0, <2>3
  <2>4. /\ [socket[s] EXCEPT !.state = "closing"] \in Socket /\ [socket[s] EXCEPT !.isAlive = TRUE] \in Socket
        /\ [socket[s] EXCEPT !.gone = TRUE] \in Socket
    BY <2>1, SocketShapes
  <2>5. socket' \in [Sockets -> Socket]
    BY <2>2, <2>3, <2>4
  <2> QED BY <1>6, <2>5 DEF TypeOK, StartClosing, Pong, Vanish
<1>7. ASSUME NEW s \in Sockets, CloseEvent(s) PROVE TypeOK'
  <2> DEFINE u == socket[s].userId
  <2>1. u \in Users BY <1>0, <1>7, SocketShapes DEF CloseEvent
  <2>2. room(u) \ {s} \in SUBSET Sockets BY <2>1, RoomType
  <2>3. DOMAIN clients' \subseteq Users /\ \A v \in DOMAIN clients' : clients'[v] \in (SUBSET Sockets) \ {{}}
    BY <1>7, <2>1, <2>2, SetRoomLemma DEF CloseEvent
  <2>4. socket' \in [Sockets -> Socket]
    BY <1>0, <1>7, SocketShapes DEF CloseEvent
  <2> QED BY <1>7, <2>3, <2>4 DEF TypeOK, CloseEvent
<1>8. CASE Heartbeat
  <2>1. socket' \in [Sockets -> Socket]
    BY <1>0, <1>8, SocketShapes DEF Heartbeat, Connected, In
  <2> QED BY <1>8, <2>1 DEF TypeOK, Heartbeat
<1>9. CASE Tick
  BY <1>9 DEF TypeOK, Tick
<1>10. CASE shutdown
  <2>1. socket' \in [Sockets -> Socket]
    BY <1>0, <1>10, SocketShapes DEF shutdown
  <2> QED BY <1>10, <2>1 DEF TypeOK, shutdown
<1>11. CASE Exit \/ Crash
  <2>1. socket' \in [Sockets -> Socket]
    BY <1>11, SocketShapes DEF Exit, Crash, Restart
  <2>2. publish' \in [Events -> Publication]
    BY <1>0, <1>11 DEF Exit, Crash, Restart, Unpublished, Publication
  <2> QED BY <1>11, <2>1, <2>2 DEF TypeOK, Exit, Crash, Restart
<1>12. CASE UNCHANGED vars
  BY <1>12 DEF TypeOK, vars
<1> QED BY <1>1, <1>2, <1>3, <1>4, <1>5, <1>6, <1>7, <1>8, <1>9, <1>10, <1>11, <1>12 DEF Next

(* TypeOK in every reachable state: no empty room is ever kept.              *)
THEOREM TypeCorrect == Spec => []TypeOK
<1>1. Init => TypeOK
  BY ConstantsAssumption DEF Init, TypeOK, Socket, Idle, Publication, Unpublished
<1> QED BY <1>1, TypeStep, PTL DEF Spec
-----------------------------------------------------------------------------
(* The rooms.  A step that leaves the rooms, the owners of the sockets and    *)
(* which of them are connected alone leaves RoomsMatchSockets alone.         *)
LEMMA SameSockets ==
  ASSUME TypeOK, RoomsMatchSockets, clients' = clients,
         \A s \in Sockets : (s \in Connected)' = (s \in Connected),
         \A s \in Connected : socket'[s].userId = socket[s].userId
  PROVE  RoomsMatchSockets'
BY DEF RoomsMatchSockets, room, Connected, In

LEMMA RoomsStep == TypeOK /\ RoomsMatchSockets /\ [Next]_vars => RoomsMatchSockets'
<1> SUFFICES ASSUME TypeOK, RoomsMatchSockets, [Next]_vars PROVE RoomsMatchSockets'
  OBVIOUS
<1>0. socket \in [Sockets -> Socket] /\ Idle.state = "none"
  BY DEF TypeOK, Idle
<1>1. ASSUME NEW n \in Nonces, NEW u \in Users, IssueTicket(n, u) PROVE RoomsMatchSockets'
  BY <1>1, SameSockets DEF IssueTicket, Connected, In
<1>2. ASSUME NEW s \in Sockets, NEW n \in Nonces, Upgrade(s, n) PROVE RoomsMatchSockets'
  <2>0. socket[s].state = "tcp"
    BY <1>2 DEF Upgrade
  <2>1. CASE UNCHANGED clients /\ socket' = [socket EXCEPT ![s] = Idle]
    BY <1>0, <2>0, <2>1, SameSockets DEF Connected, In
  <2>2. ASSUME NEW u \in Users, SetRoom(u, room(u) \cup {s}),
               socket' = [socket EXCEPT ![s] = Upgraded(u)]
        PROVE  RoomsMatchSockets'
    <3>1. room(u)' = room(u) \cup {s} /\ \A v \in Users \ {u} : room(v)' = room(v)
      <4> room(u) \cup {s} \in SUBSET Sockets BY RoomType
      <4> QED BY <2>2, SetRoomLemma
    <3>2. socket'[s].state = "open" /\ socket'[s].userId = u
      BY <1>0, <2>2 DEF Upgraded
    <3>3. \A r \in Sockets \ {s} : socket'[r] = socket[r]
      BY <1>0, <2>2
    <3> QED BY <2>0, <3>1, <3>2, <3>3 DEF RoomsMatchSockets, Connected, In
  <2>3. tickets[n].sub \in Users
    BY <1>2, UpgradeLemma
  <2> QED BY <1>2, <2>1, <2>2, <2>3, UpgradeSockets
<1>3. ASSUME NEW e \in Events, NEW u \in Users, PublishArrives(e, u) PROVE RoomsMatchSockets'
  BY <1>3, SameSockets DEF PublishArrives, Connected, In
<1>4. ASSUME NEW e \in Events, FanOut(e) \/ PublishFails(e) PROVE RoomsMatchSockets'
  BY <1>4, SameSockets DEF FanOut, PublishFails, Connected, In
<1>5. ASSUME NEW s \in Sockets, Accept(s) \/ TurnAway(s) PROVE RoomsMatchSockets'
  <2>1. socket[s].state \in {"none", "tcp"} /\ socket'[s].state \in {"none", "tcp"}
    <3>1. [Idle EXCEPT !.state = "tcp"].state = "tcp"
      BY DEF Idle
    <3>2. CASE Accept(s)
      BY <1>0, <3>1, <3>2 DEF Accept
    <3>3. CASE TurnAway(s)
      BY <1>0, <3>3 DEF TurnAway
    <3> QED BY <1>5, <3>2, <3>3
  <2>2. clients' = clients /\ \A r \in Sockets \ {s} : socket'[r] = socket[r]
    BY <1>0, <1>5 DEF Accept, TurnAway
  <2> QED BY <2>1, <2>2, SameSockets DEF Connected, In
<1>6. ASSUME NEW s \in Sockets, StartClosing(s) \/ Pong(s) \/ Vanish(s) PROVE RoomsMatchSockets'
  <2>1. socket[s].state = "open" /\ socket[s] \in Socket
    BY <1>0, <1>6 DEF StartClosing, Pong, Vanish
  <2>2. \E r \in {[socket[s] EXCEPT !.state = "closing"], [socket[s] EXCEPT !.isAlive = TRUE],
                 [socket[s] EXCEPT !.gone = TRUE]} : socket' = [socket EXCEPT ![s] = r]
    BY <1>6 DEF StartClosing, Pong, Vanish
  <2>3. socket[s] \in [state : {"open", "closing"}, userId : Users, isAlive : BOOLEAN, gone : BOOLEAN]
    BY <2>1 DEF Socket, Idle
  <2>4. socket'[s].state \in {"open", "closing"} /\ socket'[s].userId = socket[s].userId
    BY <1>0, <2>1, <2>2, <2>3
  <2>5. clients' = clients /\ \A r \in Sockets \ {s} : socket'[r] = socket[r]
    BY <1>0, <1>6 DEF StartClosing, Pong, Vanish
  <2> QED BY <2>1, <2>4, <2>5, SameSockets DEF Connected, In
<1>7. ASSUME NEW s \in Sockets, CloseEvent(s) PROVE RoomsMatchSockets'
  <2> PICK u \in Users : u = socket[s].userId
    BY <1>0, <1>7, SocketShapes DEF CloseEvent
  <2>1. SetRoom(u, room(u) \ {s})
    BY <1>7 DEF CloseEvent
  <2>2. room(u)' = room(u) \ {s} /\ \A v \in Users \ {u} : room(v)' = room(v)
    <3> room(u) \ {s} \in SUBSET Sockets BY RoomType
    <3> QED BY <2>1, SetRoomLemma
  <2>3. socket'[s].state = "none" /\ \A r \in Sockets \ {s} : socket'[r] = socket[r]
    BY <1>0, <1>7 DEF CloseEvent
  <2> QED BY <2>2, <2>3 DEF RoomsMatchSockets, Connected, In
<1>8. CASE Heartbeat
  <2>1. \A s \in Sockets : \/ socket'[s] = socket[s]
                           \/ s \in Connected /\ socket'[s] = [socket[s] EXCEPT !.isAlive = FALSE]
                           \/ s \in Connected /\ socket'[s] = [socket[s] EXCEPT !.state = "closing"]
    BY <1>8 DEF Heartbeat
  <2>2. \A s \in Connected : socket[s] \in [state : {"open", "closing"}, userId : Users,
                                            isAlive : BOOLEAN, gone : BOOLEAN]
    BY <1>0 DEF Connected, In, Socket, Idle
  <2>3. \A s \in Connected : /\ socket'[s].state \in {"open", "closing"}
                             /\ socket'[s].userId = socket[s].userId
    BY <2>1, <2>2 DEF Connected, In
  <2>4. clients' = clients /\ \A s \in Sockets \ Connected : socket'[s] = socket[s]
    BY <1>8, <2>1 DEF Heartbeat
  <2> QED BY <2>3, <2>4, SameSockets DEF Connected, In
<1>9. CASE Tick
  BY <1>9, SameSockets DEF Tick, Connected, In
<1>10. CASE shutdown
  <2>1. \A s \in Sockets : \/ socket'[s] = socket[s]
                           \/ s \in Connected /\ socket'[s] = [socket[s] EXCEPT !.state = "closing"]
    BY <1>10 DEF shutdown, Connected, In
  <2>2. \A s \in Connected : socket[s] \in [state : {"open", "closing"}, userId : Users,
                                            isAlive : BOOLEAN, gone : BOOLEAN]
    BY <1>0 DEF Connected, In, Socket, Idle
  <2>3. \A s \in Connected : /\ socket'[s].state \in {"open", "closing"}
                             /\ socket'[s].userId = socket[s].userId
    BY <2>1, <2>2 DEF Connected, In
  <2>4. clients' = clients /\ \A s \in Sockets \ Connected : socket'[s] = socket[s]
    BY <1>10, <2>1 DEF shutdown
  <2> QED BY <2>3, <2>4, SameSockets DEF Connected, In
<1>11. CASE Exit \/ Crash
  BY <1>0, <1>11 DEF Exit, Crash, Restart, RoomsMatchSockets, room, Connected, In
<1>12. CASE UNCHANGED vars
  BY <1>12, SameSockets DEF vars, Connected, In
<1> QED BY <1>1, <1>2, <1>3, <1>4, <1>5, <1>6, <1>7, <1>8, <1>9, <1>10, <1>11, <1>12 DEF Next

(* A room holds exactly its user's sockets that have not closed.             *)
THEOREM RoomsCorrect == Spec => []RoomsMatchSockets
<1>1. Init => RoomsMatchSockets
  BY DEF Init, RoomsMatchSockets, room, Connected, In, Idle
<1> QED BY <1>1, TypeCorrect, RoomsStep, PTL DEF Spec

(* An event reaches every open socket of its user, and nobody else's.         *)
THEOREM NobodyMissedCorrect == Spec => []NobodyMissed
<1>1. RoomsMatchSockets => NobodyMissed
  BY DEF RoomsMatchSockets, NobodyMissed, Recipients, Connected, In
<1> QED BY <1>1, RoomsCorrect, PTL
-----------------------------------------------------------------------------
(* The limit of a room: only an upgrade adds to one, one socket at a time.    *)
LEMMA CapStep == TypeOK /\ RoomCap /\ [Next]_vars => RoomCap'
<1> SUFFICES ASSUME TypeOK, RoomCap, [Next]_vars, NEW v \in Users
             PROVE  Cardinality(room(v)') <= MaxConnectionsPerUser
  BY DEF RoomCap
<1>0. /\ \A u \in Users : IsFiniteSet(room(u)) /\ Cardinality(room(u)) \in Nat
      /\ Cardinality(room(v)) <= MaxConnectionsPerUser
  BY RoomType, FS_Subset, FS_CardinalityType, ConstantsAssumption DEF RoomCap
<1>1. ASSUME NEW u \in Users, NEW s \in Sockets, ~RoomFull(u), SetRoom(u, room(u) \cup {s})
      PROVE  Cardinality(room(v)') <= MaxConnectionsPerUser
  <2>1. room(u) \cup {s} \in SUBSET Sockets
    BY RoomType
  <2>2. room(u)' = room(u) \cup {s} /\ \A w \in Users \ {u} : room(w)' = room(w)
    BY <1>1, <2>1, SetRoomLemma
  <2>3. /\ Cardinality(room(u) \cup {s}) \in Nat
        /\ Cardinality(room(u) \cup {s}) \in {Cardinality(room(u)), Cardinality(room(u)) + 1}
    <3>1. CASE s \in room(u)
      <4> room(u) \cup {s} = room(u) BY <3>1
      <4> QED BY <1>0
    <3>2. CASE s \notin room(u)
      <4>1. IsFiniteSet(room(u)) /\ Cardinality(room(u)) \in Nat
        BY <1>0
      <4>2. Cardinality(room(u) \cup {s}) = Cardinality(room(u)) + 1
        BY <3>2, <4>1, FS_AddElement
      <4> QED BY <4>1, <4>2
    <3> QED BY <3>1, <3>2
  <2>4. Cardinality(room(u)) < MaxConnectionsPerUser
    BY <1>0, <1>1, ConstantsAssumption DEF RoomFull
  <2>5. Cardinality(room(u) \cup {s}) <= MaxConnectionsPerUser
    BY <1>0, <2>3, <2>4, ConstantsAssumption
  <2> QED BY <1>0, <2>2, <2>5
<1>2. ASSUME NEW u \in Users, NEW s \in Sockets, SetRoom(u, room(u) \ {s})
      PROVE  Cardinality(room(v)') <= MaxConnectionsPerUser
  <2>1. room(u) \ {s} \in SUBSET Sockets
    BY RoomType
  <2>2. room(u)' = room(u) \ {s} /\ \A w \in Users \ {u} : room(w)' = room(w)
    BY <1>2, <2>1, SetRoomLemma
  <2>3. room(v)' \in SUBSET room(v)
    BY <2>2
  <2>4. Cardinality(room(v)') \in Nat /\ Cardinality(room(v)') <= Cardinality(room(v))
    BY <1>0, <2>3, FS_Subset, FS_CardinalityType
  <2> QED BY <1>0, <2>4, ConstantsAssumption
<1>3. CASE Exit \/ Crash
  <2>1. room(v)' = {}
    BY <1>3 DEF Exit, Crash, Restart, room
  <2> QED BY <2>1, FS_EmptySet, ConstantsAssumption
<1>4. CASE clients' = clients
  BY <1>0, <1>4 DEF room
<1>5. ASSUME NEW s \in Sockets, NEW n \in Nonces, Upgrade(s, n)
      PROVE  Cardinality(room(v)') <= MaxConnectionsPerUser
  BY <1>1, <1>4, <1>5, UpgradeLemma, UpgradeSockets
<1>6. ASSUME NEW s \in Sockets, CloseEvent(s)
      PROVE  Cardinality(room(v)') <= MaxConnectionsPerUser
  <2>1. socket[s].userId \in Users
    BY <1>6, SocketShapes DEF TypeOK, CloseEvent
  <2> QED BY <1>2, <1>6, <2>1 DEF CloseEvent
<1> QED
  BY <1>3, <1>4, <1>5, <1>6
  DEF Next, IssueTicket, FanOut, PublishFails, PublishArrives, Accept, TurnAway, StartClosing, Pong,
      Vanish, Heartbeat, Tick, shutdown, vars

(* No user ever holds more connections than the limit.                       *)
THEOREM RoomCapCorrect == Spec => []RoomCap
<1>1. Init => RoomCap
  BY FS_EmptySet, ConstantsAssumption DEF Init, RoomCap, room
<1> QED BY <1>1, TypeCorrect, CapStep, PTL DEF Spec
-----------------------------------------------------------------------------
(* A consumed nonce that was evicted belongs to a ticket that has expired for *)
(* good: the clock does not run back, and a ticket is never issued anew.      *)
Consumed == {n \in Nonces : uses[n] > 0}
ForgottenAreExpired == \A n \in Consumed \ usedNonces : tickets[n].exp < now

LEMMA ForgottenStep == TypeOK /\ ForgottenAreExpired /\ [Next]_vars => ForgottenAreExpired'
<1> SUFFICES ASSUME TypeOK, ForgottenAreExpired, [Next]_vars PROVE ForgottenAreExpired'
  OBVIOUS
<1>0. \A n \in Consumed : tickets[n] \in [sub : Users, exp : 0 .. MaxTime + TicketLife] /\ n \in Nonces
  BY DEF TypeOK, Consumed
<1> USE ConstantsAssumption
<1>1. ASSUME NEW s \in Sockets, NEW n \in Nonces, Upgrade(s, n) PROVE ForgottenAreExpired'
  <2>1. /\ tickets' = tickets /\ now' \in Nat /\ now \in Nat /\ now' >= now
        /\ Consumed' \ usedNonces' \subseteq Consumed \ Unexpired(now')
    BY <1>1, UpgradeLemma DEF TypeOK, Consume, Consumed
  <2>2. ASSUME NEW k \in Consumed \ Unexpired(now') PROVE tickets[k].exp < now'
    <3>1. CASE k \in usedNonces
      BY <1>0, <2>1, <3>1 DEF Unexpired
    <3>2. CASE k \notin usedNonces
      BY <1>0, <2>1, <3>2 DEF ForgottenAreExpired
    <3> QED BY <3>1, <3>2
  <2> QED BY <2>1, <2>2 DEF ForgottenAreExpired
<1>2. ASSUME NEW n \in Nonces, NEW u \in Users, IssueTicket(n, u) PROVE ForgottenAreExpired'
  <2>1. n \notin Consumed /\ \A k \in Consumed : tickets'[k] = tickets[k]
    BY <1>2 DEF TypeOK, IssueTicket, Consumed
  <2> QED BY <1>2, <2>1 DEF ForgottenAreExpired, IssueTicket, Consumed
<1>3. CASE Tick
  <2>1. now \in Nat /\ now' = now + 1
    BY <1>3 DEF TypeOK, Tick
  <2> QED BY <1>0, <1>3, <2>1 DEF ForgottenAreExpired, Tick, Consumed
<1>4. CASE Exit \/ Crash
  BY <1>4 DEF Exit, Crash, Restart, ForgottenAreExpired, Consumed
<1>5. CASE UNCHANGED <<now, tickets, usedNonces, uses>>
  BY <1>5 DEF ForgottenAreExpired, Consumed
<1> QED
  BY <1>1, <1>2, <1>3, <1>4, <1>5
  DEF Next, FanOut, PublishFails, PublishArrives, Accept, TurnAway, StartClosing, CloseEvent, Pong,
      Vanish, Heartbeat, shutdown, vars

(* Only the upgrade that consumes a nonce counts a use of it.                 *)
LEMMA UsesStep ==
  ASSUME TypeOK, [Next]_vars, NEW n \in Nonces, uses'[n] > uses[n]
  PROVE  \E s \in Sockets : Upgrade(s, n) /\ n \notin Unexpired(now')
<1>0. uses[n] \in Nat /\ uses \in [Nonces -> Nat]
  BY DEF TypeOK
<1>1. ASSUME NEW s \in Sockets, NEW k \in Nonces, Upgrade(s, k)
      PROVE  k = n /\ n \notin Unexpired(now')
  BY <1>0, <1>1, UpgradeLemma DEF Consume
<1>2. ~Exit /\ ~Crash
  BY <1>0 DEF Exit, Crash, Restart
<1>3. uses' # uses
  BY <1>0
<1>4. \E s \in Sockets, k \in Nonces : Upgrade(s, k)
  BY <1>2, <1>3
  DEF Next, IssueTicket, FanOut, PublishFails, PublishArrives, Accept, TurnAway, StartClosing,
      CloseEvent, Pong, Vanish, Heartbeat, Tick, shutdown, vars
<1> QED BY <1>1, <1>4

(* A nonce is taken a second time only by a handler that verified its ticket  *)
(* in the last second and evicted it in the next.                            *)
THEOREM NoncesCorrect == Spec => ReusedOnlyAtExpiry
<1> DEFINE Body == \A n \in Nonces : uses'[n] > uses[n] /\ uses[n] > 0 =>
                     now = tickets[n].exp /\ now' = now + 1
<1>1. Init => ForgottenAreExpired
  BY DEF Init, ForgottenAreExpired, Consumed
<1>2. TypeOK /\ ForgottenAreExpired /\ [Next]_vars => [Body]_vars
  <2> SUFFICES ASSUME TypeOK, ForgottenAreExpired, [Next]_vars, NEW n \in Nonces,
                      uses'[n] > uses[n], uses[n] > 0
               PROVE  now = tickets[n].exp /\ now' = now + 1
    OBVIOUS
  <2>1. PICK s \in Sockets : Upgrade(s, n) /\ n \notin Unexpired(now')
    BY UsesStep
  <2>2. /\ tickets[n] \in [sub : Users, exp : 0 .. MaxTime + TicketLife]
        /\ now' \in {now, now + 1} /\ tickets[n].exp >= now /\ now \in 0 .. MaxTime
    BY <2>1, UpgradeLemma DEF TypeOK
  <2>3. n \in usedNonces
    BY <2>2, ConstantsAssumption DEF ForgottenAreExpired, Consumed
  <2>4. ~(tickets[n].exp >= now')
    BY <2>1, <2>3 DEF Unexpired
  <2> QED BY <2>2, <2>4, ConstantsAssumption
<1> QED BY <1>1, <1>2, TypeCorrect, ForgottenStep, PTL DEF Spec, ReusedOnlyAtExpiry
=============================================================================
