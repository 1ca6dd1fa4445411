---------------------------- MODULE RealtimeServer ----------------------------
(***************************************************************************)
(* The WebSocket fan-out service: which sockets a user has, which tickets    *)
(* were consumed, who is sent a published event, and how the process ends.   *)
(* Node runs one callback at a time, so every callback is one action;        *)
(* callbacks, peers, the publisher and the clock interleave.                 *)
(***************************************************************************)
EXTENDS Naturals, FiniteSets

CONSTANTS
  Users,
  Sockets,               \* bound: connections at once, each identity used again
  Nonces,                \* one per ticket Laravel issues
  Events,                \* POST /publish requests, each fanned out once
  MaxConnectionsPerUser, \* maxConnectionsPerUser, 5 in the code
  TicketLife,            \* seconds until a new ticket expires, 60 in the code
  MaxAhead,              \* how far ahead an expiry may lie, 120 in the code
  PublishWindow,         \* how old a publication's timestamp may be, 30 in the code
  NoTicket,              \* "this nonce was not issued"
  NoUser,                \* "this connection is not upgraded"
  MaxTime                \* bound: the clock, in seconds

ASSUME ConstantsAssumption ==
  /\ MaxConnectionsPerUser \in Nat \ {0}
  /\ TicketLife \in Nat /\ MaxAhead \in Nat /\ PublishWindow \in Nat /\ MaxTime \in Nat
  /\ NoUser \notin Users
  /\ IsFiniteSet(Sockets)

VARIABLES
  now,         \* the wall clock, in seconds
  phase,       \* "up", or "closing" once shutdown() ran
  tickets,     \* tickets issued by Laravel: [Nonces -> [sub, exp] or NoTicket]
  clients,     \* the Map clients: user -> set of sockets, no empty rooms
  usedNonces,  \* the keys of the Map usedNonces; a value is its ticket's expiry
  uses,        \* how often this process consumed each nonce (history variable)
  socket,      \* connections: state, userId, isAlive; gone: the peer vanished
  publish      \* POST /publish: stage, user, signed timestamp

vars == <<now, phase, tickets, clients, usedNonces, uses, socket, publish>>

Idle == [state |-> "none", userId |-> NoUser, isAlive |-> FALSE, gone |-> FALSE]
Upgraded(u) == [state |-> "open", userId |-> u, isAlive |-> TRUE, gone |-> FALSE]
Unpublished == [stage |-> "none", user |-> NoUser, stamp |-> 0]

room(u) == IF u \in DOMAIN clients THEN clients[u] ELSE {}

SetRoom(u, S) ==
  clients' = [v \in IF S = {} THEN DOMAIN clients \ {u} ELSE DOMAIN clients \cup {u} |->
                IF v = u THEN S ELSE clients[v]]

In(states) == {s \in Sockets : socket[s].state \in states}
Connected == In({"open", "closing"})   \* wss.clients

-----------------------------------------------------------------------------
Init ==
  /\ now = 0
  /\ phase = "up"
  /\ tickets = [n \in Nonces |-> NoTicket]
  /\ clients = [u \in {} |-> {}]
  /\ usedNonces = {}
  /\ uses = [n \in Nonces |-> 0]
  /\ socket = [s \in Sockets |-> Idle]
  /\ publish = [e \in Events |-> Unpublished]

(* POST /realtime/ticket, answered by Laravel.                               *)
IssueTicket(n, u) ==
  /\ tickets[n] = NoTicket
  /\ tickets' = [tickets EXCEPT ![n] = [sub |-> u, exp |-> now + TicketLife]]
  /\ UNCHANGED <<now, phase, clients, usedNonces, uses, socket, publish>>

(* A connection is accepted; its upgrade request arrives later.              *)
Accept(s) ==
  /\ phase = "up"
  /\ socket[s] = Idle
  /\ socket' = [socket EXCEPT ![s].state = "tcp"]
  /\ UNCHANGED <<now, phase, tickets, clients, usedNonces, uses, publish>>

-----------------------------------------------------------------------------
(* The upgrade handler.  It reads the clock twice: to verify the ticket and  *)
(* to evict the consumed nonces whose ticket has expired.                    *)

verifyTicket(n, t) ==
  /\ tickets[n] # NoTicket
  /\ tickets[n].exp >= t
  /\ tickets[n].exp <= t + MaxAhead

(* Mutant of Unexpired: a nonce is dropped in the second its ticket expires. *)
UnexpiredEarly(t) == {n \in usedNonces : tickets[n].exp > t}

Unexpired(t) == {n \in usedNonces : tickets[n].exp >= t}

(* Mutant of RoomFull: one connection too many.                              *)
RoomFullLate(u) == Cardinality(room(u)) > MaxConnectionsPerUser

RoomFull(u) == Cardinality(room(u)) >= MaxConnectionsPerUser

(* Another path (404), an origin that is not allowed (403), no ticket that    *)
(* verifies (401), or a peer that leaves before it asks.                     *)
TurnAway(s) ==
  /\ socket[s].state = "tcp"
  /\ socket' = [socket EXCEPT ![s] = Idle]
  /\ UNCHANGED <<now, phase, tickets, clients, usedNonces, uses, publish>>

(* The nonce is taken as used from here on.                                  *)
Consume(n, t) ==
  /\ usedNonces' = Unexpired(t) \cup {n}
  /\ uses' = [uses EXCEPT ![n] = @ + 1]

UpgradeAccepted(s, n, t) ==
  /\ n \notin Unexpired(t) /\ ~RoomFull(tickets[n].sub)
  /\ Consume(n, t)
  /\ socket' = [socket EXCEPT ![s] = Upgraded(tickets[n].sub)]
  /\ SetRoom(tickets[n].sub, room(tickets[n].sub) \cup {s})

(* 429, or a handshake the library turns down after the nonce was consumed.  *)
UpgradeRefused(s, n, t) ==
  /\ \/ /\ n \in Unexpired(t) \/ RoomFull(tickets[n].sub)
        /\ usedNonces' = Unexpired(t)
        /\ UNCHANGED uses
     \/ /\ n \notin Unexpired(t) /\ ~RoomFull(tickets[n].sub)
        /\ Consume(n, t)
  /\ socket' = [socket EXCEPT ![s] = Idle]
  /\ UNCHANGED clients

(* Nothing here looks at the phase: a connection accepted before shutdown()   *)
(* may still be upgraded after it.                                           *)
Upgrade(s, n) ==
  /\ socket[s].state = "tcp"
  /\ verifyTicket(n, now)
  /\ \E t \in {now, now + 1} \cap 0 .. MaxTime :
       /\ now' = t
       /\ UpgradeRefused(s, n, t) \/ UpgradeAccepted(s, n, t)
  /\ UNCHANGED <<phase, tickets, publish>>

-----------------------------------------------------------------------------
(* POST /publish: Laravel signs the packet with the time and connects; the    *)
(* handler waits for the body.                                               *)
PublishArrives(e, u) ==
  /\ phase = "up"
  /\ publish[e] = Unpublished
  /\ publish' = [publish EXCEPT ![e].stage = "reading", ![e].user = u, ![e].stamp = now]
  /\ UNCHANGED <<now, phase, tickets, clients, usedNonces, uses, socket>>

(* The clock is read when the body is complete.  It never runs back here, so *)
(* that the distance |now - stamp| is now - stamp.                           *)
verifyPublishSignature(e) == now - publish[e].stamp <= PublishWindow

(* Whom a packet for u is written to: the OPEN sockets of u's room.          *)
Recipients(u) == {s \in room(u) : socket[s].state = "open"}

(* The packet goes to Recipients(publish[e].user) and is forgotten (202).    *)
FanOut(e) ==
  /\ publish[e].stage = "reading"
  /\ verifyPublishSignature(e)
  /\ publish' = [publish EXCEPT ![e] = [Unpublished EXCEPT !.stage = "sent"]]
  /\ UNCHANGED <<now, phase, tickets, clients, usedNonces, uses, socket>>

(* 413 for a body that is too large or is broken off (the publisher waits     *)
(* three seconds), 401 for a signature or timestamp, 400 and 422 for content.*)
PublishFails(e) ==
  /\ publish[e].stage = "reading"
  /\ publish' = [publish EXCEPT ![e] = Unpublished]
  /\ UNCHANGED <<now, phase, tickets, clients, usedNonces, uses, socket>>

(* A socket starts closing: the peer closes it, sends something on this      *)
(* read-only channel (1008), or a packet cannot be written to it.            *)
StartClosing(s) ==
  /\ socket[s].state = "open"
  /\ socket' = [socket EXCEPT ![s].state = "closing"]
  /\ UNCHANGED <<now, phase, tickets, clients, usedNonces, uses, publish>>

(* Mutant of CloseEvent: closing a socket does not take it out of its room.  *)
CloseEventKeepsSocket(s) ==
  /\ socket[s].state = "closing"
  /\ socket' = [socket EXCEPT ![s] = Idle]
  /\ UNCHANGED <<now, phase, tickets, clients, usedNonces, uses, publish>>

(* socket.on('close'): out of the room, and the room goes when it is empty.  *)
CloseEvent(s) ==
  /\ socket[s].state = "closing"
  /\ socket' = [socket EXCEPT ![s] = Idle]
  /\ SetRoom(socket[s].userId, room(socket[s].userId) \ {s})
  /\ UNCHANGED <<now, phase, tickets, usedNonces, uses, publish>>

-----------------------------------------------------------------------------
(* Mutant of Heartbeat: the flag is not cleared before the ping.             *)
HeartbeatKeepsFlag ==
  /\ phase = "up" /\ Connected # {}
  /\ socket' = [s \in Sockets |->
                  IF s \in Connected /\ ~socket[s].isAlive
                  THEN [socket[s] EXCEPT !.state = "closing"] ELSE socket[s]]
  /\ UNCHANGED <<now, phase, tickets, clients, usedNonces, uses, publish>>

(* Every 30 seconds: who has not answered the last ping is terminated, the   *)
(* others are pinged again.                                                  *)
Heartbeat ==
  /\ phase = "up" /\ Connected # {}
  /\ socket' = [s \in Sockets |->
                  IF s \notin Connected THEN socket[s]
                  ELSE IF socket[s].isAlive THEN [socket[s] EXCEPT !.isAlive = FALSE]
                  ELSE [socket[s] EXCEPT !.state = "closing"]]
  /\ UNCHANGED <<now, phase, tickets, clients, usedNonces, uses, publish>>

Pong(s) ==
  /\ socket[s].state = "open" /\ ~socket[s].gone /\ ~socket[s].isAlive
  /\ socket' = [socket EXCEPT ![s].isAlive = TRUE]
  /\ UNCHANGED <<now, phase, tickets, clients, usedNonces, uses, publish>>

(* The peer loses its network: it neither answers nor closes.                *)
Vanish(s) ==
  /\ socket[s].state = "open" /\ ~socket[s].gone
  /\ socket' = [socket EXCEPT ![s].gone = TRUE]
  /\ UNCHANGED <<now, phase, tickets, clients, usedNonces, uses, publish>>

Tick ==
  /\ now < MaxTime
  /\ now' = now + 1
  /\ UNCHANGED <<phase, tickets, clients, usedNonces, uses, socket, publish>>

-----------------------------------------------------------------------------
(* SIGTERM or SIGINT, perhaps again: no more heartbeats, every socket is      *)
(* closed (1001), nothing more is accepted; requests under way go on.        *)
shutdown ==
  /\ phase' = "closing"
  /\ socket' = [s \in Sockets |-> IF socket[s].state = "open"
                                  THEN [socket[s] EXCEPT !.state = "closing"] ELSE socket[s]]
  /\ UNCHANGED <<now, tickets, clients, usedNonces, uses, publish>>

(* A new process: both Maps start empty, every connection is gone.           *)
Restart ==
  /\ phase' = "up"
  /\ clients' = [u \in {} |-> {}]
  /\ usedNonces' = {}
  /\ uses' = [n \in Nonces |-> 0]
  /\ socket' = [s \in Sockets |-> Idle]
  /\ publish' = [e \in Events |-> IF publish[e].stage = "reading" THEN Unpublished ELSE publish[e]]
  /\ UNCHANGED <<now, tickets>>

Drained == In({"tcp", "open", "closing"}) = {} /\ \A e \in Events : publish[e].stage # "reading"

(* Mutant of Exit: without the timer of five seconds.                        *)
ExitWhenDrained == phase = "closing" /\ Drained /\ Restart

(* server.close() calls back with everything drained (0), or the timer of     *)
(* five seconds fires first (1).                                             *)
Exit == phase = "closing" /\ Restart

Crash == phase = "up" /\ Restart

Next ==
  \/ \E n \in Nonces, u \in Users : IssueTicket(n, u)
  \/ \E s \in Sockets, n \in Nonces : Upgrade(s, n)
  \/ \E e \in Events : FanOut(e) \/ PublishFails(e) \/ \E u \in Users : PublishArrives(e, u)
  \/ \E s \in Sockets : \/ Accept(s) \/ TurnAway(s) \/ StartClosing(s) \/ CloseEvent(s)
                        \/ Pong(s) \/ Vanish(s)
  \/ Heartbeat
  \/ Tick
  \/ shutdown
  \/ Exit
  \/ Crash

Spec == Init /\ [][Next]_vars

(* setInterval fires again and again, a terminated socket emits 'close', and *)
(* the timer of shutdown() fires.                                            *)
FairSpec ==
  Spec /\ WF_vars(Heartbeat) /\ WF_vars(Exit) /\ \A s \in Sockets : WF_vars(CloseEvent(s))
-----------------------------------------------------------------------------
Socket ==
  {Idle, [Idle EXCEPT !.state = "tcp"]}
    \cup [state : {"open", "closing"}, userId : Users, isAlive : BOOLEAN, gone : BOOLEAN]

Publication == [stage : {"none", "reading", "sent"}, user : Users \cup {NoUser},
                stamp : 0 .. MaxTime]

(* Type invariant: clients holds no empty room.                              *)
TypeOK ==
  /\ now \in 0 .. MaxTime
  /\ phase \in {"up", "closing"}
  /\ tickets \in [Nonces -> [sub : Users, exp : 0 .. MaxTime + TicketLife] \cup {NoTicket}]
  /\ DOMAIN clients \subseteq Users
  /\ \A u \in DOMAIN clients : clients[u] \in (SUBSET Sockets) \ {{}}
  /\ usedNonces \subseteq Nonces
  /\ uses \in [Nonces -> Nat]
  /\ \A n \in Nonces : uses[n] > 0 \/ n \in usedNonces => tickets[n] # NoTicket
  /\ socket \in [Sockets -> Socket]
  /\ publish \in [Events -> Publication]

(* A user's room holds exactly the sockets of that user that have not closed *)
(* yet, through every mix of upgrades, closes, terminations and restarts.    *)
RoomsMatchSockets == \A u \in Users : room(u) = {s \in Connected : socket[s].userId = u}

(* No user has more connections than the limit, however upgrades and closes  *)
(* interleave.                                                               *)
RoomCap == \A u \in Users : Cardinality(room(u)) <= MaxConnectionsPerUser

(* A process takes a nonce a second time in one case only: the ticket was     *)
(* verified in its very last second and the clock moved on before the same   *)
(* handler evicted the expired nonces, this one among them.                  *)
ReusedOnlyAtExpiry ==
  [][\A n \in Nonces : uses'[n] > uses[n] /\ uses[n] > 0 =>
       now = tickets[n].exp /\ now' = now + 1]_vars

(* An event for a user is written to every open socket of that user and to    *)
(* nobody else's: a closing socket never takes the room from the others.     *)
NobodyMissed == \A u \in Users : Recipients(u) = {s \in In({"open"}) : socket[s].userId = u}

(* A peer that vanished does not keep its place in the room for ever.        *)
VanishedPeersLeave == \A s \in Sockets : socket[s].gone ~> ~socket[s].gone

(* A process told to stop does stop, although a connection accepted before    *)
(* may be upgraded afterwards and nobody closes or pings it any more.        *)
ShutdownEnds == (phase = "closing") ~> (phase = "up")
=============================================================================
