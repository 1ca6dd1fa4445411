---------------------------- MODULE RealtimeService ----------------------------
(***************************************************************************)
(* The mobile client of the fan-out service: start(), stop(), the connect    *)
(* routine and its reconnect timer.  Dart runs one callback at a time, but    *)
(* every `await` lets other callbacks in, so each routine is cut at its       *)
(* awaits.  An attempt is one execution of _connect() together with the       *)
(* channel it opens; it is reused once nothing refers to it.                  *)
(***************************************************************************)
EXTENDS Naturals, FiniteSets

CONSTANTS
  Attempts,   \* executions of _connect() that exist at a time (a bound)
  NoChannel,  \* null
  MaxStops    \* bound: executions of stop() in flight at a time

ASSUME ConstantsAssumption == NoChannel \notin Attempts /\ MaxStops \in Nat

VARIABLES
  stopped,       \* _stopped
  channel,       \* _channel
  subscription,  \* _subscription, by the channel it listens to
  timer,         \* _reconnectTimer: "none", "armed", or "fired" but not cleared
  attempt,       \* _reconnectAttempt; 5 stands for 5 and more
  stopping,      \* executions of stop() waiting for cancel()
  pc,            \* where each execution of _connect() is
  sock,          \* the socket of each attempt
  listened,      \* attempts whose stream still has a live listener
  overlapped     \* a start() found a stop() or a connect routine waiting (history variable)

vars == <<stopped, channel, subscription, timer, attempt, stopping, pc, sock, listened, overlapped>>

MaxDelayAttempt == 5   \* from here on the delay is 30 seconds

isConnected == channel # NoChannel /\ ~stopped

InFlight == {a \in Attempts : pc[a] \in {"ticket", "ready", "discard", "failed"}}

Free(a) == pc[a] = "idle" /\ sock[a] \in {"none", "closed"} /\ a \notin listened
           /\ a # channel /\ a # subscription

-----------------------------------------------------------------------------
Init ==
  /\ stopped = TRUE
  /\ channel = NoChannel /\ subscription = NoChannel
  /\ timer = "none" /\ attempt = 0 /\ stopping = 0
  /\ pc = [a \in Attempts |-> "idle"]
  /\ sock = [a \in Attempts |-> "none"]
  /\ listened = {}
  /\ overlapped = FALSE

(* _connect() up to its first await: the ticket is requested.                *)
BeginConnect(a) ==
  /\ Free(a)
  /\ pc' = [pc EXCEPT ![a] = "ticket"]
  /\ sock' = [sock EXCEPT ![a] = "none"]

start ==
  /\ stopped
  /\ stopped' = FALSE
  /\ \E a \in Attempts : BeginConnect(a)
  /\ overlapped' = (overlapped \/ stopping > 0 \/ InFlight # {})
  /\ UNCHANGED <<channel, subscription, timer, attempt, stopping, listened>>

-----------------------------------------------------------------------------
(* stop() up to its first await: the listener is gone at once.               *)
stopCall ==
  /\ stopping < MaxStops
  /\ stopped' = TRUE
  /\ timer' = "none"
  /\ listened' = listened \ {subscription}
  /\ stopping' = stopping + 1
  /\ UNCHANGED <<channel, subscription, attempt, pc, sock, overlapped>>

(* Mutant of stopFinish: the channel is dropped without closing it.          *)
stopFinishKeepsSocket ==
  /\ stopping > 0
  /\ stopping' = stopping - 1
  /\ subscription' = NoChannel
  /\ channel' = NoChannel
  /\ UNCHANGED <<stopped, timer, attempt, pc, sock, listened, overlapped>>

(* ... and from there: whatever channel there is by now is closed.           *)
stopFinish ==
  /\ stopping > 0
  /\ stopping' = stopping - 1
  /\ subscription' = NoChannel
  /\ channel' = NoChannel
  /\ sock' = [a \in Attempts |-> IF a = channel THEN "closed" ELSE sock[a]]
  /\ UNCHANGED <<stopped, timer, attempt, pc, listened, overlapped>>

-----------------------------------------------------------------------------
(* Mutant of scheduleReconnect: the channel is kept while it reconnects.     *)
scheduleReconnectKeepsChannel(done) ==
  IF stopped \/ timer # "none"
  THEN /\ listened' = listened \ done
       /\ UNCHANGED <<channel, subscription, attempt, timer>>
  ELSE /\ listened' = (listened \ done) \ {subscription}
       /\ subscription' = NoChannel
       /\ attempt' = IF attempt < MaxDelayAttempt THEN attempt + 1 ELSE attempt
       /\ timer' = "armed"
       /\ UNCHANGED channel

(* _scheduleReconnect(); done is the stream whose end called it, if any.     *)
scheduleReconnect(done) ==
  /\ channel' = NoChannel
  /\ IF stopped \/ timer # "none"
     THEN /\ listened' = listened \ done
          /\ UNCHANGED <<subscription, attempt, timer>>
     ELSE /\ listened' = (listened \ done) \ {subscription}
          /\ subscription' = NoChannel
          /\ attempt' = IF attempt < MaxDelayAttempt THEN attempt + 1 ELSE attempt
          /\ timer' = "armed"

(* Mutant of timerFires: _reconnectTimer is not cleared.                     *)
timerFiresKeepsTimer ==
  /\ timer = "armed"
  /\ timer' = "fired"
  /\ \E a \in Attempts : BeginConnect(a)
  /\ UNCHANGED <<stopped, channel, subscription, attempt, stopping, listened, overlapped>>

timerFires ==
  /\ timer = "armed"
  /\ timer' = "none"
  /\ \E a \in Attempts : BeginConnect(a)
  /\ UNCHANGED <<stopped, channel, subscription, attempt, stopping, listened, overlapped>>

-----------------------------------------------------------------------------
(* The rest of _connect(), await by await. *)

(* The ticket came: the socket starts to open, even if stop() came first.    *)
ticketAnswered(a) ==
  /\ pc[a] = "ticket"
  /\ pc' = [pc EXCEPT ![a] = "ready"]
  /\ sock' = [sock EXCEPT ![a] = "dialing"]
  /\ UNCHANGED <<stopped, channel, subscription, timer, attempt, stopping, listened, overlapped>>

(* No ticket in the answer, or the request failed.                           *)
ticketMissing(a) ==
  /\ pc[a] = "ticket"
  /\ pc' = [pc EXCEPT ![a] = "idle"]
  /\ scheduleReconnect({})
  /\ UNCHANGED <<stopped, stopping, sock, overlapped>>

(* Mutant of ready: stop() is not noticed after the await.                   *)
readyIgnoresStop(a) ==
  /\ pc[a] = "ready"
  /\ pc' = [pc EXCEPT ![a] = "idle"]
  /\ sock' = [sock EXCEPT ![a] = "open"]
  /\ channel' = a /\ subscription' = a /\ attempt' = 0
  /\ listened' = listened \cup {a}
  /\ UNCHANGED <<stopped, timer, stopping, overlapped>>

ready(a) ==
  /\ pc[a] = "ready"
  /\ IF stopped
     THEN /\ pc' = [pc EXCEPT ![a] = "discard"]
          /\ sock' = [sock EXCEPT ![a] = "closed"]
          /\ UNCHANGED <<channel, subscription, attempt, listened>>
     ELSE /\ pc' = [pc EXCEPT ![a] = "idle"]
          /\ sock' = [sock EXCEPT ![a] = "open"]
          /\ channel' = a /\ subscription' = a /\ attempt' = 0
          /\ listened' = listened \cup {a}
  /\ UNCHANGED <<stopped, timer, stopping, overlapped>>

(* The upgrade is refused, or not over after eight seconds.                  *)
dialFails(a) ==
  /\ pc[a] = "ready"
  /\ pc' = [pc EXCEPT ![a] = "failed"]
  /\ sock' = [sock EXCEPT ![a] = "closed"]
  /\ UNCHANGED <<stopped, channel, subscription, timer, attempt, stopping, listened, overlapped>>

discardClosed(a) ==
  /\ pc[a] = "discard"
  /\ pc' = [pc EXCEPT ![a] = "idle"]
  /\ UNCHANGED <<stopped, channel, subscription, timer, attempt, stopping, sock, listened, overlapped>>

(* Mutant of failedClosed: the catch block closes the candidate and returns. *)
failedClosedGivesUp(a) ==
  /\ pc[a] = "failed"
  /\ pc' = [pc EXCEPT ![a] = "idle"]
  /\ UNCHANGED <<stopped, channel, subscription, timer, attempt, stopping, sock, listened, overlapped>>

failedClosed(a) ==
  /\ pc[a] = "failed"
  /\ pc' = [pc EXCEPT ![a] = "idle"]
  /\ scheduleReconnect({})
  /\ UNCHANGED <<stopped, stopping, sock, overlapped>>

-----------------------------------------------------------------------------
(* The socket ends: the server closed it, the network failed.                *)
peerCloses(a) ==
  /\ sock[a] = "open"
  /\ sock' = [sock EXCEPT ![a] = "closed"]
  /\ UNCHANGED <<stopped, channel, subscription, timer, attempt, stopping, pc, listened, overlapped>>

(* onDone or onError of a stream that still has its listener.                *)
streamEnds(a) ==
  /\ a \in listened /\ sock[a] = "closed"
  /\ scheduleReconnect({a})
  /\ UNCHANGED <<stopped, stopping, pc, sock, overlapped>>

connectStep(a) ==
  ticketAnswered(a) \/ ticketMissing(a) \/ ready(a) \/ dialFails(a)
  \/ discardClosed(a) \/ failedClosed(a)

Next == start \/ stopCall \/ stopFinish \/ timerFires
        \/ \E a \in Attempts : connectStep(a) \/ peerCloses(a) \/ streamEnds(a)

Spec == Init /\ [][Next]_vars

(* Timers fire, ended streams are reported, the ticket request and the dial   *)
(* have time limits and do not fail for ever.  Neither close() has a limit:   *)
(* a routine that waits for the one of a failed dial may wait for ever.  The  *)
(* routine that discards its socket has nothing left to do, and is let go    *)
(* only so that the bound on attempts is no reason not to reconnect.         *)
Fairness ==
  /\ WF_vars(timerFires)
  /\ \A a \in Attempts :
       /\ WF_vars(ticketAnswered(a) \/ ticketMissing(a)) /\ WF_vars(ready(a) \/ dialFails(a))
       /\ WF_vars(discardClosed(a)) /\ WF_vars(streamEnds(a))
       /\ SF_vars(ticketAnswered(a)) /\ SF_vars(ready(a))

FairSpec == Spec /\ Fairness
-----------------------------------------------------------------------------
(* Type invariant: the fields of the service and its attempts.               *)
TypeOK ==
  /\ stopped \in BOOLEAN
  /\ channel \in Attempts \cup {NoChannel}
  /\ subscription \in Attempts \cup {NoChannel}
  /\ timer \in {"none", "armed"}
  /\ attempt \in 0 .. MaxDelayAttempt
  /\ stopping \in 0 .. MaxStops
  /\ pc \in [Attempts -> {"idle", "ticket", "ready", "discard", "failed"}]
  /\ sock \in [Attempts -> {"none", "dialing", "open", "closed"}]
  /\ listened \subseteq Attempts
  /\ overlapped \in BOOLEAN

(* A service that was started always has something that will bring it back:  *)
(* a connect routine under way (one waiting for a close() included), an       *)
(* armed timer, or a stream whose end it will hear of.  No order of logins,  *)
(* logouts and failures strands it.                                          *)
NeverStranded ==
  ~stopped => \/ InFlight # {}
              \/ timer = "armed"
              \/ listened # {}

(* An open chat stops its six-second poll while isConnected says so; then    *)
(* the service really listens to that channel.  (A stop() cut short by a     *)
(* start() may still be about to drop the channel.)                          *)
ConnectedMeansListening == isConnected /\ stopping = 0 => channel \in listened

(* Once settled in the stopped state the service hears nothing and leaves no *)
(* socket behind on the server, as long as no start() ever overlapped what   *)
(* an earlier stop() or connect routine had still to do.                     *)
StoppedIsQuiet ==
  ~overlapped /\ stopped /\ stopping = 0 => \A a \in Attempts : a \notin listened /\ sock[a] # "open"

(* One account on one device has one open socket at most: no event is        *)
(* handled twice and no place in the server's room of five is wasted, under  *)
(* the same condition.                                                       *)
OneSocket == ~overlapped => Cardinality({a \in Attempts : sock[a] = "open"}) <= 1

(* No routine waits for ever for the close() of the dial that failed.        *)
ClosesReturn == \A a \in Attempts : []<>(pc[a] # "failed")

(* A started service gets its connection, or is stopped again, unless a       *)
(* routine hangs in the close() of a failed dial: only that routine would    *)
(* have armed the timer.                                                     *)
Reconnects == ClosesReturn => (~stopped ~> (stopped \/ isConnected))
=============================================================================
