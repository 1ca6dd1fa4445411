------------------------ MODULE RealtimeService_proofs ------------------------
(***************************************************************************)
(* Proofs about RealtimeService, for any number of connect routines and      *)
(* stops in flight: the type invariant, that a started service is never      *)
(* stranded, that isConnected is true only of a channel with a listener, and *)
(* that starts and stops that do not overlap leave one socket, or silence.   *)
(***************************************************************************)
EXTENDS RealtimeService, FiniteSetTheorems, TLAPS

(* A connect routine starts out from a free attempt.                         *)
LEMMA BeginType ==
  ASSUME TypeOK, NEW a \in Attempts, BeginConnect(a)
  PROVE  /\ pc' \in [Attempts -> {"idle", "ticket", "ready", "discard", "failed"}]
         /\ sock' \in [Attempts -> {"none", "dialing", "open", "closed"}]
         /\ pc'[a] = "ticket"
BY DEF TypeOK, BeginConnect

(* Giving up a channel keeps the types, and arms the timer of a service that *)
(* is not stopped.                                                           *)
LEMMA ReconnectType ==
  ASSUME TypeOK, NEW done \in SUBSET Attempts, scheduleReconnect(done)
  PROVE  /\ channel' = NoChannel
         /\ subscription' \in Attempts \cup {NoChannel}
         /\ timer' \in {"none", "armed"}
         /\ ~stopped => timer' = "armed"
         /\ attempt' \in 0 .. MaxDelayAttempt
         /\ listened' \subseteq Attempts
BY DEF TypeOK, scheduleReconnect, MaxDelayAttempt

LEMMA TypeStep == TypeOK /\ [Next]_vars => TypeOK'
<1> SUFFICES ASSUME TypeOK, [Next]_vars PROVE TypeOK'
  OBVIOUS
<1> USE ConstantsAssumption
<1>1. CASE start
  <2> PICK a \in Attempts : BeginConnect(a)
    BY <1>1 DEF start
  <2> QED BY <1>1, BeginType DEF TypeOK, start
<1>2. CASE stopCall
  BY <1>2 DEF TypeOK, stopCall
<1>3. CASE stopFinish
  BY <1>3 DEF TypeOK, stopFinish
<1>4. CASE timerFires
  <2> PICK a \in Attempts : BeginConnect(a)
    BY <1>4 DEF timerFires
  <2> QED BY <1>4, BeginType DEF TypeOK, timerFires
<1>5. ASSUME NEW a \in Attempts, ticketAnswered(a) PROVE TypeOK'
  BY <1>5 DEF TypeOK, ticketAnswered
<1>6. ASSUME NEW a \in Attempts, ticketMissing(a) PROVE TypeOK'
  BY <1>6, ReconnectType DEF TypeOK, ticketMissing
<1>7. ASSUME NEW a \in Attempts, ready(a) PROVE TypeOK'
  BY <1>7 DEF TypeOK, ready, MaxDelayAttempt
<1>8. ASSUME NEW a \in Attempts, dialFails(a) PROVE TypeOK'
  BY <1>8 DEF TypeOK, dialFails
<1>9. ASSUME NEW a \in Attempts, discardClosed(a) PROVE TypeOK'
  BY <1>9 DEF TypeOK, discardClosed
<1>10. ASSUME NEW a \in Attempts, failedClosed(a) PROVE TypeOK'
  BY <1>10, ReconnectType DEF TypeOK, failedClosed
<1>11. ASSUME NEW a \in Attempts, peerCloses(a) PROVE TypeOK'
  BY <1>11 DEF TypeOK, peerCloses
<1>12. ASSUME NEW a \in Attempts, streamEnds(a) PROVE TypeOK'
  BY <1>12, ReconnectType DEF TypeOK, streamEnds
<1>13. CASE UNCHANGED vars
  BY <1>13 DEF TypeOK, vars
<1> QED
  BY <1>1, <1>2, <1>3, <1>4, <1>5, <1>6, <1>7, <1>8, <1>9, <1>10, <1>11, <1>12, <1>13
  DEF Next, connectStep

(* A service that was never started is well typed.                           *)
LEMMA TypeInit == Init => TypeOK
<1> SUFFICES ASSUME Init PROVE TypeOK
  OBVIOUS
<1>1. attempt \in 0 .. MaxDelayAttempt /\ stopping \in 0 .. MaxStops
  BY ConstantsAssumption DEF Init, MaxDelayAttempt
<1>2. pc \in [Attempts -> {"idle", "ticket", "ready", "discard", "failed"}]
  BY DEF Init
<1>3. sock \in [Attempts -> {"none", "dialing", "open", "closed"}]
  BY DEF Init
<1> QED BY <1>1, <1>2, <1>3, Zenon DEF Init, TypeOK

(* The fields of the service and its attempts have their types.              *)
THEOREM TypeCorrect == Spec => []TypeOK
BY TypeInit, TypeStep, PTL DEF Spec

-----------------------------------------------------------------------------
(* Never stranded.  NeverStranded counts the routine that only discards a     *)
(* socket opened after a stop; the induction needs one that will go on.       *)

WillGoOn(a) == pc[a] \in {"ticket", "ready", "failed"}

Alive == ~stopped => \/ \E a \in Attempts : WillGoOn(a)
                     \/ timer = "armed"
                     \/ listened # {}

AliveInv == TypeOK /\ Alive

(* No step leaves a service that is not stopped without a way on.            *)
LEMMA AliveStep == AliveInv /\ [Next]_vars => AliveInv'
<1> SUFFICES ASSUME AliveInv, [Next]_vars PROVE Alive'
  BY TypeStep DEF AliveInv
<1> USE DEF AliveInv
<1>1. CASE start
  <2> PICK a \in Attempts : BeginConnect(a)
    BY <1>1 DEF start
  <2> QED BY BeginType DEF Alive, WillGoOn
<1>2. CASE stopCall
  BY <1>2 DEF Alive, stopCall
<1>3. CASE stopFinish
  BY <1>3 DEF Alive, stopFinish, WillGoOn
<1>4. CASE timerFires
  <2> PICK a \in Attempts : BeginConnect(a)
    BY <1>4 DEF timerFires
  <2> QED BY BeginType DEF Alive, WillGoOn
<1>5. ASSUME NEW a \in Attempts, ticketAnswered(a) PROVE Alive'
  BY <1>5 DEF TypeOK, Alive, ticketAnswered, WillGoOn
<1>6. ASSUME NEW a \in Attempts, ticketMissing(a) PROVE Alive'
  BY <1>6, ReconnectType DEF Alive, ticketMissing
<1>7. ASSUME NEW a \in Attempts, ready(a) PROVE Alive'
  BY <1>7 DEF Alive, ready
<1>8. ASSUME NEW a \in Attempts, dialFails(a) PROVE Alive'
  BY <1>8 DEF TypeOK, Alive, dialFails, WillGoOn
<1>9. ASSUME NEW a \in Attempts, discardClosed(a) PROVE Alive'
  BY <1>9 DEF TypeOK, Alive, discardClosed, WillGoOn
<1>10. ASSUME NEW a \in Attempts, failedClosed(a) PROVE Alive'
  BY <1>10, ReconnectType DEF Alive, failedClosed
<1>11. ASSUME NEW a \in Attempts, peerCloses(a) PROVE Alive'
  BY <1>11 DEF Alive, peerCloses, WillGoOn
<1>12. ASSUME NEW a \in Attempts, streamEnds(a) PROVE Alive'
  BY <1>12, ReconnectType DEF Alive, streamEnds
<1>13. CASE UNCHANGED vars
  BY <1>13 DEF Alive, vars, WillGoOn
<1> QED
  BY <1>1, <1>2, <1>3, <1>4, <1>5, <1>6, <1>7, <1>8, <1>9, <1>10, <1>11, <1>12, <1>13
  DEF Next, connectStep

(* However starts, stops, answers and failures interleave, a service that    *)
(* was started has something that brings it back.                            *)
THEOREM NeverStrandedCorrect == Spec => []NeverStranded
<1>1. Init => AliveInv
  BY TypeInit DEF Init, AliveInv, Alive
<1>2. AliveInv => NeverStranded
  BY DEF AliveInv, Alive, WillGoOn, NeverStranded, InFlight
<1> QED BY <1>1, <1>2, AliveStep, PTL DEF Spec

-----------------------------------------------------------------------------
(* isConnected.  While no stop() waits, the channel is gone from a stopped    *)
(* service and listened to in a started one.                                  *)

ChannelIsLive ==
  stopping = 0 => /\ stopped => channel = NoChannel
                  /\ channel # NoChannel => channel \in listened

ChannelInv == TypeOK /\ ChannelIsLive

(* No step leaves a channel in the field that nobody listens to.             *)
LEMMA ChannelStep == ChannelInv /\ [Next]_vars => ChannelInv'
<1> SUFFICES ASSUME ChannelInv, [Next]_vars PROVE ChannelIsLive'
  BY TypeStep DEF ChannelInv
<1> USE DEF ChannelInv, ChannelIsLive
<1>1. CASE start
  BY <1>1 DEF start
<1>2. CASE stopCall
  BY <1>2 DEF stopCall, TypeOK
<1>3. CASE stopFinish
  BY <1>3 DEF stopFinish
<1>4. CASE timerFires
  BY <1>4 DEF timerFires
<1>5. ASSUME NEW a \in Attempts, ticketAnswered(a) PROVE ChannelIsLive'
  BY <1>5 DEF ticketAnswered
<1>6. ASSUME NEW a \in Attempts, ticketMissing(a) PROVE ChannelIsLive'
  BY <1>6, ReconnectType DEF ticketMissing
<1>7. ASSUME NEW a \in Attempts, ready(a) PROVE ChannelIsLive'
  BY <1>7 DEF ready
<1>8. ASSUME NEW a \in Attempts, dialFails(a) PROVE ChannelIsLive'
  BY <1>8 DEF dialFails
<1>9. ASSUME NEW a \in Attempts, discardClosed(a) PROVE ChannelIsLive'
  BY <1>9 DEF discardClosed
<1>10. ASSUME NEW a \in Attempts, failedClosed(a) PROVE ChannelIsLive'
  BY <1>10, ReconnectType DEF failedClosed
<1>11. ASSUME NEW a \in Attempts, peerCloses(a) PROVE ChannelIsLive'
  BY <1>11 DEF peerCloses
<1>12. ASSUME NEW a \in Attempts, streamEnds(a) PROVE ChannelIsLive'
  BY <1>12, ReconnectType DEF streamEnds
<1>13. CASE UNCHANGED vars
  BY <1>13 DEF vars
<1> QED
  BY <1>1, <1>2, <1>3, <1>4, <1>5, <1>6, <1>7, <1>8, <1>9, <1>10, <1>11, <1>12, <1>13
  DEF Next, connectStep

(* The chat may switch its poll off when isConnected says so: the service     *)
(* listens to that channel, unless a stop() is about to drop it.              *)
THEOREM ConnectedCorrect == Spec => []ConnectedMeansListening
<1>1. Init => ChannelInv
  BY TypeInit DEF Init, ChannelInv, ChannelIsLive
<1>2. ChannelInv => ConnectedMeansListening
  BY DEF ChannelInv, ChannelIsLive, ConnectedMeansListening, isConnected
<1> QED BY <1>1, <1>2, ChannelStep, PTL DEF Spec
-----------------------------------------------------------------------------
(* One socket, and silence after a stop, while starts and stops do not        *)
(* overlap.  Then the service is always in one of a few shapes: a single      *)
(* connect routine under way, an armed timer, a live channel, or nothing; and  *)
(* whatever is open or listened to is the channel itself.                     *)

OneRoutine ==
  /\ \A a, b \in InFlight : a = b
  /\ InFlight # {} => timer = "none" /\ channel = NoChannel
  /\ timer = "armed" => channel = NoChannel

OnlyTheChannel ==
  /\ \A a \in Attempts : sock[a] = "open" => a = channel
  /\ \A a \in listened : a = channel /\ a = subscription

StopIsStop ==
  /\ stopped => timer = "none" /\ listened = {}
  /\ stopping > 0 => stopped
  /\ stopped /\ stopping = 0 => channel = NoChannel

Settled == OneRoutine /\ OnlyTheChannel /\ StopIsStop

SettledInv == TypeOK /\ (~overlapped => Settled)

(* Without overlap, every step keeps the service settled.                    *)
LEMMA SettledStep == SettledInv /\ [Next]_vars => SettledInv'
<1> SUFFICES ASSUME SettledInv, [Next]_vars, ~overlapped' PROVE Settled'
  BY TypeStep DEF SettledInv
<1>0. ~overlapped /\ TypeOK
  BY DEF SettledInv, Next, start, stopCall, stopFinish, timerFires, connectStep, ticketAnswered,
         ticketMissing, ready, dialFails, discardClosed, failedClosed, peerCloses, streamEnds, vars,
         TypeOK
<1>a. Settled
  BY <1>0 DEF SettledInv
<1> USE <1>0, <1>a, ConstantsAssumption
    DEF TypeOK, Settled, OneRoutine, OnlyTheChannel, StopIsStop, InFlight
<1>1. CASE start
  <2> PICK a \in Attempts : BeginConnect(a)
    BY <1>1 DEF start
  <2>0. ~(stopping > 0 \/ InFlight # {})
    BY ONLY <1>1, ~overlapped', Zenon DEF start
  <2>1. stopping = 0 /\ InFlight = {}
    BY <2>0
  <2> QED BY <1>1, <2>1 DEF start, BeginConnect
<1>2. CASE stopCall
  BY <1>2 DEF stopCall
<1>3. CASE stopFinish
  BY <1>3 DEF stopFinish
<1>4. CASE timerFires
  <2> PICK a \in Attempts : BeginConnect(a)
    BY <1>4 DEF timerFires
  <2> QED BY <1>4 DEF timerFires, BeginConnect
<1>5. ASSUME NEW a \in Attempts, ticketAnswered(a) PROVE Settled'
  BY <1>5 DEF ticketAnswered
<1>6. ASSUME NEW a \in Attempts, ticketMissing(a) PROVE Settled'
  BY <1>6 DEF ticketMissing, scheduleReconnect
<1>7. ASSUME NEW a \in Attempts, ready(a) PROVE Settled'
  <2>1. CASE stopped
    BY <1>7, <2>1 DEF ready
  <2>2. CASE ~stopped
    BY <1>7, <2>2 DEF ready
  <2> QED BY <2>1, <2>2
<1>8. ASSUME NEW a \in Attempts, dialFails(a) PROVE Settled'
  BY <1>8 DEF dialFails
<1>9. ASSUME NEW a \in Attempts, discardClosed(a) PROVE Settled'
  BY <1>9 DEF discardClosed
<1>10. ASSUME NEW a \in Attempts, failedClosed(a) PROVE Settled'
  BY <1>10 DEF failedClosed, scheduleReconnect
<1>11. ASSUME NEW a \in Attempts, peerCloses(a) PROVE Settled'
  BY <1>11 DEF peerCloses
<1>12. ASSUME NEW a \in Attempts, streamEnds(a) PROVE Settled'
  BY <1>12 DEF streamEnds, scheduleReconnect
<1>13. CASE UNCHANGED vars
  BY <1>13 DEF vars
<1> QED
  BY <1>1, <1>2, <1>3, <1>4, <1>5, <1>6, <1>7, <1>8, <1>9, <1>10, <1>11, <1>12, <1>13
  DEF Next, connectStep

(* A service that was never started is settled.                              *)
LEMMA SettledInit == Init => SettledInv
<1> SUFFICES ASSUME Init PROVE Settled
  BY TypeInit DEF SettledInv
<1> QED BY DEF Init, Settled, OneRoutine, OnlyTheChannel, StopIsStop, InFlight

(* A stopped service hears nothing and leaves no socket open, as long as no   *)
(* start() overlapped an earlier stop() or connect routine.                   *)
THEOREM StoppedCorrect == Spec => []StoppedIsQuiet
<1>1. SettledInv => StoppedIsQuiet
  BY ConstantsAssumption
  DEF SettledInv, Settled, OnlyTheChannel, StopIsStop, StoppedIsQuiet
<1> QED BY <1>1, SettledInit, SettledStep, PTL DEF Spec

(* Under the same condition there is one open socket at most.                 *)
THEOREM OneSocketCorrect == Spec => []OneSocket
<1>1. SettledInv => OneSocket
  <2> SUFFICES ASSUME SettledInv, ~overlapped
               PROVE  Cardinality({a \in Attempts : sock[a] = "open"}) <= 1
    BY DEF OneSocket
  <2>1. {a \in Attempts : sock[a] = "open"} \in {{}, {channel}}
    BY DEF SettledInv, Settled, OnlyTheChannel
  <2>2. Cardinality({}) = 0 /\ Cardinality({channel}) = 1
    BY FS_EmptySet, FS_Singleton
  <2> QED BY <2>1, <2>2
<1> QED BY <1>1, SettledInit, SettledStep, PTL DEF Spec
=============================================================================
