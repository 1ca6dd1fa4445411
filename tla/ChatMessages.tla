----------------------------- MODULE ChatMessages -----------------------------
(***************************************************************************)
(* The message list of an open chat in the mobile app: ChatMessagesNotifier   *)
(* with its first load, its in-place refresh and its send, driven by the      *)
(* WebSocket events of the fan-out server or, without a connection, by the    *)
(* six-second poll.                                                          *)
(*                                                                          *)
(* A list is the set of message ids in it.  A request is read by the server  *)
(* at one moment and answered later; answers may overtake each other.        *)
(***************************************************************************)
EXTENDS Naturals, FiniteSets

CONSTANTS
  Mine,       \* messages this user will send
  Theirs,     \* messages the other party will send
  NoLoad,     \* no request
  Pending,    \* the server has not read it yet
  NoValue,    \* state.value is null
  Polling     \* the realtime service loses its connection now and then: the
              \* poll runs, and an event may find nobody connected

ASSUME ConstantsAssumption ==
  /\ Polling \in BOOLEAN
  /\ \A S \in SUBSET (Mine \cup Theirs) : S # NoValue

VARIABLES
  server,     \* messages of the conversation in the database
  shown,      \* state.value
  build,      \* answer of the first load, Pending, or NoLoad
  load,       \* the same for refresh(); _refreshInFlight is load # NoLoad
  sending,    \* what the send box is posting: at most one message
  answered,   \* own messages whose POST was answered
  events,     \* message.received events on their way
  overtaken   \* a POST was answered while a load was under way (history variable)

vars == <<server, shown, build, load, sending, answered, events, overtaken>>

Messages == Mine \cup Theirs

List == IF shown = NoValue THEN {} ELSE shown

-----------------------------------------------------------------------------
(* Opening a chat starts its first load, or refreshes the list that is there. *)
Init ==
  /\ server = {}
  /\ \/ shown = NoValue /\ build = Pending /\ load = NoLoad
     \/ shown = {} /\ build = NoLoad /\ load = Pending
  /\ sending = {} /\ answered = {} /\ events = {}
  /\ overtaken = FALSE

(* The other party's message is committed and announced over the WebSocket.  *)
OtherSends(m) ==
  /\ m \in Theirs \ server
  /\ server' = server \cup {m}
  /\ \/ events' = events \cup {m}
     \/ Polling /\ events' = events
  /\ UNCHANGED <<shown, build, load, sending, answered, overtaken>>

(* The server answers GET messages with what is there at that moment.        *)
BuildIsRead ==
  /\ build = Pending
  /\ build' = server
  /\ UNCHANGED <<server, shown, load, sending, answered, events, overtaken>>

RefreshIsRead ==
  /\ load = Pending
  /\ load' = server
  /\ UNCHANGED <<server, shown, build, sending, answered, events, overtaken>>

-----------------------------------------------------------------------------
(* Mutant of refresh: the check of _refreshInFlight is inverted.             *)
refreshInverted == load' = IF load = NoLoad THEN load ELSE Pending

(* refresh(): nothing happens while one is under way.                        *)
refresh == load' = IF load = NoLoad THEN Pending ELSE load

BuildDone ==
  /\ build \notin {NoLoad, Pending}
  /\ shown' = build
  /\ build' = NoLoad
  /\ UNCHANGED <<server, load, sending, answered, events, overtaken>>

BuildFails ==
  /\ build # NoLoad
  /\ build' = NoLoad
  /\ UNCHANGED <<server, shown, load, sending, answered, events, overtaken>>

RefreshDone ==
  /\ load \notin {NoLoad, Pending}
  /\ shown' = load
  /\ load' = NoLoad
  /\ UNCHANGED <<server, build, sending, answered, events, overtaken>>

RefreshFails ==
  /\ load # NoLoad
  /\ load' = NoLoad
  /\ UNCHANGED <<server, shown, build, sending, answered, events, overtaken>>

-----------------------------------------------------------------------------
(* The send button: one message at a time.                                   *)
SendPost(m) ==
  /\ sending = {} /\ m \in Mine \ server
  /\ sending' = {m}
  /\ UNCHANGED <<server, shown, build, load, answered, events, overtaken>>

SendCommit ==
  /\ sending \ server # {}
  /\ server' = server \cup sending
  /\ UNCHANGED <<shown, build, load, sending, answered, events, overtaken>>

(* Mutant of SendDone: the list is left to the refresh.                      *)
SendDoneOnlyRefreshes ==
  /\ sending # {} /\ sending \subseteq server
  /\ shown' = List
  /\ answered' = answered \cup sending
  /\ sending' = {}
  /\ overtaken' = (overtaken \/ build # NoLoad \/ load # NoLoad)
  /\ refresh
  /\ UNCHANGED <<server, build, events>>

(* The POST is answered: the message joins the list and refresh() is called. *)
SendDone ==
  /\ sending # {} /\ sending \subseteq server
  /\ shown' = List \cup sending
  /\ answered' = answered \cup sending
  /\ sending' = {}
  /\ overtaken' = (overtaken \/ build # NoLoad \/ load # NoLoad)
  /\ refresh
  /\ UNCHANGED <<server, build, events>>

(* The POST fails before the commit, or its answer is lost after it.         *)
SendFails ==
  /\ sending # {}
  /\ sending' = {}
  /\ UNCHANGED <<server, shown, build, load, answered, events, overtaken>>

-----------------------------------------------------------------------------
Event(m) ==
  /\ m \in events
  /\ events' = events \ {m}
  /\ refresh
  /\ UNCHANGED <<server, shown, build, sending, answered, overtaken>>

Poll ==
  /\ Polling
  /\ refresh
  /\ UNCHANGED <<server, shown, build, sending, answered, events, overtaken>>

(* The error screen's retry button invalidates the provider.                 *)
Retry ==
  /\ shown = NoValue /\ build = NoLoad
  /\ build' = Pending
  /\ UNCHANGED <<server, shown, load, sending, answered, events, overtaken>>

Next ==
  \/ \E m \in Messages : OtherSends(m) \/ SendPost(m) \/ Event(m)
  \/ SendCommit \/ SendDone \/ SendFails
  \/ BuildIsRead \/ RefreshIsRead \/ BuildDone \/ BuildFails
  \/ RefreshDone \/ RefreshFails
  \/ Poll \/ Retry

Spec == Init /\ [][Next]_vars

(* The poll timer keeps firing, requests are answered, and neither the       *)
(* request nor the answer of a refresh is lost for ever.                     *)
FairSpec ==
  /\ Spec
  /\ WF_vars(Poll) /\ WF_vars(BuildIsRead) /\ WF_vars(BuildDone \/ BuildFails)
  /\ WF_vars(RefreshDone \/ RefreshFails)
  /\ SF_vars(RefreshIsRead) /\ SF_vars(RefreshDone)
-----------------------------------------------------------------------------
(* Type invariant: lists hold messages, and the send box posts one at most.  *)
TypeOK ==
  /\ server \subseteq Messages
  /\ shown \in (SUBSET Messages) \cup {NoValue}
  /\ build \in (SUBSET Messages) \cup {Pending, NoLoad}
  /\ load \in (SUBSET Messages) \cup {Pending, NoLoad}
  /\ sending \subseteq Mine /\ Cardinality(sending) <= 1
  /\ answered \subseteq Mine
  /\ events \subseteq Theirs
  /\ overtaken \in BOOLEAN

(* The chat never shows a message the server does not have: one whose POST   *)
(* failed does not linger in the list.                                       *)
NothingUnsent == List \subseteq server

(* With the poll on, the chat ends up showing the whole conversation and     *)
(* goes on showing it, whatever refreshes were dropped or answers overtaken. *)
PollConverges == <>[](shown = server)

(* "A sent message appears in the chat at once, then the background refresh  *)
(* confirms it" (providers.dart:810).  It stays in the list from then on,     *)
(* whatever fails, unless a load read before its commit was still under way:  *)
(* refresh() is then dropped, and that load's answer takes the message away.  *)
SentStays == ~overtaken => answered \subseteq List
=============================================================================
