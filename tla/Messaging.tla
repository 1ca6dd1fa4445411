------------------------------ MODULE Messaging ------------------------------
(***************************************************************************)
(* Conversations between a client and a listing agent: opening a thread,     *)
(* sending a message, reading a thread, and the jobs the API leaves in the    *)
(* database queue for the realtime server and the push service.              *)
(*                                                                          *)
(* As in ViewingRequest, a handler is a row of database round trips without  *)
(* locks between them.  sendMessage() commits the message first and only     *)
(* then writes the recipient's notification, the push job and the event.     *)
(***************************************************************************)
EXTENDS Naturals, Sequences, FiniteSets

CONSTANTS
  Users,        \* accounts
  Properties,   \* listed properties
  AgentOf,      \* [Properties -> Users], the account of the listing agent
  Workers,      \* PHP workers serving HTTP requests
  NoJob,        \* "the worker is idle"
  MaxConvs,     \* bound: threads opened
  MaxMessages,  \* bound: messages sent
  MaxOps        \* bound: HTTP requests served in a behaviour

ASSUME ConstantsAssumption ==
  /\ AgentOf \in [Properties -> Users]
  /\ MaxConvs \in Nat /\ MaxMessages \in Nat /\ MaxOps \in Nat

VARIABLES
  convs,      \* conversations, in order of id
  messages,   \* messages, in order of id
  notif,      \* the MessageReceived notification of each message
  job,        \* what each worker is doing
  queue,      \* the jobs table
  published,  \* events the realtime server was given for each user
  ops,        \* HTTP requests served so far (bounded by MaxOps)
  faulted     \* a fault has happened (history variable)

vars == <<convs, messages, notif, job, queue, published, ops, faulted>>

-----------------------------------------------------------------------------
MsgIds  == 1 .. MaxMessages
ConvIds == 1 .. MaxConvs

Conversation == [client : Users, agent : Users, property : Properties]
Message      == [conv : ConvIds, sender : Users, read : BOOLEAN]

Events == {"message.received", "conversation.read", "notifications.updated"}

(* A queued job, or an event once published; msg is 0 for thread events.     *)
QueuedJob == [kind : Events \cup {"push"}, to : Users, conv : ConvIds, msg : 0 .. MaxMessages]

Job == [pc   : {"create", "refetch", "notify", "push", "event",
                "markNotifs", "updated", "receipt"},
        user : Users,
        prop : Properties,
        conv : 0 .. MaxConvs,
        msg  : 0 .. MaxMessages,
        readSome : BOOLEAN]     \* the thread's UPDATE marked at least one message

ASSUME JobAssumption == NoJob \notin Job

ensureParticipant(u, c) == u \in {convs[c].client, convs[c].agent}

otherUser(u, c) == IF convs[c].client = u THEN convs[c].agent ELSE convs[c].client

Recipient(m) == otherUser(messages[m].sender, messages[m].conv)

ThreadsOf(u, a) == {c \in DOMAIN convs : convs[c].client = u /\ convs[c].agent = a}

QJob(kind, to, c, m) == [kind |-> kind, to |-> to, conv |-> c, msg |-> m]

-----------------------------------------------------------------------------
Init ==
  /\ convs = <<>>
  /\ messages = <<>>
  /\ notif = [m \in MsgIds |-> "none"]
  /\ job = [w \in Workers |-> NoJob]
  /\ queue = <<>>
  /\ published = [u \in Users |-> {}]
  /\ ops = 0
  /\ faulted = FALSE

Busy(w, pc) == job[w] # NoJob /\ job[w].pc = pc

Idle(w) == job[w] = NoJob /\ ops < MaxOps /\ ops' = ops + 1

Goto(w, pc) == job' = [job EXCEPT ![w].pc = pc]
Finish(w)   == job' = [job EXCEPT ![w] = NoJob]

-----------------------------------------------------------------------------
(* POST /conversations: look the pair up, create the thread when there is    *)
(* none, and look again when the unique index says another request was       *)
(* faster.                                                                   *)

StoreFind(w, u, p) ==
  /\ Idle(w)
  /\ AgentOf[p] # u
  /\ job' = IF ThreadsOf(u, AgentOf[p]) # {} THEN job
            ELSE [job EXCEPT ![w] = [pc |-> "create", user |-> u, prop |-> p,
                                     conv |-> 0, msg |-> 0, readSome |-> FALSE]]
  /\ UNCHANGED <<convs, messages, notif, queue, published, faulted>>

(* Mutant of violatesUnique: the index before 2026_08_26, with the property. *)
violatesUniqueLegacy(row) == \E c \in DOMAIN convs : convs[c] = row

violatesUnique(row) ==
  \E c \in DOMAIN convs : convs[c].client = row.client /\ convs[c].agent = row.agent

StoreCreate(w) ==
  /\ Busy(w, "create")
  /\ LET row == [client |-> job[w].user, agent |-> AgentOf[job[w].prop], property |-> job[w].prop]
     IN  IF violatesUnique(row)
         THEN Goto(w, "refetch") /\ UNCHANGED convs
         ELSE /\ Len(convs) < MaxConvs
              /\ convs' = Append(convs, row)
              /\ Finish(w)
  /\ UNCHANGED <<messages, notif, queue, published, ops, faulted>>

StoreRefetch(w) ==
  /\ Busy(w, "refetch")
  /\ Finish(w)
  /\ UNCHANGED <<convs, messages, notif, queue, published, ops, faulted>>

-----------------------------------------------------------------------------
(* POST /conversations/{c}/messages. *)

(* Mutant of SendCommit: the jobs are queued before the notification.        *)
SendCommitPushFirst(w, u, c) ==
  /\ Idle(w)
  /\ ensureParticipant(u, c)
  /\ Len(messages) < MaxMessages
  /\ messages' = Append(messages, [conv |-> c, sender |-> u, read |-> FALSE])
  /\ job' = [job EXCEPT ![w] = [pc |-> "push", user |-> u, prop |-> convs[c].property,
                                conv |-> c, msg |-> Len(messages) + 1, readSome |-> FALSE]]
  /\ UNCHANGED <<convs, notif, queue, published, faulted>>

(* The transaction: the message and the thread's last_message_at.            *)
SendCommit(w, u, c) ==
  /\ Idle(w)
  /\ ensureParticipant(u, c)
  /\ Len(messages) < MaxMessages
  /\ messages' = Append(messages, [conv |-> c, sender |-> u, read |-> FALSE])
  /\ job' = [job EXCEPT ![w] = [pc |-> "notify", user |-> u, prop |-> convs[c].property,
                                conv |-> c, msg |-> Len(messages) + 1, readSome |-> FALSE]]
  /\ UNCHANGED <<convs, notif, queue, published, faulted>>

(* The MessageReceived notification is written to the recipient's account.   *)
Notified(m) == [notif EXCEPT ![m] = "unread"]

SendNotify(w) ==
  /\ Busy(w, "notify")
  /\ notif' = Notified(job[w].msg)
  /\ Goto(w, "push")
  /\ UNCHANGED <<convs, messages, queue, published, ops, faulted>>

(* The push job depends on the recipient's preference, and a queue that      *)
(* refuses it is only reported: the handler goes on without it.              *)
SendPush(w) ==
  /\ Busy(w, "push")
  /\ \/ queue' = Append(queue, QJob("push", Recipient(job[w].msg), job[w].conv, job[w].msg))
     \/ UNCHANGED queue
  /\ Goto(w, "event")
  /\ UNCHANGED <<convs, messages, notif, published, ops, faulted>>

(* Mutant of SendEvent: the event goes back to the sender.                   *)
SendEventToSender(w) ==
  /\ Busy(w, "event")
  /\ queue' = Append(queue, QJob("message.received", job[w].user, job[w].conv, job[w].msg))
  /\ Finish(w)
  /\ UNCHANGED <<convs, messages, notif, published, ops, faulted>>

SendEvent(w) ==
  /\ Busy(w, "event")
  /\ queue' = Append(queue, QJob("message.received", Recipient(job[w].msg), job[w].conv, job[w].msg))
  /\ Finish(w)
  /\ UNCHANGED <<convs, messages, notif, published, ops, faulted>>

-----------------------------------------------------------------------------
(* GET /conversations/{c}/messages: marks what the other party sent as read, *)
(* then the notifications linked to the thread, then queues the events.      *)

ReadMessages(w, u, c) ==
  /\ Idle(w)
  /\ ensureParticipant(u, c)
  /\ LET unread == {m \in DOMAIN messages : /\ messages[m].conv = c
                                            /\ messages[m].sender # u
                                            /\ ~messages[m].read}
     IN  /\ messages' = [m \in DOMAIN messages |->
                           IF m \in unread THEN [messages[m] EXCEPT !.read = TRUE] ELSE messages[m]]
         /\ job' = [job EXCEPT ![w] = [pc |-> "markNotifs", user |-> u, prop |-> convs[c].property,
                                       conv |-> c, msg |-> 0, readSome |-> unread # {}]]
  /\ UNCHANGED <<convs, notif, queue, published, faulted>>

UnreadNotifs(u, c) ==
  {m \in DOMAIN messages : messages[m].conv = c /\ Recipient(m) = u /\ notif[m] = "unread"}

ReadNotifs(w) ==
  /\ Busy(w, "markNotifs")
  /\ LET linked == UnreadNotifs(job[w].user, job[w].conv)
     IN  /\ notif' = [m \in MsgIds |-> IF m \in linked THEN "read" ELSE notif[m]]
         /\ IF job[w].readSome \/ linked # {} THEN Goto(w, "updated") ELSE Finish(w)
  /\ UNCHANGED <<convs, messages, queue, published, ops, faulted>>

(* Mutant of QueueUpdated: a receipt follows whenever anything was marked.   *)
QueueUpdatedAlwaysReceipt(w) ==
  /\ Busy(w, "updated")
  /\ queue' = Append(queue, QJob("notifications.updated", job[w].user, job[w].conv, 0))
  /\ Goto(w, "receipt")
  /\ UNCHANGED <<convs, messages, notif, published, ops, faulted>>

QueueUpdated(w) ==
  /\ Busy(w, "updated")
  /\ queue' = Append(queue, QJob("notifications.updated", job[w].user, job[w].conv, 0))
  /\ IF job[w].readSome THEN Goto(w, "receipt") ELSE Finish(w)
  /\ UNCHANGED <<convs, messages, notif, published, ops, faulted>>

(* Mutant of QueueReceipt: the receipt is sent to the reader.                *)
QueueReceiptToReader(w) ==
  /\ Busy(w, "receipt")
  /\ queue' = Append(queue, QJob("conversation.read", job[w].user, job[w].conv, 0))
  /\ Finish(w)
  /\ UNCHANGED <<convs, messages, notif, published, ops, faulted>>

QueueReceipt(w) ==
  /\ Busy(w, "receipt")
  /\ queue' = Append(queue, QJob("conversation.read", otherUser(job[w].user, job[w].conv),
                                 job[w].conv, 0))
  /\ Finish(w)
  /\ UNCHANGED <<convs, messages, notif, published, ops, faulted>>

(* POST /notifications/{id}/read, from the list of notifications.            *)
ReadOneNotification(m) ==
  /\ m \in DOMAIN messages
  /\ notif[m] = "unread"
  /\ notif' = [notif EXCEPT ![m] = "read"]
  /\ UNCHANGED <<convs, messages, job, queue, published, ops, faulted>>

-----------------------------------------------------------------------------
(* The queue worker. An event is handed to the realtime server; a push job   *)
(* loads the notification and is done with the queue either way.             *)
RunJob ==
  /\ queue # <<>>
  /\ LET q == Head(queue)
     IN  published' = IF q.kind = "push" THEN published
                      ELSE [published EXCEPT ![q.to] = @ \cup {q}]
  /\ queue' = Tail(queue)
  /\ UNCHANGED <<convs, messages, notif, job, ops, faulted>>

(* Faults: the publisher swallows every failure of the HTTP call, so the job *)
(* counts as done and is not tried again; the API reports a refused dispatch *)
(* and goes on; a worker dies.                                               *)
PublishFails ==
  /\ queue # <<>> /\ Head(queue).kind # "push"
  /\ queue' = Tail(queue)
  /\ faulted' = TRUE
  /\ UNCHANGED <<convs, messages, notif, job, published, ops>>

DispatchFails(w) ==
  /\ \/ Busy(w, "event") /\ Finish(w)
     \/ Busy(w, "updated") /\ (IF job[w].readSome THEN Goto(w, "receipt") ELSE Finish(w))
     \/ Busy(w, "receipt") /\ Finish(w)
  /\ faulted' = TRUE
  /\ UNCHANGED <<convs, messages, notif, queue, published, ops>>

Abort(w) ==
  /\ job[w] # NoJob
  /\ Finish(w)
  /\ faulted' = TRUE
  /\ UNCHANGED <<convs, messages, notif, queue, published, ops>>

-----------------------------------------------------------------------------
Arrive(w) ==
  \E u \in Users :
    \/ \E p \in Properties : StoreFind(w, u, p)
    \/ \E c \in DOMAIN convs : SendCommit(w, u, c) \/ ReadMessages(w, u, c)

Proceed(w) ==
  \/ StoreCreate(w) \/ StoreRefetch(w)
  \/ SendNotify(w) \/ SendPush(w) \/ SendEvent(w)
  \/ ReadNotifs(w) \/ QueueUpdated(w) \/ QueueReceipt(w)

Normal ==
  \/ \E w \in Workers : Arrive(w) \/ Proceed(w)
  \/ \E m \in MsgIds : ReadOneNotification(m)
  \/ RunJob

Fault == PublishFails \/ \E w \in Workers : DispatchFails(w) \/ Abort(w)

Next == Normal \/ Fault

Spec == Init /\ [][Next]_vars

(* Every handler that was not cut short and the queue run on.                *)
FairSpec == /\ Spec
            /\ \A w \in Workers : WF_vars(Proceed(w))
            /\ WF_vars(RunJob)
-----------------------------------------------------------------------------
(* Type invariant of the tables, the workers, the queue and the events.      *)
TypeOK ==
  /\ convs \in Seq(Conversation) /\ Len(convs) <= MaxConvs
  /\ messages \in Seq(Message) /\ Len(messages) <= MaxMessages
  /\ \A m \in DOMAIN messages : messages[m].conv \in DOMAIN convs
  /\ notif \in [MsgIds -> {"none", "unread", "read"}]
  /\ job \in [Workers -> Job \cup {NoJob}]
  /\ queue \in Seq(QueuedJob)
  /\ published \in [Users -> SUBSET QueuedJob]
  /\ ops \in 0 .. MaxOps
  /\ faulted \in BOOLEAN

(* A client and an agent share one thread, whichever of the agent's listings *)
(* the client asks from and however many requests race to open it.           *)
OneThreadPerPair ==
  \A c, d \in DOMAIN convs :
    convs[c].client = convs[d].client /\ convs[c].agent = convs[d].agent => c = d

InFlight == {queue[i] : i \in DOMAIN queue} \cup UNION {published[u] : u \in Users}

(* What a job or an event refers to is in the database when a worker or a    *)
(* device looks it up, at any moment and after any worker death: the push    *)
(* job would otherwise return without a word and never be tried again.       *)
JobsFindNotification ==
  \A q \in InFlight : q.msg # 0 => /\ q.msg \in DOMAIN messages
                                   /\ q.to = Recipient(q.msg)
                                   /\ notif[q.msg] # "none"

(* A sender is told the thread was read only when the reader did read one of *)
(* the sender's messages, not merely a notification that arrived late.       *)
ReceiptIsTrue ==
  \A q \in InFlight : q.kind = "conversation.read" =>
    \E m \in DOMAIN messages : /\ messages[m].conv = q.conv
                               /\ messages[m].sender = q.to
                               /\ messages[m].read

Quiescent == queue = <<>> /\ \A w \in Workers : job[w] = NoJob

(* Without faults nothing is forgotten: once all is processed every message  *)
(* has its notification, the recipient's event was published, and a sender   *)
(* whose message was read got a receipt, even when two readers raced.        *)
NothingForgotten ==
  Quiescent /\ ~faulted =>
    \A m \in DOMAIN messages :
      LET c == messages[m].conv
      IN  /\ notif[m] # "none"
          /\ QJob("message.received", Recipient(m), c, m) \in published[Recipient(m)]
          /\ messages[m].read =>
               QJob("conversation.read", messages[m].sender, c, 0) \in published[messages[m].sender]

(* A committed message is eventually announced to its recipient, unless a    *)
(* fault happens.                                                            *)
MessageIsAnnounced ==
  \A m \in MsgIds, u \in Users :
    (m \in DOMAIN messages /\ Recipient(m) = u)
    ~> (faulted \/ \E q \in published[u] : q.kind = "message.received" /\ q.msg = m)
=============================================================================
