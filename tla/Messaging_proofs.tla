--------------------------- MODULE Messaging_proofs ---------------------------
(***************************************************************************)
(* Proofs about Messaging, for any number of users, listings, threads,       *)
(* messages and workers, worker deaths and lost publications included: the   *)
(* type invariant, one thread per pair, that queued jobs and receipts tell    *)
(* the truth, and that nothing is forgotten as long as no fault happens.      *)
(***************************************************************************)
EXTENDS Messaging, TLAPS

(* What a handler under way has already done, in the tables cs, ms and nf.    *)
(* A sending handler holds a message, and after the notify step its           *)
(* notification; a reading one that has marked something belongs to a thread  *)
(* in which a message of the other party is read.                             *)
SomeRead(cs, ms, u, c) ==
  \E m \in DOMAIN ms : /\ ms[m].conv = c
                       /\ ms[m].sender = IF cs[c].client = u THEN cs[c].agent ELSE cs[c].client
                       /\ ms[m].read

Sending(j) == j.pc \in {"notify", "push", "event"}
Reading(j) == j.pc \in {"markNotifs", "updated", "receipt"}

WorkerKnows(cs, ms, nf, j) ==
  /\ Sending(j) => j.msg \in DOMAIN ms /\ j.conv \in DOMAIN cs
  /\ j.pc \in {"push", "event"} => nf[j.msg] # "none"
  /\ Reading(j) => j.conv \in DOMAIN cs /\ (j.readSome => SomeRead(cs, ms, j.user, j.conv))
  /\ j.pc = "receipt" => j.readSome

WorkersKnow ==
  \A w \in Workers : job[w] # NoJob => WorkerKnows(convs, messages, notif, job[w])

SendersTakePart ==
  \A m \in DOMAIN messages : ensureParticipant(messages[m].sender, messages[m].conv)

(* What is in the queue or was published is true.                            *)
TrueJob(q) ==
  /\ q.msg # 0 => /\ q.msg \in DOMAIN messages
                  /\ q.to = Recipient(q.msg)
                  /\ notif[q.msg] # "none"
  /\ q.kind = "conversation.read" =>
       \E m \in DOMAIN messages : /\ messages[m].conv = q.conv
                                  /\ messages[m].sender = q.to
                                  /\ messages[m].read

TrueJobs == \A q \in InFlight : TrueJob(q)

MessagingInv == TypeOK /\ WorkersKnow /\ SendersTakePart /\ TrueJobs

-----------------------------------------------------------------------------
(* The tables only grow: threads keep their parties, messages their sender   *)
(* and thread, what is read stays read, notifications do not disappear.      *)
TablesGrow ==
  /\ \A c \in DOMAIN convs : c \in DOMAIN convs' /\ convs'[c] = convs[c]
  /\ \A m \in DOMAIN messages : /\ m \in DOMAIN messages'
                                /\ messages'[m].sender = messages[m].sender
                                /\ messages'[m].conv = messages[m].conv
                                /\ messages[m].read => messages'[m].read
  /\ \A m \in MsgIds : notif[m] # "none" => notif'[m] # "none"

(* The other party of a thread is an account.                                *)
LEMMA OtherIsUser ==
  ASSUME TypeOK, NEW u \in Users, NEW c \in DOMAIN convs
  PROVE  otherUser(u, c) \in Users
<1>1. convs[c] \in Conversation
  BY DEF TypeOK
<1> QED BY <1>1 DEF otherUser, Conversation

(* Every message has a recipient.                                            *)
LEMMA RecipientIsUser ==
  ASSUME TypeOK, NEW m \in DOMAIN messages
  PROVE  Recipient(m) \in Users
<1>1. messages[m] \in Message /\ messages[m].conv \in DOMAIN convs
  BY DEF TypeOK
<1> QED BY <1>1, OtherIsUser DEF Recipient, Message

(* The ids of the tables are within their bounds.                            *)
LEMMA Bounds ==
  ASSUME TypeOK
  PROVE  DOMAIN convs \subseteq ConvIds /\ DOMAIN messages \subseteq MsgIds
BY ConstantsAssumption DEF TypeOK, ConvIds, MsgIds

(* What a busy worker holds is a handler.                                    *)
LEMMA BusyIsJob ==
  ASSUME TypeOK, NEW w \in Workers, job[w] # NoJob
  PROVE  job[w] \in Job
BY DEF TypeOK

(* A handler's next step keeps the type of job.                              *)
LEMMA GotoType ==
  ASSUME TypeOK, NEW w \in Workers, job[w] # NoJob, NEW pc,
         pc \in {"refetch", "push", "event", "updated", "receipt"}, Goto(w, pc)
  PROVE  job' \in [Workers -> Job \cup {NoJob}]
BY DEF TypeOK, Goto, Job

(* An idle worker is a value job may have.                                   *)
LEMMA FinishType ==
  ASSUME TypeOK, NEW w \in Workers, Finish(w)
  PROVE  job' \in [Workers -> Job \cup {NoJob}]
BY DEF TypeOK, Finish

(* Queueing a job keeps the type of the queue.                               *)
LEMMA QueueType ==
  ASSUME TypeOK, NEW q \in QueuedJob, queue' = Append(queue, q)
  PROVE  queue' \in Seq(QueuedJob)
BY DEF TypeOK

(* A thread row that is added keeps the table's type.                        *)
LEMMA CreateType ==
  ASSUME TypeOK, Len(convs) < MaxConvs, NEW row \in Conversation,
         convs' = Append(convs, row)
  PROVE  /\ convs' \in Seq(Conversation) /\ Len(convs') <= MaxConvs
         /\ \A c \in DOMAIN convs : c \in DOMAIN convs' /\ convs'[c] = convs[c]
         /\ DOMAIN convs' = DOMAIN convs \cup {Len(convs) + 1}
         /\ convs'[Len(convs) + 1] = row
BY ConstantsAssumption DEF TypeOK

(* A message that is added keeps the table's type and the older messages.    *)
LEMMA SendType ==
  ASSUME TypeOK, Len(messages) < MaxMessages, NEW row \in Message,
         messages' = Append(messages, row)
  PROVE  /\ messages' \in Seq(Message) /\ Len(messages') <= MaxMessages
         /\ \A m \in DOMAIN messages : m \in DOMAIN messages' /\ messages'[m] = messages[m]
         /\ DOMAIN messages' = DOMAIN messages \cup {Len(messages) + 1}
         /\ messages'[Len(messages) + 1] = row
BY ConstantsAssumption DEF TypeOK

(* Marking messages as read changes nothing else about them.                 *)
LEMMA ReadType ==
  ASSUME TypeOK, NEW S,
         messages' = [m \in DOMAIN messages |->
                        IF m \in S THEN [messages[m] EXCEPT !.read = TRUE] ELSE messages[m]]
  PROVE  /\ messages' \in Seq(Message) /\ Len(messages') = Len(messages)
         /\ DOMAIN messages' = DOMAIN messages
         /\ \A m \in DOMAIN messages : /\ messages'[m].sender = messages[m].sender
                                       /\ messages'[m].conv = messages[m].conv
                                       /\ messages'[m].read = (messages[m].read \/ m \in S)
<1>1. messages \in Seq(Message)
  BY DEF TypeOK
<1>2. \A m \in DOMAIN messages : messages[m] \in Message
  BY <1>1
<1>3. DOMAIN messages' = 1 .. Len(messages) /\ Len(messages) \in Nat
  BY <1>1
<1>4. \A m \in DOMAIN messages : messages'[m] \in Message
  BY <1>2 DEF Message
<1>5. messages' \in Seq(Message) /\ Len(messages') = Len(messages)
  BY <1>3, <1>4
<1>6. \A m \in DOMAIN messages : /\ messages'[m].sender = messages[m].sender
                                 /\ messages'[m].conv = messages[m].conv
  BY <1>2 DEF Message
<1>7. ASSUME NEW m \in DOMAIN messages
      PROVE  messages'[m].read = (messages[m].read \/ m \in S)
  <2>1. CASE m \in S
    <3>1. messages'[m].read = TRUE
      BY <1>2, <2>1 DEF Message
    <3> QED BY <2>1, <3>1
  <2>2. CASE m \notin S
    <3>1. messages'[m].read = messages[m].read /\ messages[m].read \in BOOLEAN
      BY <1>2, <2>2 DEF Message
    <3> QED BY <2>2, <3>1
  <2> QED BY <2>1, <2>2
<1> QED BY <1>5, <1>6, <1>7
-----------------------------------------------------------------------------
(* The types, given what the handlers under way have done.                   *)

LEMMA TypeStep == MessagingInv /\ [Next]_vars => TypeOK'
<1> SUFFICES ASSUME MessagingInv, [Next]_vars PROVE TypeOK'
  OBVIOUS
<1>a. TypeOK /\ WorkersKnow
  BY DEF MessagingInv
<1> USE <1>a, Bounds, BusyIsJob, ConstantsAssumption
<1>1. ASSUME NEW w \in Workers, NEW u \in Users, NEW p \in Properties, StoreFind(w, u, p)
      PROVE  TypeOK'
  <2>1. job' \in [Workers -> Job \cup {NoJob}]
    BY <1>1 DEF TypeOK, StoreFind, Job
  <2>2. ops' \in 0 .. MaxOps
    BY <1>1 DEF TypeOK, StoreFind, Idle
  <2> QED BY <1>1, <2>1, <2>2 DEF TypeOK, StoreFind
<1>2. ASSUME NEW w \in Workers, StoreCreate(w) PROVE TypeOK'
  <2> DEFINE row == [client |-> job[w].user, agent |-> AgentOf[job[w].prop], property |-> job[w].prop]
  <2>1. row \in Conversation
    BY <1>2 DEF StoreCreate, Busy, Conversation, Job
  <2>2. CASE violatesUnique(row)
    <3>1. Goto(w, "refetch") /\ UNCHANGED convs
      BY <1>2, <2>2 DEF StoreCreate
    <3> QED BY <1>2, <3>1, GotoType DEF TypeOK, StoreCreate, Busy
  <2>3. CASE ~violatesUnique(row)
    <3>1. Len(convs) < MaxConvs /\ convs' = Append(convs, row) /\ Finish(w)
      BY <1>2, <2>3 DEF StoreCreate
    <3>2. convs' \in Seq(Conversation) /\ Len(convs') <= MaxConvs
          /\ \A c \in DOMAIN convs : c \in DOMAIN convs'
      BY <2>1, <3>1, CreateType
    <3> QED BY <1>2, <3>1, <3>2, FinishType DEF TypeOK, StoreCreate
  <2> QED BY <2>2, <2>3
<1>3. ASSUME NEW w \in Workers, StoreRefetch(w) PROVE TypeOK'
  BY <1>3, FinishType DEF TypeOK, StoreRefetch
<1>4. ASSUME NEW w \in Workers, NEW u \in Users, NEW c \in DOMAIN convs, SendCommit(w, u, c)
      PROVE  TypeOK'
  <2> DEFINE row == [conv |-> c, sender |-> u, read |-> FALSE]
  <2>0. convs[c] \in Conversation /\ c \in ConvIds
    BY DEF TypeOK
  <2>1. row \in Message /\ convs[c].property \in Properties
    BY <2>0 DEF Message, Conversation
  <2>2. Len(messages) < MaxMessages /\ messages' = Append(messages, row) /\ convs' = convs
    BY <1>4 DEF SendCommit
  <2>3. /\ messages' \in Seq(Message) /\ Len(messages') <= MaxMessages
        /\ \A m \in DOMAIN messages : messages'[m] = messages[m]
        /\ DOMAIN messages' = DOMAIN messages \cup {Len(messages) + 1}
        /\ messages'[Len(messages) + 1] = row
    BY <2>1, <2>2, SendType
  <2>4. \A m \in DOMAIN messages' : messages'[m].conv \in DOMAIN convs'
    BY <2>2, <2>3 DEF TypeOK
  <2>5. job' \in [Workers -> Job \cup {NoJob}]
    <3>1. Len(messages) + 1 \in 0 .. MaxMessages /\ c \in 0 .. MaxConvs
      BY <2>2 DEF TypeOK, ConvIds
    <3> QED BY <1>4, <2>1, <3>1 DEF TypeOK, SendCommit, Job
  <2>6. ops' \in 0 .. MaxOps
    BY <1>4 DEF TypeOK, SendCommit, Idle
  <2> QED BY <1>4, <2>3, <2>4, <2>5, <2>6 DEF TypeOK, SendCommit
<1>5. ASSUME NEW w \in Workers, SendNotify(w) PROVE TypeOK'
  BY <1>5, GotoType DEF TypeOK, SendNotify, Notified, Busy
<1>6. ASSUME NEW w \in Workers, job[w] # NoJob, Sending(job[w]), NEW kind,
             kind \in {"push", "message.received"}
      PROVE  QJob(kind, Recipient(job[w].msg), job[w].conv, job[w].msg) \in QueuedJob
  <2>1. job[w].msg \in DOMAIN messages /\ job[w].conv \in DOMAIN convs
    BY <1>6 DEF WorkersKnow, WorkerKnows
  <2>2. Recipient(job[w].msg) \in Users
    BY <2>1, RecipientIsUser
  <2>3. job[w].msg \in 0 .. MaxMessages /\ job[w].conv \in ConvIds
    BY <2>1 DEF MsgIds, ConvIds
  <2> QED BY <1>6, <2>2, <2>3 DEF QJob, QueuedJob, Events
<1>7. ASSUME NEW w \in Workers, SendPush(w) PROVE TypeOK'
  <2>1. job[w] # NoJob /\ Sending(job[w])
    BY <1>7 DEF SendPush, Busy, Sending
  <2>2. queue' \in Seq(QueuedJob)
    BY <1>6, <1>7, <2>1, QueueType DEF TypeOK, SendPush
  <2> QED BY <1>7, <2>1, <2>2, GotoType DEF TypeOK, SendPush
<1>8. ASSUME NEW w \in Workers, SendEvent(w) PROVE TypeOK'
  <2>1. job[w] # NoJob /\ Sending(job[w])
    BY <1>8 DEF SendEvent, Busy, Sending
  <2>2. queue' \in Seq(QueuedJob)
    BY <1>6, <1>8, <2>1, QueueType DEF SendEvent
  <2> QED BY <1>8, <2>1, <2>2, FinishType DEF TypeOK, SendEvent
<1>9. ASSUME NEW w \in Workers, NEW u \in Users, NEW c \in DOMAIN convs, ReadMessages(w, u, c)
      PROVE  TypeOK'
  <2> DEFINE unread == {m \in DOMAIN messages : /\ messages[m].conv = c
                                                /\ messages[m].sender # u
                                                /\ ~messages[m].read}
  <2>1. messages' = [m \in DOMAIN messages |->
                       IF m \in unread THEN [messages[m] EXCEPT !.read = TRUE] ELSE messages[m]]
    BY <1>9 DEF ReadMessages
  <2>2. /\ messages' \in Seq(Message) /\ Len(messages') = Len(messages)
        /\ DOMAIN messages' = DOMAIN messages
        /\ \A m \in DOMAIN messages : messages'[m].conv = messages[m].conv
    <3> HIDE DEF unread
    <3> QED BY <2>1, ReadType
  <2>3. job' \in [Workers -> Job \cup {NoJob}]
    <3>0. convs[c] \in Conversation /\ c \in ConvIds
      BY DEF TypeOK
    <3>1. convs[c].property \in Properties /\ c \in 0 .. MaxConvs
      BY <3>0 DEF Conversation, ConvIds
    <3>2. (unread # {}) \in BOOLEAN
      OBVIOUS
    <3> HIDE DEF unread
    <3>3. [pc |-> "markNotifs", user |-> u, prop |-> convs[c].property, conv |-> c, msg |-> 0,
           readSome |-> unread # {}] \in Job
      BY <3>1, <3>2 DEF Job
    <3>4. job' = [job EXCEPT ![w] = [pc |-> "markNotifs", user |-> u, prop |-> convs[c].property,
                                     conv |-> c, msg |-> 0, readSome |-> unread # {}]]
      BY <1>9 DEF ReadMessages, unread
    <3> QED BY <3>3, <3>4 DEF TypeOK
  <2>4. ops' \in 0 .. MaxOps
    BY <1>9 DEF TypeOK, ReadMessages, Idle
  <2> QED BY <1>9, <2>2, <2>3, <2>4 DEF TypeOK, ReadMessages
<1>10. ASSUME NEW w \in Workers, ReadNotifs(w) PROVE TypeOK'
  <2>1. notif' \in [MsgIds -> {"none", "unread", "read"}]
    BY <1>10 DEF TypeOK, ReadNotifs
  <2>2. job' \in [Workers -> Job \cup {NoJob}]
    BY <1>10, GotoType, FinishType DEF ReadNotifs, Busy
  <2> QED BY <1>10, <2>1, <2>2 DEF TypeOK, ReadNotifs
<1>11. ASSUME NEW w \in Workers, job[w] # NoJob, Reading(job[w])
       PROVE  /\ QJob("notifications.updated", job[w].user, job[w].conv, 0) \in QueuedJob
              /\ QJob("conversation.read", otherUser(job[w].user, job[w].conv), job[w].conv, 0)
                   \in QueuedJob
  <2>1. job[w].conv \in DOMAIN convs /\ job[w].user \in Users
    BY <1>11 DEF WorkersKnow, WorkerKnows, Job
  <2>2. otherUser(job[w].user, job[w].conv) \in Users
    BY <2>1, OtherIsUser
  <2> QED BY <2>1, <2>2 DEF QJob, QueuedJob, Events
<1>12. ASSUME NEW w \in Workers, QueueUpdated(w) PROVE TypeOK'
  <2>1. job[w] # NoJob /\ Reading(job[w])
    BY <1>12 DEF QueueUpdated, Busy, Reading
  <2>2. queue' \in Seq(QueuedJob)
    BY <1>11, <1>12, <2>1, QueueType DEF QueueUpdated
  <2>3. job' \in [Workers -> Job \cup {NoJob}]
    BY <1>12, <2>1, GotoType, FinishType DEF QueueUpdated
  <2> QED BY <1>12, <2>2, <2>3 DEF TypeOK, QueueUpdated
<1>13. ASSUME NEW w \in Workers, QueueReceipt(w) PROVE TypeOK'
  <2>1. job[w] # NoJob /\ Reading(job[w])
    BY <1>13 DEF QueueReceipt, Busy, Reading
  <2>2. queue' \in Seq(QueuedJob)
    BY <1>11, <1>13, <2>1, QueueType DEF QueueReceipt
  <2> QED BY <1>13, <2>2, FinishType DEF TypeOK, QueueReceipt
<1>14. ASSUME NEW m \in MsgIds, ReadOneNotification(m) PROVE TypeOK'
  BY <1>14 DEF TypeOK, ReadOneNotification
<1>15. CASE RunJob
  <2>1. Head(queue) \in QueuedJob /\ Tail(queue) \in Seq(QueuedJob)
    BY <1>15 DEF TypeOK, RunJob
  <2>2. published' \in [Users -> SUBSET QueuedJob]
    BY <1>15, <2>1 DEF TypeOK, RunJob, QueuedJob
  <2> QED BY <1>15, <2>1, <2>2 DEF TypeOK, RunJob
<1>16. CASE PublishFails
  <2>1. Tail(queue) \in Seq(QueuedJob)
    BY <1>16 DEF TypeOK, PublishFails
  <2> QED BY <1>16, <2>1 DEF TypeOK, PublishFails
<1>17. ASSUME NEW w \in Workers, DispatchFails(w) PROVE TypeOK'
  <2>1. job' \in [Workers -> Job \cup {NoJob}]
    BY <1>17, GotoType, FinishType DEF DispatchFails, Busy
  <2> QED BY <1>17, <2>1 DEF TypeOK, DispatchFails
<1>18. ASSUME NEW w \in Workers, Abort(w) PROVE TypeOK'
  BY <1>18, FinishType DEF TypeOK, Abort
<1>19. CASE UNCHANGED vars
  BY <1>19 DEF TypeOK, vars
<1> QED
  BY <1>1, <1>2, <1>3, <1>4, <1>5, <1>7, <1>8, <1>9, <1>10, <1>12, <1>13, <1>14, <1>15, <1>16,
     <1>17, <1>18, <1>19
  DEF Next, Normal, Fault, Arrive, Proceed
-----------------------------------------------------------------------------
(* The tables only grow, whatever the step.                                  *)

LEMMA GrowStep == TypeOK /\ [Next]_vars => TablesGrow
<1> SUFFICES ASSUME TypeOK, [Next]_vars PROVE TablesGrow
  OBVIOUS
<1> USE ConstantsAssumption
<1>0. ASSUME convs' = convs, messages' = messages, notif' = notif PROVE TablesGrow
  BY <1>0 DEF TablesGrow
<1>1. ASSUME NEW w \in Workers, StoreCreate(w) PROVE TablesGrow
  <2> DEFINE row == [client |-> job[w].user, agent |-> AgentOf[job[w].prop], property |-> job[w].prop]
  <2>1. CASE violatesUnique(row)
    BY <1>0, <1>1, <2>1 DEF StoreCreate
  <2>2. CASE ~violatesUnique(row)
    <3>1. convs' = Append(convs, row)
      BY <1>1, <2>2 DEF StoreCreate
    <3>2. convs \in Seq(Conversation)
      BY DEF TypeOK
    <3>3. \A c \in DOMAIN convs : c \in DOMAIN convs' /\ convs'[c] = convs[c]
      BY <3>1, <3>2
    <3> QED BY <1>1, <3>3 DEF TablesGrow, StoreCreate
  <2> QED BY <2>1, <2>2
<1>2. ASSUME NEW w \in Workers, NEW u \in Users, NEW c \in DOMAIN convs, SendCommit(w, u, c)
      PROVE  TablesGrow
  <2>1. messages' = Append(messages, [conv |-> c, sender |-> u, read |-> FALSE])
    BY <1>2 DEF SendCommit
  <2>2. messages \in Seq(Message)
    BY DEF TypeOK
  <2>3. \A m \in DOMAIN messages : m \in DOMAIN messages' /\ messages'[m] = messages[m]
    BY <2>1, <2>2
  <2> QED BY <1>2, <2>3 DEF TablesGrow, SendCommit
<1>3. ASSUME NEW w \in Workers, SendNotify(w) PROVE TablesGrow
  BY <1>3 DEF TypeOK, TablesGrow, SendNotify, Notified
<1>4. ASSUME NEW w \in Workers, NEW u \in Users, NEW c \in DOMAIN convs, ReadMessages(w, u, c)
      PROVE  TablesGrow
  <2> DEFINE unread == {m \in DOMAIN messages : /\ messages[m].conv = c
                                                /\ messages[m].sender # u
                                                /\ ~messages[m].read}
  <2>1. messages' = [m \in DOMAIN messages |->
                       IF m \in unread THEN [messages[m] EXCEPT !.read = TRUE] ELSE messages[m]]
    BY <1>4 DEF ReadMessages
  <2>2. /\ DOMAIN messages' = DOMAIN messages
        /\ \A m \in DOMAIN messages : /\ messages'[m].sender = messages[m].sender
                                      /\ messages'[m].conv = messages[m].conv
                                      /\ messages'[m].read = (messages[m].read \/ m \in unread)
    <3> HIDE DEF unread
    <3> QED BY <2>1, ReadType
  <2> QED BY <1>4, <2>2 DEF TablesGrow, ReadMessages
<1>5. ASSUME NEW w \in Workers, ReadNotifs(w) PROVE TablesGrow
  BY <1>5 DEF TypeOK, TablesGrow, ReadNotifs
<1>6. ASSUME NEW m \in MsgIds, ReadOneNotification(m) PROVE TablesGrow
  BY <1>6 DEF TypeOK, TablesGrow, ReadOneNotification
<1>7. ASSUME NEW w \in Workers,
             \/ \E u \in Users, p \in Properties : StoreFind(w, u, p)
             \/ StoreRefetch(w) \/ SendPush(w) \/ SendEvent(w)
             \/ QueueUpdated(w) \/ QueueReceipt(w) \/ DispatchFails(w) \/ Abort(w)
      PROVE  TablesGrow
  BY <1>0, <1>7 DEF StoreFind, StoreRefetch, SendPush, SendEvent, QueueUpdated, QueueReceipt,
                    DispatchFails, Abort
<1>8. CASE RunJob \/ PublishFails \/ UNCHANGED vars
  BY <1>0, <1>8 DEF RunJob, PublishFails, vars
<1> QED
  BY <1>1, <1>2, <1>3, <1>4, <1>5, <1>6, <1>7, <1>8 DEF Next, Normal, Fault, Arrive, Proceed

(* Growing tables keep what a handler knows and what a job says.             *)
LEMMA KnowsStays ==
  ASSUME TypeOK, TablesGrow, NEW j \in Job, WorkerKnows(convs, messages, notif, j)
  PROVE  WorkerKnows(convs', messages', notif', j)
<1>1. Sending(j) => j.msg \in DOMAIN messages' /\ j.conv \in DOMAIN convs'
  BY DEF WorkerKnows, TablesGrow
<1>2. j.pc \in {"push", "event"} => notif'[j.msg] # "none"
  BY Bounds DEF WorkerKnows, TablesGrow, Sending
<1>3. Reading(j) /\ j.readSome => SomeRead(convs', messages', j.user, j.conv)
  <2> SUFFICES ASSUME Reading(j), j.readSome
               PROVE  SomeRead(convs', messages', j.user, j.conv)
    OBVIOUS
  <2>1. j.conv \in DOMAIN convs /\ SomeRead(convs, messages, j.user, j.conv)
    BY DEF WorkerKnows
  <2>2. convs'[j.conv] = convs[j.conv]
    BY <2>1 DEF TablesGrow
  <2> QED BY <2>1, <2>2 DEF SomeRead, TablesGrow
<1> QED BY <1>1, <1>2, <1>3 DEF WorkerKnows, TablesGrow

(* What a job says stays true in tables that only grow.                      *)
LEMMA TrueStays ==
  ASSUME TypeOK, TablesGrow, NEW q, TrueJob(q)
  PROVE  TrueJob(q)'
<1>1. ASSUME NEW m \in DOMAIN messages
      PROVE  Recipient(m)' = Recipient(m)
  <2>1. messages[m].conv \in DOMAIN convs
    BY DEF TypeOK
  <2> QED BY <2>1 DEF TablesGrow, Recipient, otherUser
<1> QED BY <1>1, Bounds DEF TrueJob, TablesGrow
-----------------------------------------------------------------------------
(* What the handlers under way have done stays done.                         *)

(* A step of one worker: the others know what they knew, in grown tables.    *)
LEMMA WorkersKeep ==
  ASSUME TypeOK, TablesGrow, WorkersKnow, NEW w \in Workers,
         \A v \in Workers \ {w} : job'[v] = job[v],
         job'[w] # NoJob => WorkerKnows(convs', messages', notif', job'[w])
  PROVE  WorkersKnow'
<1>1. ASSUME NEW v \in Workers, v # w, job'[v] # NoJob
      PROVE  WorkerKnows(convs', messages', notif', job'[v])
  <2>1. job'[v] = job[v] /\ job[v] \in Job /\ WorkerKnows(convs, messages, notif, job[v])
    BY <1>1, BusyIsJob DEF WorkersKnow
  <2> QED BY <2>1, KnowsStays
<1> QED BY <1>1 DEF WorkersKnow

(* A worker that stops has nothing to know.                                  *)
LEMMA FinishKnows ==
  ASSUME TypeOK, TablesGrow, WorkersKnow, NEW w \in Workers, Finish(w)
  PROVE  WorkersKnow'
<1>1. job'[w] = NoJob /\ \A v \in Workers \ {w} : job'[v] = job[v]
  BY DEF TypeOK, Finish
<1> QED BY <1>1, WorkersKeep

(* What a handler must have done before each of its later steps.             *)
LEMMA GotoKnows ==
  ASSUME TypeOK, TablesGrow, WorkersKnow, NEW w \in Workers, job[w] # NoJob, NEW pc, Goto(w, pc),
         \/ pc = "refetch"
         \/ pc \in {"push", "event"} /\ Sending(job[w]) /\ notif'[job[w].msg] # "none"
         \/ pc = "updated" /\ Reading(job[w])
         \/ pc = "receipt" /\ Reading(job[w]) /\ job[w].readSome
  PROVE  WorkersKnow'
<1>1. job[w] \in Job /\ WorkerKnows(convs', messages', notif', job[w])
  BY BusyIsJob, KnowsStays DEF WorkersKnow
<1>2. /\ job'[w] = [job[w] EXCEPT !.pc = pc]
      /\ \A v \in Workers \ {w} : job'[v] = job[v]
  BY DEF TypeOK, Goto
<1>3. /\ job'[w].pc = pc /\ job'[w].user = job[w].user /\ job'[w].conv = job[w].conv
      /\ job'[w].msg = job[w].msg /\ job'[w].readSome = job[w].readSome
  BY <1>1, <1>2 DEF Job
<1>4. WorkerKnows(convs', messages', notif', job'[w])
  BY <1>1, <1>3 DEF WorkerKnows, Sending, Reading
<1> QED BY <1>2, <1>4, WorkersKeep

(* A request that starts work does so on an idle worker.                     *)
LEMMA StartKnows ==
  ASSUME TypeOK, TablesGrow, WorkersKnow, NEW w \in Workers, NEW j,
         job' = [job EXCEPT ![w] = j], WorkerKnows(convs', messages', notif', j)
  PROVE  WorkersKnow'
<1>1. job'[w] = j /\ \A v \in Workers \ {w} : job'[v] = job[v]
  BY DEF TypeOK
<1> QED BY <1>1, WorkersKeep

(* A step of no worker leaves every handler with what it knew.               *)
LEMMA SameJobsKnow ==
  ASSUME TypeOK, TablesGrow, WorkersKnow, job' = job
  PROVE  WorkersKnow'
<1>1. ASSUME NEW w \in Workers, job[w] # NoJob
      PROVE  WorkerKnows(convs', messages', notif', job[w])
  BY <1>1, BusyIsJob, KnowsStays DEF WorkersKnow
<1> QED BY <1>1 DEF WorkersKnow

(* What the reader marks was sent by the other party.                        *)
LEMMA ReaderKnows ==
  ASSUME TypeOK, SendersTakePart, NEW u, NEW c \in DOMAIN convs, ensureParticipant(u, c),
         NEW m \in DOMAIN messages, messages[m].conv = c, messages[m].sender # u
  PROVE  messages[m].sender = otherUser(u, c)
BY DEF SendersTakePart, ensureParticipant, otherUser

LEMMA WorkersStep == MessagingInv /\ [Next]_vars => WorkersKnow'
<1> SUFFICES ASSUME MessagingInv, [Next]_vars PROVE WorkersKnow'
  OBVIOUS
<1>a. TypeOK /\ WorkersKnow /\ SendersTakePart /\ TablesGrow
  BY GrowStep DEF MessagingInv
<1> USE <1>a
<1>1. ASSUME NEW w \in Workers, NEW u \in Users, NEW p \in Properties, StoreFind(w, u, p)
      PROVE  WorkersKnow'
  <2>1. CASE ThreadsOf(u, AgentOf[p]) # {}
    BY <1>1, <2>1, SameJobsKnow DEF StoreFind
  <2>2. CASE ThreadsOf(u, AgentOf[p]) = {}
    <3> DEFINE j == [pc |-> "create", user |-> u, prop |-> p, conv |-> 0, msg |-> 0,
                     readSome |-> FALSE]
    <3>1. job' = [job EXCEPT ![w] = j]
      BY <1>1, <2>2 DEF StoreFind
    <3>2. WorkerKnows(convs', messages', notif', j)
      BY DEF WorkerKnows, Sending, Reading
    <3> QED BY <3>1, <3>2, StartKnows
  <2> QED BY <2>1, <2>2
<1>2. ASSUME NEW w \in Workers, StoreCreate(w) PROVE WorkersKnow'
  BY <1>2, GotoKnows, FinishKnows DEF StoreCreate, Busy
<1>3. ASSUME NEW w \in Workers,
             StoreRefetch(w) \/ SendEvent(w) \/ QueueReceipt(w) \/ Abort(w)
      PROVE  WorkersKnow'
  BY <1>3, FinishKnows DEF StoreRefetch, SendEvent, QueueReceipt, Abort
<1>4. ASSUME NEW w \in Workers, NEW u \in Users, NEW c \in DOMAIN convs, SendCommit(w, u, c)
      PROVE  WorkersKnow'
  <2> DEFINE j == [pc |-> "notify", user |-> u, prop |-> convs[c].property, conv |-> c,
                   msg |-> Len(messages) + 1, readSome |-> FALSE]
  <2>1. job' = [job EXCEPT ![w] = j]
    BY <1>4 DEF SendCommit
  <2>2. j.msg \in DOMAIN messages' /\ j.conv \in DOMAIN convs'
    <3>1. messages \in Seq(Message) /\ convs' = convs
          /\ messages' = Append(messages, [conv |-> c, sender |-> u, read |-> FALSE])
      BY <1>4 DEF TypeOK, SendCommit
    <3> QED BY <3>1
  <2>3. WorkerKnows(convs', messages', notif', j)
    BY <2>2 DEF WorkerKnows, Sending, Reading
  <2> QED BY <2>1, <2>3, StartKnows
<1>5. ASSUME NEW w \in Workers, SendNotify(w) PROVE WorkersKnow'
  <2>1. job[w] # NoJob /\ Sending(job[w]) /\ job[w].msg \in DOMAIN messages
    BY <1>5 DEF SendNotify, Busy, Sending, WorkersKnow, WorkerKnows
  <2>2. notif'[job[w].msg] = "unread"
    BY <1>5, <2>1, Bounds DEF SendNotify, Notified, TypeOK
  <2> QED BY <1>5, <2>1, <2>2, GotoKnows DEF SendNotify
<1>6. ASSUME NEW w \in Workers, SendPush(w) PROVE WorkersKnow'
  <2>1. job[w] # NoJob /\ Sending(job[w]) /\ notif[job[w].msg] # "none" /\ notif' = notif
    BY <1>6 DEF SendPush, Busy, Sending, WorkersKnow, WorkerKnows
  <2> QED BY <1>6, <2>1, GotoKnows DEF SendPush
<1>7. ASSUME NEW w \in Workers, NEW u \in Users, NEW c \in DOMAIN convs, ReadMessages(w, u, c)
      PROVE  WorkersKnow'
  <2> DEFINE unread == {m \in DOMAIN messages : /\ messages[m].conv = c
                                                /\ messages[m].sender # u
                                                /\ ~messages[m].read}
             j == [pc |-> "markNotifs", user |-> u, prop |-> convs[c].property, conv |-> c,
                   msg |-> 0, readSome |-> unread # {}]
  <2>1. /\ job' = [job EXCEPT ![w] = j]
        /\ ensureParticipant(u, c)
        /\ convs' = convs
        /\ messages' = [m \in DOMAIN messages |->
                          IF m \in unread THEN [messages[m] EXCEPT !.read = TRUE] ELSE messages[m]]
    BY <1>7 DEF ReadMessages
  <2>2. ASSUME NEW m \in unread
        PROVE  SomeRead(convs', messages', u, c)
    <3>1. m \in DOMAIN messages /\ messages[m].conv = c /\ messages[m].sender # u
      BY <2>2
    <3>2. messages[m].sender = otherUser(u, c)
      BY <2>1, <3>1, ReaderKnows
    <3>3. m \in DOMAIN messages' /\ messages'[m].conv = c
          /\ messages'[m].sender = otherUser(u, c) /\ messages'[m].read
      <4> HIDE DEF unread, j
      <4>1. /\ DOMAIN messages' = DOMAIN messages
            /\ messages'[m].sender = messages[m].sender
            /\ messages'[m].conv = messages[m].conv
        BY <2>1, <3>1, ReadType
      <4>2. messages'[m].read = (messages[m].read \/ m \in unread)
        BY <2>1, <3>1, ReadType
      <4>3. messages'[m].read
        BY <4>2, <2>2
      <4> QED BY <3>1, <3>2, <4>1, <4>3
    <3> QED BY <2>1, <3>3 DEF SomeRead, otherUser
  <2>3. j.pc = "markNotifs" /\ j.user = u /\ j.conv = c /\ j.readSome = (unread # {})
    OBVIOUS
  <2>4. WorkerKnows(convs', messages', notif', j)
    <3> HIDE DEF unread, j
    <3> QED BY <2>1, <2>2, <2>3 DEF WorkerKnows, Sending, Reading
  <2> HIDE DEF unread, j
  <2> QED BY <2>1, <2>4, StartKnows
<1>8. ASSUME NEW w \in Workers, ReadNotifs(w) PROVE WorkersKnow'
  BY <1>8, GotoKnows, FinishKnows DEF ReadNotifs, Busy, Reading
<1>9. ASSUME NEW w \in Workers, QueueUpdated(w) PROVE WorkersKnow'
  BY <1>9, GotoKnows, FinishKnows DEF QueueUpdated, Busy, Reading
<1>10. ASSUME NEW w \in Workers, DispatchFails(w) PROVE WorkersKnow'
  BY <1>10, GotoKnows, FinishKnows DEF DispatchFails, Busy, Reading
<1>11. CASE RunJob \/ PublishFails \/ (\E m \in MsgIds : ReadOneNotification(m)) \/ UNCHANGED vars
  BY <1>11, SameJobsKnow DEF RunJob, PublishFails, ReadOneNotification, vars
<1> QED
  BY <1>1, <1>2, <1>3, <1>4, <1>5, <1>6, <1>7, <1>8, <1>9, <1>10, <1>11
  DEF Next, Normal, Fault, Arrive, Proceed
-----------------------------------------------------------------------------
(* A message is sent by one of the two parties of its thread.                *)

LEMMA SendersStep == MessagingInv /\ [Next]_vars => SendersTakePart'
<1> SUFFICES ASSUME MessagingInv, [Next]_vars, NEW m \in DOMAIN messages'
             PROVE  ensureParticipant(messages[m].sender, messages[m].conv)'
  BY DEF SendersTakePart
<1>a. TypeOK /\ SendersTakePart /\ TablesGrow
  BY GrowStep DEF MessagingInv
<1> USE <1>a
<1>1. CASE m \in DOMAIN messages
  <2>1. messages[m].conv \in DOMAIN convs
    BY <1>1 DEF TypeOK
  <2> QED BY <1>1, <2>1 DEF SendersTakePart, ensureParticipant, TablesGrow
<1>2. CASE m \notin DOMAIN messages
  <2>1. ASSUME NEW w \in Workers, NEW u \in Users, NEW c \in DOMAIN convs, SendCommit(w, u, c)
        PROVE  ensureParticipant(messages[m].sender, messages[m].conv)'
    <3>1. /\ messages' = Append(messages, [conv |-> c, sender |-> u, read |-> FALSE])
          /\ messages \in Seq(Message) /\ convs' = convs /\ ensureParticipant(u, c)
      BY <2>1 DEF SendCommit, TypeOK
    <3>2. messages'[m] = [conv |-> c, sender |-> u, read |-> FALSE]
      BY <1>2, <3>1
    <3> QED BY <3>1, <3>2 DEF ensureParticipant
  <2>2. ASSUME NEW w \in Workers, NEW u \in Users, NEW c \in DOMAIN convs, ReadMessages(w, u, c)
        PROVE  DOMAIN messages' = DOMAIN messages
    BY <2>2 DEF ReadMessages
  <2>3. \/ messages' = messages
        \/ \E w \in Workers, u \in Users, c \in DOMAIN convs :
             SendCommit(w, u, c) \/ ReadMessages(w, u, c)
    BY DEF Next, Normal, Fault, Arrive, Proceed, StoreFind, StoreCreate, StoreRefetch, SendNotify,
           SendPush, SendEvent, ReadNotifs, QueueUpdated, QueueReceipt, ReadOneNotification,
           RunJob, PublishFails, DispatchFails, Abort, vars
  <2> QED BY <1>2, <2>1, <2>2, <2>3
<1> QED BY <1>1, <1>2
-----------------------------------------------------------------------------
(* Jobs and events that are queued or published stay true, and the ones a    *)
(* handler adds are true when they are added.                                *)

(* One more job in the queue is the only new thing in flight.                *)
LEMMA AppendFlight ==
  ASSUME TypeOK, NEW q, queue' = Append(queue, q), published' = published
  PROVE  \A x \in InFlight' : x \in InFlight \/ x = q
<1>1. queue \in Seq(QueuedJob)
  BY DEF TypeOK
<1>2. \A i \in DOMAIN queue' : (i \in DOMAIN queue /\ queue'[i] = queue[i]) \/ queue'[i] = q
  BY <1>1
<1> QED BY <1>2 DEF InFlight

(* Taking the first job from the queue adds nothing.                         *)
LEMMA TailFlight ==
  ASSUME TypeOK, queue # <<>>, queue' = Tail(queue)
  PROVE  /\ Head(queue) \in InFlight
         /\ \A i \in DOMAIN queue' : queue'[i] \in InFlight
<1>1. queue \in Seq(QueuedJob)
  BY DEF TypeOK
<1>2. 1 \in DOMAIN queue /\ Head(queue) = queue[1]
  BY <1>1
<1>3. \A i \in DOMAIN queue' : i + 1 \in DOMAIN queue /\ queue'[i] = queue[i + 1]
  BY <1>1
<1> QED BY <1>2, <1>3 DEF InFlight

(* The messages a handler sends about, and the receipt of a reader, at the   *)
(* moment they are queued.                                                   *)
LEMMA SentIsTrue ==
  ASSUME TypeOK, WorkersKnow, NEW w \in Workers, job[w] # NoJob,
         job[w].pc \in {"push", "event"}, NEW kind \in {"push", "message.received"}
  PROVE  TrueJob(QJob(kind, Recipient(job[w].msg), job[w].conv, job[w].msg))
<1>1. job[w].msg \in DOMAIN messages /\ notif[job[w].msg] # "none"
  BY DEF WorkersKnow, WorkerKnows, Sending
<1> QED BY <1>1 DEF TrueJob, QJob

(* The receipt tells of a message that is read.                              *)
LEMMA ReceiptJobIsTrue ==
  ASSUME WorkersKnow, NEW w \in Workers, job[w] # NoJob, job[w].pc = "receipt"
  PROVE  TrueJob(QJob("conversation.read", otherUser(job[w].user, job[w].conv), job[w].conv, 0))
<1>1. SomeRead(convs, messages, job[w].user, job[w].conv)
  BY DEF WorkersKnow, WorkerKnows, Reading
<1> QED BY <1>1 DEF SomeRead, TrueJob, QJob, otherUser

(* Nothing new in flight: what was true stays true.                          *)
LEMMA FlightKept ==
  ASSUME TypeOK, TablesGrow, TrueJobs, \A x \in InFlight' : x \in InFlight
  PROVE  TrueJobs'
<1>1. ASSUME NEW x \in InFlight' PROVE TrueJob(x)'
  BY TrueStays DEF TrueJobs
<1> QED BY <1>1 DEF TrueJobs

(* One new job in flight, true when it is queued.                            *)
LEMMA FlightGrows ==
  ASSUME TypeOK, TablesGrow, TrueJobs, NEW q, TrueJob(q),
         \A x \in InFlight' : x \in InFlight \/ x = q
  PROVE  TrueJobs'
<1>1. ASSUME NEW x \in InFlight' PROVE TrueJob(x)'
  BY TrueStays DEF TrueJobs
<1> QED BY <1>1 DEF TrueJobs

LEMMA TrueJobsStep == MessagingInv /\ [Next]_vars => TrueJobs'
<1> SUFFICES ASSUME MessagingInv, [Next]_vars PROVE TrueJobs'
  OBVIOUS
<1>a. TypeOK /\ WorkersKnow /\ TrueJobs /\ TablesGrow
  BY GrowStep DEF MessagingInv
<1> USE <1>a
<1>0. ASSUME queue' = queue, published' = published PROVE TrueJobs'
  BY <1>0, FlightKept DEF InFlight
<1>1. ASSUME NEW w \in Workers, SendPush(w) PROVE TrueJobs'
  <2> DEFINE mine == QJob("push", Recipient(job[w].msg), job[w].conv, job[w].msg)
  <2>1. published' = published /\ (queue' = Append(queue, mine) \/ queue' = queue)
    BY <1>1 DEF SendPush
  <2>2. TrueJob(mine)
    BY <1>1, SentIsTrue DEF SendPush, Busy
  <2> HIDE DEF mine
  <2> QED BY <1>0, <2>1, <2>2, AppendFlight, FlightGrows
<1>2. ASSUME NEW w \in Workers, SendEvent(w) PROVE TrueJobs'
  <2> DEFINE mine == QJob("message.received", Recipient(job[w].msg), job[w].conv, job[w].msg)
  <2>1. published' = published /\ queue' = Append(queue, mine)
    BY <1>2 DEF SendEvent
  <2>2. TrueJob(mine)
    BY <1>2, SentIsTrue DEF SendEvent, Busy
  <2> HIDE DEF mine
  <2> QED BY <2>1, <2>2, AppendFlight, FlightGrows
<1>3. ASSUME NEW w \in Workers, QueueUpdated(w) PROVE TrueJobs'
  <2> DEFINE mine == QJob("notifications.updated", job[w].user, job[w].conv, 0)
  <2>1. published' = published /\ queue' = Append(queue, mine)
    BY <1>3 DEF QueueUpdated
  <2>2. TrueJob(mine)
    BY DEF TrueJob, QJob
  <2> HIDE DEF mine
  <2> QED BY <2>1, <2>2, AppendFlight, FlightGrows
<1>4. ASSUME NEW w \in Workers, QueueReceipt(w) PROVE TrueJobs'
  <2> DEFINE mine == QJob("conversation.read", otherUser(job[w].user, job[w].conv), job[w].conv, 0)
  <2>1. published' = published /\ queue' = Append(queue, mine)
    BY <1>4 DEF QueueReceipt
  <2>2. TrueJob(mine)
    BY <1>4, ReceiptJobIsTrue DEF QueueReceipt, Busy
  <2> HIDE DEF mine
  <2> QED BY <2>1, <2>2, AppendFlight, FlightGrows
<1>5. CASE RunJob
  <2>1. \A u \in Users : \A x \in published'[u] : x \in published[u] \/ x = Head(queue)
    BY <1>5 DEF RunJob, TypeOK
  <2>2. \A x \in InFlight' : x \in InFlight
    BY <1>5, <2>1, TailFlight DEF RunJob, InFlight
  <2> QED BY <2>2, FlightKept
<1>6. CASE PublishFails
  <2>1. \A x \in InFlight' : x \in InFlight
    BY <1>6, TailFlight DEF PublishFails, InFlight
  <2> QED BY <2>1, FlightKept
<1>7. ASSUME NEW w \in Workers,
             \/ \E u \in Users, p \in Properties : StoreFind(w, u, p)
             \/ \E u \in Users, c \in DOMAIN convs : SendCommit(w, u, c) \/ ReadMessages(w, u, c)
             \/ StoreCreate(w) \/ StoreRefetch(w) \/ SendNotify(w) \/ ReadNotifs(w)
             \/ DispatchFails(w) \/ Abort(w)
      PROVE  TrueJobs'
  BY <1>0, <1>7 DEF StoreFind, SendCommit, ReadMessages, StoreCreate, StoreRefetch, SendNotify,
                    ReadNotifs, DispatchFails, Abort
<1>8. CASE (\E m \in MsgIds : ReadOneNotification(m)) \/ UNCHANGED vars
  BY <1>0, <1>8 DEF ReadOneNotification, vars
<1> QED
  BY <1>1, <1>2, <1>3, <1>4, <1>5, <1>6, <1>7, <1>8 DEF Next, Normal, Fault, Arrive, Proceed
-----------------------------------------------------------------------------
(* The unique index on (client, agent) is consulted by the INSERT itself.     *)

LEMMA ThreadsStep == TypeOK /\ OneThreadPerPair /\ [Next]_vars => OneThreadPerPair'
<1> SUFFICES ASSUME TypeOK, OneThreadPerPair, [Next]_vars PROVE OneThreadPerPair'
  OBVIOUS
<1>1. ASSUME convs' = convs PROVE OneThreadPerPair'
  BY <1>1 DEF OneThreadPerPair
<1>2. ASSUME NEW w \in Workers, StoreCreate(w) PROVE OneThreadPerPair'
  <2> DEFINE row == [client |-> job[w].user, agent |-> AgentOf[job[w].prop], property |-> job[w].prop]
  <2>1. CASE violatesUnique(row)
    BY <1>1, <1>2, <2>1 DEF StoreCreate
  <2>2. CASE ~violatesUnique(row)
    <3>1. row \in Conversation
      BY <1>2, BusyIsJob, ConstantsAssumption DEF StoreCreate, Busy, Conversation, Job
    <3>2. Len(convs) < MaxConvs /\ convs' = Append(convs, row)
      BY <1>2, <2>2 DEF StoreCreate
    <3>3. \A c \in DOMAIN convs : ~(convs[c].client = row.client /\ convs[c].agent = row.agent)
      BY <2>2 DEF violatesUnique
    <3> HIDE DEF row
    <3>4. /\ \A c \in DOMAIN convs : convs'[c] = convs[c]
          /\ DOMAIN convs' = DOMAIN convs \cup {Len(convs) + 1}
          /\ convs'[Len(convs) + 1] = row
      BY <3>1, <3>2, CreateType
    <3> QED BY <3>3, <3>4 DEF OneThreadPerPair
  <2> QED BY <2>1, <2>2
<1>3. convs' = convs \/ \E w \in Workers : StoreCreate(w)
  BY DEF Next, Normal, Fault, Arrive, Proceed, StoreFind, StoreRefetch, SendCommit, SendNotify,
         SendPush, SendEvent, ReadMessages, ReadNotifs, QueueUpdated, QueueReceipt,
         ReadOneNotification, RunJob, PublishFails, DispatchFails, Abort, vars
<1> QED BY <1>1, <1>2, <1>3
-----------------------------------------------------------------------------
(* The empty database satisfies the invariant.                               *)
LEMMA InitInv == Init => MessagingInv /\ OneThreadPerPair
<1> SUFFICES ASSUME Init PROVE MessagingInv /\ OneThreadPerPair
  OBVIOUS
<1>1. TypeOK
  <2>1. /\ convs = <<>> /\ convs \in Seq(Conversation) /\ Len(convs) = 0
        /\ messages = <<>> /\ messages \in Seq(Message) /\ Len(messages) = 0
        /\ queue \in Seq(QueuedJob)
    BY DEF Init
  <2>2. job \in [Workers -> Job \cup {NoJob}]
    BY DEF Init
  <2>3. notif \in [MsgIds -> {"none", "unread", "read"}] /\ published \in [Users -> SUBSET QueuedJob]
    BY DEF Init
  <2>4. ops \in 0 .. MaxOps /\ Len(convs) <= MaxConvs /\ Len(messages) <= MaxMessages
    BY <2>1, ConstantsAssumption DEF Init
  <2>5. faulted \in BOOLEAN
    BY DEF Init
  <2>6. \A m \in DOMAIN messages : messages[m].conv \in DOMAIN convs
    BY <2>1
  <2> QED BY <2>1, <2>2, <2>3, <2>4, <2>5, <2>6 DEF TypeOK
<1>2. WorkersKnow /\ SendersTakePart /\ OneThreadPerPair
  BY DEF Init, WorkersKnow, SendersTakePart, OneThreadPerPair
<1>3. TrueJobs
  BY DEF Init, TrueJobs, InFlight
<1> QED BY <1>1, <1>2, <1>3 DEF MessagingInv

(* The inductive invariant: the types, what the handlers under way have done, *)
(* that senders belong to their threads, and that queued jobs are true.       *)
THEOREM MessagingInvCorrect == Spec => []MessagingInv
<1>1. Init => MessagingInv
  BY InitInv
<1>2. MessagingInv /\ [Next]_vars => MessagingInv'
  BY TypeStep, WorkersStep, SendersStep, TrueJobsStep DEF MessagingInv
<1> QED BY <1>1, <1>2, PTL DEF Spec

(* Every row, handler, queued job and published event has its type, in every *)
(* reachable state.                                                          *)
THEOREM TypeCorrect == Spec => []TypeOK
<1>1. MessagingInv => TypeOK
  BY DEF MessagingInv
<1> QED BY <1>1, MessagingInvCorrect, PTL

(* A push job or a message event always finds its message and its            *)
(* notification, and is addressed to the recipient, whatever dies.           *)
THEOREM JobsCorrect == Spec => []JobsFindNotification
<1>1. MessagingInv => JobsFindNotification
  BY DEF MessagingInv, TrueJobs, TrueJob, JobsFindNotification
<1> QED BY <1>1, MessagingInvCorrect, PTL

(* A read receipt is queued only for a thread in which the other party did   *)
(* read one of the addressee's messages.                                     *)
THEOREM ReceiptCorrect == Spec => []ReceiptIsTrue
<1>1. MessagingInv => ReceiptIsTrue
  BY DEF MessagingInv, TrueJobs, TrueJob, ReceiptIsTrue
<1> QED BY <1>1, MessagingInvCorrect, PTL

(* A client and an agent never have two threads, however many requests race  *)
(* between the lookup and the INSERT.                                        *)
THEOREM ThreadsCorrect == Spec => []OneThreadPerPair
<1>1. Init => OneThreadPerPair
  BY InitInv
<1> QED BY <1>1, ThreadsStep, TypeCorrect, PTL DEF Spec
-----------------------------------------------------------------------------
(* Nothing is forgotten.  As long as no fault happens, a worker that still    *)
(* has to write a message's notification, its event or a receipt holds it;    *)
(* what it has handed over stays in the queue until it is published.          *)

OnItsWay(q) == q \in published[q.to] \/ \E i \in DOMAIN queue : queue[i] = q

EventOf(m)   == QJob("message.received", Recipient(m), messages[m].conv, m)
ReceiptOf(m) == QJob("conversation.read", messages[m].sender, messages[m].conv, 0)

NoticeKept(m) ==
  \/ notif[m] # "none"
  \/ \E w \in Workers : job[w] # NoJob /\ job[w].pc = "notify" /\ job[w].msg = m

EventKept(m) ==
  \/ OnItsWay(EventOf(m))
  \/ \E w \in Workers : /\ job[w] # NoJob /\ Sending(job[w])
                        /\ job[w].msg = m /\ job[w].conv = messages[m].conv

ReceiptKept(m) ==
  messages[m].read =>
    \/ OnItsWay(ReceiptOf(m))
    \/ \E w \in Workers : /\ job[w] # NoJob /\ Reading(job[w]) /\ job[w].readSome
                          /\ job[w].conv = messages[m].conv
                          /\ otherUser(job[w].user, job[w].conv) = messages[m].sender

AllKept == ~faulted => \A m \in DOMAIN messages : NoticeKept(m) /\ EventKept(m) /\ ReceiptKept(m)

(* A fault is remembered, and without one a step is of one worker, of the     *)
(* queue, or of the reader of a notification.                                *)
LEMMA FaultlessStep ==
  ASSUME TypeOK, [Next]_vars, ~faulted'
  PROVE  /\ ~faulted
         /\ \/ job' = job /\ ((queue' = queue /\ published' = published) \/ RunJob)
            \/ \E v \in Workers : /\ (Arrive(v) /\ job[v] = NoJob) \/ Proceed(v)
                                  /\ \A w \in Workers \ {v} : job'[w] = job[w]
<1>1. ASSUME NEW v \in Workers, Arrive(v)
      PROVE  job[v] = NoJob /\ (\A w \in Workers \ {v} : job'[w] = job[w]) /\ faulted' = faulted
  <2>1. ASSUME NEW u \in Users, NEW p \in Properties, StoreFind(v, u, p)
        PROVE  job[v] = NoJob /\ (\A w \in Workers \ {v} : job'[w] = job[w]) /\ faulted' = faulted
    BY <2>1 DEF StoreFind, Idle, TypeOK
  <2>2. ASSUME NEW u \in Users, NEW c \in DOMAIN convs, SendCommit(v, u, c) \/ ReadMessages(v, u, c)
        PROVE  job[v] = NoJob /\ (\A w \in Workers \ {v} : job'[w] = job[w]) /\ faulted' = faulted
    BY <2>2 DEF SendCommit, ReadMessages, Idle, TypeOK
  <2> QED BY <1>1, <2>1, <2>2 DEF Arrive
<1>2. ASSUME NEW v \in Workers, Proceed(v)
      PROVE  (\A w \in Workers \ {v} : job'[w] = job[w]) /\ faulted' = faulted
  <2>1. faulted' = faulted /\ (Finish(v) \/ \E pc : Goto(v, pc))
    <3>1. CASE StoreCreate(v) \/ StoreRefetch(v)
      BY <3>1 DEF StoreCreate, StoreRefetch
    <3>2. CASE SendNotify(v) \/ SendPush(v) \/ SendEvent(v)
      BY <3>2 DEF SendNotify, SendPush, SendEvent
    <3>3. CASE ReadNotifs(v) \/ QueueUpdated(v) \/ QueueReceipt(v)
      BY <3>3 DEF ReadNotifs, QueueUpdated, QueueReceipt
    <3> QED BY <1>2, <3>1, <3>2, <3>3 DEF Proceed
  <2> QED BY <2>1 DEF Finish, Goto, TypeOK
<1>3. ~Fault
  BY DEF Fault, PublishFails, DispatchFails, Abort
<1>4. CASE RunJob \/ (\E m \in MsgIds : ReadOneNotification(m)) \/ UNCHANGED vars
  BY <1>4 DEF RunJob, ReadOneNotification, vars
<1> QED BY <1>1, <1>2, <1>3, <1>4 DEF Next, Normal

(* A step of the handler leaves what it is about.                            *)
LEMMA GotoFields ==
  ASSUME TypeOK, NEW w \in Workers, job[w] # NoJob, NEW pc,
         pc \in {"refetch", "push", "event", "updated", "receipt"}, Goto(w, pc)
  PROVE  /\ job'[w] # NoJob /\ job'[w].pc = pc /\ job'[w].user = job[w].user
         /\ job'[w].conv = job[w].conv /\ job'[w].msg = job[w].msg
         /\ job'[w].readSome = job[w].readSome
<1>1. job[w] \in Job /\ job'[w] = [job[w] EXCEPT !.pc = pc]
  BY BusyIsJob DEF TypeOK, Goto
<1>2. job'[w] \in Job
  BY <1>1 DEF Job
<1> QED BY <1>1, <1>2, JobAssumption DEF Job

(* A queued job stays in the queue.                                          *)
LEMMA AppendKeeps ==
  ASSUME TypeOK, NEW x, queue' = Append(queue, x)
  PROVE  /\ \E i \in DOMAIN queue' : queue'[i] = x
         /\ \A i \in DOMAIN queue : i \in DOMAIN queue' /\ queue'[i] = queue[i]
BY DEF TypeOK

(* What a step of a worker does to the queue.                                *)
LEMMA WorkerQueue ==
  ASSUME NEW v \in Workers, Arrive(v) \/ Proceed(v)
  PROVE  published' = published /\ (queue' = queue \/ \E x : queue' = Append(queue, x))
<1>1. CASE Arrive(v)
  BY <1>1 DEF Arrive, StoreFind, SendCommit, ReadMessages
<1>2. CASE StoreCreate(v) \/ StoreRefetch(v) \/ SendNotify(v) \/ ReadNotifs(v)
  BY <1>2 DEF StoreCreate, StoreRefetch, SendNotify, ReadNotifs
<1>3. CASE SendPush(v) \/ SendEvent(v)
  BY <1>3 DEF SendPush, SendEvent
<1>4. CASE QueueUpdated(v) \/ QueueReceipt(v)
  BY <1>4 DEF QueueUpdated, QueueReceipt
<1> QED BY <1>1, <1>2, <1>3, <1>4 DEF Proceed

(* An event on its way to an account stays on its way until it is published.  *)
LEMMA StaysOnItsWay ==
  ASSUME TypeOK, [Next]_vars, ~faulted', NEW q, q.kind # "push", q.to \in Users, OnItsWay(q)
  PROVE  OnItsWay(q)'
<1>1. CASE queue' = queue /\ published' = published
  BY <1>1 DEF OnItsWay
<1>2. ASSUME NEW x, published' = published, queue' = Append(queue, x) PROVE OnItsWay(q)'
  BY <1>2, AppendKeeps DEF OnItsWay
<1>3. CASE RunJob
  <2>1. \A u \in Users : published[u] \subseteq published'[u]
    BY <1>3 DEF RunJob, TypeOK
  <2>2. CASE q \in published[q.to]
    BY <2>1, <2>2 DEF OnItsWay
  <2>3. ASSUME NEW i \in DOMAIN queue, queue[i] = q PROVE OnItsWay(q)'
    <3>1. queue \in Seq(QueuedJob) /\ queue # <<>> /\ queue' = Tail(queue)
      BY <1>3 DEF RunJob, TypeOK
    <3>2. CASE i = 1
      <4>1. Head(queue) = q
        BY <2>3, <3>1, <3>2
      <4>2. q \in published'[q.to]
        BY <1>3, <4>1 DEF RunJob, TypeOK
      <4> QED BY <4>2 DEF OnItsWay
    <3>3. CASE i # 1
      <4>1. i - 1 \in DOMAIN queue' /\ queue'[i - 1] = queue[i]
        BY <3>1, <3>3
      <4> QED BY <2>3, <4>1 DEF OnItsWay
    <3> QED BY <3>2, <3>3
  <2> QED BY <2>2, <2>3 DEF OnItsWay
<1> QED BY <1>1, <1>2, <1>3, FaultlessStep, WorkerQueue

(* The three things a message is owed, over a step without a fault.          *)
LEMMA NoticeStays ==
  ASSUME MessagingInv, [Next]_vars, ~faulted', NEW m \in DOMAIN messages, NoticeKept(m)
  PROVE  NoticeKept(m)'
<1>0. TypeOK /\ TablesGrow /\ m \in MsgIds
  BY GrowStep, Bounds DEF MessagingInv
<1>1. CASE notif[m] # "none"
  BY <1>0, <1>1 DEF NoticeKept, TablesGrow
<1>2. ASSUME NEW w \in Workers, job[w] # NoJob, job[w].pc = "notify", job[w].msg = m
      PROVE  NoticeKept(m)'
  <2>1. CASE job'[w] = job[w]
    BY <1>2, <2>1 DEF NoticeKept
  <2>2. CASE Proceed(w)
    <3>1. SendNotify(w)
      BY <1>2, <2>2 DEF Proceed, StoreCreate, StoreRefetch, SendPush, SendEvent, ReadNotifs, QueueUpdated,
                        QueueReceipt, Busy
    <3>2. notif'[m] = "unread"
      BY <1>0, <1>2, <3>1 DEF SendNotify, Notified, TypeOK
    <3> QED BY <3>2 DEF NoticeKept
  <2> QED BY <1>0, <1>2, <2>1, <2>2, FaultlessStep
<1> QED BY <1>1, <1>2 DEF NoticeKept

(* A message keeps its thread, sender and recipient.                         *)
LEMMA SameMessage ==
  ASSUME TypeOK, TablesGrow, NEW m \in DOMAIN messages
  PROVE  /\ m \in DOMAIN messages'
         /\ messages'[m].conv = messages[m].conv /\ messages'[m].sender = messages[m].sender
         /\ messages[m].conv \in DOMAIN convs /\ messages[m].sender \in Users
         /\ EventOf(m)' = EventOf(m) /\ ReceiptOf(m)' = ReceiptOf(m)
<1>1. messages[m] \in Message /\ messages[m].conv \in DOMAIN convs
  BY DEF TypeOK
<1>2. m \in DOMAIN messages' /\ messages'[m].conv = messages[m].conv /\ messages'[m].sender = messages[m].sender
  BY DEF TablesGrow
<1>3. Recipient(m)' = Recipient(m)
  BY <1>1, <1>2 DEF TablesGrow, Recipient, otherUser
<1> QED BY <1>1, <1>2, <1>3 DEF EventOf, ReceiptOf, Message

LEMMA EventStays ==
  ASSUME MessagingInv, [Next]_vars, ~faulted', NEW m \in DOMAIN messages, EventKept(m)
  PROVE  EventKept(m)'
<1>0. TypeOK /\ TablesGrow
  BY GrowStep DEF MessagingInv
<1>a. /\ m \in DOMAIN messages' /\ messages'[m].conv = messages[m].conv
      /\ EventOf(m)' = EventOf(m)
  BY <1>0, SameMessage
<1>b. EventOf(m).kind = "message.received" /\ EventOf(m).to \in Users
  BY <1>0, RecipientIsUser DEF EventOf, QJob
<1>c. PICK e : e = EventOf(m)
  OBVIOUS
<1>d. OnItsWay(e)' => EventKept(m)'
  BY <1>a, <1>c DEF EventKept
<1>1. CASE OnItsWay(EventOf(m))
  BY <1>0, <1>1, <1>b, <1>c, <1>d, StaysOnItsWay
<1>2. ASSUME NEW w \in Workers, job[w] # NoJob, Sending(job[w]), job[w].msg = m,
             job[w].conv = messages[m].conv
      PROVE  EventKept(m)'
  <2>1. CASE job'[w] = job[w]
    BY <1>2, <1>a, <2>1 DEF EventKept
  <2>2. CASE Proceed(w)
    <3>1. SendNotify(w) \/ SendPush(w) \/ SendEvent(w)
      BY <1>2, <2>2 DEF Proceed, StoreCreate, StoreRefetch, ReadNotifs, QueueUpdated, QueueReceipt, Busy, Sending
    <3>2. CASE SendNotify(w) \/ SendPush(w)
      <4>1. \E pc \in {"push", "event"} : Goto(w, pc)
        BY <3>2 DEF SendNotify, SendPush
      <4>2. /\ job'[w] # NoJob /\ job'[w].pc \in {"push", "event"}
            /\ job'[w].conv = job[w].conv /\ job'[w].msg = job[w].msg
        BY <1>0, <1>2, <4>1, GotoFields
      <4> QED BY <1>2, <1>a, <4>2 DEF EventKept, Sending
    <3>3. CASE SendEvent(w)
      <4>1. queue' = Append(queue, e)
        BY <1>2, <1>c, <3>3 DEF SendEvent, EventOf
      <4>2. OnItsWay(e)'
        BY <1>0, <4>1, AppendKeeps DEF OnItsWay
      <4> QED BY <1>d, <4>2
    <3> QED BY <3>1, <3>2, <3>3
  <2> QED BY <1>0, <1>2, <2>1, <2>2, FaultlessStep
<1> QED BY <1>1, <1>2 DEF EventKept

(* The reader who marks a message is on the way to its receipt.              *)
LEMMA MarkedIsKept ==
  ASSUME MessagingInv, [Next]_vars, NEW m \in DOMAIN messages, ~messages[m].read, messages'[m].read
  PROVE  ReceiptKept(m)'
<1>0. TypeOK /\ TablesGrow /\ SendersTakePart
  BY GrowStep DEF MessagingInv
<1>1. ASSUME NEW w \in Workers, NEW u \in Users, NEW c \in DOMAIN convs, ReadMessages(w, u, c)
      PROVE  ReceiptKept(m)'
  <2> DEFINE unread == {n \in DOMAIN messages : /\ messages[n].conv = c
                                                /\ messages[n].sender # u
                                                /\ ~messages[n].read}
             j == [pc |-> "markNotifs", user |-> u, prop |-> convs[c].property, conv |-> c,
                   msg |-> 0, readSome |-> unread # {}]
  <2>1. /\ job' = [job EXCEPT ![w] = j] /\ ensureParticipant(u, c) /\ convs' = convs
        /\ messages' = [n \in DOMAIN messages |->
                          IF n \in unread THEN [messages[n] EXCEPT !.read = TRUE] ELSE messages[n]]
    BY <1>1 DEF ReadMessages
  <2>2. job'[w] = j
    BY <1>0, <2>1 DEF TypeOK
  <2>3. m \in unread
    <3> HIDE DEF unread, j
    <3>1. messages'[m].read = (messages[m].read \/ m \in unread)
      BY <1>0, <2>1, ReadType
    <3> QED BY <3>1
  <2>4. messages[m].sender = otherUser(u, c) /\ messages[m].conv = c
    BY <1>0, <2>1, <2>3, ReaderKnows
  <2>5. /\ job'[w].pc = "markNotifs" /\ job'[w].user = u /\ job'[w].conv = c
        /\ job'[w].readSome
    <3>1. job'[w].readSome = (unread # {})
      <4> HIDE DEF unread
      <4> QED BY <2>2
    <3>2. unread # {}
      <4> HIDE DEF unread
      <4> QED BY <2>3
    <3>3. job'[w].pc = "markNotifs" /\ job'[w].user = u /\ job'[w].conv = c
      <4> HIDE DEF unread
      <4> QED BY <2>2
    <3> HIDE DEF unread, j
    <3> QED BY <3>1, <3>2, <3>3
  <2>6. job'[w] # NoJob
    <3>1. convs[c] \in Conversation /\ c \in ConvIds
      BY <1>0, Bounds DEF TypeOK
    <3>2. convs[c].property \in Properties /\ c \in 0 .. MaxConvs /\ (unread # {}) \in BOOLEAN
      BY <3>1 DEF Conversation, ConvIds
    <3> HIDE DEF unread
    <3>3. j \in Job
      BY <3>2, ConstantsAssumption DEF Job
    <3> QED BY <2>2, <3>3, JobAssumption
  <2>7. otherUser(u, c)' = otherUser(u, c) /\ messages'[m].conv = c /\ messages'[m].sender = messages[m].sender
    BY <1>0, <2>1, <2>4 DEF otherUser, TablesGrow
  <2> QED BY <2>4, <2>5, <2>6, <2>7 DEF ReceiptKept, Reading, otherUser
<1>2. ASSUME NEW w \in Workers, NEW u \in Users, NEW c \in DOMAIN convs, SendCommit(w, u, c)
      PROVE  FALSE
  <2>1. messages' = Append(messages, [conv |-> c, sender |-> u, read |-> FALSE]) /\ messages \in Seq(Message)
    BY <1>0, <1>2 DEF SendCommit, TypeOK
  <2>2. messages'[m] = messages[m]
    BY <2>1
  <2> QED BY <2>2
<1>3. \/ messages' = messages
      \/ \E w \in Workers, u \in Users, c \in DOMAIN convs :
           SendCommit(w, u, c) \/ ReadMessages(w, u, c)
  BY DEF Next, Normal, Fault, Arrive, Proceed, StoreFind, StoreCreate, StoreRefetch, SendNotify,
         SendPush, SendEvent, ReadNotifs, QueueUpdated, QueueReceipt, ReadOneNotification,
         RunJob, PublishFails, DispatchFails, Abort, vars
<1> QED BY <1>1, <1>2, <1>3

LEMMA ReceiptStays ==
  ASSUME MessagingInv, [Next]_vars, ~faulted', NEW m \in DOMAIN messages, ReceiptKept(m)
  PROVE  ReceiptKept(m)'
<1>0. TypeOK /\ TablesGrow /\ WorkersKnow
  BY GrowStep DEF MessagingInv
<1>a. /\ messages'[m].conv = messages[m].conv /\ messages'[m].sender = messages[m].sender
      /\ ReceiptOf(m)' = ReceiptOf(m)
      /\ ReceiptOf(m).kind = "conversation.read" /\ ReceiptOf(m).to \in Users
  BY <1>0, SameMessage DEF ReceiptOf, QJob
<1>b. PICK e : e = ReceiptOf(m)
  OBVIOUS
<1>c. OnItsWay(e)' => ReceiptKept(m)'
  BY <1>a, <1>b DEF ReceiptKept
<1>1. CASE messages[m].read /\ OnItsWay(ReceiptOf(m))
  BY <1>0, <1>1, <1>a, <1>b, <1>c, StaysOnItsWay
<1>2. ASSUME NEW w \in Workers, job[w] # NoJob, Reading(job[w]), job[w].readSome,
             job[w].conv = messages[m].conv,
             otherUser(job[w].user, job[w].conv) = messages[m].sender
      PROVE  ReceiptKept(m)'
  <2>0. job[w].conv \in DOMAIN convs /\ convs'[job[w].conv] = convs[job[w].conv]
    BY <1>0, <1>2 DEF WorkersKnow, WorkerKnows, TablesGrow
  <2>1. CASE job'[w] = job[w]
    BY <1>2, <1>a, <2>0, <2>1 DEF ReceiptKept, otherUser
  <2>2. CASE Proceed(w)
    <3>1. ReadNotifs(w) \/ QueueUpdated(w) \/ QueueReceipt(w)
      BY <1>2, <2>2 DEF Proceed, StoreCreate, StoreRefetch, SendNotify, SendPush, SendEvent, Busy, Reading
    <3>2. CASE ReadNotifs(w) \/ QueueUpdated(w)
      <4>1. \E pc \in {"updated", "receipt"} : Goto(w, pc)
        BY <1>2, <3>2 DEF ReadNotifs, QueueUpdated
      <4>2. /\ job'[w] # NoJob /\ job'[w].pc \in {"updated", "receipt"} /\ job'[w].user = job[w].user
            /\ job'[w].conv = job[w].conv /\ job'[w].readSome = job[w].readSome
        BY <1>0, <1>2, <4>1, GotoFields
      <4> QED BY <1>2, <1>a, <2>0, <4>2 DEF ReceiptKept, Reading, otherUser
    <3>3. CASE QueueReceipt(w)
      <4>1. queue' = Append(queue, e)
        BY <1>2, <1>b, <3>3 DEF QueueReceipt, ReceiptOf
      <4>2. OnItsWay(e)'
        BY <1>0, <4>1, AppendKeeps DEF OnItsWay
      <4> QED BY <1>c, <4>2
    <3> QED BY <3>1, <3>2, <3>3
  <2> QED BY <1>0, <1>2, <2>1, <2>2, FaultlessStep
<1>3. CASE ~messages[m].read
  BY <1>3, MarkedIsKept DEF ReceiptKept
<1> QED BY <1>1, <1>2, <1>3 DEF ReceiptKept

(* A message that was just committed is held by its sender's worker.         *)
LEMMA NewIsKept ==
  ASSUME MessagingInv, [Next]_vars, NEW m \in DOMAIN messages', m \notin DOMAIN messages
  PROVE  NoticeKept(m)' /\ EventKept(m)' /\ ReceiptKept(m)'
<1>0. TypeOK
  BY DEF MessagingInv
<1>1. ASSUME NEW w \in Workers, NEW u \in Users, NEW c \in DOMAIN convs, SendCommit(w, u, c)
      PROVE  NoticeKept(m)' /\ EventKept(m)' /\ ReceiptKept(m)'
  <2> DEFINE row == [conv |-> c, sender |-> u, read |-> FALSE]
             j == [pc |-> "notify", user |-> u, prop |-> convs[c].property,
                   conv |-> c, msg |-> m, readSome |-> FALSE]
  <2>1. /\ m = Len(messages) + 1 /\ messages'[m] = row /\ Len(messages) < MaxMessages
        /\ Len(messages) \in Nat
    <3>1. messages' = Append(messages, row) /\ messages \in Seq(Message) /\ Len(messages) < MaxMessages
      BY <1>0, <1>1 DEF SendCommit, TypeOK
    <3> QED BY <3>1
  <2>2. job'[w] = j
    BY <1>0, <1>1, <2>1 DEF SendCommit, TypeOK
  <2>3. j \in Job
    <3>1. convs[c] \in Conversation /\ c \in ConvIds
      BY <1>0, Bounds DEF TypeOK
    <3>2. convs[c].property \in Properties /\ c \in 0 .. MaxConvs /\ m \in 0 .. MaxMessages
      BY <2>1, <3>1, ConstantsAssumption DEF Conversation, ConvIds
    <3> QED BY <3>2 DEF Job
  <2>4. job'[w] # NoJob
    BY <2>2, <2>3, JobAssumption
  <2>5. messages'[m].conv = c /\ ~messages'[m].read
    BY <2>1
  <2>6. job'[w].pc = "notify" /\ job'[w].msg = m /\ job'[w].conv = c
    BY <2>2
  <2> QED BY <2>4, <2>5, <2>6 DEF NoticeKept, EventKept, ReceiptKept, Sending
<1>2. ASSUME NEW w \in Workers, NEW u \in Users, NEW c \in DOMAIN convs, ReadMessages(w, u, c)
      PROVE  DOMAIN messages' = DOMAIN messages
  BY <1>2 DEF ReadMessages
<1>3. \/ messages' = messages
      \/ \E w \in Workers, u \in Users, c \in DOMAIN convs :
           SendCommit(w, u, c) \/ ReadMessages(w, u, c)
  BY DEF Next, Normal, Fault, Arrive, Proceed, StoreFind, StoreCreate, StoreRefetch, SendNotify,
         SendPush, SendEvent, ReadNotifs, QueueUpdated, QueueReceipt, ReadOneNotification,
         RunJob, PublishFails, DispatchFails, Abort, vars
<1> QED BY <1>1, <1>2, <1>3

LEMMA AllKeptStep == MessagingInv /\ AllKept /\ [Next]_vars => AllKept'
<1> SUFFICES ASSUME MessagingInv, AllKept, [Next]_vars, ~faulted', NEW m \in DOMAIN messages'
             PROVE  NoticeKept(m)' /\ EventKept(m)' /\ ReceiptKept(m)'
  BY DEF AllKept
<1>1. ~faulted
  BY FaultlessStep DEF MessagingInv
<1>2. CASE m \in DOMAIN messages
  <2>1. NoticeKept(m) /\ EventKept(m) /\ ReceiptKept(m)
    BY <1>1, <1>2 DEF AllKept
  <2> QED BY <1>2, <2>1, NoticeStays, EventStays, ReceiptStays
<1>3. CASE m \notin DOMAIN messages
  BY <1>3, NewIsKept
<1> QED BY <1>2, <1>3

(* Once every handler is done and the queue is empty, and no fault happened,  *)
(* every message has its notification, its event was published to the        *)
(* recipient, and a sender whose message was read got a receipt, however      *)
(* senders and readers overlapped.                                           *)
THEOREM NothingIsForgotten == Spec => []NothingForgotten
<1>1. Init => AllKept
  BY DEF Init, AllKept
<1>2. MessagingInv /\ AllKept => NothingForgotten
  <2> SUFFICES ASSUME MessagingInv, AllKept, Quiescent, ~faulted, NEW m \in DOMAIN messages
               PROVE  /\ notif[m] # "none"
                      /\ EventOf(m) \in published[Recipient(m)]
                      /\ messages[m].read => ReceiptOf(m) \in published[messages[m].sender]
    BY DEF NothingForgotten, EventOf, ReceiptOf
  <2>1. \A w \in Workers : job[w] = NoJob
    BY DEF Quiescent
  <2>2. \A q : OnItsWay(q) => q \in published[q.to]
    BY DEF Quiescent, OnItsWay
  <2>3. NoticeKept(m) /\ EventKept(m) /\ ReceiptKept(m)
    BY DEF AllKept
  <2>4. EventOf(m).to = Recipient(m) /\ ReceiptOf(m).to = messages[m].sender
    BY DEF EventOf, ReceiptOf, QJob
  <2> QED BY <2>1, <2>2, <2>3, <2>4 DEF NoticeKept, EventKept, ReceiptKept
<1> QED BY <1>1, <1>2, AllKeptStep, MessagingInvCorrect, PTL DEF Spec
=============================================================================
