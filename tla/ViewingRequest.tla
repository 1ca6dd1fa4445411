--------------------------- MODULE ViewingRequest ---------------------------
(***************************************************************************)
(* Viewing requests: the API controller, its policy and status scheme, the  *)
(* admin panel's controller over the same table, the change log that is     *)
(* shown to the parties, and the queued notifications.                      *)
(*                                                                          *)
(* A PHP worker serves one HTTP request at a time.  A handler is several    *)
(* database round trips: the route binding SELECTs the row, the checks run  *)
(* on that copy, and the writes come later.  Nothing locks the row between, *)
(* so each round trip is an action of its own and two workers interleave.   *)
(***************************************************************************)
EXTENDS Naturals, Sequences

CONSTANTS
  Users,        \* accounts; any of them may ask for a viewing
  Admins,       \* accounts with the role admin
  Properties,   \* properties a viewing can be asked for
  AgentOf,      \* [Properties -> Users], the account of the listing agent
  PanelRows,    \* the rows an admin submits in the panel's forms
  Dates,        \* days a viewing can be scheduled on
  Times,        \* times of day it can be scheduled at
  Workers,      \* PHP workers serving HTTP requests
  NoRow,        \* "the table holds no such row"
  NoJob,        \* "the worker is idle"
  MaxRequests,  \* bound: ids the table hands out
  MaxOps        \* bound: HTTP requests served in a behaviour

ASSUME ConstantsAssumption ==
  /\ Admins \subseteq Users
  /\ AgentOf \in [Properties -> Users]
  /\ MaxRequests \in Nat
  /\ MaxOps \in Nat

VARIABLES
  rows,       \* viewing_requests: [Ids -> Row \cup {NoRow}]
  lastId,     \* the table's auto-increment counter
  history,    \* activity_logs of each request, oldest first
  job,        \* what each worker is doing
  queue,      \* the jobs table: notifications not yet written
  inbox,      \* notifications of each user
  ops         \* HTTP requests served so far (bounded by MaxOps)

vars == <<rows, lastId, history, job, queue, inbox, ops>>

-----------------------------------------------------------------------------
(* The tables. *)

Ids == 1 .. MaxRequests

Statuses == {"pending", "confirmed", "rejected", "cancelled", "completed"}

(* What PATCH accepts: a request is never set back to pending. *)
Targets == Statuses \ {"pending"}

(* Date and time are two columns.                                            *)
Row == [status : Statuses, client : Users, agent : Users, date : Dates, time : Times]

Schedules == Dates \X Times
Schedule(row) == <<row.date, row.time>>

ASSUME RowAssumption == PanelRows \subseteq Row /\ NoRow \notin Row

(* An activity_logs row: old and new value of one change, and who made it.  *)
(* Rows written by the panel carry neither action nor values.               *)
Entry == [action : {"created", "status_changed", "deleted", "panel"},
          from : Statuses \cup {"none"}, to : Statuses \cup {"none"}, by : Users]
         \cup [action : {"rescheduled"}, from : Schedules, to : Schedules, by : Users]

Notification == [kind : {"created", "updated"}, to : Users, req : Ids]

(* A handler between two round trips: the row it loaded (snap), its own copy *)
(* with the changes filled in (new), whether the request carried a time      *)
(* (timed) and the next round trip (pc).                                     *)
Job == [pc   : {"insert", "recordCreated", "notifyCreated", "write", "notify",
                "recordDeleted", "delete", "panelWrite", "panelDelete", "panelRecord"},
        user : Users,
        req  : 0 .. MaxRequests,
        snap : Row,
        new  : Row,
        timed : BOOLEAN]

ASSUME JobAssumption == NoJob \notin Job

-----------------------------------------------------------------------------
(* The status scheme and the policy, evaluated on a loaded row. *)

(* Mutant of allowedTargets: anything not yet cancelled can be cancelled.    *)
allowedTargetsCancelAnytime(s) ==
  CASE s = "pending"   -> {"confirmed", "rejected", "cancelled"}
    [] s = "cancelled" -> {}
    [] OTHER           -> {"completed", "cancelled"}

(* Mutant of allowedTargets: a pending request can be completed at once.     *)
allowedTargetsSkipConfirm(s) ==
  CASE s = "pending"   -> Targets
    [] s = "confirmed" -> {"completed", "cancelled"}
    [] OTHER           -> {}

allowedTargets(s) ==
  CASE s = "pending"   -> {"confirmed", "rejected", "cancelled"}
    [] s = "confirmed" -> {"completed", "cancelled"}
    [] OTHER           -> {}

(* Mutant of canTransitionTo: only the move to the same status is refused.   *)
canTransitionToOther(s, t) == t # s

canTransitionTo(s, t) == t \in allowedTargets(s)

isOpen(s)      == s \in {"pending", "confirmed"}
isDeletable(s) == s \in {"pending", "rejected", "cancelled"}

mayView(u, row) == u \in Admins \/ u = row.client \/ u = row.agent

mayReschedule(u, row) ==
  /\ mayView(u, row)
  /\ u \in Admins \/ isOpen(row.status)

mayUpdateStatus(u, row, t) ==
  \/ u \in Admins
  \/ u = row.client /\ t = "cancelled"
  \/ u # row.client /\ u = row.agent /\ t \in {"confirmed", "rejected", "completed"}

mayDelete(u, row) ==
  u \in Admins \/ (u = row.client /\ isDeletable(row.status))

(* Mutant of Saved: every attribute is written back, changed or not.         *)
SavedWhole(row, snap, new, timed) == new

(* Eloquent's save: only the attributes that differ from the loaded copy    *)
(* are in the UPDATE; the others keep what the table holds by then.  A time *)
(* that was sent always differs: the loaded one reads HH:MM:SS.             *)
Saved(row, snap, new, timed) ==
  [f \in DOMAIN row |->
     IF new[f] # snap[f] \/ (f = "time" /\ timed) THEN new[f] ELSE row[f]]

(* Mutant of SaveRow: an upsert in place of an UPDATE.                       *)
SaveRowUpsert(r, snap, new, timed) ==
  rows' = [rows EXCEPT ![r] = IF @ = NoRow THEN new ELSE Saved(@, snap, new, timed)]

(* UPDATE ... WHERE id = r touches nothing when the row is gone. *)
SaveRow(r, snap, new, timed) ==
  rows' = [rows EXCEPT ![r] = IF @ = NoRow THEN NoRow ELSE Saved(@, snap, new, timed)]

LogEntry(action, from, to, u) ==
  [action |-> action, from |-> from, to |-> to, by |-> u]

-----------------------------------------------------------------------------
Init ==
  /\ rows = [r \in Ids |-> NoRow]
  /\ lastId = 0
  /\ history = [r \in Ids |-> <<>>]
  /\ job = [w \in Workers |-> NoJob]
  /\ queue = <<>>
  /\ inbox = [u \in Users |-> {}]
  /\ ops = 0

Busy(w, pc) == job[w] # NoJob /\ job[w].pc = pc

Idle(w) == job[w] = NoJob /\ ops < MaxOps

Begin(w, pc, u, r, snap, new, timed) ==
  /\ Idle(w)
  /\ ops' = ops + 1
  /\ job' = [job EXCEPT ![w] = [pc |-> pc, user |-> u, req |-> r,
                               snap |-> snap, new |-> new, timed |-> timed]]

Goto(w, pc) == job' = [job EXCEPT ![w].pc = pc]
Finish(w)   == job' = [job EXCEPT ![w] = NoJob]

Log(r, e) == history' = [history EXCEPT ![r] = Append(@, e)]

-----------------------------------------------------------------------------
(* POST /viewing-requests: the property must be published and somebody      *)
(* else's; then INSERT, the log row and the notification, each on its own.  *)
(* Whether p is published when it is read is left to the environment: the   *)
(* handler reads it once and nothing here depends on it afterwards.         *)

Asked(u, p, s) ==
  [status |-> "pending", client |-> u, agent |-> AgentOf[p], date |-> s[1], time |-> s[2]]

StoreCheck(w, u, p, s) ==
  /\ AgentOf[p] # u
  /\ Begin(w, "insert", u, 0, Asked(u, p, s), Asked(u, p, s), TRUE)
  /\ UNCHANGED <<rows, lastId, history, queue, inbox>>

StoreInsert(w) ==
  /\ Busy(w, "insert")
  /\ lastId < MaxRequests
  /\ lastId' = lastId + 1
  /\ rows' = [rows EXCEPT ![lastId + 1] = job[w].new]
  /\ job' = [job EXCEPT ![w].pc = "recordCreated", ![w].req = lastId + 1]
  /\ UNCHANGED <<history, queue, inbox, ops>>

RecordCreated(w) ==
  /\ Busy(w, "recordCreated")
  /\ Log(job[w].req, LogEntry("created", "none", "pending", job[w].user))
  /\ Goto(w, "notifyCreated")
  /\ UNCHANGED <<rows, lastId, queue, inbox, ops>>

NotifyCreated(w) ==
  /\ Busy(w, "notifyCreated")
  /\ queue' = Append(queue, [kind |-> "created", to |-> job[w].new.agent, req |-> job[w].req])
  /\ Finish(w)
  /\ UNCHANGED <<rows, lastId, history, inbox, ops>>

(* PATCH /viewing-requests/{id}: the checks run on the row the route        *)
(* binding loaded.  A body may leave out any field, but not all of them.     *)
Patch == [status : Targets \cup {"keep"}, date : Dates \cup {"keep"},
          time : Times \cup {"keep"}, notes : BOOLEAN]

Sent(v, old) == IF v = "keep" THEN old ELSE v

Patched(row, p) ==
  [row EXCEPT !.status = Sent(p.status, @), !.date = Sent(p.date, @), !.time = Sent(p.time, @)]

scheduleChanged(p) == p.date # "keep" \/ p.time # "keep" \/ p.notes

UpdateBind(w, u, r, p) ==
  /\ rows[r] # NoRow
  /\ p.status # "keep" \/ scheduleChanged(p)
  /\ scheduleChanged(p) => mayReschedule(u, rows[r])
  /\ p.status # "keep" => /\ canTransitionTo(rows[r].status, p.status)
                          /\ mayUpdateStatus(u, rows[r], p.status)
  /\ Begin(w, "write", u, r, rows[r], Patched(rows[r], p), p.time # "keep")
  /\ UNCHANGED <<rows, lastId, history, queue, inbox>>

(* The transaction: the UPDATE and its log rows, old values from the copy.   *)

(* Mutant of LogStatus: the old value is read after the update.              *)
LogStatusReadLate(h, j) ==
  IF j.new.status = j.snap.status THEN h
  ELSE Append(h, LogEntry("status_changed", j.new.status, j.new.status, j.user))

LogStatus(h, j) ==
  IF j.new.status = j.snap.status THEN h
  ELSE Append(h, LogEntry("status_changed", j.snap.status, j.new.status, j.user))

(* Mutant of LogSchedule: only another day counts as another schedule.       *)
LogScheduleDate(h, j) ==
  IF j.new.date = j.snap.date THEN h
  ELSE Append(h, LogEntry("rescheduled", Schedule(j.snap), Schedule(j.new), j.user))

(* Both schedules are those of the handler's own copy, before and after.     *)
LogSchedule(h, j) ==
  IF Schedule(j.new) = Schedule(j.snap) THEN h
  ELSE Append(h, LogEntry("rescheduled", Schedule(j.snap), Schedule(j.new), j.user))

UpdateCommit(w) ==
  /\ Busy(w, "write")
  /\ SaveRow(job[w].req, job[w].snap, job[w].new, job[w].timed)
  /\ history' = [history EXCEPT ![job[w].req] = LogSchedule(LogStatus(@, job[w]), job[w])]
  /\ Goto(w, "notify")
  /\ UNCHANGED <<lastId, queue, inbox, ops>>

(* Mutant of Counterpart: the client is told, whoever made the change.       *)
CounterpartClient(j, row) == row.client

(* Who hears of an update: the agent when the client made it, the client    *)
(* when the agent or an admin did.  The roles were settled on the copy.     *)
Counterpart(j, row) == IF j.user = j.snap.client THEN row.agent ELSE row.client

(* Mutant of UpdateNotify: changes made by an admin are not announced.       *)
UpdateNotifyParties(w) ==
  /\ Busy(w, "notify")
  /\ LET j == job[w]
     IN  queue' = IF rows[j.req] = NoRow \/ j.user \in Admins THEN queue
                  ELSE Append(queue, [kind |-> "updated",
                                      to   |-> Counterpart(j, rows[j.req]),
                                      req  |-> j.req])
  /\ Finish(w)
  /\ UNCHANGED <<rows, lastId, history, inbox, ops>>

(* fresh() finds nothing once the row is deleted: the handler then fails.   *)
UpdateNotify(w) ==
  /\ Busy(w, "notify")
  /\ LET j == job[w]
     IN  queue' = IF rows[j.req] = NoRow THEN queue
                  ELSE Append(queue, [kind |-> "updated",
                                      to   |-> Counterpart(j, rows[j.req]),
                                      req  |-> j.req])
  /\ Finish(w)
  /\ UNCHANGED <<rows, lastId, history, inbox, ops>>

(* DELETE /viewing-requests/{id}: the log row first, then the row itself.   *)

(* Mutant of DestroyBind: the row goes first, the log row is left for later. *)
DestroyBindDeleteFirst(w, u, r) ==
  /\ rows[r] # NoRow
  /\ mayDelete(u, rows[r])
  /\ Begin(w, "delete", u, r, rows[r], rows[r], FALSE)
  /\ UNCHANGED <<rows, lastId, history, queue, inbox>>

DestroyBind(w, u, r) ==
  /\ rows[r] # NoRow
  /\ mayDelete(u, rows[r])
  /\ Begin(w, "recordDeleted", u, r, rows[r], rows[r], FALSE)
  /\ UNCHANGED <<rows, lastId, history, queue, inbox>>

RecordDeleted(w) ==
  /\ Busy(w, "recordDeleted")
  /\ Log(job[w].req, LogEntry("deleted", job[w].snap.status, "none", job[w].user))
  /\ Goto(w, "delete")
  /\ UNCHANGED <<rows, lastId, queue, inbox, ops>>

DestroyRow(w) ==
  /\ Busy(w, "delete")
  /\ rows' = [rows EXCEPT ![job[w].req] = NoRow]
  /\ Finish(w)
  /\ UNCHANGED <<lastId, history, queue, inbox, ops>>

-----------------------------------------------------------------------------
(* The panel writes any status over any other and consults no scheme.       *)

PanelStore(w, a, new) ==
  /\ lastId < MaxRequests
  /\ lastId' = lastId + 1
  /\ rows' = [rows EXCEPT ![lastId + 1] = new]
  /\ Begin(w, "panelRecord", a, lastId + 1, new, new, TRUE)
  /\ UNCHANGED <<history, queue, inbox>>

PanelBind(w, a, r, new) ==
  /\ rows[r] # NoRow
  /\ Begin(w, "panelWrite", a, r, rows[r], new, TRUE)
  /\ UNCHANGED <<rows, lastId, history, queue, inbox>>

PanelCommit(w) ==
  /\ Busy(w, "panelWrite")
  /\ SaveRow(job[w].req, job[w].snap, job[w].new, job[w].timed)
  /\ Goto(w, "panelRecord")
  /\ UNCHANGED <<lastId, history, queue, inbox, ops>>

PanelDestroyBind(w, a, r) ==
  /\ rows[r] # NoRow
  /\ Begin(w, "panelDelete", a, r, rows[r], rows[r], FALSE)
  /\ UNCHANGED <<rows, lastId, history, queue, inbox>>

PanelDestroyRow(w) ==
  /\ Busy(w, "panelDelete")
  /\ rows' = [rows EXCEPT ![job[w].req] = NoRow]
  /\ Goto(w, "panelRecord")
  /\ UNCHANGED <<lastId, history, queue, inbox, ops>>

PanelRecord(w) ==
  /\ Busy(w, "panelRecord")
  /\ Log(job[w].req, LogEntry("panel", "none", "none", job[w].user))
  /\ Finish(w)
  /\ UNCHANGED <<rows, lastId, queue, inbox, ops>>

-----------------------------------------------------------------------------
(* The environment. *)

(* The row's property, client or agent is deleted for good and the foreign   *)
(* key takes the request along: nothing is logged.                           *)
Cascade(r) ==
  /\ rows[r] # NoRow
  /\ rows' = [rows EXCEPT ![r] = NoRow]
  /\ UNCHANGED <<lastId, history, job, queue, inbox, ops>>

(* A worker is killed or its next round trip fails: what it committed stays, *)
(* the rest of the handler never happens.                                   *)
Abort(w) ==
  /\ job[w] # NoJob
  /\ Finish(w)
  /\ UNCHANGED <<rows, lastId, history, queue, inbox, ops>>

(* The queue worker runs the oldest notification job.  The job holds the    *)
(* request's id and loads the row as it is by now; a job whose row is gone  *)
(* fails and writes nothing.                                                *)
DeliverNotification ==
  /\ queue # <<>>
  /\ queue' = Tail(queue)
  /\ LET n   == Head(queue)
         row == rows[n.req]
     IN  inbox' = IF row = NoRow THEN inbox
                  ELSE [inbox EXCEPT ![n.to] = @ \cup
                         {[kind |-> n.kind, req |-> n.req,
                           label |-> IF n.kind = "updated" THEN row.status ELSE "none"]}]
  /\ UNCHANGED <<rows, lastId, history, job, ops>>

-----------------------------------------------------------------------------
Arrive(w) ==
  Idle(w) /\ \E u \in Users :
    \/ \E p \in Properties, s \in Schedules : StoreCheck(w, u, p, s)
    \/ \E r \in Ids, p \in Patch : UpdateBind(w, u, r, p)
    \/ \E r \in Ids : DestroyBind(w, u, r)

Proceed(w) ==
  \/ StoreInsert(w) \/ RecordCreated(w) \/ NotifyCreated(w)
  \/ UpdateCommit(w) \/ UpdateNotify(w)
  \/ RecordDeleted(w) \/ DestroyRow(w)

Panel(w) ==
  \/ \E a \in Admins, new \in PanelRows :
       \/ PanelStore(w, a, new)
       \/ \E r \in Ids : PanelBind(w, a, r, new)
  \/ \E a \in Admins, r \in Ids : PanelDestroyBind(w, a, r)
  \/ PanelCommit(w) \/ PanelDestroyRow(w) \/ PanelRecord(w)

ApiNext ==
  \/ \E w \in Workers : Arrive(w) \/ Proceed(w)
  \/ DeliverNotification

Aborts == \E w \in Workers : Abort(w)

Next ==
  \/ ApiNext
  \/ Aborts
  \/ \E w \in Workers : Panel(w)
  \/ \E r \in Ids : Cascade(r)

(* The whole system; the API alone; and the API when no worker dies and     *)
(* every handler and queued job runs to its end.                            *)
Spec     == Init /\ [][Next]_vars
ApiSpec  == Init /\ [][ApiNext \/ Aborts]_vars
FairSpec == /\ Init /\ [][ApiNext]_vars
            /\ \A w \in Workers : WF_vars(Proceed(w))
            /\ WF_vars(DeliverNotification)

-----------------------------------------------------------------------------
(* Type invariant of the tables, the workers, the queue and the inboxes.    *)
TypeOK ==
  /\ rows \in [Ids -> Row \cup {NoRow}]
  /\ lastId \in 0 .. MaxRequests
  /\ history \in [Ids -> Seq(Entry)]
  /\ job \in [Workers -> Job \cup {NoJob}]
  /\ \A w \in Workers : job[w] # NoJob /\ job[w].pc # "insert" => job[w].req \in Ids
  /\ queue \in Seq(Notification)
  /\ inbox \in [Users -> SUBSET [kind  : {"created", "updated"},
                                  req   : Ids,
                                  label : Statuses \cup {"none"}]]
  /\ ops \in 0 .. MaxOps

(* The i-th row of log h is the last one for that kind of change.            *)
IsLast(h, action, i) ==
  /\ h[i].action = action
  /\ \A k \in DOMAIN h : k > i => h[k].action # action

(* Row and log agree on the status: it is the one of the last log row about  *)
(* it, and pending when no log row changes it.                               *)
StatusAgrees(row, h) ==
  /\ \A i \in DOMAIN h : IsLast(h, "status_changed", i) => row.status = h[i].to
  /\ (\A i \in DOMAIN h : h[i].action # "status_changed") => row.status = "pending"

(* The change log the parties are shown and the table agree on the status,   *)
(* however the handlers of update() interleave, die or lose a race.          *)
StatusMatchesLog ==
  \A r \in Ids : rows[r] # NoRow => StatusAgrees(rows[r], history[r])

(* The schedules that rows new in log h2 say were left and taken.            *)
Reschedules(h, h2) ==
  {<<h2[i].from, h2[i].to>> :
     i \in {k \in DOMAIN h2 \ DOMAIN h : h2[k].action = "rescheduled"}}

(* "Every change is recorded with the old and the new value": for the        *)
(* schedule this fails, but only by a commit of update() whose loaded copy   *)
(* had another schedule than the row by then.  Such a commit merges its date *)
(* or its time with the row's and logs a pair the row never had, or writes   *)
(* a time that was sent again over a newer one and logs nothing.             *)
RescheduleLoggedUnlessStale ==
  [][\A r \in Ids :
       /\ rows[r] # NoRow /\ rows'[r] # NoRow
       /\ Reschedules(history[r], history'[r])
            # {<<Schedule(rows[r]), Schedule(rows'[r])>>}
              \ {<<Schedule(rows[r]), Schedule(rows[r])>>}
       => \E w \in Workers : /\ Busy(w, "write")
                             /\ job[w].req = r
                             /\ Schedule(job[w].snap) # Schedule(rows[r])]_vars

EverConfirmed(h) ==
  \E i \in DOMAIN h : h[i].action = "status_changed" /\ h[i].to = "confirmed"

(* A viewing is completed only after it was confirmed: the scheme survives   *)
(* the stale copies at least this far, because a stale copy was once true.   *)
CompletedWasConfirmed ==
  \A r \in Ids :
    rows[r] # NoRow /\ rows[r].status = "completed" => EverConfirmed(history[r])

SaysDeleted(h) == \E i \in DOMAIN h : h[i].action = "deleted"

(* A request that was deleted through the API has a log row saying so, even  *)
(* when the worker died half way: destroy() logs first.                      *)
DeletionIsLogged ==
  \A r \in 1 .. lastId : rows[r] = NoRow => SaysDeleted(history[r])

(* A deleted id never comes back: a late UPDATE of a deleted row must not    *)
(* recreate it, whether it comes from the API or from the panel.             *)
DeletedStaysDeleted ==
  [][\A r \in 1 .. lastId : rows[r] = NoRow => rows'[r] = NoRow]_vars

(* The moves of the status scheme, as the enum draws them.                   *)
InScheme(s, t) ==
  <<s, t>> \in {<<"pending", "confirmed">>, <<"pending", "rejected">>,
               <<"pending", "cancelled">>, <<"confirmed", "completed">>,
               <<"confirmed", "cancelled">>}

(* A status outside the scheme's moves is written only by a handler whose    *)
(* loaded copy was out of date by then: overlap is the only way round it.    *)
OffSchemeOnlyIfStale ==
  [][\A r \in Ids :
       /\ rows[r] # NoRow /\ rows'[r] # NoRow
       /\ rows'[r].status # rows[r].status
       /\ ~InScheme(rows[r].status, rows'[r].status)
       => \E w \in Workers : /\ Busy(w, "write")
                             /\ job[w].req = r
                             /\ job[w].snap.status # rows[r].status]_vars

(* What the status scheme says of itself (ViewingRequestStatus.php:13-16): a *)
(* rejected, cancelled or completed request is never opened again.           *)
TerminalIsFinal ==
  [][\A r \in Ids :
       rows[r] # NoRow /\ rows'[r] # NoRow /\ ~isOpen(rows[r].status)
       => rows'[r].status = rows[r].status]_vars

(* Read in order, the status rows of a log are a walk along the scheme that  *)
(* starts at pending.                                                        *)
IsAPath(h) ==
  \A j \in DOMAIN h : h[j].action = "status_changed" =>
    LET before == {i \in 1 .. j - 1 : h[i].action = "status_changed"}
    IN  /\ InScheme(h[j].from, h[j].to)
        /\ \A i \in before : (\A k \in before : k <= i) => h[i].to = h[j].from
        /\ before = {} => h[j].from = "pending"

(* The last schedule logged is the row's.                                    *)
ScheduleAgrees(row, h) ==
  \A i \in DOMAIN h : IsLast(h, "rescheduled", i) => Schedule(row) = h[i].to

(* Handlers one at a time: every log is such a walk, which ends at the       *)
(* status the row has, and the last schedule logged is the row's too.        *)
HistoryIsAPath ==
  \A r \in Ids :
    /\ IsAPath(history[r])
    /\ rows[r] # NoRow => StatusAgrees(rows[r], history[r]) /\ ScheduleAgrees(rows[r], history[r])

(* Once every handler and queued job has run, the party that did not make    *)
(* the last change of status has a notification naming exactly that status:  *)
(* a later change cannot leave only outdated notifications behind.           *)
Quiescent == queue = <<>> /\ \A w \in Workers : job[w] = NoJob

InboxIsCurrent ==
  Quiescent =>
    \A r \in Ids : rows[r] # NoRow =>
      \A i \in DOMAIN history[r] : IsLast(history[r], "status_changed", i) =>
        LET other == IF history[r][i].by = rows[r].client THEN rows[r].agent
                                                          ELSE rows[r].client
        IN  [kind |-> "updated", req |-> r, label |-> history[r][i].to] \in inbox[other]

(* A committed change of status is eventually shown to the other party,      *)
(* unless another change replaced it or the request was deleted first.       *)
Announced(w, r, c, t) ==
  (Busy(w, "notify") /\ job[w].req = r /\ job[w].new.status = t
     /\ rows[r] # NoRow /\ Counterpart(job[w], rows[r]) = c)
  ~> \/ rows[r] = NoRow
     \/ rows[r].status # t
     \/ [kind |-> "updated", req |-> r, label |-> t] \in inbox[c]

ChangeIsAnnounced ==
  \A w \in Workers, r \in Ids, c \in Users, t \in Targets : Announced(w, r, c, t)

(* Handled one at a time, the requests follow the abstract lifecycle.        *)
StageOf(r) ==
  IF rows[r] # NoRow THEN rows[r].status
  ELSE IF r <= lastId THEN "deleted" ELSE "none"

Lifecycle == INSTANCE ViewingLifecycle WITH Ids <- Ids, stage <- [r \in Ids |-> StageOf(r)]

FollowsLifecycle == Lifecycle!Spec
=============================================================================
