------------------------ MODULE ViewingRequest_proofs ------------------------
(***************************************************************************)
(* Proofs about ViewingRequest, for any number of users, workers, requests   *)
(* and schedules.  Of the whole system: the type invariant, and that a       *)
(* deleted request never comes back.  Of the API: the log ends at the status *)
(* of the row, a reschedule is logged unless the handler's copy was stale, a *)
(* completion follows a confirmation, deletions are logged, and the scheme   *)
(* is left only on a stale copy.  Of the API with one worker: the log is a   *)
(* walk that ends at the row, and the abstract lifecycle is implemented.  Of *)
(* the API without deaths of workers: the inboxes catch up with the table.   *)
(***************************************************************************)
EXTENDS ViewingRequest, TLAPS

(* A row written through Saved or with one field replaced is a row.          *)
LEMMA SavedIsRow ==
  ASSUME NEW row \in Row, NEW snap \in Row, NEW new \in Row, NEW timed
  PROVE  Saved(row, snap, new, timed) \in Row
BY DEF Saved, Row

(* A loaded copy is a row: the binding found it.                             *)
LEMMA LoadedIsRow ==
  ASSUME TypeOK, NEW r \in Ids, rows[r] # NoRow
  PROVE  rows[r] \in Row
BY DEF TypeOK

(* What a busy worker holds is a handler.                                    *)
LEMMA BusyIsJob ==
  ASSUME TypeOK, NEW w \in Workers, job[w] # NoJob
  PROVE  /\ job[w] \in Job
         /\ job[w].pc # "insert" => job[w].req \in Ids
BY DEF TypeOK

(* Starting a handler keeps the types when the handler is well formed.       *)
LEMMA BeginType ==
  ASSUME TypeOK, NEW w \in Workers, NEW pc, NEW u \in Users, NEW r, NEW snap \in Row,
         NEW new \in Row,
         NEW timed \in BOOLEAN,
         [pc |-> pc, user |-> u, req |-> r, snap |-> snap, new |-> new, timed |-> timed] \in Job,
         pc # "insert" => r \in Ids,
         Begin(w, pc, u, r, snap, new, timed)
  PROVE  /\ job' \in [Workers -> Job \cup {NoJob}]
         /\ \A v \in Workers : job'[v] # NoJob /\ job'[v].pc # "insert" => job'[v].req \in Ids
         /\ ops' \in 0 .. MaxOps
BY ConstantsAssumption DEF TypeOK, Begin, Idle, Job

(* Moving a handler on, or ending it, keeps the types of the workers.        *)
LEMMA GotoType ==
  ASSUME TypeOK, NEW w \in Workers, NEW pc, job[w] # NoJob, job[w].pc # "insert",
         pc \in {"recordCreated", "notifyCreated", "write", "notify", "recordDeleted",
                 "delete", "panelWrite", "panelDelete", "panelRecord"},
         Goto(w, pc)
  PROVE  /\ job' \in [Workers -> Job \cup {NoJob}]
         /\ \A v \in Workers : job'[v] # NoJob /\ job'[v].pc # "insert" => job'[v].req \in Ids
BY DEF TypeOK, Goto, Job

LEMMA FinishType ==
  ASSUME TypeOK, NEW w \in Workers, Finish(w)
  PROVE  /\ job' \in [Workers -> Job \cup {NoJob}]
         /\ \A v \in Workers : job'[v] # NoJob /\ job'[v].pc # "insert" => job'[v].req \in Ids
BY DEF TypeOK, Finish

(* One more log row keeps the type of the log.                               *)
LEMMA LogType ==
  ASSUME TypeOK, NEW r, NEW e \in Entry, Log(r, e)
  PROVE  history' \in [Ids -> Seq(Entry)]
<1>1. history \in [Ids -> Seq(Entry)]
  BY DEF TypeOK
<1>2. ASSUME NEW i \in Ids PROVE Append(history[i], e) \in Seq(Entry)
  BY <1>1
<1> QED BY <1>1, <1>2 DEF Log

LEMMA SaveType ==
  ASSUME TypeOK, NEW r \in Ids, NEW snap \in Row, NEW new \in Row, NEW timed,
         SaveRow(r, snap, new, timed)
  PROVE  rows' \in [Ids -> Row \cup {NoRow}]
<1>1. rows[r] # NoRow => Saved(rows[r], snap, new, timed) \in Row
  BY LoadedIsRow, SavedIsRow
<1> QED BY <1>1 DEF TypeOK, SaveRow
-----------------------------------------------------------------------------
(* One step of any kind keeps the types.                                     *)
LEMMA TypeStep == TypeOK /\ [Next]_vars => TypeOK'
<1> SUFFICES ASSUME TypeOK, [Next]_vars PROVE TypeOK'
  OBVIOUS
<1> USE ConstantsAssumption, RowAssumption
<1>1. ASSUME NEW w \in Workers, NEW u \in Users, NEW p \in Properties, NEW s \in Schedules,
             StoreCheck(w, u, p, s)
      PROVE  TypeOK'
  <2> DEFINE n == Asked(u, p, s)
  <2>1. n \in Row /\ [pc |-> "insert", user |-> u, req |-> 0, snap |-> n, new |-> n, timed |-> TRUE] \in Job
    BY DEF Row, Statuses, Job, Asked, Schedules
  <2>2. Begin(w, "insert", u, 0, n, n, TRUE)
    BY <1>1 DEF StoreCheck
  <2> QED BY <1>1, <2>1, <2>2, BeginType DEF StoreCheck, TypeOK
<1>2. ASSUME NEW w \in Workers, StoreInsert(w) PROVE TypeOK'
  <2>1. job[w] \in Job /\ lastId + 1 \in Ids
    BY <1>2, BusyIsJob DEF StoreInsert, Busy, TypeOK, Ids
  <2>2. job' \in [Workers -> Job \cup {NoJob}]
    <3>1. job' = [job EXCEPT ![w] = [job[w] EXCEPT !.pc = "recordCreated", !.req = lastId + 1]]
      BY <1>2 DEF StoreInsert, TypeOK
    <3>2. lastId + 1 \in 0 .. MaxRequests
      BY <2>1 DEF Ids
    <3>3. [job[w] EXCEPT !.pc = "recordCreated", !.req = lastId + 1] \in Job
      BY <2>1, <3>2 DEF Job
    <3> QED BY <3>1, <3>3 DEF TypeOK
  <2>3. \A v \in Workers : job'[v] # NoJob /\ job'[v].pc # "insert" => job'[v].req \in Ids
    BY <1>2, <2>1 DEF StoreInsert, TypeOK, Job
  <2>4. rows' \in [Ids -> Row \cup {NoRow}]
    BY <1>2, <2>1 DEF StoreInsert, TypeOK, Job
  <2>5. lastId' \in 0 .. MaxRequests
    BY <1>2, <2>1 DEF StoreInsert, TypeOK, Ids
  <2> QED BY <1>2, <2>2, <2>3, <2>4, <2>5 DEF StoreInsert, TypeOK
<1>3. ASSUME NEW w \in Workers, RecordCreated(w) PROVE TypeOK'
  <2>1. LogEntry("created", "none", "pending", job[w].user) \in Entry
    BY <1>3, BusyIsJob DEF RecordCreated, Busy, LogEntry, Entry, Job, Statuses
  <2> QED BY <1>3, <2>1, LogType, GotoType DEF RecordCreated, Busy, TypeOK
<1>4. ASSUME NEW w \in Workers, NotifyCreated(w) PROVE TypeOK'
  <2>1. [kind |-> "created", to |-> job[w].new.agent, req |-> job[w].req] \in Notification
    BY <1>4, BusyIsJob DEF NotifyCreated, Busy, Notification, Job, Row
  <2> QED BY <1>4, <2>1, FinishType DEF NotifyCreated, TypeOK
<1>5. ASSUME NEW w \in Workers, NEW u \in Users, NEW r \in Ids, NEW p \in Patch, UpdateBind(w, u, r, p)
      PROVE  TypeOK'
  <2> DEFINE n == Patched(rows[r], p)
  <2>1. rows[r] \in Row
    BY <1>5, LoadedIsRow DEF UpdateBind
  <2>2. n \in Row
    BY <2>1 DEF Row, Targets, Patch, Patched, Sent
  <2>3. [pc |-> "write", user |-> u, req |-> r, snap |-> rows[r], new |-> n,
         timed |-> p.time # "keep"] \in Job
    BY <2>1, <2>2 DEF Job, Ids
  <2>4. Begin(w, "write", u, r, rows[r], n, p.time # "keep")
    BY <1>5 DEF UpdateBind
  <2> HIDE DEF n
  <2> QED BY <1>5, <2>1, <2>2, <2>3, <2>4, BeginType DEF UpdateBind, TypeOK
<1>6. ASSUME NEW w \in Workers, UpdateCommit(w) PROVE TypeOK'
  <2>1. job[w] \in Job /\ job[w].req \in Ids
    BY <1>6, BusyIsJob DEF UpdateCommit, Busy
  <2>2. rows' \in [Ids -> Row \cup {NoRow}]
    BY <1>6, <2>1, SaveType DEF UpdateCommit, Job
  <2>3. ASSUME NEW h \in Seq(Entry)
        PROVE  LogSchedule(LogStatus(h, job[w]), job[w]) \in Seq(Entry)
    <3>1. LogEntry("status_changed", job[w].snap.status, job[w].new.status, job[w].user) \in Entry
      BY <2>1 DEF LogEntry, Entry, Job, Row
    <3>2. LogEntry("rescheduled", Schedule(job[w].snap), Schedule(job[w].new), job[w].user) \in Entry
      BY <2>1 DEF LogEntry, Entry, Job, Row, Schedule, Schedules
    <3>3. LogStatus(h, job[w]) \in Seq(Entry)
      BY <3>1 DEF LogStatus
    <3> QED BY <3>2, <3>3 DEF LogSchedule
  <2>4. history' \in [Ids -> Seq(Entry)]
    BY <1>6, <2>1, <2>3 DEF UpdateCommit, TypeOK
  <2> QED BY <1>6, <2>2, <2>4, GotoType DEF UpdateCommit, Busy, TypeOK
<1>7. ASSUME NEW w \in Workers, UpdateNotify(w) PROVE TypeOK'
  <2>1. job[w] \in Job /\ job[w].req \in Ids
    BY <1>7, BusyIsJob DEF UpdateNotify, Busy
  <2>2. rows[job[w].req] # NoRow =>
          [kind |-> "updated", to |-> Counterpart(job[w], rows[job[w].req]), req |-> job[w].req]
            \in Notification
    BY <2>1, LoadedIsRow DEF Notification, Counterpart, Row
  <2>3. queue' \in Seq(Notification)
    BY <1>7, <2>2 DEF UpdateNotify, TypeOK
  <2> QED BY <1>7, <2>3, FinishType DEF UpdateNotify, TypeOK
<1>8. ASSUME NEW w \in Workers, NEW u \in Users, NEW r \in Ids, DestroyBind(w, u, r)
      PROVE  TypeOK'
  <2>1. /\ rows[r] \in Row
        /\ [pc |-> "recordDeleted", user |-> u, req |-> r, snap |-> rows[r], new |-> rows[r],
            timed |-> FALSE] \in Job
    BY <1>8, LoadedIsRow DEF DestroyBind, Job, Ids
  <2> QED BY <1>8, <2>1, BeginType DEF DestroyBind, TypeOK
<1>9. ASSUME NEW w \in Workers, RecordDeleted(w) PROVE TypeOK'
  <2>1. LogEntry("deleted", job[w].snap.status, "none", job[w].user) \in Entry
    BY <1>9, BusyIsJob DEF RecordDeleted, Busy, LogEntry, Entry, Job, Row
  <2> QED BY <1>9, <2>1, LogType, GotoType DEF RecordDeleted, Busy, TypeOK
<1>10. ASSUME NEW w \in Workers, DestroyRow(w) PROVE TypeOK'
  BY <1>10, FinishType DEF DestroyRow, TypeOK
<1>11. ASSUME DeliverNotification PROVE TypeOK'
  <2> DEFINE n == Head(queue)
  <2>1. n \in Notification /\ queue' \in Seq(Notification)
    BY <1>11 DEF DeliverNotification, TypeOK
  <2>2. rows[n.req] # NoRow => rows[n.req] \in Row
    BY <2>1, LoadedIsRow DEF Notification
  <2>3. inbox' \in [Users -> SUBSET [kind  : {"created", "updated"}, req : Ids,
                                     label : Statuses \cup {"none"}]]
    BY <1>11, <2>1, <2>2 DEF DeliverNotification, TypeOK, Notification, Row
  <2> QED BY <1>11, <2>1, <2>3 DEF DeliverNotification, TypeOK
<1>12. ASSUME NEW w \in Workers, Abort(w) PROVE TypeOK'
  BY <1>12, FinishType DEF Abort, TypeOK
<1>13. ASSUME NEW r \in Ids, Cascade(r) PROVE TypeOK'
  BY <1>13 DEF Cascade, TypeOK
<1>14. ASSUME NEW w \in Workers, NEW a \in Admins, NEW new \in PanelRows, PanelStore(w, a, new)
       PROVE  TypeOK'
  <2>1. /\ new \in Row /\ a \in Users /\ lastId + 1 \in Ids
        /\ lastId' \in 0 .. MaxRequests
    BY <1>14 DEF PanelStore, TypeOK, Ids
  <2>2. [pc |-> "panelRecord", user |-> a, req |-> lastId + 1, snap |-> new, new |-> new,
         timed |-> TRUE] \in Job
    BY <2>1 DEF Job, Ids
  <2> QED BY <1>14, <2>1, <2>2, BeginType DEF PanelStore, TypeOK
<1>15. ASSUME NEW w \in Workers, NEW a \in Admins, NEW r \in Ids, NEW new \in PanelRows,
              PanelBind(w, a, r, new)
       PROVE  TypeOK'
  <2>1. new \in Row /\ a \in Users /\ rows[r] \in Row
    BY <1>15, LoadedIsRow DEF PanelBind
  <2>2. [pc |-> "panelWrite", user |-> a, req |-> r, snap |-> rows[r], new |-> new,
         timed |-> TRUE] \in Job
    BY <2>1 DEF Job, Ids
  <2> QED BY <1>15, <2>1, <2>2, BeginType DEF PanelBind, TypeOK
<1>16. ASSUME NEW w \in Workers, NEW a \in Admins, NEW r \in Ids, PanelDestroyBind(w, a, r)
       PROVE  TypeOK'
  <2>1. a \in Users /\ rows[r] \in Row
    BY <1>16, LoadedIsRow DEF PanelDestroyBind
  <2>2. [pc |-> "panelDelete", user |-> a, req |-> r, snap |-> rows[r], new |-> rows[r],
         timed |-> FALSE] \in Job
    BY <2>1 DEF Job, Ids
  <2> QED BY <1>16, <2>1, <2>2, BeginType DEF PanelDestroyBind, TypeOK
<1>17. ASSUME NEW w \in Workers, PanelCommit(w) PROVE TypeOK'
  <2>1. rows' \in [Ids -> Row \cup {NoRow}]
    BY <1>17, BusyIsJob, SaveType DEF PanelCommit, Busy, Job
  <2> QED BY <1>17, <2>1, GotoType DEF PanelCommit, Busy, TypeOK
<1>18. ASSUME NEW w \in Workers, PanelDestroyRow(w) PROVE TypeOK'
  BY <1>18, GotoType DEF PanelDestroyRow, Busy, TypeOK
<1>19. ASSUME NEW w \in Workers, PanelRecord(w) PROVE TypeOK'
  <2>1. LogEntry("panel", "none", "none", job[w].user) \in Entry
    BY <1>19, BusyIsJob DEF PanelRecord, Busy, LogEntry, Entry, Job
  <2> QED BY <1>19, <2>1, LogType, FinishType DEF PanelRecord, TypeOK
<1>20. CASE UNCHANGED vars
  BY <1>20 DEF vars, TypeOK
<1> QED
  BY <1>1, <1>2, <1>3, <1>4, <1>5, <1>6, <1>7, <1>8, <1>9, <1>10, <1>11, <1>12, <1>13,
     <1>14, <1>15, <1>16, <1>17, <1>18, <1>19, <1>20
     DEF Next, ApiNext, Aborts, Arrive, Proceed, Panel

LEMMA TypeInit == Init => TypeOK
BY ConstantsAssumption DEF Init, TypeOK, Ids

(* The tables, the workers, the queue and the inboxes hold what their types  *)
(* say, whatever API, panel, cascade and worker deaths do.                   *)
THEOREM TypeCorrect == Spec => []TypeOK
BY TypeInit, TypeStep, PTL DEF Spec

(* The same for the API alone, a part of the whole system.                   *)
LEMMA ApiTypeCorrect == ApiSpec => []TypeOK
<1>1. [ApiNext \/ Aborts]_vars => [Next]_vars
  BY DEF Next
<1> QED BY <1>1, TypeInit, TypeStep, PTL DEF ApiSpec
-----------------------------------------------------------------------------
(***************************************************************************)
(* The change log.  Agreement of row and log is inductive once it is known   *)
(* that ids not handed out yet have an empty log, that handlers only work on  *)
(* ids handed out, and that a row is inserted pending.                        *)
(***************************************************************************)
FreshIsEmpty == \A r \in Ids : r > lastId => history[r] = <<>> /\ rows[r] = NoRow

JobsAreSane ==
  \A w \in Workers : job[w] # NoJob =>
    /\ job[w].pc = "insert" => job[w].new.status = "pending"
    /\ job[w].pc # "insert" => job[w].req <= lastId

AuditInv == TypeOK /\ FreshIsEmpty /\ JobsAreSane /\ StatusMatchesLog

(* Appending a log row keeps row and log in agreement when the row takes the *)
(* value the log row announces and is otherwise unchanged.                   *)
LEMMA AgreesAppend ==
  ASSUME NEW S, NEW h \in Seq(S), NEW e \in S, NEW row, NEW row2, StatusAgrees(row, h),
         row2.status = IF e.action = "status_changed" THEN e.to ELSE row.status
  PROVE  StatusAgrees(row2, Append(h, e))
<1> DEFINE g == Append(h, e)
<1>1. /\ DOMAIN g = 1 .. Len(h) + 1
      /\ DOMAIN h = 1 .. Len(h)
      /\ Len(h) \in Nat
      /\ g[Len(h) + 1] = e
      /\ \A i \in 1 .. Len(h) : g[i] = h[i]
  OBVIOUS
<1> HIDE DEF g
<1>2. ASSUME NEW i \in DOMAIN g, IsLast(g, "status_changed", i)
      PROVE  row2.status = g[i].to
  <2>1. CASE i = Len(h) + 1
    BY <1>1, <1>2, <2>1 DEF IsLast
  <2>2. CASE i # Len(h) + 1
    <3>1. i \in DOMAIN h /\ g[i] = h[i] /\ e.action # "status_changed"
      BY <1>1, <1>2, <2>2 DEF IsLast
    <3>2. IsLast(h, "status_changed", i)
      BY <1>1, <1>2, <3>1 DEF IsLast
    <3> QED BY <3>1, <3>2 DEF StatusAgrees
  <2> QED BY <2>1, <2>2
<1>3. ASSUME \A i \in DOMAIN g : g[i].action # "status_changed"
      PROVE  row2.status = "pending"
  <2>1. e.action # "status_changed" /\ \A i \in DOMAIN h : h[i].action # "status_changed"
    BY <1>1, <1>3
  <2> QED BY <2>1 DEF StatusAgrees
<1> QED BY <1>2, <1>3 DEF StatusAgrees, g

(* Beginning, moving on and ending a handler keep the workers sane.          *)
LEMMA BeginSane ==
  ASSUME TypeOK, JobsAreSane, NEW w \in Workers, NEW pc, NEW u, NEW r, NEW snap, NEW new, NEW timed,
         Begin(w, pc, u, r, snap, new, timed), lastId' = lastId,
         pc = "insert" => new.status = "pending",
         pc # "insert" => r <= lastId
  PROVE  JobsAreSane'
BY DEF TypeOK, JobsAreSane, Begin

LEMMA GotoSane ==
  ASSUME TypeOK, JobsAreSane, NEW w \in Workers, NEW pc, job[w] # NoJob,
         job[w].pc # "insert", pc # "insert", Goto(w, pc), lastId' = lastId
  PROVE  JobsAreSane'
<1>1. job[w] \in Job
  BY BusyIsJob
<1>2. job' = [job EXCEPT ![w] = [job[w] EXCEPT !.pc = pc]]
  BY DEF TypeOK, Goto
<1>3. ASSUME NEW v \in Workers, job'[v] # NoJob, v # w
      PROVE  /\ job'[v].pc = "insert" => job'[v].new.status = "pending"
             /\ job'[v].pc # "insert" => job'[v].req <= lastId'
  BY <1>2, <1>3 DEF TypeOK, JobsAreSane
<1>4. job'[w].pc = pc /\ job'[w].req = job[w].req
  BY <1>1, <1>2 DEF TypeOK, Job
<1> QED BY <1>3, <1>4 DEF JobsAreSane

LEMMA FinishSane ==
  ASSUME TypeOK, JobsAreSane, NEW w \in Workers, Finish(w), lastId' = lastId
  PROVE  JobsAreSane'
BY DEF TypeOK, JobsAreSane, Finish

(* A log row about neither status nor schedule leaves log and row agreeing.   *)
LEMMA LogOther ==
  ASSUME AuditInv, NEW r \in Ids, r <= lastId, NEW e \in Entry, Log(r, e),
         e.action \notin {"status_changed", "rescheduled"}, UNCHANGED <<rows, lastId>>
  PROVE  FreshIsEmpty' /\ StatusMatchesLog'
<1>1. /\ history \in [Ids -> Seq(Entry)]
      /\ history' = [history EXCEPT ![r] = Append(history[r], e)]
  BY DEF AuditInv, TypeOK, Log
<1>2. FreshIsEmpty'
  BY <1>1 DEF AuditInv, FreshIsEmpty, TypeOK, Ids
<1>3. rows[r] # NoRow => StatusAgrees(rows[r], Append(history[r], e))
  BY <1>1, AgreesAppend DEF AuditInv, StatusMatchesLog
<1>4. StatusMatchesLog'
  BY <1>1, <1>3 DEF AuditInv, StatusMatchesLog
<1> QED BY <1>2, <1>4

(* The transaction of update(): the status Eloquent writes is the one the    *)
(* log row announces, whatever the table held by then.                       *)
LEMMA CommitAgrees ==
  ASSUME NEW row \in Row, NEW j \in Job, NEW h \in Seq(Entry), StatusAgrees(row, h)
  PROVE  StatusAgrees(Saved(row, j.snap, j.new, j.timed), LogSchedule(LogStatus(h, j), j))
<1> DEFINE e1  == LogEntry("status_changed", j.snap.status, j.new.status, j.user)
           e2  == LogEntry("rescheduled", Schedule(j.snap), Schedule(j.new), j.user)
           h1  == LogStatus(h, j)
           fin == Saved(row, j.snap, j.new, j.timed)
<1>1. /\ e1 \in Entry /\ e1.action = "status_changed" /\ e1.to = j.new.status
      /\ e2 \in Entry /\ e2.action = "rescheduled"
  BY DEF LogEntry, Entry, Job, Row, Schedule, Schedules
<1>2. fin.status = IF j.new.status # j.snap.status THEN j.new.status ELSE row.status
  BY DEF Row, Saved
<1>3. h1 \in Seq(Entry) /\ h1 = IF j.new.status = j.snap.status THEN h ELSE Append(h, e1)
  <2>1. h1 = IF j.new.status = j.snap.status THEN h ELSE Append(h, e1)
    BY DEF LogStatus
  <2> HIDE DEF e1, h1
  <2> QED BY <1>1, <2>1
<1>4. LogSchedule(h1, j) = IF Schedule(j.new) = Schedule(j.snap) THEN h1 ELSE Append(h1, e2)
  BY DEF LogSchedule
<1> HIDE DEF e1, e2, h1, fin
<1>5. StatusAgrees(fin, h1)
  <2>1. CASE j.new.status = j.snap.status
    BY <1>2, <1>3, <2>1 DEF StatusAgrees
  <2>2. CASE j.new.status # j.snap.status
    BY <1>1, <1>2, <1>3, <2>2, AgreesAppend
  <2> QED BY <2>1, <2>2
<1>6. StatusAgrees(fin, LogSchedule(h1, j))
  BY <1>1, <1>3, <1>4, <1>5, AgreesAppend
<1> QED BY <1>6 DEF fin, h1

(* One step of the API keeps log and table in agreement.                     *)
LEMMA AuditStep == AuditInv /\ [ApiNext \/ Aborts]_vars => AuditInv'
<1> SUFFICES ASSUME AuditInv, [ApiNext \/ Aborts]_vars PROVE AuditInv'
  OBVIOUS
<1>0. TypeOK'
  BY TypeStep DEF AuditInv, Next
<1> USE ConstantsAssumption, RowAssumption
<1>a. TypeOK /\ FreshIsEmpty /\ JobsAreSane /\ StatusMatchesLog
  BY DEF AuditInv
<1>b. ASSUME UNCHANGED <<rows, lastId, history>>
      PROVE  FreshIsEmpty' /\ StatusMatchesLog'
  BY <1>a, <1>b DEF FreshIsEmpty, StatusMatchesLog
<1>c. ASSUME NEW r \in Ids, rows[r] # NoRow
      PROVE  r <= lastId
  BY <1>a, <1>c DEF FreshIsEmpty, TypeOK, Ids
<1>d. ASSUME NEW w \in Workers, job[w] # NoJob, job[w].pc # "insert"
      PROVE  job[w] \in Job /\ job[w].req \in Ids /\ job[w].req <= lastId
  BY <1>a, <1>d, BusyIsJob DEF JobsAreSane
<1>1. ASSUME NEW w \in Workers, NEW u \in Users, NEW p \in Properties, NEW s \in Schedules,
             StoreCheck(w, u, p, s)
      PROVE  FreshIsEmpty' /\ JobsAreSane' /\ StatusMatchesLog'
  <2> DEFINE n == Asked(u, p, s)
  <2>1. Begin(w, "insert", u, 0, n, n, TRUE) /\ n.status = "pending"
    BY <1>1 DEF StoreCheck, Asked
  <2>2. JobsAreSane'
    BY <1>a, <1>1, <2>1, BeginSane DEF StoreCheck
  <2> QED BY <1>b, <1>1, <2>2 DEF StoreCheck
<1>2. ASSUME NEW w \in Workers, StoreInsert(w)
      PROVE  FreshIsEmpty' /\ JobsAreSane' /\ StatusMatchesLog'
  <2> DEFINE id == lastId + 1
  <2>1. /\ job[w] \in Job /\ job[w].new \in Row /\ job[w].new.status = "pending"
        /\ lastId \in Nat /\ id \in Ids /\ id > lastId
        /\ lastId' = id /\ history' = history
        /\ rows' = [rows EXCEPT ![id] = job[w].new]
    BY <1>a, <1>2, BusyIsJob DEF StoreInsert, Busy, JobsAreSane, TypeOK, Ids, Job
  <2>2. FreshIsEmpty'
    <3>1. ASSUME NEW r \in Ids, r > id PROVE r > lastId /\ r # id
      BY <2>1, <3>1 DEF Ids
    <3> QED BY <1>a, <2>1, <3>1 DEF FreshIsEmpty, TypeOK
  <2>3. JobsAreSane'
    <3>1. job' = [job EXCEPT ![w] = [job[w] EXCEPT !.pc = "recordCreated", !.req = id]]
      BY <1>a, <1>2 DEF StoreInsert, TypeOK
    <3>2. job'[w].pc = "recordCreated" /\ job'[w].req = id
      BY <1>a, <2>1, <3>1 DEF TypeOK, Job
    <3>3. ASSUME NEW v \in Workers, v # w, job[v] # NoJob, job[v].pc # "insert"
          PROVE  job[v].req <= id
      BY <1>a, <1>d, <2>1, <3>3 DEF Ids
    <3> QED BY <1>a, <2>1, <3>1, <3>2, <3>3 DEF JobsAreSane, TypeOK
  <2>4. StatusAgrees(job[w].new, history[id])
    BY <1>a, <2>1 DEF FreshIsEmpty, StatusAgrees
  <2>5. StatusMatchesLog'
    BY <1>a, <2>1, <2>4 DEF StatusMatchesLog, TypeOK
  <2> QED BY <2>2, <2>3, <2>5
<1>3. ASSUME NEW w \in Workers, RecordCreated(w)
      PROVE  FreshIsEmpty' /\ JobsAreSane' /\ StatusMatchesLog'
  <2> DEFINE e == LogEntry("created", "none", "pending", job[w].user)
  <2>1. e \in Entry /\ e.action = "created"
    BY <1>3, <1>d DEF RecordCreated, Busy, LogEntry, Entry, Job, Statuses
  <2>2. JobsAreSane'
    BY <1>a, <1>3, GotoSane DEF RecordCreated, Busy
  <2> QED BY <1>3, <1>d, <2>1, <2>2, LogOther DEF RecordCreated, Busy
<1>4. ASSUME NEW w \in Workers, NotifyCreated(w) \/ UpdateNotify(w) \/ Abort(w)
      PROVE  FreshIsEmpty' /\ JobsAreSane' /\ StatusMatchesLog'
  <2>1. Finish(w) /\ UNCHANGED <<rows, lastId, history>>
    BY <1>4 DEF NotifyCreated, UpdateNotify, Abort
  <2> QED BY <1>a, <1>b, <2>1, FinishSane
<1>5. ASSUME NEW w \in Workers, NEW u \in Users, NEW r \in Ids, NEW p \in Patch, UpdateBind(w, u, r, p)
      PROVE  FreshIsEmpty' /\ JobsAreSane' /\ StatusMatchesLog'
  <2>1. PICK n, b : Begin(w, "write", u, r, rows[r], n, b)
    BY <1>5 DEF UpdateBind
  <2>2. r <= lastId /\ UNCHANGED <<rows, lastId, history>>
    BY <1>c, <1>5 DEF UpdateBind
  <2> QED BY <1>a, <1>b, <2>1, <2>2, BeginSane
<1>6. ASSUME NEW w \in Workers, UpdateCommit(w)
      PROVE  FreshIsEmpty' /\ JobsAreSane' /\ StatusMatchesLog'
  <2> DEFINE j == job[w]
             h2 == LogSchedule(LogStatus(history[j.req], j), j)
  <2>1. j \in Job /\ j.req \in Ids /\ j.req <= lastId /\ lastId' = lastId
    BY <1>6, <1>d DEF UpdateCommit, Busy
  <2>2. history' = [history EXCEPT ![j.req] = h2] /\ SaveRow(j.req, j.snap, j.new, j.timed)
    BY <1>6 DEF UpdateCommit
  <2>3. JobsAreSane'
    BY <1>a, <1>6, GotoSane DEF UpdateCommit, Busy
  <2>4. rows[j.req] # NoRow => StatusAgrees(Saved(rows[j.req], j.snap, j.new, j.timed), h2)
    BY <1>a, <2>1, LoadedIsRow, CommitAgrees DEF StatusMatchesLog, TypeOK
  <2> HIDE DEF h2, j
  <2>5. rows' = [rows EXCEPT ![j.req] = IF rows[j.req] = NoRow THEN NoRow
                                        ELSE Saved(rows[j.req], j.snap, j.new, j.timed)]
    BY <2>2 DEF SaveRow
  <2>6. StatusMatchesLog'
    BY <1>a, <2>1, <2>2, <2>4, <2>5 DEF StatusMatchesLog, TypeOK
  <2>7. FreshIsEmpty'
    BY <1>a, <2>1, <2>2, <2>5 DEF FreshIsEmpty, TypeOK, Ids
  <2> QED BY <2>3, <2>6, <2>7
<1>7. ASSUME NEW w \in Workers, NEW u \in Users, NEW r \in Ids, DestroyBind(w, u, r)
      PROVE  FreshIsEmpty' /\ JobsAreSane' /\ StatusMatchesLog'
  <2>1. r <= lastId /\ UNCHANGED <<rows, lastId, history>>
    BY <1>c, <1>7 DEF DestroyBind
  <2>2. Begin(w, "recordDeleted", u, r, rows[r], rows[r], FALSE)
    BY <1>7 DEF DestroyBind
  <2> QED BY <1>a, <1>b, <2>1, <2>2, BeginSane
<1>8. ASSUME NEW w \in Workers, RecordDeleted(w)
      PROVE  FreshIsEmpty' /\ JobsAreSane' /\ StatusMatchesLog'
  <2> DEFINE e == LogEntry("deleted", job[w].snap.status, "none", job[w].user)
  <2>1. e \in Entry /\ e.action = "deleted"
    BY <1>8, <1>d DEF RecordDeleted, Busy, LogEntry, Entry, Job, Row
  <2>2. JobsAreSane'
    BY <1>a, <1>8, GotoSane DEF RecordDeleted, Busy
  <2> QED BY <1>8, <1>d, <2>1, <2>2, LogOther DEF RecordDeleted, Busy
<1>9. ASSUME NEW w \in Workers, DestroyRow(w)
      PROVE  FreshIsEmpty' /\ JobsAreSane' /\ StatusMatchesLog'
  <2>1. JobsAreSane'
    BY <1>a, <1>9, FinishSane DEF DestroyRow
  <2>2. FreshIsEmpty' /\ StatusMatchesLog'
    BY <1>a, <1>9 DEF DestroyRow, FreshIsEmpty, StatusMatchesLog, TypeOK
  <2> QED BY <2>1, <2>2
<1>10. ASSUME DeliverNotification \/ UNCHANGED vars
       PROVE  FreshIsEmpty' /\ JobsAreSane' /\ StatusMatchesLog'
  BY <1>a, <1>b, <1>10 DEF DeliverNotification, vars, JobsAreSane
<1>11. FreshIsEmpty' /\ JobsAreSane' /\ StatusMatchesLog'
  BY <1>1, <1>2, <1>3, <1>4, <1>5, <1>6, <1>7, <1>8, <1>9, <1>10
     DEF ApiNext, Aborts, Arrive, Proceed
<1> QED BY <1>0, <1>11 DEF AuditInv

LEMMA AuditInit == Init => AuditInv
<1> SUFFICES ASSUME Init PROVE AuditInv
  OBVIOUS
<1> QED BY TypeInit DEF AuditInv, Init, FreshIsEmpty, JobsAreSane, StatusMatchesLog

(* Under the API, for any number of overlapping handlers and worker deaths,  *)
(* the log the parties are shown agrees with the table on the status.        *)
THEOREM StatusLogCorrect == ApiSpec => []StatusMatchesLog
<1>1. AuditInv => StatusMatchesLog
  BY DEF AuditInv
<1> QED BY <1>1, AuditInit, AuditStep, PTL DEF ApiSpec
-----------------------------------------------------------------------------
(***************************************************************************)
(* Completion follows a confirmation.  A handler completes a request only on  *)
(* a copy that was confirmed, and the row was confirmed when it was copied;   *)
(* the log never shrinks, so its row about the confirmation is still there.   *)
(***************************************************************************)
NeedsConfirmation(s) == s \in {"confirmed", "completed"}

RowsWereConfirmed ==
  \A r \in Ids : rows[r] # NoRow /\ NeedsConfirmation(rows[r].status)
                 => EverConfirmed(history[r])

CopiesWereConfirmed ==
  \A w \in Workers : job[w] # NoJob =>
    /\ job[w].pc = "insert" => job[w].new.status = "pending"
    /\ job[w].pc = "write" =>
         /\ NeedsConfirmation(job[w].snap.status) => EverConfirmed(history[job[w].req])
         /\ job[w].new.status = "completed" => NeedsConfirmation(job[w].snap.status)

ConfirmedInv == TypeOK /\ RowsWereConfirmed /\ CopiesWereConfirmed

(* A log that has gained rows still tells of a confirmation it told of.      *)
LEMMA AppendConfirmed ==
  ASSUME NEW S, NEW h \in Seq(S), NEW e \in S
  PROVE  /\ EverConfirmed(h) => EverConfirmed(Append(h, e))
         /\ e.action = "status_changed" /\ e.to = "confirmed" => EverConfirmed(Append(h, e))
<1> DEFINE g == Append(h, e)
<1>1. /\ DOMAIN g = 1 .. Len(h) + 1 /\ DOMAIN h = 1 .. Len(h) /\ Len(h) \in Nat
      /\ g[Len(h) + 1] = e /\ \A i \in 1 .. Len(h) : g[i] = h[i]
  OBVIOUS
<1> HIDE DEF g
<1>2. EverConfirmed(h) => EverConfirmed(g)
  <2>1. DOMAIN h \subseteq DOMAIN g
    BY <1>1
  <2> QED BY <1>1, <2>1 DEF EverConfirmed
<1>3. e.action = "status_changed" /\ e.to = "confirmed" => EverConfirmed(g)
  <2>1. Len(h) + 1 \in DOMAIN g
    BY <1>1
  <2> QED BY <1>1, <2>1 DEF EverConfirmed
<1> QED BY <1>2, <1>3 DEF g

(* The log rows of a commit: nothing is forgotten, and a handler that        *)
(* confirms leaves a row saying so.                                          *)
LEMMA CommitConfirmed ==
  ASSUME NEW j \in Job, NEW h \in Seq(Entry)
  PROVE  LET h2 == LogSchedule(LogStatus(h, j), j)
         IN  /\ EverConfirmed(h) => EverConfirmed(h2)
             /\ j.new.status # j.snap.status /\ j.new.status = "confirmed" => EverConfirmed(h2)
<1> DEFINE e1 == LogEntry("status_changed", j.snap.status, j.new.status, j.user)
           e2 == LogEntry("rescheduled", Schedule(j.snap), Schedule(j.new), j.user)
           h1 == LogStatus(h, j)
<1>1. /\ e1 \in Entry /\ e1.action = "status_changed" /\ e1.to = j.new.status
      /\ e2 \in Entry
  BY DEF LogEntry, Entry, Job, Row, Schedule, Schedules
<1>2. h1 = IF j.new.status = j.snap.status THEN h ELSE Append(h, e1)
  BY DEF LogStatus
<1>3. LogSchedule(h1, j) = IF Schedule(j.new) = Schedule(j.snap) THEN h1 ELSE Append(h1, e2)
  BY DEF LogSchedule
<1> HIDE DEF e1, e2, h1
<1>4. h1 \in Seq(Entry)
  BY <1>1, <1>2
<1>5. /\ EverConfirmed(h) => EverConfirmed(h1)
      /\ j.new.status # j.snap.status /\ j.new.status = "confirmed" => EverConfirmed(h1)
  BY <1>1, <1>2, AppendConfirmed
<1>6. EverConfirmed(h1) => EverConfirmed(LogSchedule(h1, j))
  BY <1>1, <1>3, <1>4, AppendConfirmed
<1> QED BY <1>5, <1>6 DEF h1

LEMMA ConfirmedStep == ConfirmedInv /\ [ApiNext \/ Aborts]_vars => ConfirmedInv'
<1> SUFFICES ASSUME ConfirmedInv, [ApiNext \/ Aborts]_vars PROVE ConfirmedInv'
  OBVIOUS
<1> USE ConstantsAssumption, RowAssumption
<1>0. TypeOK'
  BY TypeStep DEF ConfirmedInv, Next
<1>a. TypeOK /\ RowsWereConfirmed /\ CopiesWereConfirmed
  BY DEF ConfirmedInv
<1> DEFINE Goal == RowsWereConfirmed' /\ CopiesWereConfirmed'
\* Logs only grow: what a log tells of a confirmation it keeps telling.
<1>b. ASSUME NEW r, NEW e \in Entry, Log(r, e), NEW i \in Ids, EverConfirmed(history[i])
      PROVE  EverConfirmed(history'[i])
  <2>1. history \in [Ids -> Seq(Entry)]
    BY <1>a DEF TypeOK
  <2>2. EverConfirmed(Append(history[i], e))
    BY <1>b, <2>1, AppendConfirmed
  <2> QED BY <1>b, <2>1, <2>2 DEF Log
<1>c. ASSUME NEW w \in Workers, job[w] # NoJob
      PROVE  job[w] \in Job /\ (job[w].pc # "insert" => job[w].req \in Ids)
  BY <1>a, <1>c, BusyIsJob
\* A handler that moves on or ends without touching the rows.
<1>d. ASSUME NEW w \in Workers, job[w] # NoJob, UNCHANGED rows,
             \A i \in Ids : EverConfirmed(history[i]) => EverConfirmed(history'[i]),
             \/ Finish(w)
             \/ \E pc : pc \notin {"insert", "write"} /\ Goto(w, pc)
      PROVE  Goal
  <2>1. RowsWereConfirmed'
    BY <1>a, <1>d DEF RowsWereConfirmed
  <2>2. ASSUME NEW v \in Workers, job'[v] # NoJob, job'[v].pc \in {"insert", "write"}
        PROVE  job'[v] = job[v]
    <3>1. CASE Finish(w)
      BY <1>a, <2>2, <3>1 DEF Finish, TypeOK
    <3>2. ASSUME NEW pc, pc \notin {"insert", "write"}, Goto(w, pc)
          PROVE  job'[v] = job[v]
      <4>1. job' = [job EXCEPT ![w] = [job[w] EXCEPT !.pc = pc]] /\ job[w] \in Job
        BY <1>a, <1>c, <1>d, <3>2 DEF Goto, TypeOK
      <4> QED BY <1>a, <2>2, <3>2, <4>1 DEF TypeOK, Job
    <3> QED BY <1>d, <3>1, <3>2
  <2>3. CopiesWereConfirmed'
    BY <1>a, <1>c, <1>d, <2>2 DEF CopiesWereConfirmed
  <2> QED BY <2>1, <2>3
\* A handler that starts.
<1>e. ASSUME NEW w \in Workers, NEW pc, NEW u, NEW r, NEW snap, NEW new, NEW timed,
             Begin(w, pc, u, r, snap, new, timed), UNCHANGED <<rows, history>>,
             pc = "insert" => new.status = "pending",
             pc = "write" => /\ NeedsConfirmation(snap.status) => EverConfirmed(history[r])
                             /\ new.status = "completed" => NeedsConfirmation(snap.status)
      PROVE  Goal
  BY <1>a, <1>e DEF TypeOK, Begin, RowsWereConfirmed, CopiesWereConfirmed
<1>1. ASSUME NEW w \in Workers, NEW u \in Users, NEW p \in Properties, NEW s \in Schedules,
             StoreCheck(w, u, p, s)
      PROVE  Goal
  <2> DEFINE n == Asked(u, p, s)
  <2>1. Begin(w, "insert", u, 0, n, n, TRUE) /\ n.status = "pending" /\ UNCHANGED <<rows, history>>
    BY <1>1 DEF StoreCheck, Asked
  <2> HIDE DEF n
  <2> QED BY <1>e, <2>1
<1>2. ASSUME NEW w \in Workers, StoreInsert(w) PROVE Goal
  <2> DEFINE id == lastId + 1
  <2>1. /\ job[w] \in Job /\ job[w].new.status = "pending" /\ history' = history
        /\ rows' = [rows EXCEPT ![id] = job[w].new]
    BY <1>a, <1>2, <1>c DEF StoreInsert, Busy, CopiesWereConfirmed
  <2>2. job' = [job EXCEPT ![w] = [job[w] EXCEPT !.pc = "recordCreated", !.req = id]]
    BY <1>a, <1>2 DEF StoreInsert, TypeOK
  <2>3. RowsWereConfirmed'
    BY <1>a, <2>1 DEF RowsWereConfirmed, NeedsConfirmation, TypeOK
  <2>4. job'[w].pc = "recordCreated"
    BY <1>a, <2>1, <2>2 DEF TypeOK, Job
  <2>5. CopiesWereConfirmed'
    BY <1>a, <2>1, <2>2, <2>4 DEF CopiesWereConfirmed, TypeOK
  <2> QED BY <2>3, <2>5
<1>3. ASSUME NEW w \in Workers, RecordCreated(w) PROVE Goal
  <2>1. LogEntry("created", "none", "pending", job[w].user) \in Entry
    BY <1>3, <1>c DEF RecordCreated, Busy, LogEntry, Entry, Job, Statuses
  <2>2. \A i \in Ids : EverConfirmed(history[i]) => EverConfirmed(history'[i])
    BY <1>3, <1>b, <2>1 DEF RecordCreated
  <2> QED BY <1>3, <1>d, <2>2 DEF RecordCreated, Busy
<1>4. ASSUME NEW w \in Workers, NotifyCreated(w) \/ UpdateNotify(w) \/ Abort(w) PROVE Goal
  BY <1>4, <1>d DEF NotifyCreated, UpdateNotify, Abort, Busy
<1>5. ASSUME NEW w \in Workers, NEW u \in Users, NEW r \in Ids, NEW p \in Patch, UpdateBind(w, u, r, p)
      PROVE  Goal
  <2> DEFINE n == Patched(rows[r], p)
  <2>1. rows[r] \in Row /\ rows[r] # NoRow
    BY <1>a, <1>5, LoadedIsRow DEF UpdateBind
  <2>2. n.status = IF p.status = "keep" THEN rows[r].status ELSE p.status
    BY <2>1 DEF Row, Patched, Sent
  <2>3. n.status = "completed" => NeedsConfirmation(rows[r].status)
    BY <1>5, <2>2 DEF UpdateBind, canTransitionTo, allowedTargets, NeedsConfirmation
  <2>4. Begin(w, "write", u, r, rows[r], n, p.time # "keep") /\ UNCHANGED <<rows, history>>
    BY <1>5 DEF UpdateBind
  <2> HIDE DEF n
  <2>5. NeedsConfirmation(rows[r].status) => EverConfirmed(history[r])
    BY <1>a, <2>1 DEF RowsWereConfirmed
  <2> QED BY <1>e, <2>3, <2>4, <2>5
<1>6. ASSUME NEW w \in Workers, UpdateCommit(w) PROVE Goal
  <2> DEFINE j == job[w]
             h2 == LogSchedule(LogStatus(history[j.req], j), j)
  <2>1. /\ j \in Job /\ j.req \in Ids /\ j # NoJob /\ j.pc = "write"
        /\ history \in [Ids -> Seq(Entry)]
    BY <1>a, <1>6, <1>c DEF UpdateCommit, Busy, TypeOK
  <2>2. history' = [history EXCEPT ![j.req] = h2] /\ SaveRow(j.req, j.snap, j.new, j.timed) /\ Goto(w, "notify")
    BY <1>6 DEF UpdateCommit
  <2>3. /\ EverConfirmed(history[j.req]) => EverConfirmed(h2)
        /\ j.new.status # j.snap.status /\ j.new.status = "confirmed" => EverConfirmed(h2)
    BY <2>1, CommitConfirmed
  <2>4. /\ NeedsConfirmation(j.snap.status) => EverConfirmed(history[j.req])
        /\ j.new.status = "completed" => NeedsConfirmation(j.snap.status)
    BY <1>a, <2>1 DEF CopiesWereConfirmed
  <2>5. rows' = [rows EXCEPT ![j.req] = IF rows[j.req] = NoRow THEN NoRow
                                        ELSE Saved(rows[j.req], j.snap, j.new, j.timed)]
    BY <2>2 DEF SaveRow
  <2>6. rows[j.req] # NoRow => Saved(rows[j.req], j.snap, j.new, j.timed).status
                                 = IF j.new.status # j.snap.status THEN j.new.status
                                   ELSE rows[j.req].status
    BY <1>a, <2>1, LoadedIsRow DEF Saved, Row
  <2>7. rows[j.req] # NoRow /\ NeedsConfirmation(Saved(rows[j.req], j.snap, j.new, j.timed).status)
          => EverConfirmed(h2)
    BY <1>a, <2>1, <2>3, <2>4, <2>6 DEF RowsWereConfirmed, NeedsConfirmation
  <2> HIDE DEF h2, j
  <2>8. RowsWereConfirmed'
    BY <1>a, <2>1, <2>2, <2>5, <2>7 DEF RowsWereConfirmed, TypeOK
  <2>9. \A i \in Ids : EverConfirmed(history[i]) => EverConfirmed(history'[i])
    BY <2>1, <2>2, <2>3
  <2>10. job' = [job EXCEPT ![w] = [j EXCEPT !.pc = "notify"]]
    BY <1>a, <2>2 DEF Goto, TypeOK, j
  <2>11. job'[w].pc = "notify" /\ \A v \in Workers \ {w} : job'[v] = job[v]
    BY <1>a, <2>1, <2>10 DEF TypeOK, Job
  <2>12. CopiesWereConfirmed'
    BY <1>a, <1>c, <2>9, <2>11 DEF CopiesWereConfirmed
  <2> QED BY <2>8, <2>12
<1>7. ASSUME NEW w \in Workers, NEW u \in Users, NEW r \in Ids, DestroyBind(w, u, r)
      PROVE  Goal
  <2>1. Begin(w, "recordDeleted", u, r, rows[r], rows[r], FALSE) /\ UNCHANGED <<rows, history>>
    BY <1>7 DEF DestroyBind
  <2> QED BY <1>e, <2>1
<1>8. ASSUME NEW w \in Workers, RecordDeleted(w) PROVE Goal
  <2>1. LogEntry("deleted", job[w].snap.status, "none", job[w].user) \in Entry
    BY <1>8, <1>c DEF RecordDeleted, Busy, LogEntry, Entry, Job, Row
  <2>2. \A i \in Ids : EverConfirmed(history[i]) => EverConfirmed(history'[i])
    BY <1>8, <1>b, <2>1 DEF RecordDeleted
  <2> QED BY <1>8, <1>d, <2>2 DEF RecordDeleted, Busy
<1>9. ASSUME NEW w \in Workers, DestroyRow(w) PROVE Goal
  BY <1>a, <1>9 DEF DestroyRow, Finish, RowsWereConfirmed, CopiesWereConfirmed, TypeOK
<1>10. ASSUME DeliverNotification \/ UNCHANGED vars PROVE Goal
  BY <1>a, <1>10 DEF DeliverNotification, vars, RowsWereConfirmed, CopiesWereConfirmed
<1>11. Goal
  BY <1>1, <1>2, <1>3, <1>4, <1>5, <1>6, <1>7, <1>8, <1>9, <1>10
     DEF ApiNext, Aborts, Arrive, Proceed
<1> QED BY <1>0, <1>11 DEF ConfirmedInv

(* Under the API no viewing is completed that was not confirmed before.      *)
THEOREM CompletionCorrect == ApiSpec => []CompletedWasConfirmed
<1>1. Init => ConfirmedInv
  BY TypeInit DEF Init, ConfirmedInv, RowsWereConfirmed, CopiesWereConfirmed
<1>2. ConfirmedInv => CompletedWasConfirmed
  BY DEF ConfirmedInv, RowsWereConfirmed, CompletedWasConfirmed, NeedsConfirmation
<1> QED BY <1>1, <1>2, ConfirmedStep, PTL DEF ApiSpec
-----------------------------------------------------------------------------
(***************************************************************************)
(* What a step of the API does to one row, to one log and to one worker:     *)
(* the facts the remaining theorems are proved from, in place of one more     *)
(* analysis of every action each.                                             *)
(***************************************************************************)
ApiStep == [ApiNext \/ Aborts]_vars

(* A request that arrives starts a handler and touches no table.             *)
LEMMA ArriveFrame ==
  ASSUME NEW w \in Workers, Arrive(w)
  PROVE  /\ UNCHANGED <<rows, lastId, history, queue, inbox>>
         /\ \E j : job' = [job EXCEPT ![w] = j]
<1>1. ASSUME NEW u \in Users, NEW p \in Properties, NEW s \in Schedules, StoreCheck(w, u, p, s)
      PROVE  /\ UNCHANGED <<rows, lastId, history, queue, inbox>>
             /\ \E j : job' = [job EXCEPT ![w] = j]
  BY <1>1 DEF StoreCheck, Begin
<1>2. ASSUME NEW u \in Users, NEW r \in Ids, NEW p \in Patch, UpdateBind(w, u, r, p)
      PROVE  /\ UNCHANGED <<rows, lastId, history, queue, inbox>>
             /\ \E j : job' = [job EXCEPT ![w] = j]
  BY <1>2 DEF UpdateBind, Begin
<1>3. ASSUME NEW u \in Users, NEW r \in Ids, DestroyBind(w, u, r)
      PROVE  /\ UNCHANGED <<rows, lastId, history, queue, inbox>>
             /\ \E j : job' = [job EXCEPT ![w] = j]
  BY <1>3 DEF DestroyBind, Begin
<1> QED BY <1>1, <1>2, <1>3 DEF Arrive

(* A row changes only by its insert, a commit or its deletion.               *)
LEMMA RowsStep ==
  ASSUME TypeOK, ApiStep, NEW r \in Ids
  PROVE  \/ rows'[r] = rows[r]
         \/ \E w \in Workers : StoreInsert(w) /\ r = lastId + 1 /\ rows'[r] = job[w].new
         \/ \E w \in Workers : /\ UpdateCommit(w) /\ job[w].req = r /\ rows[r] # NoRow
                               /\ rows'[r] = Saved(rows[r], job[w].snap, job[w].new, job[w].timed)
         \/ \E w \in Workers : DestroyRow(w) /\ job[w].req = r /\ rows'[r] = NoRow
<1>0. rows \in [Ids -> Row \cup {NoRow}]
  BY DEF TypeOK
<1>1. CASE UNCHANGED rows
  BY <1>1
<1>2. ASSUME NEW w \in Workers, StoreInsert(w)
      PROVE  rows'[r] = rows[r] \/ (r = lastId + 1 /\ rows'[r] = job[w].new)
  BY <1>0, <1>2 DEF StoreInsert
<1>3. ASSUME NEW w \in Workers, UpdateCommit(w)
      PROVE  \/ rows'[r] = rows[r]
             \/ /\ job[w].req = r /\ rows[r] # NoRow
                /\ rows'[r] = Saved(rows[r], job[w].snap, job[w].new, job[w].timed)
  BY <1>0, <1>3 DEF UpdateCommit, SaveRow
<1>4. ASSUME NEW w \in Workers, DestroyRow(w)
      PROVE  rows'[r] = rows[r] \/ (job[w].req = r /\ rows'[r] = NoRow)
  BY <1>0, <1>4 DEF DestroyRow
<1>5. \/ UNCHANGED rows
      \/ \E w \in Workers : StoreInsert(w) \/ UpdateCommit(w) \/ DestroyRow(w)
  BY ArriveFrame DEF ApiStep, ApiNext, Aborts, Proceed, RecordCreated, NotifyCreated,
         UpdateNotify, RecordDeleted, Abort, DeliverNotification, vars
<1> QED BY <1>1, <1>2, <1>3, <1>4, <1>5

(* A log stays as it is, takes the rows of a commit, or takes one row that   *)
(* is about neither status nor schedule.                                     *)
LEMMA HistoryStep ==
  ASSUME TypeOK, ApiStep, NEW r \in Ids
  PROVE  \/ history'[r] = history[r]
         \/ \E w \in Workers : /\ UpdateCommit(w) /\ job[w].req = r
                               /\ history'[r] = LogSchedule(LogStatus(history[r], job[w]), job[w])
         \/ \E e \in Entry : /\ e.action \notin {"status_changed", "rescheduled"}
                             /\ history'[r] = Append(history[r], e)
                             /\ UNCHANGED rows
<1>0. history \in [Ids -> Seq(Entry)]
  BY DEF TypeOK
<1>1. CASE UNCHANGED history
  BY <1>1
<1>2. ASSUME NEW w \in Workers, UpdateCommit(w)
      PROVE  \/ history'[r] = history[r]
             \/ /\ job[w].req = r
                /\ history'[r] = LogSchedule(LogStatus(history[r], job[w]), job[w])
  BY <1>0, <1>2 DEF UpdateCommit
<1>3. ASSUME NEW w \in Workers, RecordCreated(w) \/ RecordDeleted(w)
      PROVE  \/ history'[r] = history[r]
             \/ \E e \in Entry : /\ e.action \notin {"status_changed", "rescheduled"}
                                 /\ history'[r] = Append(history[r], e)
                                 /\ UNCHANGED rows
  <2>1. job[w] \in Job
    BY <1>3, BusyIsJob DEF RecordCreated, RecordDeleted, Busy
  <2>2. PICK e \in Entry : /\ e.action \notin {"status_changed", "rescheduled"}
                           /\ Log(job[w].req, e) /\ UNCHANGED rows
    <3>1. /\ LogEntry("created", "none", "pending", job[w].user) \in Entry
          /\ LogEntry("deleted", job[w].snap.status, "none", job[w].user) \in Entry
      BY <2>1 DEF LogEntry, Entry, Job, Row, Statuses
    <3>2. /\ LogEntry("created", "none", "pending", job[w].user).action = "created"
          /\ LogEntry("deleted", job[w].snap.status, "none", job[w].user).action = "deleted"
      BY DEF LogEntry
    <3> QED BY <1>3, <3>1, <3>2 DEF RecordCreated, RecordDeleted
  <2> QED BY <1>0, <2>2 DEF Log
<1>4. \/ UNCHANGED history
      \/ \E w \in Workers : UpdateCommit(w) \/ RecordCreated(w) \/ RecordDeleted(w)
  BY ArriveFrame DEF ApiStep, ApiNext, Aborts, Proceed, StoreInsert, NotifyCreated,
         UpdateNotify, DestroyRow, Abort, DeliverNotification, vars
<1> QED BY <1>1, <1>2, <1>3, <1>4

(* A busy worker is where it was, or got there by the action in question.    *)
LEMMA WorkerStep ==
  ASSUME TypeOK, ApiStep, NEW w \in Workers, job'[w] # NoJob
  PROVE  \/ job'[w] = job[w]
         \/ /\ job'[w].pc = "write"
            /\ \E u \in Users, r \in Ids, p \in Patch : UpdateBind(w, u, r, p)
         \/ UpdateCommit(w) /\ job'[w] = [job[w] EXCEPT !.pc = "notify"]
         \/ RecordDeleted(w) /\ job'[w] = [job[w] EXCEPT !.pc = "delete"]
         \/ job'[w].pc \notin {"write", "notify", "delete"}
<1>0. job \in [Workers -> Job \cup {NoJob}]
  BY DEF TypeOK
<1>1. ASSUME NEW v \in Workers, v # w, Arrive(v) \/ Proceed(v) \/ Abort(v)
      PROVE  job'[w] = job[w]
  BY <1>0, <1>1, ArriveFrame DEF Proceed, StoreInsert, RecordCreated, NotifyCreated,
         UpdateCommit, UpdateNotify, RecordDeleted, DestroyRow, Abort, Goto, Finish
<1>2. ASSUME NEW u \in Users, NEW p \in Properties, NEW s \in Schedules, StoreCheck(w, u, p, s)
      PROVE  job'[w].pc = "insert"
  BY <1>0, <1>2 DEF StoreCheck, Begin
<1>3. ASSUME NEW u \in Users, NEW r \in Ids, DestroyBind(w, u, r)
      PROVE  job'[w].pc = "recordDeleted"
  BY <1>0, <1>3 DEF DestroyBind, Begin
<1>4. ASSUME StoreInsert(w) PROVE job'[w].pc = "recordCreated"
  <2>1. job[w] \in Job
    BY <1>0, <1>4 DEF StoreInsert, Busy
  <2>2. job' = [job EXCEPT ![w] = [job[w] EXCEPT !.pc = "recordCreated", !.req = lastId + 1]]
    BY <1>0, <1>4 DEF StoreInsert
  <2> QED BY <1>0, <2>1, <2>2 DEF Job
<1>5. ASSUME RecordCreated(w) PROVE job'[w].pc = "notifyCreated"
  <2>1. job[w] \in Job
    BY <1>0, <1>5 DEF RecordCreated, Busy
  <2>2. job' = [job EXCEPT ![w] = [job[w] EXCEPT !.pc = "notifyCreated"]]
    BY <1>0, <1>5 DEF RecordCreated, Goto
  <2> QED BY <1>0, <2>1, <2>2 DEF Job
<1>6. ASSUME NotifyCreated(w) \/ UpdateNotify(w) \/ DestroyRow(w) \/ Abort(w)
      PROVE  job'[w] = NoJob
  BY <1>0, <1>6 DEF NotifyCreated, UpdateNotify, DestroyRow, Abort, Finish
<1>7. \/ UNCHANGED job
      \/ \E v \in Workers : Arrive(v) \/ Proceed(v) \/ Abort(v)
  BY DEF ApiStep, ApiNext, Aborts, DeliverNotification, vars
<1>8. ASSUME NEW u \in Users, NEW r \in Ids, NEW p \in Patch, UpdateBind(w, u, r, p)
      PROVE  job'[w].pc = "write"
  BY <1>0, <1>8 DEF UpdateBind, Begin
<1>9. /\ UpdateCommit(w) => job'[w] = [job[w] EXCEPT !.pc = "notify"]
      /\ RecordDeleted(w) => job'[w] = [job[w] EXCEPT !.pc = "delete"]
  BY <1>0 DEF UpdateCommit, RecordDeleted, Goto
<1>10. CASE Arrive(w) \/ Proceed(w) \/ Abort(w)
  BY <1>2, <1>3, <1>4, <1>5, <1>6, <1>8, <1>9, <1>10 DEF Arrive, Proceed
<1> QED BY <1>1, <1>7, <1>10

(* The table's counter moves only with an insert.                            *)
LEMMA LastIdStep ==
  ASSUME TypeOK, ApiStep
  PROVE  \/ lastId' = lastId
         \/ \E w \in Workers : StoreInsert(w) /\ lastId' = lastId + 1
BY ArriveFrame DEF ApiStep, ApiNext, Aborts, Proceed, StoreInsert, RecordCreated,
       NotifyCreated, UpdateCommit, UpdateNotify, RecordDeleted, DestroyRow, Abort,
       DeliverNotification, vars

-----------------------------------------------------------------------------
(***************************************************************************)
(* Deletion.  Whatever writes a row later, from the API or from the panel,    *)
(* is an UPDATE, which finds nothing; and an insert takes an id never used.   *)
(***************************************************************************)

(* A deleted id never comes back, however the handlers of the API and of the *)
(* panel, the cascades and the deaths of workers interleave.                 *)
THEOREM DeletionIsFinal == Spec => DeletedStaysDeleted
<1> DEFINE Stays == \A r \in 1 .. lastId : rows[r] = NoRow => rows'[r] = NoRow
<1>1. TypeOK /\ [Next]_vars => [Stays]_vars
  <2> SUFFICES ASSUME TypeOK, Next, NEW r \in 1 .. lastId, rows[r] = NoRow
               PROVE  rows'[r] = NoRow
    BY DEF vars
  <2>0. /\ rows \in [Ids -> Row \cup {NoRow}] /\ lastId \in Nat
        /\ r \in Ids /\ r # lastId + 1
    BY ConstantsAssumption DEF TypeOK, Ids
  <2>1. CASE UNCHANGED rows
    BY <2>1
  <2>2. ASSUME NEW w \in Workers, StoreInsert(w) PROVE rows'[r] = NoRow
    BY <2>0, <2>2 DEF StoreInsert
  <2>3. ASSUME NEW w \in Workers, UpdateCommit(w) \/ PanelCommit(w) PROVE rows'[r] = NoRow
    BY <2>0, <2>3 DEF UpdateCommit, PanelCommit, SaveRow
  <2>4. ASSUME NEW w \in Workers, DestroyRow(w) \/ PanelDestroyRow(w) PROVE rows'[r] = NoRow
    BY <2>0, <2>4 DEF DestroyRow, PanelDestroyRow
  <2>5. ASSUME NEW w \in Workers, NEW a \in Admins, NEW new \in PanelRows, PanelStore(w, a, new)
        PROVE  rows'[r] = NoRow
    BY <2>0, <2>5 DEF PanelStore
  <2>6. ASSUME NEW i \in Ids, Cascade(i) PROVE rows'[r] = NoRow
    BY <2>0, <2>6 DEF Cascade
  <2>7. ASSUME NEW w \in Workers, Panel(w) PROVE rows'[r] = NoRow
    BY <2>1, <2>3, <2>4, <2>5, <2>7 DEF Panel, PanelBind, PanelDestroyBind, PanelRecord
  <2>8. ASSUME ApiNext \/ Aborts PROVE rows'[r] = NoRow
    <3>1. ApiStep
      BY <2>8 DEF ApiStep
    <3> QED BY <2>0, <2>2, <2>4, <3>1, RowsStep
  <2> QED BY <2>6, <2>7, <2>8 DEF Next
<1> QED BY <1>1, TypeCorrect, PTL DEF Spec, DeletedStaysDeleted

(* Logs only grow.                                                           *)
Extends(g, h) == DOMAIN h \subseteq DOMAIN g /\ \A i \in DOMAIN h : g[i] = h[i]

LEMMA AppendExtends ==
  ASSUME NEW S, NEW h \in Seq(S), NEW e \in S
  PROVE  Extends(Append(h, e), h)
BY DEF Extends

LEMMA CommitExtends ==
  ASSUME NEW j \in Job, NEW h \in Seq(Entry)
  PROVE  /\ LogSchedule(LogStatus(h, j), j) \in Seq(Entry)
         /\ Extends(LogSchedule(LogStatus(h, j), j), h)
<1> DEFINE e1 == LogEntry("status_changed", j.snap.status, j.new.status, j.user)
           e2 == LogEntry("rescheduled", Schedule(j.snap), Schedule(j.new), j.user)
           h1 == LogStatus(h, j)
<1>1. e1 \in Entry /\ e2 \in Entry
  BY DEF LogEntry, Entry, Job, Row, Schedule, Schedules
<1>2. h1 = IF j.new.status = j.snap.status THEN h ELSE Append(h, e1)
  BY DEF LogStatus
<1>3. LogSchedule(h1, j) = IF Schedule(j.new) = Schedule(j.snap) THEN h1 ELSE Append(h1, e2)
  BY DEF LogSchedule
<1> HIDE DEF e1, e2, h1
<1>4. h1 \in Seq(Entry) /\ Extends(h1, h)
  BY <1>1, <1>2, AppendExtends DEF Extends
<1>5. LogSchedule(h1, j) \in Seq(Entry) /\ Extends(LogSchedule(h1, j), h1)
  BY <1>1, <1>3, <1>4, AppendExtends DEF Extends
<1> QED BY <1>4, <1>5 DEF Extends, h1

LEMMA LogsGrow ==
  ASSUME TypeOK, ApiStep, NEW r \in Ids
  PROVE  Extends(history'[r], history[r])
<1>1. history[r] \in Seq(Entry)
  BY DEF TypeOK
<1>2. ASSUME NEW w \in Workers, UpdateCommit(w), job[w].req = r,
             history'[r] = LogSchedule(LogStatus(history[r], job[w]), job[w])
      PROVE  Extends(history'[r], history[r])
  BY <1>1, <1>2, BusyIsJob, CommitExtends DEF UpdateCommit, Busy
<1>3. CASE history'[r] = history[r]
  BY <1>3 DEF Extends
<1> QED BY <1>1, <1>2, <1>3, HistoryStep, AppendExtends

(* The handler of a deletion writes its log row before it comes to the row,  *)
(* so whoever is about to delete a row has logged it.                        *)
DeletersLogged == \A w \in Workers : Busy(w, "delete") => SaysDeleted(history[job[w].req])

DeletionInv == TypeOK /\ DeletersLogged /\ DeletionIsLogged

LEMMA DeletionStep == DeletionInv /\ ApiStep => DeletionInv'
<1> SUFFICES ASSUME DeletionInv, ApiStep PROVE DeletionInv'
  OBVIOUS
<1>0. TypeOK /\ DeletersLogged /\ DeletionIsLogged
  BY DEF DeletionInv
<1>1. TypeOK'
  BY <1>0, TypeStep DEF ApiStep, Next
<1>2. ASSUME NEW r \in Ids, SaysDeleted(history[r]) PROVE SaysDeleted(history'[r])
  BY <1>0, <1>2, LogsGrow DEF SaysDeleted, Extends
<1>3. ASSUME NEW w \in Workers, Busy(w, "delete")' PROVE SaysDeleted(history'[job'[w].req])
  <2>1. CASE job'[w] = job[w]
    <3>1. Busy(w, "delete") /\ job[w].req \in Ids
      BY <1>0, <1>3, <2>1, BusyIsJob DEF Busy
    <3> QED BY <1>0, <1>2, <2>1, <3>1 DEF DeletersLogged
  <2>2. CASE RecordDeleted(w) /\ job'[w] = [job[w] EXCEPT !.pc = "delete"]
    <3> DEFINE e == LogEntry("deleted", job[w].snap.status, "none", job[w].user)
               h == history[job[w].req]
    <3>1. job[w] \in Job /\ job[w].req \in Ids
      BY <1>0, <2>2, BusyIsJob DEF RecordDeleted, Busy
    <3>2. e \in Entry /\ e.action = "deleted"
      BY <3>1 DEF LogEntry, Entry, Job, Row
    <3>3. h \in Seq(Entry) /\ history'[job[w].req] = Append(h, e)
      BY <1>0, <2>2, <3>1 DEF RecordDeleted, Log, TypeOK
    <3>4. job'[w].req = job[w].req
      BY <2>2, <3>1 DEF Job
    <3> HIDE DEF e, h
    <3>5. Len(h) + 1 \in DOMAIN Append(h, e) /\ Append(h, e)[Len(h) + 1] = e
      BY <3>2, <3>3
    <3> QED BY <3>2, <3>3, <3>4, <3>5 DEF SaysDeleted
  <2>3. CASE UpdateCommit(w) /\ job'[w] = [job[w] EXCEPT !.pc = "notify"]
    BY <1>0, <1>3, <2>3, BusyIsJob DEF UpdateCommit, Busy, Job
  <2> QED BY <1>0, <1>3, <2>1, <2>2, <2>3, WorkerStep DEF Busy
<1>4. ASSUME NEW r \in 1 .. lastId', rows'[r] = NoRow PROVE SaysDeleted(history'[r])
  <2>0. r \in Ids /\ r \in Nat /\ lastId \in Nat
    BY <1>1, <1>0, ConstantsAssumption DEF TypeOK, Ids
  <2>1. CASE \E w \in Workers : StoreInsert(w) /\ r = lastId + 1 /\ rows'[r] = job[w].new
    <3>1. \A w \in Workers : StoreInsert(w) => job[w].new \in Row
      BY <1>0, BusyIsJob DEF StoreInsert, Busy, Job
    <3> QED BY <1>4, <2>1, <3>1, RowAssumption
  <2>2. ASSUME NEW w \in Workers, UpdateCommit(w), job[w].req = r, rows[r] # NoRow,
               rows'[r] = Saved(rows[r], job[w].snap, job[w].new, job[w].timed)
        PROVE  FALSE
    <3>1. rows[r] \in Row /\ job[w].snap \in Row /\ job[w].new \in Row
      BY <1>0, <2>0, <2>2, BusyIsJob, LoadedIsRow DEF UpdateCommit, Busy, Job
    <3> QED BY <1>4, <2>2, <3>1, SavedIsRow, RowAssumption
  <2>3. ASSUME NEW w \in Workers, DestroyRow(w), job[w].req = r
        PROVE  SaysDeleted(history'[r])
    BY <1>0, <2>3 DEF DestroyRow, DeletersLogged
  <2>4. CASE rows'[r] = rows[r]
    <3>1. CASE r <= lastId
      BY <1>0, <1>2, <1>4, <2>0, <2>4, <3>1 DEF DeletionIsLogged
    <3>2. CASE ~(r <= lastId)
      <4>1. PICK w \in Workers : StoreInsert(w) /\ lastId' = lastId + 1
        BY <1>0, <2>0, <3>2, LastIdStep
      <4>2. rows'[lastId + 1] = job[w].new /\ job[w].new \in Row /\ r = lastId + 1
        BY <1>0, <2>0, <3>2, <4>1, BusyIsJob DEF StoreInsert, Busy, Job, TypeOK
      <4> QED BY <1>4, <4>2, RowAssumption
    <3> QED BY <3>1, <3>2
  <2> QED BY <1>0, <2>0, <2>1, <2>2, <2>3, <2>4, RowsStep
<1>5. DeletersLogged' /\ DeletionIsLogged'
  BY <1>3, <1>4 DEF DeletersLogged, DeletionIsLogged
<1> QED BY <1>1, <1>5 DEF DeletionInv

(* A request deleted through the API has a log row saying so, also when the  *)
(* worker died between the log row and the row itself.                       *)
THEOREM DeletionCorrect == ApiSpec => []DeletionIsLogged
<1>1. Init => DeletionInv
  BY TypeInit DEF Init, DeletionInv, DeletersLogged, DeletionIsLogged, Busy
<1>2. DeletionInv => DeletionIsLogged
  BY DEF DeletionInv
<1> QED BY <1>1, <1>2, DeletionStep, PTL DEF ApiSpec, ApiStep
-----------------------------------------------------------------------------
(***************************************************************************)
(* The status scheme under overlapping handlers.  What a handler is about to  *)
(* write is a move of the scheme from the copy it loaded: the table can only   *)
(* take another move when it no longer holds what the copy says.              *)
(***************************************************************************)

(* What a handler of update() holds once its row is bound.                   *)
LEMMA BoundCopy ==
  ASSUME TypeOK, NEW w \in Workers, NEW u \in Users, NEW r \in Ids,
         NEW p \in Patch, UpdateBind(w, u, r, p)
  PROVE  /\ rows[r] \in Row /\ UNCHANGED rows
         /\ job'[w].req = r /\ job'[w].snap = rows[r] /\ job'[w].user = u
         /\ job'[w].new.client = rows[r].client /\ job'[w].new.agent = rows[r].agent
         /\ \/ job'[w].new.status = rows[r].status
            \/ InScheme(rows[r].status, job'[w].new.status)
<1> DEFINE n == Patched(rows[r], p)
<1>1. rows[r] \in Row /\ UNCHANGED rows
  BY LoadedIsRow DEF UpdateBind
<1>2. job'[w] = [pc |-> "write", user |-> u, req |-> r, snap |-> rows[r], new |-> n,
             timed |-> p.time # "keep"]
  BY DEF UpdateBind, Begin, TypeOK
<1>3. /\ n.client = rows[r].client /\ n.agent = rows[r].agent
      /\ n.status = IF p.status = "keep" THEN rows[r].status ELSE p.status
  BY <1>1 DEF Row, Patched, Sent
<1>4. p.status # "keep" => InScheme(rows[r].status, p.status)
  BY DEF UpdateBind, canTransitionTo, allowedTargets, InScheme
<1> HIDE DEF n
<1> QED BY <1>1, <1>2, <1>3, <1>4

CopiesFollowScheme ==
  \A w \in Workers : Busy(w, "write") =>
    \/ job[w].new.status = job[w].snap.status
    \/ InScheme(job[w].snap.status, job[w].new.status)

LEMMA SchemeStep == TypeOK /\ CopiesFollowScheme /\ ApiStep => CopiesFollowScheme'
<1> SUFFICES ASSUME TypeOK, CopiesFollowScheme, ApiStep, NEW w \in Workers, Busy(w, "write")'
             PROVE  \/ job'[w].new.status = job'[w].snap.status
                    \/ InScheme(job'[w].snap.status, job'[w].new.status)
  BY DEF CopiesFollowScheme
<1>1. CASE job'[w] = job[w]
  BY <1>1 DEF CopiesFollowScheme, Busy
<1>2. CASE \E u \in Users, r \in Ids, p \in Patch : UpdateBind(w, u, r, p)
  BY <1>2, BoundCopy
<1>3. ASSUME UpdateCommit(w) \/ RecordDeleted(w),
             \E pc \in {"notify", "delete"} : job'[w] = [job[w] EXCEPT !.pc = pc]
      PROVE  FALSE
  BY <1>3, BusyIsJob DEF UpdateCommit, RecordDeleted, Busy, Job
<1> QED BY <1>1, <1>2, <1>3, WorkerStep DEF Busy

LEMMA SchemeCorrect == ApiSpec => []CopiesFollowScheme
<1>1. Init => CopiesFollowScheme
  BY DEF Init, CopiesFollowScheme, Busy
<1> QED BY <1>1, SchemeStep, ApiTypeCorrect, PTL DEF ApiSpec, ApiStep

(* A commit that leaves the row where it is writes the status of the handler *)
(* when the handler changes it, and keeps what is there otherwise.           *)
LEMMA SavedFields ==
  ASSUME NEW row \in Row, NEW snap \in Row, NEW new \in Row, NEW timed
  PROVE  /\ Saved(row, snap, new, timed).status
              = IF new.status # snap.status THEN new.status ELSE row.status
         /\ new.client = snap.client => Saved(row, snap, new, timed).client = row.client
         /\ new.agent = snap.agent => Saved(row, snap, new, timed).agent = row.agent
BY DEF Saved, Row

(* A change outside the scheme is the work of a handler of update() whose    *)
(* copy no longer agreed with the table: nothing else leaves the scheme.     *)
THEOREM OffSchemeCorrect == ApiSpec => OffSchemeOnlyIfStale
<1> DEFINE Excuse(r) == \E w \in Workers : /\ Busy(w, "write")
                                           /\ job[w].req = r
                                           /\ job[w].snap.status # rows[r].status
           Scheme == \A r \in Ids :
                       /\ rows[r] # NoRow /\ rows'[r] # NoRow
                       /\ rows'[r].status # rows[r].status
                       /\ ~InScheme(rows[r].status, rows'[r].status)
                       => Excuse(r)
<1>1. AuditInv /\ CopiesFollowScheme /\ ApiStep => [Scheme]_vars
  <2> SUFFICES ASSUME AuditInv, CopiesFollowScheme, ApiStep, NEW r \in Ids,
                      rows[r] # NoRow, rows'[r] # NoRow,
                      rows'[r].status # rows[r].status,
                      ~InScheme(rows[r].status, rows'[r].status)
               PROVE  Excuse(r)
    OBVIOUS
  <2>0. TypeOK /\ FreshIsEmpty /\ lastId \in Nat /\ r \in Nat
    BY DEF AuditInv, TypeOK, Ids
  <2>1. ASSUME NEW w \in Workers, StoreInsert(w), r = lastId + 1
        PROVE  FALSE
    BY <2>0, <2>1 DEF FreshIsEmpty
  <2>2. ASSUME NEW w \in Workers, UpdateCommit(w), job[w].req = r,
               rows'[r] = Saved(rows[r], job[w].snap, job[w].new, job[w].timed)
        PROVE  Excuse(r)
    <3>1. Busy(w, "write") /\ job[w].snap \in Row /\ job[w].new \in Row /\ rows[r] \in Row
      BY <2>0, <2>2, BusyIsJob, LoadedIsRow DEF UpdateCommit, Busy, Job
    <3>2. job[w].new.status # job[w].snap.status /\ rows'[r].status = job[w].new.status
      BY <2>2, <3>1, SavedFields
    <3>3. InScheme(job[w].snap.status, job[w].new.status)
      BY <3>1, <3>2 DEF CopiesFollowScheme
    <3>4. job[w].snap.status # rows[r].status
      BY <3>2, <3>3
    <3> QED BY <2>2, <3>1, <3>4
  <2> QED BY <2>0, <2>1, <2>2, RowsStep
<1>2. ApiSpec => []AuditInv
  BY AuditInit, AuditStep, PTL DEF ApiSpec
<1> QED BY <1>1, <1>2, SchemeCorrect, PTL DEF ApiSpec, ApiStep, OffSchemeOnlyIfStale

(* What a commit logs and writes of the schedule: with a copy that has the   *)
(* row's schedule, the log row tells the change of the row and nothing else. *)
LEMMA CommitReschedules ==
  ASSUME NEW row \in Row, NEW j \in Job, NEW h \in Seq(Entry), Schedule(j.snap) = Schedule(row)
  PROVE  LET new == Schedule(Saved(row, j.snap, j.new, j.timed))
         IN  Reschedules(h, LogSchedule(LogStatus(h, j), j))
               = {<<Schedule(row), new>>} \ {<<Schedule(row), Schedule(row)>>}
<1> DEFINE e1  == LogEntry("status_changed", j.snap.status, j.new.status, j.user)
           e2  == LogEntry("rescheduled", Schedule(j.snap), Schedule(j.new), j.user)
           h1  == LogStatus(h, j)
           h2  == LogSchedule(h1, j)
           fin == Saved(row, j.snap, j.new, j.timed)
<1>1. /\ e1 \in Entry /\ e1.action = "status_changed"
      /\ e2 \in Entry /\ e2.action = "rescheduled"
      /\ e2.from = Schedule(j.snap) /\ e2.to = Schedule(j.new)
  BY DEF LogEntry, Entry, Job, Row, Schedule, Schedules
<1>2. Schedule(fin) = Schedule(j.new)
  <2>1. row.date = j.snap.date /\ row.time = j.snap.time
    BY DEF Schedule
  <2>2. fin.date = j.new.date /\ fin.time = j.new.time
    BY <2>1 DEF Saved, Row
  <2> QED BY <2>2 DEF Schedule
<1>3. /\ h1 = IF j.new.status = j.snap.status THEN h ELSE Append(h, e1)
      /\ h2 = IF Schedule(j.new) = Schedule(j.snap) THEN h1 ELSE Append(h1, e2)
  BY DEF LogStatus, LogSchedule
<1> HIDE DEF e1, e2, h1, h2, fin
<1>4. /\ h1 \in Seq(Entry) /\ DOMAIN h \subseteq DOMAIN h1
      /\ \A k \in DOMAIN h1 \ DOMAIN h : h1[k].action # "rescheduled"
  <2>1. CASE h1 = h
    BY <2>1
  <2>2. CASE h1 = Append(h, e1)
    BY <1>1, <2>2
  <2> QED BY <1>3, <2>1, <2>2
<1>5. CASE Schedule(j.new) = Schedule(j.snap)
  <2>1. Reschedules(h, h2) = {}
    BY <1>3, <1>4, <1>5 DEF Reschedules
  <2> QED BY <1>2, <1>5, <2>1 DEF h1, h2, fin
<1>6. CASE Schedule(j.new) # Schedule(j.snap)
  <2>1. /\ h2 = Append(h1, e2) /\ Len(h1) \in Nat /\ Len(h1) + 1 \notin DOMAIN h
        /\ DOMAIN h2 = DOMAIN h1 \cup {Len(h1) + 1}
        /\ h2[Len(h1) + 1] = e2 /\ \A k \in DOMAIN h1 : h2[k] = h1[k]
    <3>1. h2 = Append(h1, e2) /\ Len(h1) \in Nat /\ DOMAIN h1 = 1 .. Len(h1)
      BY <1>3, <1>4, <1>6
    <3> QED BY <1>1, <1>4, <3>1
  <2>2. {k \in DOMAIN h2 \ DOMAIN h : h2[k].action = "rescheduled"} = {Len(h1) + 1}
    BY <1>1, <1>4, <2>1
  <2>3. Reschedules(h, h2) = {<<e2.from, e2.to>>}
    BY <2>1, <2>2 DEF Reschedules
  <2>4. <<Schedule(row), Schedule(fin)>> # <<Schedule(row), Schedule(row)>>
    BY <1>2, <1>6
  <2>5. {<<Schedule(row), Schedule(fin)>>} \ {<<Schedule(row), Schedule(row)>>}
          = {<<Schedule(row), Schedule(fin)>>}
    BY <2>4
  <2> QED BY <1>1, <1>2, <2>3, <2>5 DEF h1, h2, fin
<1> QED BY <1>5, <1>6

(* Log and row tell different changes of the schedule only in a commit whose *)
(* copy had another schedule than the row: nothing else of the API gets the  *)
(* log wrong, for any number of overlapping handlers and worker deaths.      *)
THEOREM RescheduleLogCorrect == ApiSpec => RescheduleLoggedUnlessStale
<1> DEFINE Same(r) == {<<Schedule(rows[r]), Schedule(rows'[r])>>}
                        \ {<<Schedule(rows[r]), Schedule(rows[r])>>}
           Excuse(r) == \E w \in Workers : /\ Busy(w, "write")
                                           /\ job[w].req = r
                                           /\ Schedule(job[w].snap) # Schedule(rows[r])
           Logged == \A r \in Ids :
                       /\ rows[r] # NoRow /\ rows'[r] # NoRow
                       /\ Reschedules(history[r], history'[r]) # Same(r)
                       => Excuse(r)
<1>1. AuditInv /\ ApiStep => [Logged]_vars
  <2> SUFFICES ASSUME AuditInv, ApiStep, NEW r \in Ids, rows[r] # NoRow, rows'[r] # NoRow,
                      ~Excuse(r)
               PROVE  Reschedules(history[r], history'[r]) = Same(r)
    OBVIOUS
  <2>0. TypeOK /\ FreshIsEmpty /\ lastId \in Nat /\ r \in Nat /\ history[r] \in Seq(Entry)
    BY DEF AuditInv, TypeOK, Ids
  <2>1. ASSUME NEW w \in Workers, UpdateCommit(w), job[w].req = r
        PROVE  Reschedules(history[r], history'[r]) = Same(r)
    <3>1. /\ Busy(w, "write") /\ job[w] \in Job /\ rows[r] \in Row
          /\ rows'[r] = Saved(rows[r], job[w].snap, job[w].new, job[w].timed)
          /\ history'[r] = LogSchedule(LogStatus(history[r], job[w]), job[w])
      BY <2>0, <2>1, BusyIsJob, LoadedIsRow DEF UpdateCommit, SaveRow, Busy, TypeOK
    <3>2. Schedule(job[w].snap) = Schedule(rows[r])
      BY <2>1, <3>1
    <3> QED BY <2>0, <3>1, <3>2, CommitReschedules
  <2>2. ASSUME ~ \E w \in Workers : UpdateCommit(w) /\ job[w].req = r
        PROVE  Reschedules(history[r], history'[r]) = Same(r)
    <3>1. ASSUME NEW w \in Workers, StoreInsert(w), r = lastId + 1
          PROVE  FALSE
      BY <2>0, <3>1 DEF FreshIsEmpty
    <3>2. rows'[r] = rows[r]
      BY <2>0, <2>2, <3>1, RowsStep
    <3>3. \/ history'[r] = history[r]
          \/ \E e \in Entry : e.action # "rescheduled" /\ history'[r] = Append(history[r], e)
      BY <2>0, <2>2, HistoryStep
    <3>4. Reschedules(history[r], history'[r]) = {}
      BY <2>0, <3>3 DEF Reschedules
    <3>5. Same(r) = {}
      BY <3>2
    <3> QED BY <3>4, <3>5
  <2> QED BY <2>1, <2>2
<1>2. ApiSpec => []AuditInv
  BY AuditInit, AuditStep, PTL DEF ApiSpec
<1> QED BY <1>1, <1>2, PTL DEF ApiSpec, ApiStep, RescheduleLoggedUnlessStale
-----------------------------------------------------------------------------
(***************************************************************************)
(* One request at a time.  With a single worker nothing comes between the     *)
(* binding of a row and the commit, so a handler's copy is the row; the        *)
(* scheme it was checked against is then the scheme the table follows.        *)
(***************************************************************************)
OneAtATime == \A v, w \in Workers : v = w

CopiesAreCurrent == \A w \in Workers : Busy(w, "write") => rows[job[w].req] = job[w].snap

LEMMA CurrentStep ==
  ASSUME OneAtATime, TypeOK, CopiesAreCurrent, ApiStep
  PROVE  CopiesAreCurrent'
<1> SUFFICES ASSUME NEW w \in Workers, Busy(w, "write")'
             PROVE  rows'[job'[w].req] = job'[w].snap
  BY DEF CopiesAreCurrent
<1>1. CASE job'[w] = job[w]
  <2>1. Busy(w, "write") /\ job[w].req \in Ids /\ rows[job[w].req] = job[w].snap
    BY <1>1, BusyIsJob DEF Busy, CopiesAreCurrent
  <2>2. ASSUME NEW v \in Workers, StoreInsert(v) \/ DestroyRow(v)
        PROVE  FALSE
    BY <2>1, <2>2 DEF OneAtATime, StoreInsert, DestroyRow, Busy
  <2>3. ASSUME NEW v \in Workers, UpdateCommit(v)
        PROVE  FALSE
    <3>1. job'[w].pc = "notify"
      <4>1. w = v /\ job[w] \in Job
        BY <2>1, <2>3, BusyIsJob DEF OneAtATime, Busy
      <4>2. job' = [job EXCEPT ![w] = [job[w] EXCEPT !.pc = "notify"]]
        BY <2>3, <4>1 DEF UpdateCommit, Goto, TypeOK
      <4> QED BY <4>1, <4>2 DEF TypeOK, Job
    <3> QED BY <3>1 DEF Busy
  <2>4. rows'[job[w].req] = rows[job[w].req]
    BY <2>1, <2>2, <2>3, RowsStep
  <2> QED BY <1>1, <2>1, <2>4
<1>2. CASE \E u \in Users, r \in Ids, p \in Patch : UpdateBind(w, u, r, p)
  BY <1>2, BoundCopy
<1>3. ASSUME UpdateCommit(w) \/ RecordDeleted(w),
             \E pc \in {"notify", "delete"} : job'[w] = [job[w] EXCEPT !.pc = pc]
      PROVE  FALSE
  BY <1>3, BusyIsJob DEF UpdateCommit, RecordDeleted, Busy, Job
<1> QED BY <1>1, <1>2, <1>3, WorkerStep DEF Busy

SerialInv == AuditInv /\ CopiesFollowScheme /\ CopiesAreCurrent

LEMMA SerialCorrect ==
  ASSUME OneAtATime
  PROVE  ApiSpec => []SerialInv
<1>1. Init => SerialInv
  BY AuditInit DEF Init, SerialInv, CopiesFollowScheme, CopiesAreCurrent, Busy
<1>2. SerialInv /\ ApiStep => SerialInv'
  <2> SUFFICES ASSUME SerialInv, ApiStep PROVE SerialInv'
    OBVIOUS
  <2>1. AuditInv'
    BY AuditStep DEF SerialInv, ApiStep
  <2>2. CopiesFollowScheme' /\ CopiesAreCurrent'
    BY SchemeStep, CurrentStep DEF SerialInv, AuditInv
  <2> QED BY <2>1, <2>2 DEF SerialInv
<1> QED BY <1>1, <1>2, PTL DEF ApiSpec, ApiStep

(* A log that agrees with its row stays a path when a move of the scheme     *)
(* from the row's status is appended, or a row about something else.         *)
LEMMA AppendIsAPath ==
  ASSUME NEW S, NEW h \in Seq(S), NEW e \in S, IsAPath(h), NEW row,
         e.action = "status_changed" =>
           StatusAgrees(row, h) /\ e.from = row.status /\ InScheme(e.from, e.to)
  PROVE  IsAPath(Append(h, e))
<1> DEFINE g == Append(h, e)
           n == Len(h) + 1
           Before(q, j) == {i \in 1 .. j - 1 : q[i].action = "status_changed"}
<1>1. /\ DOMAIN g = 1 .. n /\ DOMAIN h = 1 .. Len(h) /\ Len(h) \in Nat
      /\ g[n] = e /\ \A i \in 1 .. Len(h) : g[i] = h[i]
  OBVIOUS
<1> HIDE DEF g
<1>2. ASSUME NEW j \in 1 .. n PROVE Before(g, j) = Before(h, j)
  <2>1. \A i \in 1 .. j - 1 : i \in 1 .. Len(h)
    BY <1>1
  <2> QED BY <1>1, <2>1
<1>3. ASSUME NEW j \in DOMAIN g, g[j].action = "status_changed", j # n
      PROVE  /\ InScheme(g[j].from, g[j].to)
             /\ \A i \in Before(g, j) : (\A k \in Before(g, j) : k <= i) => g[i].to = g[j].from
             /\ Before(g, j) = {} => g[j].from = "pending"
  <2>1. j \in DOMAIN h /\ g[j] = h[j] /\ Before(g, j) = Before(h, j)
    BY <1>1, <1>2, <1>3
  <2>2. \A i \in Before(h, j) : g[i] = h[i]
    BY <1>1, <2>1
  <2> QED BY <1>3, <2>1, <2>2 DEF IsAPath
<1>4. ASSUME g[n].action = "status_changed"
      PROVE  /\ InScheme(g[n].from, g[n].to)
             /\ \A i \in Before(g, n) : (\A k \in Before(g, n) : k <= i) => g[i].to = g[n].from
             /\ Before(g, n) = {} => g[n].from = "pending"
  <2>1. StatusAgrees(row, h) /\ e.from = row.status /\ InScheme(e.from, e.to)
    BY <1>1, <1>4
  <2>2. Before(g, n) = {i \in DOMAIN h : h[i].action = "status_changed"}
    BY <1>1, <1>2
  <2>3. ASSUME NEW i \in Before(g, n), \A k \in Before(g, n) : k <= i
        PROVE  g[i].to = g[n].from
    <3>1. i \in DOMAIN h /\ h[i].action = "status_changed" /\ g[i] = h[i]
      BY <1>1, <2>2
    <3>2. \A k \in DOMAIN h : k > i => h[k].action # "status_changed"
      BY <1>1, <2>2, <2>3, <3>1
    <3> QED BY <1>1, <2>1, <3>1, <3>2 DEF StatusAgrees, IsLast
  <2>4. Before(g, n) = {} => g[n].from = "pending"
    BY <1>1, <2>1, <2>2 DEF StatusAgrees
  <2> QED BY <1>1, <2>1, <2>3, <2>4
<1>5. IsAPath(g)
  BY <1>1, <1>3, <1>4 DEF IsAPath
<1> QED BY <1>5 DEF g

LEMMA PathStep ==
  ASSUME SerialInv, ApiStep, NEW r \in Ids, IsAPath(history[r])
  PROVE  IsAPath(history'[r])
<1>0. /\ TypeOK /\ StatusMatchesLog /\ CopiesFollowScheme /\ CopiesAreCurrent
      /\ history[r] \in Seq(Entry)
  BY DEF SerialInv, AuditInv, TypeOK
<1>1. ASSUME NEW e \in Entry, e.action \notin {"status_changed", "rescheduled"},
             history'[r] = Append(history[r], e)
      PROVE  IsAPath(history'[r])
  BY <1>0, <1>1, AppendIsAPath
<1>2. ASSUME NEW w \in Workers, UpdateCommit(w), job[w].req = r,
             history'[r] = LogSchedule(LogStatus(history[r], job[w]), job[w])
      PROVE  IsAPath(history'[r])
  <2> DEFINE j  == job[w]
             e1 == LogEntry("status_changed", j.snap.status, j.new.status, j.user)
             e2 == LogEntry("rescheduled", Schedule(j.snap), Schedule(j.new), j.user)
             h  == history[r]
             h1 == LogStatus(h, j)
  <2>1. Busy(w, "write") /\ j \in Job /\ rows[r] = j.snap /\ rows[r] # NoRow
    <3>1. Busy(w, "write") /\ j \in Job /\ rows[r] = j.snap
      BY <1>0, <1>2, BusyIsJob DEF UpdateCommit, Busy, CopiesAreCurrent
    <3> QED BY <3>1, RowAssumption DEF Job
  <2>2. /\ e1 \in Entry /\ e1.from = j.snap.status /\ e1.to = j.new.status
        /\ e2 \in Entry /\ e2.action = "rescheduled"
    BY <2>1 DEF LogEntry, Entry, Job, Row, Schedule, Schedules
  <2>3. StatusAgrees(rows[r], h)
    BY <1>0, <2>1 DEF StatusMatchesLog
  <2>4. j.new.status # j.snap.status => InScheme(j.snap.status, j.new.status)
    BY <1>0, <2>1 DEF CopiesFollowScheme
  <2>5. h1 = IF j.new.status = j.snap.status THEN h ELSE Append(h, e1)
    BY DEF LogStatus
  <2>6. LogSchedule(h1, j) = IF Schedule(j.new) = Schedule(j.snap) THEN h1 ELSE Append(h1, e2)
    BY DEF LogSchedule
  <2>7. h \in Seq(Entry) /\ IsAPath(h) /\ history'[r] = LogSchedule(h1, j)
    BY <1>0, <1>2
  <2> HIDE DEF e1, e2, h, h1, j
  <2>8. h1 \in Seq(Entry) /\ IsAPath(h1)
    BY <2>1, <2>2, <2>3, <2>4, <2>5, <2>7, AppendIsAPath
  <2>9. IsAPath(LogSchedule(h1, j))
    BY <2>2, <2>6, <2>8, AppendIsAPath
  <2> QED BY <2>7, <2>9
<1> QED BY <1>0, <1>1, <1>2, HistoryStep

(* A log row about a schedule that names the row's keeps log and row in       *)
(* agreement on it, and so does a row about something else.                  *)
LEMMA ScheduleAppend ==
  ASSUME NEW S, NEW h \in Seq(S), NEW e \in S, NEW row, NEW row2,
         e.action = "rescheduled" => Schedule(row2) = e.to,
         e.action # "rescheduled" => Schedule(row2) = Schedule(row) /\ ScheduleAgrees(row, h)
  PROVE  ScheduleAgrees(row2, Append(h, e))
<1> DEFINE g == Append(h, e)
<1>1. /\ DOMAIN g = 1 .. Len(h) + 1 /\ DOMAIN h = 1 .. Len(h) /\ Len(h) \in Nat
      /\ g[Len(h) + 1] = e /\ \A i \in 1 .. Len(h) : g[i] = h[i]
  OBVIOUS
<1> HIDE DEF g
<1>2. ASSUME NEW i \in DOMAIN g, IsLast(g, "rescheduled", i)
      PROVE  Schedule(row2) = g[i].to
  <2>1. CASE i = Len(h) + 1
    BY <1>1, <1>2, <2>1 DEF IsLast
  <2>2. CASE i # Len(h) + 1
    <3>1. i \in DOMAIN h /\ g[i] = h[i] /\ e.action # "rescheduled"
      BY <1>1, <1>2, <2>2 DEF IsLast
    <3>2. IsLast(h, "rescheduled", i)
      BY <1>1, <1>2, <3>1 DEF IsLast
    <3> QED BY <3>1, <3>2 DEF ScheduleAgrees
  <2> QED BY <2>1, <2>2
<1> QED BY <1>2 DEF ScheduleAgrees, g

SchedulesAgree == \A r \in Ids : rows[r] # NoRow => ScheduleAgrees(rows[r], history[r])

LEMMA SchedulesStep ==
  ASSUME SerialInv, SchedulesAgree, ApiStep
  PROVE  SchedulesAgree'
<1> SUFFICES ASSUME NEW r \in Ids, rows'[r] # NoRow
             PROVE  ScheduleAgrees(rows'[r], history'[r])
  BY DEF SchedulesAgree
<1>0. /\ TypeOK /\ FreshIsEmpty /\ CopiesAreCurrent /\ lastId \in Nat /\ r \in Nat
      /\ history[r] \in Seq(Entry)
  BY DEF SerialInv, AuditInv, TypeOK, Ids
<1>1. ASSUME NEW w \in Workers, UpdateCommit(w), job[w].req = r
      PROVE  ScheduleAgrees(rows'[r], history'[r])
  <2> DEFINE j  == job[w]
             e1 == LogEntry("status_changed", j.snap.status, j.new.status, j.user)
             e2 == LogEntry("rescheduled", Schedule(j.snap), Schedule(j.new), j.user)
             h  == history[r]
             h1 == LogStatus(h, j)
             h2 == LogSchedule(h1, j)
  <2>1. /\ j \in Job /\ rows[r] = j.snap /\ rows[r] # NoRow
        /\ rows'[r] = Saved(j.snap, j.snap, j.new, j.timed) /\ history'[r] = h2
    <3>1. Busy(w, "write") /\ j \in Job /\ rows[r] = j.snap
      BY <1>0, <1>1, BusyIsJob DEF UpdateCommit, Busy, CopiesAreCurrent
    <3>2. rows[r] # NoRow
      BY <3>1, RowAssumption DEF Job
    <3> QED BY <1>0, <1>1, <3>1, <3>2 DEF UpdateCommit, SaveRow, TypeOK
  <2>2. Schedule(rows'[r]) = Schedule(j.new)
    <3>1. rows'[r].date = j.new.date /\ rows'[r].time = j.new.time
      BY <2>1 DEF Saved, Job, Row
    <3> QED BY <3>1 DEF Schedule
  <2>3. ScheduleAgrees(j.snap, h)
    BY <2>1 DEF SchedulesAgree
  <2>4. /\ e1 \in Entry /\ e1.action = "status_changed"
        /\ e2 \in Entry /\ e2.action = "rescheduled" /\ e2.to = Schedule(j.new)
    BY <2>1 DEF LogEntry, Entry, Job, Row, Schedule, Schedules
  <2>5. /\ h1 = IF j.new.status = j.snap.status THEN h ELSE Append(h, e1)
        /\ h2 = IF Schedule(j.new) = Schedule(j.snap) THEN h1 ELSE Append(h1, e2)
    BY DEF LogStatus, LogSchedule
  <2>6. h \in Seq(Entry)
    BY <1>0
  <2> HIDE DEF e1, e2, h, h1, h2, j
  <2>7. h1 \in Seq(Entry) /\ ScheduleAgrees(j.snap, h1)
    BY <2>3, <2>4, <2>5, <2>6, ScheduleAppend
  <2>8. CASE Schedule(j.new) = Schedule(j.snap)
    BY <2>1, <2>2, <2>5, <2>7, <2>8 DEF ScheduleAgrees
  <2>9. CASE Schedule(j.new) # Schedule(j.snap)
    <3>1. ScheduleAgrees(rows'[r], Append(h1, e2))
      BY <2>2, <2>4, <2>7, ScheduleAppend
    <3> QED BY <2>1, <2>5, <2>9, <3>1
  <2> QED BY <2>8, <2>9
<1>2. ASSUME NEW w \in Workers, StoreInsert(w), r = lastId + 1
      PROVE  ScheduleAgrees(rows'[r], history'[r])
  <2>1. history'[r] = <<>>
    BY <1>0, <1>2 DEF FreshIsEmpty, StoreInsert
  <2> QED BY <2>1 DEF ScheduleAgrees
<1>3. ASSUME ~ \E w \in Workers : UpdateCommit(w) /\ job[w].req = r, rows'[r] = rows[r]
      PROVE  ScheduleAgrees(rows'[r], history'[r])
  <2>1. ScheduleAgrees(rows[r], history[r])
    BY <1>3 DEF SchedulesAgree
  <2>2. ASSUME NEW e \in Entry, e.action # "rescheduled", history'[r] = Append(history[r], e)
        PROVE  ScheduleAgrees(rows'[r], history'[r])
    BY <1>0, <1>3, <2>1, <2>2, ScheduleAppend
  <2> QED BY <1>0, <1>3, <2>1, <2>2, HistoryStep
<1> QED BY <1>0, <1>1, <1>2, <1>3, RowsStep

(* Handled one at a time, also when workers die half way: the status rows of *)
(* a log are a walk along the scheme that starts at pending and ends at the  *)
(* row's status, and the last schedule logged is the row's.                  *)
THEOREM SerialHistory ==
  ASSUME OneAtATime
  PROVE  ApiSpec => []HistoryIsAPath
<1> DEFINE Paths == (\A r \in Ids : IsAPath(history[r])) /\ SchedulesAgree
<1>1. Init => Paths
  BY DEF Init, IsAPath, SchedulesAgree
<1>2. SerialInv /\ Paths /\ ApiStep => Paths'
  BY PathStep, SchedulesStep
<1>3. SerialInv /\ Paths => HistoryIsAPath
  BY DEF HistoryIsAPath, SerialInv, AuditInv, StatusMatchesLog, SchedulesAgree
<1> HIDE DEF Paths
<1> QED BY <1>1, <1>2, <1>3, SerialCorrect, PTL DEF ApiSpec, ApiStep

(***************************************************************************)
(* The refinement: a row's life is a behaviour of ViewingLifecycle.  Each      *)
(* action that touches a row maps to one step of the abstract specification,   *)
(* every other action to a stutter.                                           *)
(***************************************************************************)
Stage == [r \in Ids |-> StageOf(r)]

(* Only the stage of one id moves when only its row does.                    *)
LEMMA OneStage ==
  ASSUME NEW r \in Ids,
         \A i \in Ids : i # r => rows'[i] = rows[i] /\ (i <= lastId' <=> i <= lastId)
  PROVE  Stage' = [Stage EXCEPT ![r] = StageOf(r)']
<1>1. ASSUME NEW i \in Ids, i # r PROVE StageOf(i)' = StageOf(i)
  BY <1>1 DEF StageOf
<1> QED BY <1>1 DEF Stage

LEMMA SameStage ==
  ASSUME UNCHANGED <<rows, lastId>>
  PROVE  UNCHANGED Stage
BY DEF Stage, StageOf

LEMMA LifecycleStep == SerialInv /\ ApiStep => [Lifecycle!Next]_Stage
<1> SUFFICES ASSUME SerialInv, ApiStep PROVE [Lifecycle!Next]_Stage
  OBVIOUS
<1>0. /\ TypeOK /\ FreshIsEmpty /\ JobsAreSane /\ CopiesFollowScheme /\ CopiesAreCurrent
      /\ lastId \in Nat /\ rows \in [Ids -> Row \cup {NoRow}]
  BY DEF SerialInv, AuditInv, TypeOK
<1>1. ASSUME NEW w \in Workers, StoreInsert(w) PROVE [Lifecycle!Next]_Stage
  <2>0. PICK id \in Ids : id = lastId + 1
    BY <1>0, <1>1, ConstantsAssumption DEF StoreInsert, Ids
  <2>1. /\ lastId' = id /\ rows' = [rows EXCEPT ![id] = job[w].new]
        /\ job[w].new \in Row /\ job[w].new.status = "pending"
    BY <1>0, <1>1, <2>0, BusyIsJob DEF StoreInsert, Busy, Job, JobsAreSane
  <2>2. Stage[id] = "none"
    BY <1>0, <2>0 DEF Stage, StageOf, FreshIsEmpty, Ids
  <2>3. StageOf(id)' = "pending"
    BY <1>0, <2>1, RowAssumption DEF StageOf
  <2>4. Stage' = [Stage EXCEPT ![id] = StageOf(id)']
    <3>1. \A i \in Ids : i # id => rows'[i] = rows[i] /\ (i <= lastId' <=> i <= lastId)
      BY <1>0, <2>0, <2>1 DEF Ids
    <3> QED BY <3>1, OneStage
  <2>5. Lifecycle!Open(id)
    BY <2>2, <2>3, <2>4 DEF Lifecycle!Open, Stage
  <2> QED BY <2>5 DEF Lifecycle!Next
<1>2. ASSUME NEW w \in Workers, UpdateCommit(w) PROVE [Lifecycle!Next]_Stage
  <2> DEFINE j == job[w]
  <2>0. PICK r \in Ids : r = j.req
    BY <1>0, <1>2, BusyIsJob DEF UpdateCommit, Busy
  <2>1. /\ Busy(w, "write") /\ j \in Job /\ rows[r] = j.snap
        /\ j.snap \in Row /\ j.new \in Row
    BY <1>0, <1>2, <2>0, BusyIsJob DEF UpdateCommit, Busy, Job, CopiesAreCurrent
  <2>2. /\ rows' = [rows EXCEPT ![r] = Saved(rows[r], j.snap, j.new, j.timed)] /\ lastId' = lastId
        /\ rows[r] # NoRow /\ Saved(rows[r], j.snap, j.new, j.timed) # NoRow
    <3>1. rows[r] \in Row /\ Saved(rows[r], j.snap, j.new, j.timed) \in Row
      BY <2>1, SavedIsRow
    <3>2. rows[r] # NoRow /\ Saved(rows[r], j.snap, j.new, j.timed) # NoRow
      BY <3>1, RowAssumption
    <3> QED BY <1>2, <2>0, <3>2 DEF UpdateCommit, SaveRow
  <2>3. Stage[r] = j.snap.status /\ StageOf(r)' = j.new.status
    BY <1>0, <2>1, <2>2, SavedFields DEF Stage, StageOf
  <2>4. Stage' = [Stage EXCEPT ![r] = StageOf(r)']
    BY <1>0, <2>2, OneStage
  <2>5. CASE j.new.status = j.snap.status
    BY <2>3, <2>4, <2>5 DEF Stage
  <2>6. CASE j.new.status # j.snap.status
    <3>1. j.new.status \in Lifecycle!allowedTargets(Stage[r])
      BY <1>0, <2>1, <2>3, <2>6 DEF CopiesFollowScheme, InScheme, Lifecycle!allowedTargets
    <3>2. Lifecycle!Move(r)
      BY <2>3, <2>4, <3>1 DEF Lifecycle!Move, Stage
    <3> QED BY <3>2 DEF Lifecycle!Next
  <2> QED BY <2>5, <2>6
<1>3. ASSUME NEW w \in Workers, DestroyRow(w) PROVE [Lifecycle!Next]_Stage
  <2>0. PICK r \in Ids : r = job[w].req /\ r <= lastId
    BY <1>0, <1>3, BusyIsJob DEF DestroyRow, Busy, JobsAreSane
  <2>1. rows' = [rows EXCEPT ![r] = NoRow] /\ lastId' = lastId
    BY <1>3, <2>0 DEF DestroyRow
  <2>2. StageOf(r)' = "deleted"
    BY <1>0, <2>0, <2>1 DEF StageOf
  <2>3. Stage' = [Stage EXCEPT ![r] = StageOf(r)']
    BY <1>0, <2>1, OneStage
  <2>4. CASE rows[r] = NoRow
    <3>1. Stage[r] = "deleted"
      BY <2>0, <2>4 DEF Stage, StageOf
    <3> QED BY <2>2, <2>3, <3>1 DEF Stage
  <2>5. CASE rows[r] # NoRow
    <3>1. Stage[r] \in Lifecycle!Statuses
      BY <1>0, <2>5 DEF Stage, StageOf, Row, Statuses, Lifecycle!Statuses
    <3>2. Lifecycle!Remove(r)
      BY <2>2, <2>3, <3>1 DEF Lifecycle!Remove, Stage
    <3> QED BY <3>2 DEF Lifecycle!Next
  <2> QED BY <2>4, <2>5
<1>4. \/ UNCHANGED <<rows, lastId>>
      \/ \E w \in Workers : StoreInsert(w) \/ UpdateCommit(w) \/ DestroyRow(w)
  BY ArriveFrame DEF ApiStep, ApiNext, Aborts, Proceed, RecordCreated, NotifyCreated,
         UpdateNotify, RecordDeleted, Abort, DeliverNotification, vars
<1> QED BY <1>1, <1>2, <1>3, <1>4, SameStage

(* Handled one at a time, the requests implement the abstract lifecycle:     *)
(* opened pending, moved only along the scheme, never back once removed.     *)
THEOREM SerialImplementsLifecycle ==
  ASSUME OneAtATime
  PROVE  ApiSpec => FollowsLifecycle
<1>1. Init => Lifecycle!Init
  <2> SUFFICES ASSUME Init PROVE Lifecycle!Init
    OBVIOUS
  <2>1. ASSUME NEW r \in Ids PROVE StageOf(r) = "none"
    BY ConstantsAssumption DEF Init, StageOf, Ids
  <2> QED BY <2>1 DEF Lifecycle!Init
<1>2. SerialInv /\ ApiStep => [Lifecycle!Next]_Stage
  BY LifecycleStep
<1> QED BY <1>1, <1>2, SerialCorrect, PTL DEF ApiSpec, ApiStep, FollowsLifecycle, Lifecycle!Spec, Stage
-----------------------------------------------------------------------------
(***************************************************************************)
(* The notifications.  Until the party that did not make the last change of   *)
(* status has its notification, the news is on its way: a handler is about to *)
(* queue it, or a job is queued, which reads the row when it runs and, the    *)
(* log agreeing with the row, finds that very status there.                   *)
(***************************************************************************)
OtherParty(row, u) == IF u = row.client THEN row.agent ELSE row.client

IsTold(r, e) ==
  \/ [kind |-> "updated", req |-> r, label |-> e.to] \in inbox[OtherParty(rows[r], e.by)]
  \/ \E k \in DOMAIN queue :
       queue[k] = [kind |-> "updated", to |-> OtherParty(rows[r], e.by), req |-> r]
  \/ \E w \in Workers : Busy(w, "notify") /\ job[w].req = r /\ job[w].user = e.by

NewsIsOnItsWay ==
  \A r \in Ids : rows[r] # NoRow =>
    \A i \in DOMAIN history[r] :
      IsLast(history[r], "status_changed", i) => IsTold(r, history[r][i])

(* update() never hands a request to another client or agent.                *)
PartiesStay ==
  \A w \in Workers : Busy(w, "write") \/ Busy(w, "notify") =>
    /\ job[w].new.client = job[w].snap.client /\ job[w].new.agent = job[w].snap.agent
    /\ rows[job[w].req] # NoRow => rows[job[w].req].client = job[w].snap.client

NewsInv == AuditInv /\ PartiesStay /\ NewsIsOnItsWay

(* A row that is still there has kept its parties.                           *)
LEMMA SameParties ==
  ASSUME AuditInv, PartiesStay, ApiStep, NEW r \in Ids, r <= lastId, rows'[r] # NoRow
  PROVE  /\ rows[r] # NoRow
         /\ rows'[r].client = rows[r].client /\ rows'[r].agent = rows[r].agent
<1>0. TypeOK /\ lastId \in Nat /\ r # lastId + 1
  BY DEF AuditInv, TypeOK, Ids
<1>1. ASSUME NEW w \in Workers, UpdateCommit(w), job[w].req = r, rows[r] # NoRow,
             rows'[r] = Saved(rows[r], job[w].snap, job[w].new, job[w].timed)
      PROVE  rows'[r].client = rows[r].client /\ rows'[r].agent = rows[r].agent
  <2>1. Busy(w, "write") /\ rows[r] \in Row /\ job[w].snap \in Row /\ job[w].new \in Row
    BY <1>0, <1>1, BusyIsJob, LoadedIsRow DEF UpdateCommit, Busy, Job
  <2> QED BY <1>1, <2>1, SavedFields DEF PartiesStay
<1> QED BY <1>0, <1>1, RowsStep

LEMMA PartiesStep ==
  ASSUME AuditInv, PartiesStay, ApiStep
  PROVE  PartiesStay'
<1> SUFFICES ASSUME NEW w \in Workers, Busy(w, "write")' \/ Busy(w, "notify")'
             PROVE  /\ job'[w].new.client = job'[w].snap.client
                    /\ job'[w].new.agent = job'[w].snap.agent
                    /\ rows'[job'[w].req] # NoRow
                         => rows'[job'[w].req].client = job'[w].snap.client
  BY DEF PartiesStay
<1>0. TypeOK /\ JobsAreSane
  BY DEF AuditInv
<1>1. ASSUME Busy(w, "write") \/ Busy(w, "notify"),
             job'[w].req = job[w].req, job'[w].snap = job[w].snap, job'[w].new = job[w].new
      PROVE  /\ job'[w].new.client = job'[w].snap.client
             /\ job'[w].new.agent = job'[w].snap.agent
             /\ rows'[job'[w].req] # NoRow
                  => rows'[job'[w].req].client = job'[w].snap.client
  <2>1. job[w].req \in Ids /\ job[w].req <= lastId
    BY <1>0, <1>1, BusyIsJob DEF Busy, JobsAreSane
  <2>2. PICK r \in Ids : r = job[w].req
    BY <2>1
  <2>3. rows'[r] # NoRow => rows[r] # NoRow /\ rows'[r].client = rows[r].client
    BY <2>1, <2>2, SameParties
  <2> QED BY <1>1, <2>2, <2>3 DEF PartiesStay
<1>2. CASE job'[w] = job[w]
  BY <1>1, <1>2 DEF Busy
<1>3. CASE \E u \in Users, r \in Ids, p \in Patch : UpdateBind(w, u, r, p)
  BY <1>0, <1>3, BoundCopy
<1>4. CASE UpdateCommit(w) /\ job'[w] = [job[w] EXCEPT !.pc = "notify"]
  BY <1>0, <1>1, <1>4, BusyIsJob DEF UpdateCommit, Busy, Job
<1>5. CASE RecordDeleted(w) /\ job'[w] = [job[w] EXCEPT !.pc = "delete"]
  BY <1>0, <1>5, BusyIsJob DEF RecordDeleted, Busy, Job
<1> QED BY <1>0, <1>2, <1>3, <1>4, <1>5, WorkerStep DEF Busy

(* The last change of status in a log was there before the step, or is the   *)
(* one a commit has just made.                                               *)
LEMMA LastChange ==
  ASSUME TypeOK, ApiStep, NEW r \in Ids, NEW i \in DOMAIN history'[r],
         IsLast(history'[r], "status_changed", i)
  PROVE  \/ /\ i \in DOMAIN history[r] /\ history'[r][i] = history[r][i]
            /\ IsLast(history[r], "status_changed", i)
         \/ \E w \in Workers : /\ UpdateCommit(w) /\ job[w].req = r
                               /\ history'[r][i].by = job[w].user
<1>0. history[r] \in Seq(Entry) /\ Extends(history'[r], history[r])
  BY LogsGrow DEF TypeOK
<1>1. CASE i \in DOMAIN history[r]
  BY <1>0, <1>1 DEF Extends, IsLast
<1>2. ASSUME NEW e \in Entry, e.action # "status_changed", history'[r] = Append(history[r], e)
      PROVE  i \in DOMAIN history[r]
  BY <1>0, <1>2 DEF IsLast
<1>3. ASSUME NEW w \in Workers, UpdateCommit(w), job[w].req = r,
             history'[r] = LogSchedule(LogStatus(history[r], job[w]), job[w]),
             i \notin DOMAIN history[r]
      PROVE  history'[r][i].by = job[w].user
  <2> DEFINE j  == job[w]
             e1 == LogEntry("status_changed", j.snap.status, j.new.status, j.user)
             e2 == LogEntry("rescheduled", Schedule(j.snap), Schedule(j.new), j.user)
             h  == history[r]
             h1 == LogStatus(h, j)
             h2 == LogSchedule(h1, j)
  <2>1. e1 \in Entry /\ e1.by = j.user /\ e2 \in Entry /\ e2.by = j.user
    BY <1>3, BusyIsJob DEF UpdateCommit, Busy, LogEntry, Entry, Job, Row, Schedule, Schedules
  <2>2. h1 = IF j.new.status = j.snap.status THEN h ELSE Append(h, e1)
    BY DEF LogStatus
  <2>3. h2 = IF Schedule(j.new) = Schedule(j.snap) THEN h1 ELSE Append(h1, e2)
    BY DEF LogSchedule
  <2>4. h \in Seq(Entry) /\ i \in DOMAIN h2 /\ i \notin DOMAIN h /\ history'[r] = h2
    BY <1>0, <1>3
  <2> HIDE DEF e1, e2, h, h1, h2, j
  <2>5. h1 \in Seq(Entry) /\ \A k \in DOMAIN h1 : k \notin DOMAIN h => h1[k].by = j.user
    BY <2>1, <2>2, <2>4
  <2>6. \A k \in DOMAIN h2 : k \notin DOMAIN h => h2[k].by = j.user
    BY <2>1, <2>3, <2>4, <2>5
  <2> QED BY <2>4, <2>6 DEF j
<1>4. CASE history'[r] = history[r]
  BY <1>1, <1>4
<1> QED BY <1>1, <1>2, <1>3, <1>4, HistoryStep

(* News under way stays under way, or arrives: a notification queued, not    *)
(* yet delivered, stays queued; the delivered one names the row's status.    *)
LEMMA ToldStep ==
  ASSUME NewsInv, [ApiNext]_vars, NEW r \in Ids, NEW e, rows[r] # NoRow, rows'[r] # NoRow,
         rows[r].status = e.to, IsTold(r, e)
  PROVE  IsTold(r, e)'
<1>0. TypeOK /\ PartiesStay /\ ApiStep /\ queue \in Seq(Notification)
  BY DEF NewsInv, AuditInv, TypeOK, ApiStep
<1> DEFINE to == OtherParty(rows[r], e.by)
           job1 == [kind |-> "updated", to |-> to, req |-> r]
           note == [kind |-> "updated", req |-> r, label |-> e.to]
<1>1. OtherParty(rows[r], e.by)' = to
  <2>1. r <= lastId
    BY DEF NewsInv, AuditInv, FreshIsEmpty, TypeOK, Ids
  <2>2. rows'[r].client = rows[r].client /\ rows'[r].agent = rows[r].agent
    BY <2>1, SameParties, <1>0 DEF NewsInv
  <2> QED BY <2>2 DEF OtherParty
\* The three ways of being told, as they read after the step.
<1>2. /\ note \in inbox'[to] => IsTold(r, e)'
      /\ (\E k \in DOMAIN queue' : queue'[k] = job1) => IsTold(r, e)'
      /\ (\E w \in Workers : Busy(w, "notify")' /\ job'[w].req = r /\ job'[w].user = e.by)
           => IsTold(r, e)'
  BY <1>1 DEF IsTold
<1> HIDE DEF to, job1, note
<1>3. CASE DeliverNotification
  <2>1. ASSUME note \in inbox[to] PROVE note \in inbox'[to]
    BY <1>0, <1>3, <2>1 DEF DeliverNotification, TypeOK
  <2>2. ASSUME NEW k \in DOMAIN queue, queue[k] = job1
        PROVE  note \in inbox'[to] \/ \E m \in DOMAIN queue' : queue'[m] = job1
    <3>1. CASE k = 1
      <4>1. Head(queue) = job1 /\ job1 \in Notification
        BY <1>0, <1>3, <2>2, <3>1 DEF DeliverNotification
      <4>2. job1.kind = "updated" /\ job1.req = r /\ job1.to = to /\ to \in Users
        BY <4>1 DEF job1, Notification
      <4>3. inbox' = [inbox EXCEPT ![to] = inbox[to] \cup {note}]
        BY <1>3, <4>1, <4>2 DEF DeliverNotification, note
      <4> QED BY <1>0, <4>2, <4>3 DEF TypeOK
    <3>2. CASE k # 1
      <4>1. queue' = Tail(queue) /\ k - 1 \in DOMAIN Tail(queue) /\ Tail(queue)[k - 1] = queue[k]
        BY <1>0, <1>3, <2>2, <3>2 DEF DeliverNotification
      <4> QED BY <2>2, <4>1
    <3> QED BY <3>1, <3>2
  <2>3. UNCHANGED job
    BY <1>3 DEF DeliverNotification
  <2> QED BY <1>2, <2>1, <2>2, <2>3 DEF IsTold, note, job1, to, Busy
<1>4. ASSUME UNCHANGED inbox, UNCHANGED queue \/ \E n \in Notification : queue' = Append(queue, n),
             \A w \in Workers : Busy(w, "notify") => job'[w] = job[w]
      PROVE  IsTold(r, e)'
  <2>1. ASSUME NEW k \in DOMAIN queue, queue[k] = job1
        PROVE  \E m \in DOMAIN queue' : queue'[m] = job1
    <3>1. k \in DOMAIN queue' /\ queue'[k] = queue[k]
      BY <1>0, <1>4
    <3> QED BY <2>1, <3>1
  <2> QED BY <1>2, <1>4, <2>1 DEF IsTold, note, job1, to, Busy
<1>5. ASSUME NEW w \in Workers, UpdateNotify(w) PROVE IsTold(r, e)'
  <2>1. /\ job[w] \in Job /\ job[w].req \in Ids /\ Busy(w, "notify")
        /\ UNCHANGED inbox /\ job' = [job EXCEPT ![w] = NoJob]
    BY <1>0, <1>5, BusyIsJob DEF UpdateNotify, Busy, Finish
  <2>2. queue' = queue \/ \E n \in Notification : queue' = Append(queue, n)
    <3>1. rows[job[w].req] # NoRow =>
            [kind |-> "updated", to |-> Counterpart(job[w], rows[job[w].req]), req |-> job[w].req]
              \in Notification
      BY <1>0, <2>1, LoadedIsRow DEF Notification, Counterpart, Row
    <3> QED BY <1>5, <3>1 DEF UpdateNotify
  <2>3. ASSUME NEW k \in DOMAIN queue, queue[k] = job1
        PROVE  \E m \in DOMAIN queue' : queue'[m] = job1
    <3>1. k \in DOMAIN queue' /\ queue'[k] = queue[k]
      BY <1>0, <2>2
    <3> QED BY <2>3, <3>1
  <2>4. ASSUME job[w].req = r, job[w].user = e.by
        PROVE  \E m \in DOMAIN queue' : queue'[m] = job1
    <3>1. Counterpart(job[w], rows[r]) = to
      BY <1>0, <2>1, <2>4 DEF Counterpart, OtherParty, PartiesStay, to
    <3>2. queue' = Append(queue, job1)
      BY <1>5, <2>4, <3>1 DEF UpdateNotify, job1
    <3>3. Len(queue) + 1 \in DOMAIN queue' /\ queue'[Len(queue) + 1] = job1
      BY <1>0, <3>2
    <3> QED BY <3>3
  <2>5. \A v \in Workers : v # w => job'[v] = job[v]
    BY <1>0, <2>1 DEF TypeOK
  <2> QED BY <1>2, <2>1, <2>3, <2>4, <2>5 DEF IsTold, note, job1, to, Busy
<1>6. ASSUME NEW w \in Workers, Arrive(w) \/ (Proceed(w) /\ ~UpdateNotify(w))
      PROVE  IsTold(r, e)'
  <2>1. \A v \in Workers : v # w => job'[v] = job[v]
    BY <1>0, <1>6, ArriveFrame DEF Proceed, StoreInsert, RecordCreated, NotifyCreated,
           UpdateCommit, RecordDeleted, DestroyRow, Goto, Finish, TypeOK
  <2>2. ~Busy(w, "notify")
    <3>1. Arrive(w) => job[w] = NoJob
      <4>1. \A u \in Users, p \in Properties, s \in Schedules : StoreCheck(w, u, p, s) => job[w] = NoJob
        BY DEF StoreCheck, Begin, Idle
      <4>2. \A u \in Users, i \in Ids, p \in Patch : UpdateBind(w, u, i, p) => job[w] = NoJob
        BY DEF UpdateBind, Begin, Idle
      <4>3. \A u \in Users, i \in Ids : DestroyBind(w, u, i) => job[w] = NoJob
        BY DEF DestroyBind, Begin, Idle
      <4> QED BY <4>1, <4>2, <4>3 DEF Arrive
    <3> QED BY <1>6, <3>1 DEF Proceed, StoreInsert, RecordCreated, NotifyCreated,
           UpdateCommit, RecordDeleted, DestroyRow, Busy
  <2>3. UNCHANGED inbox
    BY <1>6, ArriveFrame DEF Proceed, StoreInsert, RecordCreated, NotifyCreated,
           UpdateCommit, RecordDeleted, DestroyRow
  <2>4. UNCHANGED queue \/ \E n \in Notification : queue' = Append(queue, n)
    <3>1. NotifyCreated(w) =>
            [kind |-> "created", to |-> job[w].new.agent, req |-> job[w].req] \in Notification
      BY <1>0, BusyIsJob DEF NotifyCreated, Busy, Notification, Job, Row
    <3> QED BY <1>6, <3>1, ArriveFrame DEF Proceed, StoreInsert, RecordCreated, NotifyCreated,
           UpdateCommit, RecordDeleted, DestroyRow
  <2> QED BY <1>4, <2>1, <2>2, <2>3, <2>4
<1>7. CASE UNCHANGED vars
  BY <1>4, <1>7 DEF vars
<1> QED BY <1>3, <1>5, <1>6, <1>7 DEF ApiNext, Proceed

LEMMA NewsStep == NewsInv /\ [ApiNext]_vars => NewsInv'
<1> SUFFICES ASSUME NewsInv, [ApiNext]_vars PROVE NewsInv'
  OBVIOUS
<1>0. AuditInv /\ PartiesStay /\ ApiStep /\ TypeOK /\ FreshIsEmpty /\ StatusMatchesLog
  BY DEF NewsInv, AuditInv, ApiStep
<1>1. AuditInv' /\ PartiesStay'
  BY <1>0, AuditStep, PartiesStep DEF ApiStep
<1>2. ASSUME NEW r \in Ids, rows'[r] # NoRow, NEW i \in DOMAIN history'[r],
             IsLast(history'[r], "status_changed", i)
      PROVE  IsTold(r, history[r][i])'
  <2>1. CASE /\ i \in DOMAIN history[r] /\ history'[r][i] = history[r][i]
             /\ IsLast(history[r], "status_changed", i)
    <3>1. rows[r] # NoRow
      <4>1. history[r] # <<>>
        BY <2>1
      <4>2. r <= lastId
        BY <1>0, <4>1 DEF FreshIsEmpty, TypeOK, Ids
      <4> QED BY <1>0, <1>2, <4>2, SameParties
    <3>2. PICK e : e = history[r][i]
      OBVIOUS
    <3>3. rows[r].status = e.to /\ IsTold(r, e)
      BY <1>0, <2>1, <3>1, <3>2 DEF StatusMatchesLog, StatusAgrees, NewsInv, NewsIsOnItsWay
    <3>4. IsTold(r, e)'
      BY <1>2, <3>1, <3>3, ToldStep
    <3>5. e = history'[r][i]
      BY <2>1, <3>2
    <3> QED BY <3>4, <3>5 DEF IsTold
  <2>2. ASSUME NEW w \in Workers, UpdateCommit(w), job[w].req = r,
               history'[r][i].by = job[w].user
        PROVE  IsTold(r, history[r][i])'
    <3>1. job[w] \in Job
      BY <1>0, <2>2, BusyIsJob DEF UpdateCommit, Busy
    <3>2. job' = [job EXCEPT ![w] = [job[w] EXCEPT !.pc = "notify"]]
      BY <1>0, <2>2 DEF UpdateCommit, Goto, TypeOK
    <3>3. job'[w] = [job[w] EXCEPT !.pc = "notify"] /\ job'[w] \in Job
      BY <1>0, <3>1, <3>2 DEF TypeOK, Job
    <3>4. job'[w] # NoJob
      BY <3>3, JobAssumption
    <3>5. Busy(w, "notify")' /\ job'[w].req = r /\ job'[w].user = history'[r][i].by
      BY <2>2, <3>1, <3>3, <3>4 DEF Busy, Job
    <3> QED BY <3>5 DEF IsTold
  <2> QED BY <1>0, <1>2, <2>1, <2>2, LastChange
<1>3. NewsIsOnItsWay'
  BY <1>2 DEF NewsIsOnItsWay
<1> QED BY <1>1, <1>3 DEF NewsInv

(* Once every handler and every queued job has run, the other party has a    *)
(* notification that names the status the request has.                       *)
THEOREM InboxCorrect == FairSpec => []InboxIsCurrent
<1>1. Init => NewsInv
  BY AuditInit DEF Init, NewsInv, PartiesStay, NewsIsOnItsWay, Busy
<1>2. NewsInv => InboxIsCurrent
  <2> SUFFICES ASSUME NewsInv, Quiescent, NEW r \in Ids, rows[r] # NoRow,
                      NEW i \in DOMAIN history[r], IsLast(history[r], "status_changed", i)
               PROVE  LET other == IF history[r][i].by = rows[r].client THEN rows[r].agent
                                                                        ELSE rows[r].client
                      IN  [kind |-> "updated", req |-> r, label |-> history[r][i].to] \in inbox[other]
    BY DEF InboxIsCurrent
  <2> QED BY DEF NewsInv, NewsIsOnItsWay, IsTold, Quiescent, Busy, OtherParty
<1> QED BY <1>1, <1>2, NewsStep, PTL DEF FairSpec
=============================================================================
