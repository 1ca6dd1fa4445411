# Formal models of Wajhatak

Wajhatak is a real-estate marketplace: a Laravel API and admin panel
(`src/backend`), a small Node service that fans events out over WebSockets
(`src/deploy/realtime`) and a Flutter app (`src/mobile`). This directory holds
TLA+ models of the parts in which something can go wrong *between* two steps,
the TLC configurations that check them on small instances, and TLAPS proofs of
the most important facts for instances of any size.

Check a run with `tlc -config viewing_api.cfg MCViewingRequest.tla` and the
proofs with `tlapm ViewingRequest_proofs.tla` (or another `*_proofs` module).

## 1. Inventory of the system

### How the parts interact

```
 Flutter app ──HTTP──> Laravel API ──rows──> MySQL <──rows── admin panel
   ^  ^   ^                │
   │  │   │                └─jobs table─> queue worker ─HTTP publish─┐
   │  │   └──── push (FCM) <─────────────────┘                       v
   │  └──────── WebSocket events <──────────────────── Node fan-out server
   └── ticket: Laravel signs it, the app presents it at the WebSocket upgrade
```

The API serves one request per PHP worker. A handler is several database round
trips; except for a few transactions nothing joins them and nothing locks a row
between the SELECT that a decision rests on and the UPDATE that carries it out.
Notifications and realtime events go through the `jobs` table. Node and Dart run
one callback at a time, and every `await` lets other callbacks in.

### Components

| Component | State | Operations | Hard behaviours | What makes it correct |
|---|---|---|---|---|
| Viewing requests (API, panel, policy, status scheme) | row, change log, queued notifications, inboxes | store, update, destroy; panel store, update, destroy; delivery | decisions on a loaded copy; partial column writes; two-statement delete; foreign-key cascade | log and table agree on the status, and on the schedule unless a copy was stale; no status without the steps leading to it; the other party learns the current status |
| Conversations and messages | threads, messages, notifications, jobs, published events | open thread, send, read thread, read notification, run job | commit before notification and events; racing inserts under a unique index; lost publications | one thread per pair; jobs find their rows; receipts are true; nothing forgotten |
| Realtime fan-out server | rooms, consumed nonces, socket states, clock | accept, upgrade, publish, close, heartbeat, shutdown, restart | close events long after the socket stopped being open; two clock readings; a body awaited before it is verified; vanished peers; upgrades after `shutdown()`; memory lost at a restart | rooms match sockets; limit per user; a consumed ticket is taken again at its last second at most; every open socket is in its room; a process told to stop stops |
| Realtime client | stop flag, channel, subscription, timer, attempt | start, stop, connect, reconnect | five awaits that other calls overtake | never stranded; `isConnected` is true of a live listener; one socket; silence after stop |
| Mobile data providers | value, in-flight flags, queued flag, session | build, refresh, event, retry, login, logout | answers overtaking each other, account switches, lazy rebuilds, failures, refused reads | no event lost; data not erased by a failure; another user's data only where nobody watched, and only until the next load |
| Chat list | messages shown, in-flight flag, send box | load, refresh, send, event, poll | a refresh asked for during another is dropped | the list converges; nothing unsent is shown |
| Queue delivery to FCM | job, devices, `delivered_at` | deliver, retry | retry after partial delivery | planned |
| Mobile session and device registration | state, stored token, cached user; access tokens and devices at the server | login, logout, restore, profile, register, unregister, revoke, 401 | a logout of five steps; answers and 401s of an older session; kill and restart; a request whose header is decided when it leaves | who is signed in keeps token and owner; signing out revokes and unregisters |
| Admin UI preferences | cookie, localStorage, JSON column, per tab: theme shown, queued values, timer | choose a theme, toggle the sidebar, render, OS change, debounced POST, merge | several tabs; debounce; lost, failed or reordered POSTs; whole-column writes; two scripts deciding on one theme | the newest theme survives and is shown; first paint and app.js agree; no choice swallowed by the debounce |
| Images and moderation of properties | images, cover flag, status | upload, set cover, moderate | read-then-write without a lock | planned |
| AI search index | index row, content hash | sync on property events | late writer with an older read | planned |
| E-mail verification | codes, attempts, resend time | send, confirm | limit checked before, stored after the mail | planned |
| Agent verification | agent status, documents | submit, approve, reject | edit against review | planned |
| Support tickets | ticket, replies | reply, close | reply against close | planned |
| Favourites, paged lists | local overrides, pages | toggle, load more | `loadMore` without a guard | planned |
| Conversation migrations | threads, messages | merge duplicates | pure algorithm over a table | planned |
| AI assistant | conversation | ask, follow up | text pipeline around an external model | not modelled |
| Authentication, mail, reports, reference data, screens, deployment | | | one request decides on its own data; I/O; rendering | not modelled |

`PROJECT.json` lists the source files of each, and under `hazards` the lines at
which each hazard bites.

## 2. Modules

| Module | Models | State ↔ code |
|---|---|---|
| `ViewingLifecycle` | abstract promise of the status scheme | `stage` ↔ `status`, plus "none" and "deleted" |
| `ViewingRequest` | `Api/V1/ViewingRequestController`, `Admin/ViewingRequestController`, `ViewingRequestPolicy`, `ViewingRequestStatus`, `ActivityLog`, the two notifications | `rows`/`lastId` ↔ table, `history` ↔ `activity_logs`, `job[w]` ↔ locals of the handler worker *w* runs, `queue` ↔ `jobs`, `inbox` ↔ `notifications` |
| `ViewingRequest_proofs` | theorems about it | |
| `Messaging` | `ConversationController`, `NotificationController::read`, `PublishRealtimeEvent`, `RealtimePublisher` | `convs`, `messages`, `notif` ↔ tables, `queue` ↔ `jobs`, `published` ↔ events the Node service accepted |
| `Messaging_proofs` | theorems about it | |
| `RealtimeServer` | `server.js`, `auth.js`, `RealtimeTicketController` | `clients`, `usedNonces` ↔ the Maps of the same name, `socket[s]` ↔ connection, `readyState`, `userId`, `isAlive`; `publish[e]` ↔ a POST whose body is awaited; `phase` ↔ whether `shutdown()` ran |
| `RealtimeServer_proofs` | theorems about it | |
| `RealtimeService` | `realtime_service.dart` | the private fields under their names; `pc[a]` ↔ the await at which the *a*-th execution of `_connect()` waits |
| `RealtimeService_proofs` | theorems about it | |
| `BackgroundRefresh` | `BackgroundRefreshController` in `providers.dart` | `value` ↔ `state.value`, `build` ↔ the load of `build()`, `load` ↔ `_refreshInFlight` and its request, `dirty` ↔ a rebuild that is due, `refreshQueued`, locals `requestedUserId` and `previous` |
| `BackgroundRefresh_proofs` | theorems about it | |
| `ChatMessages` | `ChatMessagesNotifier` and the send box and poll of `chat_screen.dart` | `shown` ↔ `state.value`, `load` ↔ `_refreshInFlight` |
| `ChatMessages_proofs` | theorems about it | |
| `MobileSession` | `SessionController` in `providers.dart`, `AuthRepository`, `TokenStore` and the interceptors of `api_client.dart`, device registration in `firebase_push_messaging_service.dart`, `AuthController`, `DeviceController` | `session` ↔ `state.value`, `stored`/`cached` ↔ the secure storage, `login`, `logout` ↔ the await those routines are at, `request[q]` ↔ a request with the header it left with, `holder`/`valid` ↔ `personal_access_tokens`, `device` ↔ `user_devices` |
| `MobileSession_proofs` | theorems about it | |
| `UiPreferences` | `app.js`, the admin layout's head script and sidebar, `UserPreferenceController` | `cookie`, `stored` ↔ the browser's `lux_theme` and `lux_sidebar`, `page[t]`, `sidebar[t]` ↔ a tab's document, `queued`, `timer` ↔ the variables of `persist()`, `posts[p]` ↔ a POST and the row its handler loaded, `row` ↔ `ui_preferences` |
| `UiPreferences_proofs` | theorems about it | |
| `MC*` | finite values and symmetry sets | |

Definitions keep the names of the source where there is one. One action is one
database round trip (PHP) or one stretch of code between awaits (Dart, Node);
`UpdateBind`, for instance, is the route binding with every check made on the
loaded copy, and `UpdateCommit` the whole transaction with its log rows. A
request that the checks turn away changes nothing and is left out.

Data is abstracted to what the properties tell apart: date and time of a viewing
are two columns of a few values each, notes only whether they were sent; a
message stands for its id, the server's data for a version number. A property's
`published` state is read once by `store()` and nothing depends on it later, so
it is left to the environment. Operators named `<definition><Something>` and
commented "Mutant of ..." are plausible mistakes; no specification uses them.
They exist so that each property can be seen to fail.

### Behaviour of libraries the models rely on

* Eloquent's `save()` writes only the attributes that differ from the loaded
  copy (`Saved`), column by column, and an UPDATE of a deleted row touches nothing
  (`SaveRow`). A time that was sent is always written: MySQL loads HH:MM:SS and
  HH:MM is sent. The log compares through the model's accessor, which cuts the
  seconds off, and does not take this for a change.
* A queued notification stores the model's id and loads the row when it runs.
* A PHP worker may die after any round trip (`Abort`); committed work stays.
* `ws` emits `close` some time after a socket stopped being open; several
  callbacks may run between.
* `StreamSubscription.cancel()` silences the listener at once and completes
  later; opening a channel takes until `ready`.
* Riverpod builds a provider again when what it watches has changed *and*
  somebody reads it: a watched one in the next step, an unwatched one whenever it
  is looked at (`dirty`, `ChangeUser`, `Look`). A rebuild keeps the old value
  readable. Whether the notifier object, and a refresh running in it, outlive the
  rebuild is left open: both outcomes are explored. A failed build may be tried
  again by the library or by the user.
* Laravel discards a cookie that it did not encrypt itself, so that the layout
  never sees the `lux_theme` that JavaScript wrote (`CookieTheme`).
* `localStorage.setItem` may throw; a cookie may expire or be evicted.
* Dio's `onRequest` interceptor runs when a request leaves, some awaits after
  the call; the header is therefore decided in `Send` and not in `Ask`.

## 3. Runs

| Run | Question | Bounds | Distinct states |
|---|---|---|---|
| `viewing_api` | Do log, table and scheme agree under overlapping API handlers and worker deaths? | 3 users, 1 request, 2 dates, 2 times, 2 workers, 3 HTTP requests, workers, dates and times symmetric | 582 k |
| `viewing_panel` | Can a late write of the API or the panel bring a deleted request back? | the same with one date and time, panel, cascades | 126 k |
| `viewing_serial` | Handled one at a time, does the API implement `ViewingLifecycle`, and are its logs walks along the scheme that end at the row? | 1 worker, 1 request, 1 date, 2 times, 4 HTTP requests | 316 k |
| `viewing_notify` | Does the other party learn the current status? | 2 workers, 3 HTTP requests, no deaths, fair | 31 k |
| `viewing_reopen` | Is a finished request never reopened? **Violated** | as `viewing_api`, one date and time | |
| `messaging` | Threads, jobs, receipts, completeness, eventual announcement | 2 users, 2 listings, 2 workers, 2 messages, 4 HTTP requests, faults, fair | 196 k |
| `server` | Rooms, limit, nonces taken and evicted under a moving clock, vanished peers, shutdown | 1 user, 3 sockets, 2 tickets, 1 publication, limit 2, 3 clock values, tickets valid for one tick, restarts, fair | 178 k |
| `client` | Every overlap of start, stop, awaits, timer and failures | 3 connect routines and 2 stops in flight | 35 k |
| `refresh_sessions` | Reads overtaking each other, account switches with lazy rebuilds, failures, refused reads | 2 users, 2 server changes each, 6 sign-ins/outs, users symmetric | 634 k |
| `chat` | Does an open chat keep what was sent, and converge? | 2 own messages, 2 of the other party, lost events, failures, fair | 70 k |
| `preferences` | Does the newest theme survive and show, and are choices saved? | 2 tabs, 2 POSTs at once, 2 choices or OS changes, failures, fair | 466 k |
| `session` | Do sign-in and sign-out keep phone and server in step? | 2 users, 2 sign-ins, 2 requests at once, 1 kill or revocation, users and requests symmetric | 2.5 M |

Why these bounds suffice for what is asked: every race in these components is
between two handlers or routines over one row (the code has no operation over
two requests, nor over two threads except the inserts, and `messaging` has two
listings), so two workers with one operation to create the row and two to
compete show each pairwise race; `viewing_serial` needs four requests for a full
walk pending–confirmed–completed. The server's limit is two so that "at the
limit", "one below" and "one above" all occur with three sockets; the expiry and
the publish window are one or zero ticks away and the clock has three values, so
that tickets expire, nonces are evicted, and each comparison is met with
equality and on either side of it. One user is enough there: a room is touched
only by its own sockets, and the proofs are for any number. Three connect
routines are the most that two overlapping restarts can leave behind. Two
requests of a session show each pair of answers overtaking each other, and two
sign-ins each pair of sessions; two tabs and two POSTs do the same for the
preferences, and two choices are what a debounce can merge or reorder. `ops` and
the `Max...` constants bound the number of operations; the models that use them
stop when it is used up, so `viewing_*`, `messaging`, `refresh_sessions` and
`session` do not ask for deadlock freedom. The other runs do check it.

A type invariant that is proved for all values of the constants (section 4) is
not checked again by a run, and neither are `NobodyMissed` and `NothingUnsent`,
which are proved too; `session` does check its type invariant, whose last part
is about the code: a request to revoke goes out with a token.

What the runs show beyond "no error":

* `StatusMatchesLog` holds although handlers merge column by column, because the
  status is written exactly when it is logged. `RescheduleLoggedUnlessStale` and
  `OffSchemeOnlyIfStale` say that overlap with an outdated copy is the *only* way
  to a schedule the log does not tell, and around the scheme. `HistoryIsAPath`
  needs handlers one at a time, since the old values in the log are those of the
  loaded copy.
* `DeletionIsLogged` survives a death between the two statements of
  `destroy()`, because the log row goes first. The panel logs second and has no
  such property.
* `OneThreadPerPair` needs the unique index over client and agent; with the
  older index that included the property it fails.
* `NeverStranded` holds under every overlap of starts and stops.
  `StoppedIsQuiet` and `OneSocket` hold only while no `start()` overlaps what an
  earlier `stop()` or connect routine had still to do (`overlapped` is FALSE):
  the client has no generation check, and a routine that outlives a stop and a
  start opens a second socket.
* `EventNotLost` depends on waiting for the first load and on the queued flag.
  `NeverErased` lets anything fail, but no request be refused: a refusal erases
  (see "Met while modelling"). `ForeignOnlyIfNeglected` says where another user's
  data can still be read: in a provider that nobody watched at a sign-out, until
  it is built again, and while that build is under way or has failed.
* `ReusedOnlyAtExpiry` says when one process takes a ticket twice: verified in
  its last second, evicted in the next. The run reaches that case. Two uses in two
  processes (a restart) are outside the property.
* `Reconnects` has the premise `ClosesReturn`, that no connect routine waits for
  ever for the `close()` of a failed dial; without the premise it is violated.
* `ShutdownEnds` needs the five-second timer: `server.close()` alone waits for a
  connection that is upgraded after `shutdown()` closed the others, and the
  heartbeat that would have terminated a vanished peer is cleared by then.
* `SentStays` says that a dropped refresh is the only way a sent message leaves
  the list: a load was under way when a POST was answered (`overtaken`).
* `SignedInIsWhole`, `SignedOutIsUnregistered` and `TokenIsRevoked` hold while
  sessions do not overlap (`trouble` is not "crossed": nothing of an older
  session was under way or cached when the next began, and no restore or
  registration of the device was under way at its end). The code has no
  generation check, and without that condition each of them fails; section "Met
  while modelling" lists how.
* `ChoiceSurvives` and `ShownIsPreferred` hold whatever becomes of the POSTs.
  `SavedOrOnItsWay` and `Saved` exclude a POST or a queue that was given up
  (`dropped`) and overlapping writers of one key or of the column (`raced`),
  for which the code has no order; choices of *different* keys in one tab, and
  choices one after the other, are never lost.

### Fairness and why the code justifies it

* `ViewingRequest!FairSpec`: a handler under way and the queue worker go on; no
  worker dies. Deaths are in `Spec` and `ApiSpec`, for safety.
* `Messaging!FairSpec`: handlers not cut short and the queue go on. Faults may
  happen; the two completeness properties speak of behaviours without one so
  far (`faulted`), since the publisher swallows failures and the API only
  reports a refused dispatch.
* `RealtimeServer!FairSpec`: `setInterval` fires again and again, a terminated
  socket emits `close`, and the timer of `shutdown()` fires. Nothing is assumed
  of peers, publishers or the clock.
* `UiPreferences!FairSpec`: `setTimeout` fires, and a POST is handled or fails.
  Nothing is assumed of the person in front of the tabs.
* `RealtimeService!Fairness`: an armed timer fires, a ticket request is answered
  or fails, a dial succeeds or fails (`ready` has a time limit of eight seconds),
  the `close()` of an abandoned channel returns (so that the bounded number of
  routines is free again), an ended stream is reported; and, an assumption about
  the world and not the code, a ticket request or dial that is tried again and
  again succeeds in the end. Nothing is assumed of the `close()` after a failed
  dial (`realtime_service.dart:81`), which has no time limit, nor of the one in
  `stop()`. Starts, stops and closes by the peer are not fair.
* `ChatMessages!FairSpec`: the periodic timer finds the socket unconnected again
  and again, requests are answered, and repeated refreshes do not fail for ever.

### Violated statements

`viewing_reopen` / `TerminalIsFinal`. `ViewingRequestStatus.php:13-16` says the
scheme prevents a finished request from being reopened. `update()` checks the
transition on the copy it loaded and writes without a lock or a condition on the
old status, so a handler that was checked earlier overwrites a rejection with a
confirmation.

### Met while modelling

Without a run of their own:

* Two overlapping updates log an old status the row no longer had. Two
  overlapping reschedules, one of the date and one of the time, both take
  effect; the log then names a schedule the request never had, and nowhere the
  one it has. A time that is sent again over a newer one is written and not
  logged. The comment above `update()` (`ViewingRequestController.php:76`) says
  that every change is recorded with its old and new value.
* A message notification written after the recipient opened the thread stays
  unread (comment at `ConversationController.php:91`).
* The comment at `providers.dart:810` says a sent message shows at once and is
  then confirmed by the background refresh. `refresh()` returns at once while
  another one is under way, and that older answer takes the message away again
  until the next event or poll.
* A ticket can be consumed twice: `server.js:140` accepts it in the second in
  which it expires, and if the clock moves on before lines 147-150 of the same
  handler, these evict its nonce before looking it up.
  `src/deploy/realtime/README.md:18` calls the nonce single-use.
* `FLUTTER_REFRESH_POLICY.md:7` says that failed background refreshes do not erase
  usable data. A 401 or 403 is answered with the empty fallback
  (`providers.dart:352-354`), which `refresh()` (396-398) writes over the data
  shown before the session is cleared; `repro_circular_test.dart:51-68` asserts
  the fallback.
* `logout()` says it clears all state of the user (`providers.dart:208-209`), and
  the comment at 262-263 that the session's providers are built again on their
  own. A provider that nobody watches at the sign-out (viewing requests, while a
  client is on another screen) keeps its list, and when the next user opens the
  screen shows it while his own is loading, because `LuxAsyncView` shows any value
  there is (`lux_skeleton.dart:90-96`).
* After a failed dial the client waits for `close()` without a time limit
  (`realtime_service.dart:81`) before it schedules the next attempt; if that call
  hangs, nothing reconnects until the next `stop()` and `start()`.
* `refreshCurrentUser()` compares users, not tokens (`providers.dart:104`), and
  the header is decided when the request leaves. Asked for in one session, sent
  with the token of the next and answered in a third of the first user, it puts
  the second user's profile into the first one's session.
* The sidebar prefers the server's value (`admin.blade.php:83`), the theme the
  browser's: a toggle whose POST failed is forgotten by the next page, although
  `localStorage` remembers it.
* After a sign-in, a failing refresh can put the signed-out empty list back over
  the first loaded data (`NeverErased` and `EventNotLost` therefore speak of the
  session the app started with).
* `logout()` (`providers.dart:230`) reads and clears the store up to two seconds
  after the state said "signed out": a quick new sign-in loses its token, and it
  is the new token that is revoked. A late 401 (`api_client.dart:245`) clears
  whoever's token is stored. `restoreSessionAfterVerification()` sets the state
  without looking at the current session and can bring a signed-out one back. A
  profile that arrives late stores its user (`auth_repository.dart:46`): a kill
  between the token and the user of the next sign-in, then a start without a
  connection, shows the older user with the new token. A registration of the
  device under way at sign-out leaves the phone registered.
* A tab that has not applied another tab's choice keeps its own theme, and
  decides about a change of the OS scheme by the stored preference, not by the
  theme it shows.
* `Admin/PropertyController.php:326` has a doubled backslash that PHP does not
  parse, which is why the panel's property handlers are left for later.

## 4. Proofs

All proofs hold for any values of the constants that satisfy the named
assumptions (`ConstantsAssumption`; and `RowAssumption`, `JobAssumption` and
`NamesAssumption`, which say that the names for "nothing" are no rows, no jobs
and no other values): any number of users, workers, rows, sockets, tabs,
sessions, routines and operations. They are about `Spec`, without fairness, and
so hold of `FairSpec` too; `InboxIsCurrent` is stated for `FairSpec` because
there no worker dies, and uses nothing of the fairness. Two theorems about
viewing requests have the hypothesis `OneAtATime`, that there is one worker at
most: what they say is false of two, which is what `viewing_reopen` shows.

| Module | Theorem | Statement |
|---|---|---|
| `ViewingRequest_proofs` | `TypeCorrect` | `Spec => []TypeOK` (API, panel, cascades, deaths) |
| | `StatusLogCorrect` | `ApiSpec => []StatusMatchesLog` |
| | `RescheduleLogCorrect` | `ApiSpec => RescheduleLoggedUnlessStale` |
| | `CompletionCorrect` | `ApiSpec => []CompletedWasConfirmed` |
| | `DeletionCorrect` | `ApiSpec => []DeletionIsLogged` |
| | `DeletionIsFinal` | `Spec => DeletedStaysDeleted` |
| | `OffSchemeCorrect` | `ApiSpec => OffSchemeOnlyIfStale` |
| | `InboxCorrect` | `FairSpec => []InboxIsCurrent` |
| | `SerialHistory` | `OneAtATime`: `ApiSpec => []HistoryIsAPath` |
| | `SerialImplementsLifecycle` | `OneAtATime`: `ApiSpec => FollowsLifecycle`, the refinement of `ViewingLifecycle` |
| `Messaging_proofs` | `TypeCorrect` | `Spec => []TypeOK` (faults included) |
| | `JobsCorrect` | `Spec => []JobsFindNotification` |
| | `ReceiptCorrect` | `Spec => []ReceiptIsTrue` |
| | `ThreadsCorrect` | `Spec => []OneThreadPerPair` |
| | `NothingIsForgotten` | `Spec => []NothingForgotten` |
| `RealtimeServer_proofs` | `TypeCorrect` | `Spec => []TypeOK` |
| | `RoomsCorrect` | `Spec => []RoomsMatchSockets` |
| | `NobodyMissedCorrect` | `Spec => []NobodyMissed` |
| | `RoomCapCorrect` | `Spec => []RoomCap` |
| | `NoncesCorrect` | `Spec => ReusedOnlyAtExpiry` |
| `BackgroundRefresh_proofs` | `TypeCorrect` | `Spec => []TypeOK` |
| | `LeftoversCorrect` | `Spec => []ForeignOnlyIfNeglected` |
| | `EventNotLostCorrect` | `Spec => []EventNotLost` |
| | `NeverErasedCorrect` | `Spec => NeverErased` |
| `ChatMessages_proofs` | `TypeCorrect` | `Spec => []TypeOK` |
| | `NothingUnsentCorrect` | `Spec => []NothingUnsent` |
| | `SentStaysCorrect` | `Spec => []SentStays` |
| `UiPreferences_proofs` | `TypeCorrect` | `Spec => []TypeOK` |
| | `ChoiceSurvivesCorrect` | `Spec => []ChoiceSurvives` |
| | `ShownCorrect` | `Spec => []ShownIsPreferred` |
| | `FirstPaintCorrect` | `Spec => []FirstPaintMatches` |
| | `SavedCorrect` | `Spec => []SavedOrOnItsWay` |
| `MobileSession_proofs` | `TypeCorrect` | `Spec => []TypeOK` |
| | `SessionIsWhole` | `Spec => []SignedInIsWhole` |
| | `SignedOutGetsNoPushes` | `Spec => []SignedOutIsUnregistered` |
| | `EndedTokenIsRevoked` | `Spec => []TokenIsRevoked` |
| `RealtimeService_proofs` | `TypeCorrect` | `Spec => []TypeOK` |
| | `NeverStrandedCorrect` | `Spec => []NeverStranded` |
| | `ConnectedCorrect` | `Spec => []ConnectedMeansListening` |
| | `StoppedCorrect` | `Spec => []StoppedIsQuiet` |
| | `OneSocketCorrect` | `Spec => []OneSocket` |

**Viewing requests.** `StatusMatchesLog` is not inductive: it says nothing of ids
not yet handed out nor of what busy workers hold. `AuditInv` adds `FreshIsEmpty`
(an id beyond the counter has no row and no log) and `JobsAreSane` (an inserting
worker holds a pending row, any other worker an id already handed out). The
heart of it is `CommitAgrees`: appending to a log that agrees with the row the
entries an update writes yields a log that agrees with the row as `Saved` merges
it, *whatever* copy the handler held: if the status differs from the copy it is
both written and logged, otherwise neither. Of date and time this is not true:
they are two columns and one log entry. `RescheduleLoggedUnlessStale`
follows from `AuditInv` all the same: if the copy's schedule is the row's, the
merged schedule is that of the handler's own copy, and the entry says so
(`CommitReschedules`).

`CompletedWasConfirmed` needs the copies too: `ConfirmedInv` adds that a row
confirmed or completed has a confirmation in its log (`RowsWereConfirmed`), and
that so has the log of the row a worker loaded if the copy says so
(`CopiesWereConfirmed`). Logs only grow, so a copy stays true of the log when it
is no longer true of the row.

`DeletionIsLogged` rests on `DeletersLogged`: a worker that is about to delete a
row has logged it, and logs only grow (`LogsGrow`). `DeletedStaysDeleted` needs
types only: every writer but the insert is an UPDATE, which finds nothing, and
the insert takes an id never used before (`RowsStep` says for any step of API,
panel and cascades what may become of a row). For `OffSchemeOnlyIfStale`,
`CopiesFollowScheme` says that a handler about to write moves its *own copy*
along the scheme; leaving it in the table therefore takes a row that differs
from the copy.

With one worker at a time `CopiesAreCurrent` is inductive: the copy a handler is
about to write from is the row. Together with `AuditInv` (the row agrees with
the end of its log) it makes every appended status row continue the log's path
and the last schedule logged the row's (`AppendIsAPath`, `HistoryIsAPath`), and
every step of the API a step of `ViewingLifecycle` or a stutter: `StoreInsert`
opens a request, `UpdateCommit` moves it along the scheme or leaves its stage
alone, `DestroyRow` removes it, and all else leaves every stage (`SameStage`).

`InboxIsCurrent` is about a moment at which nothing is left to run, so its
invariant says where the news is until then. `NewsIsOnItsWay`: the last change
in a log is told in the other party's inbox, or by a queued notification, or by
a worker that is about to queue one. The notification reads the row again
when it runs, and `AuditInv` is what makes that second read give the status of
the *last* log row even if it was queued for an earlier one. `PartiesStay` is
needed with it: no update moves a request to another client or agent, or the
news would be under way to the wrong person.

**Messaging.** Whether a queued job is true depends on what its handler did some
round trips earlier, while other handlers ran. `MessagingInv` therefore adds
`WorkersKnow` (a sending handler's message exists, after its notify step with a
notification; a reading handler that marked something belongs to a thread in
which a message of the other party is read) and `SendersTakePart` (without
which "not sent by me" would not mean "sent by the other party"). `TablesGrow`
is what makes it inductive: no step takes back a thread, a message, a read flag
or a notification, so what one handler knows survives every step of the others
(`KnowsStays`, `TrueStays`). `OneThreadPerPair` is inductive over well-typed
states, because the index is consulted by the INSERT and not by the lookup.

`NothingForgotten` speaks of the end too. `AllKept` says, as long as no fault
happened, who owes what until then: a notification is written or a worker at its
notify step holds the message; the event is published, or queued, or a sending
worker holds the message; and for a message that is read the receipt is published,
or queued, or a reading worker of the other party that marked something in the
thread is on its way to it. The marking worker and the owed receipt are one
thread's because senders take part in their threads (`MarkedIsKept`); the queue
hands over in order and loses nothing by itself (`StaysOnItsWay`).

**Realtime client.** `NeverStranded` is proved with `Alive`, which says of the
routines in flight that one of them will go on (a routine that only has to
close its socket does not count). `ConnectedMeansListening` needs
`ChannelIsLive`: outside a `stop()`, the channel field is empty in the stopped
state and otherwise holds a channel that is listened to. `StoppedIsQuiet` and
`OneSocket` follow from `Settled`: as long as nothing overlapped, there is one
routine at most, never together with a timer or a channel, and the channel field
names the only open socket and the only listener.

**Fan-out server.** `RoomsMatchSockets` is inductive over typed states once
`SetRoom` is known to change the room of one user (`SetRoomLemma`): the connection
event puts a socket into its room in the same callback that opens it, and only
its `close` event takes it out. `NobodyMissed` is a consequence. `RoomCap` is
inductive because the limit is looked at in the callback that adds the socket.
`ReusedOnlyAtExpiry` is not: it needs `ForgottenAreExpired`, which says that
a consumed nonce that is no longer remembered has an expiry in the past, a fact
that the moving clock only makes truer, so that only the handler that evicts a
nonce itself can take it again.

**Refresh controller.** `ForeignOnlyIfNeglected` is inductive with `Owned`: the
load of `build()` is for the signed-in user unless a rebuild is due, its value
is that user's once it was built without a failure, and as long as no sign-out
found the provider unwatched so are the value shown and the one a refresh would
fall back on. `FirstSession` says what overtaking is left in the session the app
started with: `build()` loads only while nothing is shown, and a refresh reads
no version older than the shown one (`Current`); `NeverErased` follows from it.
`EventNotLost` needs `Covered`: as long as nothing failed or was refused, either
the latest version is shown or a read that will see it is still to come: an
event, a waiting or queued refresh, or a request that was not read before the
last change.

**Chat.** `NothingUnsent` needs that answers on their way hold only messages of
the database too (`FromServer`). `SentStays` needs `AllKept`: until something was
overtaken, every read under way will be answered with at least the messages
whose POST was answered.

**Preferences.** `ChoiceSurvives` rests on `Known`: a cookie that is set holds the
newest theme, localStorage does unless the write was missed. `PagesInv` adds
what each page shows and the theme it was rendered with. `SavedOrOnItsWay` needs
`WayInv`: while nothing was dropped or raced, everything waiting is the newest of
its key (`WaitingIsLatest`), one handler at most is between load and save
(`OneHandler`), and what it loaded plus what is under way misses nothing
(`NothingLost`).

**Session.** `SaneInv` holds whatever goes wrong: tokens in use were issued, a
refused token stays refused, and the restore of a starting app has the phone to
itself (`BootIsAlone`). The three promises of one session have one invariant,
`EpochInv`: unless trouble is "crossed" there is *one* token t to which
everything on the phone belongs (`Epoch`): what is stored, the session, what
`logout()` read, the header of every request, and t's owner is the user shown,
cached and remembered. It names what can go wrong as well: while someone is
signed in or being restored (`Alive`) and the phone has lost the token or is
about to (`Cut`: a refused or headerless request), t is deleted at the server
(`CutIsRevoked`); `SignedInIsWhole` follows. While nothing failed, `Calm` adds
that `logout()` has its token or the storage still does (`LogoutHasToken`), that
a registered device has a session or an unregistration that is still to be
handled (`DeviceOf`), and that a token of an ended session that is still valid
is t, with `logout()` or its request to revoke under way (`EndedIsT`). The other
two promises are what is left of these when nothing is under way. Only
`LoginWrite` changes t, and it finds an empty phone: this is where "crossed" is
needed.

Only model-checked: the liveness properties (`ChangeIsAnnounced`,
`MessageIsAnnounced`, `VanishedPeersLeave`, `ShutdownEnds`, `Reconnects`,
`PollConverges`, `Saved`), because liveness under fairness is outside the
prover's reach, and the violation of `TerminalIsFinal`, which is a
counterexample. Every other property of the runs is a theorem. The inductive
invariants were model-checked on the instances of the runs before they were
proved. No module declares a RECURSIVE operator.

## 5. Not modelled, and why

* Read-only handlers (lists, counts, reports), validation rules, formatting,
  templates, mail transport, screens: no state that spans steps.
* Signatures, origin checks and HTTP plumbing of the fan-out server: reduced to
  "the request is acceptable".
* Half-open sockets on the client: the app sends nothing and sees the end of a
  stream only when the operating system reports it.
* The hand-over from poll to socket: a message published between the last poll
  and the reconnection is shown at the next event. `chat` assumes that the
  poll comes again; the composition below is meant to state this precisely.
* Of the session: a secure storage that fails, the expiry after 30 days, 403,
  profile edits and the preview mode. Screens' data reads behave like the
  profile request and are not listed apart.
* Of the preferences: a second browser of the same admin (it would see the row
  only where it has no choice of its own), the keys no page writes, and a page
  without the endpoint.
* The AI pipeline: text processing around an external model.

## 6. Plan

Done: viewing requests (the most rules and the most writers), messaging, the
fan-out server and its client, the refresh discipline, the session and the
device registration of the app, the preferences of the panel.

Next modules, in this order:

1. `PropertyImages`, `EmailVerification`, `AgentVerification`, `SupportTicket`,
   `SearchIndex`: each a small read-then-write model in the style of
   `ViewingRequest`.
2. `PushDelivery`: retries of the push job over several devices, `delivered_at`.
3. `RealtimeSystem`: composition of messaging, queue, server, client and chat;
   abstract specification "every committed message is eventually shown in an
   open chat", with the hand-over between poll and socket.
4. `PagedList`: `loadMore` against refresh and filters; favourites.
5. `ConversationMerge`: the migrations' merge as a pure function, checked
   against a reference definition.

Runs: one per question as above, two workers, one or two rows each; as modules
are added, questions about one component are kept in one run.

Theorems: all safety properties of the present modules and the refinement for one
worker are proved. Next are those of the modules above, first of all that
`RealtimeSystem` keeps the promises its components make on their own.
