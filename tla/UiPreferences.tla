---------------------------- MODULE UiPreferences ----------------------------
(***************************************************************************)
(* The preferences of the admin panel: the theme manager and the debounced  *)
(* persist() of app.js in every tab of one browser, the script that paints   *)
(* a page before app.js runs, and the handler that merges a POST into the     *)
(* user's JSON column.  A tab runs one callback at a time; tabs, timers,      *)
(* requests and PHP handlers interleave.                                     *)
(***************************************************************************)
EXTENDS Naturals

CONSTANTS
  Tabs,
  Posts,      \* bound: POSTs on their way at once, each identity used again
  NoPost,
  NoValue,    \* a key that is absent, a cookie that is not set
  NotLoaded,  \* the handler has not read the user yet
  Picked,     \* bound: the themes somebody picks
  Toggled,    \* bound: the states somebody gives the sidebar
  MaxOps      \* bound: choices, and changes of the OS scheme

Keys == {"theme", "sidebar"}
Themes == {"light", "dark", "system"}
SidebarStates == {"open", "collapsed"}

ASSUME ConstantsAssumption ==
  /\ Picked \subseteq Themes /\ Toggled \subseteq SidebarStates
  /\ NoValue \notin Themes \cup SidebarStates
  /\ MaxOps \in Nat

Nothing == [k \in Keys |-> NoValue]
Only(key, v) == [Nothing EXCEPT ![key] = v]

Preferences == {f \in [Keys -> Themes \cup SidebarStates \cup {NoValue}] :
                  /\ f["theme"] \in Themes \cup {NoValue}
                  /\ f["sidebar"] \in SidebarStates \cup {NoValue}}

Post == [payload : Preferences \ {Nothing}, loaded : Preferences \cup {NotLoaded}]

ASSUME NamesAssumption == NotLoaded \notin Preferences /\ NoPost \notin Post

VARIABLES
  osDark,    \* matchMedia('(prefers-color-scheme: dark)').matches
  cookie,    \* document.cookie's lux_theme
  stored,    \* localStorage's lux_theme and lux_sidebar
  row,       \* users.ui_preferences
  page,      \* per tab: phase, data-theme, class 'dark', __LUX_THEME_SERVER__
  sidebar,   \* per tab: __LUX_UI__.sidebar_collapsed and Alpine's collapsed
  noticed,   \* tabs that have not handled the last change of the OS scheme
  queued,    \* persist()'s queued, per tab
  timer,     \* tabs whose timer runs
  posts,     \* POSTs on their way and the row their handler loaded
  latest,    \* the newest choice of each key (history variable)
  missed,    \* the newest theme could not be put into localStorage (history)
  behind,    \* tabs in which nothing was applied since another tab chose (history)
  dropped,   \* some payload or choice was given up (history variable)
  raced,     \* a choice was made while an older one of its key was under way
             \* elsewhere, or two handlers overlapped (history variable)
  ops

browser == <<osDark, cookie, stored, page, sidebar, noticed>>
history == <<latest, missed, behind, dropped, raced>>
vars == <<browser, row, queued, timer, posts, history, ops>>

Open == {t \in Tabs : page[t].phase # "closed"}

Closed == [phase |-> "closed", shown |-> NoValue, dark |-> FALSE, server |-> NoValue]

NoSidebar == [server |-> NoValue, shown |-> NoValue]

(* The first of the two that is set: JavaScript's || and PHP's ?? on names    *)
(* that were checked against the list of themes.                             *)
Or(a, b) == IF a # NoValue THEN a ELSE b

(* Mutant of preferred: the server's value hides what the browser remembers. *)
preferredServerFirst(t) == Or(page[t].server, Or(cookie, Or(stored["theme"], "system")))

(* cookie, then localStorage, then the value the page was rendered with.     *)
preferred(t) == Or(cookie, Or(stored["theme"], Or(page[t].server, "system")))

Dark(theme) == theme = "dark" \/ (theme = "system" /\ osDark)

apply(t, theme) == [page[t] EXCEPT !.shown = theme, !.dark = Dark(theme)]

Init ==
  /\ osDark \in BOOLEAN
  /\ cookie = NoValue /\ stored = Nothing
  /\ row \in {Nothing} \cup {Only("theme", v) : v \in Picked}
  /\ page = [t \in Tabs |-> Closed]
  /\ sidebar = [t \in Tabs |-> NoSidebar]
  /\ noticed = {}
  /\ queued = [t \in Tabs |-> Nothing]
  /\ timer = {}
  /\ posts = [p \in Posts |-> NoPost]
  /\ latest = Nothing
  /\ missed = FALSE /\ behind = {} /\ dropped = FALSE /\ raced = FALSE
  /\ ops = 0
-----------------------------------------------------------------------------
(* Laravel drops a cookie it did not encrypt itself, and lux_theme is written *)
(* by JavaScript: request()->cookie('lux_theme') is null.                    *)
CookieTheme == NoValue

(* Mutant of FirstPaint: localStorage is only asked without a server value.  *)
FirstPaintServerFirst(server) == Or(CookieTheme, Or(server, Or(stored["theme"], "system")))

FirstPaint(server) == Or(CookieTheme, Or(stored["theme"], Or(server, "system")))

(* The page is rendered and the script in its head runs.                     *)
OpenPage(t) ==
  /\ page[t].phase = "closed"
  /\ LET theme == FirstPaint(row["theme"])
     IN page' = [page EXCEPT ![t] = [phase |-> "painted", shown |-> theme,
                                     dark |-> Dark(theme), server |-> row["theme"]]]
  /\ sidebar' = [sidebar EXCEPT ![t].server = row["sidebar"]]
  /\ UNCHANGED <<osDark, cookie, stored, noticed, row, queued, timer, posts, history, ops>>

(* x-data asks the server's value first, the other way round than the themes: *)
(* localStorage counts only without one, and only in a wide window.          *)
SidebarStart(t, wide) ==
  Or(sidebar[t].server,
     IF wide /\ stored["sidebar"] = "collapsed" THEN "collapsed" ELSE "open")

(* LuxTheme.init() and Alpine.start(), when the module app.js runs.          *)
init(t) ==
  /\ page[t].phase = "painted"
  /\ page' = [page EXCEPT ![t] = [apply(t, preferred(t)) EXCEPT !.phase = "ready"]]
  /\ \E wide \in BOOLEAN : sidebar' = [sidebar EXCEPT ![t].shown = SidebarStart(t, wide)]
  /\ behind' = behind \ {t}
  /\ UNCHANGED <<osDark, cookie, stored, noticed, row, queued, timer, posts,
                 latest, missed, dropped, raced, ops>>

(* Leaving the page ends its timer; what was queued is never sent.           *)
ClosePage(t) ==
  /\ t \in Open
  /\ page' = [page EXCEPT ![t] = Closed]
  /\ sidebar' = [sidebar EXCEPT ![t] = NoSidebar]
  /\ queued' = [queued EXCEPT ![t] = Nothing]
  /\ timer' = timer \ {t}
  /\ dropped' = (dropped \/ queued[t] # Nothing)
  /\ noticed' = noticed \ {t} /\ behind' = behind \ {t}
  /\ UNCHANGED <<osDark, cookie, stored, row, posts, latest, missed, raced, ops>>

(* The OS changes its colour scheme; every tab hears of it in its own time.  *)
OsChange ==
  /\ ops < MaxOps /\ ops' = ops + 1
  /\ osDark' = ~osDark
  /\ noticed' = {t \in Tabs : page[t].phase = "ready"}
  /\ UNCHANGED <<cookie, stored, page, sidebar, row, queued, timer, posts, history>>

(* Mutant of MediaEvent: the preference is not asked.                        *)
MediaEventAlways(t) ==
  /\ t \in noticed
  /\ noticed' = noticed \ {t}
  /\ page' = [page EXCEPT ![t] = apply(t, "system")]
  /\ behind' = behind \ {t}
  /\ UNCHANGED <<osDark, cookie, stored, sidebar, row, queued, timer, posts,
                 latest, missed, dropped, raced, ops>>

MediaEvent(t) ==
  /\ t \in noticed
  /\ noticed' = noticed \ {t}
  /\ \/ /\ preferred(t) = "system"
        /\ page' = [page EXCEPT ![t] = apply(t, "system")]
        /\ behind' = behind \ {t}
     \/ preferred(t) # "system" /\ UNCHANGED <<page, behind>>
  /\ UNCHANGED <<osDark, cookie, stored, sidebar, row, queued, timer, posts,
                 latest, missed, dropped, raced, ops>>

(* The cookie reaches its Max-Age or the browser evicts it.                  *)
CookieExpires ==
  /\ cookie # NoValue
  /\ cookie' = NoValue
  /\ UNCHANGED <<osDark, stored, page, sidebar, noticed, row, queued, timer, posts, history, ops>>
-----------------------------------------------------------------------------
(* {...queued, ...values} and array_replace_recursive($preferences, $data).  *)
Merged(old, new) == [k \in Keys |-> Or(new[k], old[k])]

UnderWayElsewhere(t, k) ==
  \/ \E u \in Tabs \ {t} : queued[u][k] # NoValue
  \/ \E p \in Posts : posts[p] # NoPost /\ posts[p].payload[k] # NoValue

Chosen(t, k, v) ==
  /\ latest' = [latest EXCEPT ![k] = v]
  /\ raced' = (raced \/ UnderWayElsewhere(t, k))

(* Mutant of persist: the values wait alone, an earlier choice is forgotten. *)
persistReplaces(t, values) ==
  /\ queued' = [queued EXCEPT ![t] = values]
  /\ timer' = timer \cup {t}

(* Mutant of persist: the old timer is cleared and no new one is started.    *)
persistStopsTimer(t, values) ==
  /\ queued' = [queued EXCEPT ![t] = Merged(@, values)]
  /\ timer' = IF t \in timer THEN timer \ {t} ELSE timer \cup {t}

(* persist() up to its await: the timer starts again.                        *)
persist(t, values) ==
  /\ queued' = [queued EXCEPT ![t] = Merged(@, values)]
  /\ timer' = timer \cup {t}

(* LuxTheme.set(); localStorage.setItem may throw and is then passed over.   *)
set(t, theme) ==
  /\ page[t].phase = "ready" /\ ops < MaxOps /\ ops' = ops + 1
  /\ \/ stored' = [stored EXCEPT !["theme"] = theme] /\ missed' = FALSE
     \/ UNCHANGED stored /\ missed' = TRUE
  /\ cookie' = theme
  /\ page' = [page EXCEPT ![t] = [apply(t, theme) EXCEPT !.server = theme]]
  /\ behind' = (behind \cup Open) \ {t}
  /\ persist(t, Only("theme", theme)) /\ Chosen(t, "theme", theme)
  /\ UNCHANGED <<osDark, sidebar, noticed, row, posts, dropped>>

(* collapsed = !collapsed and its $watch: here a setItem that throws ends the *)
(* callback.                                                                 *)
ToggleSidebar(t, v) ==
  /\ page[t].phase = "ready" /\ ops < MaxOps /\ ops' = ops + 1
  /\ sidebar[t].shown # v
  /\ sidebar' = [sidebar EXCEPT ![t].shown = v]
  /\ \/ /\ stored' = [stored EXCEPT !["sidebar"] = v]
        /\ persist(t, Only("sidebar", v)) /\ Chosen(t, "sidebar", v)
        /\ UNCHANGED dropped
     \/ dropped' = TRUE /\ UNCHANGED <<stored, queued, timer, latest, raced>>
  /\ UNCHANGED <<osDark, cookie, page, noticed, row, posts, missed, behind>>

(* The timer fires and the last persist() goes on: payload, fetch().  The     *)
(* calls whose timer was cleared wait for ever and do nothing more.          *)
Send(t) ==
  /\ t \in timer
  /\ timer' = timer \ {t}
  /\ \E p \in Posts : /\ posts[p] = NoPost
                      /\ posts' = [posts EXCEPT ![p] = [payload |-> queued[t], loaded |-> NotLoaded]]
  /\ queued' = [queued EXCEPT ![t] = Nothing]
  /\ UNCHANGED <<browser, row, history, ops>>

(* Network failure, a session or CSRF token that expired, an error of the     *)
(* handler, a navigation that cancels the request: persist() returns false,   *)
(* and its callers do not look.                                              *)
FailPost(p) ==
  /\ posts[p] # NoPost
  /\ posts' = [posts EXCEPT ![p] = NoPost]
  /\ dropped' = TRUE
  /\ UNCHANGED <<browser, row, queued, timer, latest, missed, behind, raced, ops>>

(* updateUi(): the user is loaded with the session, the column is written     *)
(* back whole, and only if the merge changed it.  The activity log entry that *)
(* follows is read by nothing here.                                          *)
HandlerLoads(p) ==
  /\ posts[p] # NoPost /\ posts[p].loaded = NotLoaded
  /\ posts' = [posts EXCEPT ![p].loaded = row]
  /\ raced' = (raced \/ \E q \in Posts : posts[q] # NoPost /\ posts[q].loaded # NotLoaded)
  /\ UNCHANGED <<browser, row, queued, timer, latest, missed, behind, dropped, ops>>

HandlerSaves(p) ==
  /\ posts[p] # NoPost /\ posts[p].loaded # NotLoaded
  /\ LET merged == Merged(posts[p].loaded, posts[p].payload)
     IN row' = IF merged # posts[p].loaded THEN merged ELSE row
  /\ posts' = [posts EXCEPT ![p] = NoPost]
  /\ UNCHANGED <<browser, queued, timer, history, ops>>

Next ==
  \/ \E t \in Tabs :
       \/ OpenPage(t) \/ init(t) \/ ClosePage(t) \/ MediaEvent(t) \/ Send(t)
       \/ \E v \in Picked : set(t, v)
       \/ \E v \in Toggled : ToggleSidebar(t, v)
  \/ \E p \in Posts : FailPost(p) \/ HandlerLoads(p) \/ HandlerSaves(p)
  \/ OsChange
  \/ CookieExpires

Spec == Init /\ [][Next]_vars

(* Timers fire, and a request is handled or fails.                           *)
FairSpec ==
  /\ Spec
  /\ \A t \in Tabs : WF_vars(Send(t))
  /\ \A p \in Posts : WF_vars(HandlerLoads(p) \/ HandlerSaves(p) \/ FailPost(p))
-----------------------------------------------------------------------------
(* Type invariant: a timer runs in exactly the tabs with something queued,    *)
(* so that no request is empty.                                              *)
TypeOK ==
  /\ osDark \in BOOLEAN
  /\ cookie \in Themes \cup {NoValue}
  /\ stored \in Preferences /\ row \in Preferences
  /\ page \in [Tabs -> [phase : {"closed", "painted", "ready"}, shown : Themes \cup {NoValue},
                        dark : BOOLEAN, server : Themes \cup {NoValue}]]
  /\ sidebar \in [Tabs -> [server : SidebarStates \cup {NoValue},
                           shown : SidebarStates \cup {NoValue}]]
  /\ noticed \in SUBSET Tabs
  /\ queued \in [Tabs -> Preferences]
  /\ timer = {t \in Tabs : queued[t] # Nothing}
  /\ posts \in [Posts -> Post \cup {NoPost}]
  /\ latest \in Preferences
  /\ missed \in BOOLEAN /\ dropped \in BOOLEAN /\ raced \in BOOLEAN
  /\ behind \in SUBSET Tabs
  /\ ops \in 0 .. MaxOps

(* The browser still knows the newest theme.                                 *)
Remembered == cookie # NoValue \/ ~missed

(* Whatever became of the POSTs, and whatever theme the server holds, every   *)
(* page prefers the newest theme chosen in this browser.                     *)
ChoiceSurvives ==
  latest["theme"] # NoValue /\ Remembered => \A t \in Open : preferred(t) = latest["theme"]

(* A tab shows the preferred theme, in the light or dark of the OS where the  *)
(* theme says so, unless another tab has chosen since: a tab that kept the    *)
(* old theme passes over the change of the OS scheme.                        *)
ShownIsPreferred ==
  \A t \in Tabs \ behind :
    page[t].phase = "ready" /\ Remembered =>
      /\ page[t].shown = preferred(t)
      /\ t \notin noticed => page[t].dark = Dark(page[t].shown)

(* The script in the head paints what app.js applies later, so that nothing   *)
(* flashes, as long as localStorage took the newest theme.                   *)
FirstPaintMatches ==
  \A t \in Tabs \ behind : page[t].phase = "painted" /\ ~missed => page[t].shown = preferred(t)

OnItsWay(k) ==
  \/ \E t \in Tabs : queued[t][k] = latest[k]
  \/ \E p \in Posts : posts[p] # NoPost /\ posts[p].payload[k] = latest[k]

(* The newest choice of a key is in the column or on its way there, unless    *)
(* something failed, or writers of one key or one column overlapped.  Choices *)
(* of different keys never undo one another otherwise.                       *)
SavedOrOnItsWay ==
  dropped \/ raced \/ \A k \in Keys : latest[k] # NoValue => row[k] = latest[k] \/ OnItsWay(k)

(* Debouncing delays a choice and never swallows it: in the end the column    *)
(* holds the newest choices, with the same exceptions.                       *)
Saved == <>[](dropped \/ raced \/ \A k \in Keys : latest[k] # NoValue => row[k] = latest[k])
=============================================================================
