------------------------ MODULE UiPreferences_proofs ------------------------
(***************************************************************************)
(* Proofs about UiPreferences, for any numbers of tabs, requests and choices: *)
(* the type invariant, that the newest theme survives whatever becomes of the *)
(* requests, that pages show it from the first paint on, and that the newest  *)
(* choices are saved or on their way unless something failed or overlapped.   *)
(***************************************************************************)
EXTENDS UiPreferences, TLAPS

Values == Themes \cup SidebarStates \cup {NoValue}

Kind(k) == IF k = "theme" THEN Themes ELSE SidebarStates

LEMMA KeysLemma ==
  /\ Preferences = {f \in [Keys -> Values] : \A k \in Keys : f[k] \in Kind(k) \cup {NoValue}}
  /\ Nothing \in Preferences
  /\ "theme" \in Keys /\ "sidebar" \in Keys /\ Keys = {"theme", "sidebar"}
  /\ \A v \in Picked : v \in Kind("theme") /\ v \in Themes /\ v # NoValue
  /\ \A v \in Toggled : v \in Kind("sidebar") /\ v # NoValue
<1>1. /\ Preferences = {f \in [Keys -> Values] : \A k \in Keys : f[k] \in Kind(k) \cup {NoValue}}
      /\ Nothing \in Preferences
  BY DEF Keys, Preferences, Nothing, Values, Kind
<1>2. /\ \A v \in Picked : v \in Kind("theme") /\ v \in Themes /\ v # NoValue
      /\ \A v \in Toggled : v \in Kind("sidebar") /\ v # NoValue
  BY ConstantsAssumption DEF Kind
<1> QED BY <1>1, <1>2 DEF Keys

(* Merging preferences gives preferences, key by key.                        *)
LEMMA MergedType ==
  ASSUME NEW old \in Preferences, NEW new \in Preferences
  PROVE  /\ Merged(old, new) \in Preferences
         /\ \A k \in Keys : Merged(old, new)[k] = IF new[k] # NoValue THEN new[k] ELSE old[k]
<1>1. Merged(old, new) = [k \in Keys |-> IF new[k] # NoValue THEN new[k] ELSE old[k]]
  BY DEF Merged, Or
<1> QED BY <1>1, KeysLemma

LEMMA OnlyType ==
  ASSUME NEW k \in Keys, NEW v \in Kind(k)
  PROVE  /\ Only(k, v) \in Preferences /\ Only(k, v)[k] = v
         /\ \A j \in Keys \ {k} : Only(k, v)[j] = NoValue
<1>1. v \in Values
  BY DEF Kind, Values
<1>2. Only(k, v) = [j \in Keys |-> IF j = k THEN v ELSE NoValue]
  BY DEF Only, Nothing
<1> QED BY <1>1, <1>2, KeysLemma DEF Values

(* Queueing a choice of k: it is merged into what waits, and the timer runs.  *)
LEMMA PersistLemma ==
  ASSUME TypeOK, NEW t \in Tabs, NEW k \in Keys, NEW v \in Kind(k), v # NoValue,
         persist(t, Only(k, v))
  PROVE  /\ queued' \in [Tabs -> Preferences]
         /\ queued'[t][k] = v
         /\ \A j \in Keys \ {k} : queued'[t][j] = queued[t][j]
         /\ \A u \in Tabs \ {t} : queued'[u] = queued[u]
         /\ timer' = {u \in Tabs : queued'[u] # Nothing}
<1>1. queued \in [Tabs -> Preferences] /\ Only(k, v) \in Preferences
  BY OnlyType DEF TypeOK
<1>2. queued' = [queued EXCEPT ![t] = Merged(queued[t], Only(k, v))]
  BY DEF persist
<1>3. /\ queued' \in [Tabs -> Preferences] /\ queued'[t][k] = v
      /\ \A j \in Keys \ {k} : queued'[t][j] = queued[t][j]
      /\ \A u \in Tabs \ {t} : queued'[u] = queued[u]
  BY <1>1, <1>2, MergedType, OnlyType
<1>4. queued'[t] # Nothing
  BY <1>3 DEF Nothing
<1>5. timer' = timer \cup {t} /\ timer = {u \in Tabs : queued[u] # Nothing}
  BY DEF persist, TypeOK
<1> QED BY <1>3, <1>4, <1>5

(* Putting a choice of k into a function of preferences.                     *)
LEMMA PutType ==
  ASSUME NEW f \in Preferences, NEW k \in Keys, NEW v \in Kind(k)
  PROVE  [f EXCEPT ![k] = v] \in Preferences
<1>1. v \in Values
  BY DEF Kind, Values
<1> QED BY <1>1, KeysLemma

Page == [phase : {"closed", "painted", "ready"}, shown : Themes \cup {NoValue},
         dark : BOOLEAN, server : Themes \cup {NoValue}]

(* Pages as the scripts build them: a theme is shown in light or dark.       *)
LEMMA PageType ==
  ASSUME TypeOK, NEW t \in Tabs
  PROVE  /\ page[t] \in Page /\ Closed \in Page
         /\ row["theme"] \in Themes \cup {NoValue} /\ stored["theme"] \in Themes \cup {NoValue}
         /\ preferred(t) \in Themes /\ FirstPaint(row["theme"]) \in Themes
         /\ \A theme \in Themes : /\ apply(t, theme) \in Page
                                  /\ apply(t, theme).phase = page[t].phase
                                  /\ apply(t, theme).shown = theme
                                  /\ apply(t, theme).dark = Dark(theme)
                                  /\ apply(t, theme).server = page[t].server
<1>1. page[t] \in Page /\ cookie \in Themes \cup {NoValue} /\ osDark \in BOOLEAN
  BY DEF TypeOK, Page
<1>2. \A theme : Dark(theme) \in BOOLEAN
  BY DEF Dark
<1>3. "system" \in Themes
  BY DEF Themes
<1>4. row["theme"] \in Themes \cup {NoValue} /\ stored["theme"] \in Themes \cup {NoValue}
  BY KeysLemma DEF TypeOK, Preferences
<1>5. preferred(t) \in Themes /\ FirstPaint(row["theme"]) \in Themes
  BY <1>1, <1>3, <1>4 DEF preferred, FirstPaint, CookieTheme, Or, Page
<1>6. Closed \in Page
  BY DEF Page, Closed
<1>7. ASSUME NEW theme \in Themes
      PROVE  /\ apply(t, theme) \in Page
             /\ apply(t, theme).phase = page[t].phase /\ apply(t, theme).shown = theme
             /\ apply(t, theme).dark = Dark(theme) /\ apply(t, theme).server = page[t].server
  BY <1>1, <1>2 DEF apply, Page
<1> QED BY <1>1, <1>4, <1>5, <1>6, <1>7
-----------------------------------------------------------------------------
(* What the sidebar of a tab may become.                                     *)
Sidebar == [server : SidebarStates \cup {NoValue}, shown : SidebarStates \cup {NoValue}]

LEMMA SidebarStep == TypeOK /\ [Next]_vars => sidebar' \in [Tabs -> Sidebar]
<1> SUFFICES ASSUME TypeOK, [Next]_vars PROVE sidebar' \in [Tabs -> Sidebar]
  OBVIOUS
<1>0. /\ sidebar \in [Tabs -> Sidebar] /\ NoSidebar \in Sidebar
      /\ row["sidebar"] \in SidebarStates \cup {NoValue}
  BY KeysLemma DEF TypeOK, Sidebar, NoSidebar, Preferences
<1>1. ASSUME NEW t \in Tabs, OpenPage(t) PROVE sidebar' \in [Tabs -> Sidebar]
  BY <1>0, <1>1 DEF OpenPage, Sidebar
<1>2. ASSUME NEW t \in Tabs, init(t) PROVE sidebar' \in [Tabs -> Sidebar]
  <2> PICK wide \in BOOLEAN : sidebar' = [sidebar EXCEPT ![t].shown = SidebarStart(t, wide)]
    BY <1>2 DEF init
  <2>1. SidebarStart(t, wide) \in SidebarStates
    BY <1>0 DEF SidebarStart, Or, Sidebar, SidebarStates
  <2> QED BY <1>0, <2>1 DEF Sidebar
<1>3. ASSUME NEW t \in Tabs, ClosePage(t) PROVE sidebar' \in [Tabs -> Sidebar]
  BY <1>0, <1>3 DEF ClosePage
<1>4. ASSUME NEW t \in Tabs, NEW v \in Toggled, ToggleSidebar(t, v)
      PROVE  sidebar' \in [Tabs -> Sidebar]
  BY <1>0, <1>4, ConstantsAssumption DEF ToggleSidebar, Sidebar
<1>5. CASE UNCHANGED sidebar
  BY <1>0, <1>5
<1> QED
  BY <1>1, <1>2, <1>3, <1>4, <1>5
  DEF Next, MediaEvent, Send, set, FailPost, HandlerLoads, HandlerSaves, OsChange, CookieExpires,
      vars, browser, history

(* The type of what each step changes.                                       *)
LEMMA TypeStep == TypeOK /\ [Next]_vars => TypeOK'
<1> SUFFICES ASSUME TypeOK, [Next]_vars PROVE TypeOK'
  OBVIOUS
<1> USE DEF browser, history
<1>0. page \in [Tabs -> Page] /\ posts \in [Posts -> Post \cup {NoPost}]
      /\ queued \in [Tabs -> Preferences] /\ timer = {t \in Tabs : queued[t] # Nothing}
  BY DEF TypeOK, Page
<1>s. sidebar' \in [Tabs -> [server : SidebarStates \cup {NoValue}, shown : SidebarStates \cup {NoValue}]]
  BY SidebarStep DEF Sidebar
<1> USE <1>s
<1>1. ASSUME NEW t \in Tabs, OpenPage(t) PROVE TypeOK'
  <2>1. [phase |-> "painted", shown |-> FirstPaint(row["theme"]),
         dark |-> Dark(FirstPaint(row["theme"])), server |-> row["theme"]] \in Page
    BY PageType DEF Page, Dark
  <2>2. page' \in [Tabs -> Page]
    BY <1>0, <1>1, <2>1 DEF OpenPage
  <2> QED BY <1>1, <2>2 DEF TypeOK, OpenPage, Page
<1>2. ASSUME NEW t \in Tabs, init(t) PROVE TypeOK'
  <2>1. apply(t, preferred(t)) \in Page
    BY PageType
  <2>2. [apply(t, preferred(t)) EXCEPT !.phase = "ready"] \in Page
    BY <2>1 DEF Page
  <2>3. page' \in [Tabs -> Page]
    BY <1>0, <1>2, <2>2 DEF init
  <2> QED BY <1>2, <2>3 DEF TypeOK, init, Page
<1>3. ASSUME NEW t \in Tabs, ClosePage(t) PROVE TypeOK'
  <2>1. page' \in [Tabs -> Page]
    BY <1>0, <1>3, PageType DEF ClosePage
  <2>2. queued' \in [Tabs -> Preferences] /\ timer' = {u \in Tabs : queued'[u] # Nothing}
    BY <1>0, <1>3, KeysLemma DEF ClosePage
  <2>3. dropped' \in BOOLEAN
    BY <1>3 DEF TypeOK, ClosePage
  <2> QED BY <1>3, <2>1, <2>2, <2>3 DEF TypeOK, ClosePage, Page
<1>4. ASSUME NEW t \in Tabs, MediaEvent(t) PROVE TypeOK'
  <2>1. apply(t, "system") \in Page
    BY PageType DEF Themes
  <2>2. page' \in [Tabs -> Page]
    BY <1>0, <1>4, <2>1 DEF MediaEvent
  <2> QED BY <1>4, <2>2 DEF TypeOK, MediaEvent, Page
<1>5. ASSUME NEW t \in Tabs, Send(t) PROVE TypeOK'
  <2>1. [payload |-> queued[t], loaded |-> NotLoaded] \in Post
    BY <1>0, <1>5 DEF Post, Send
  <2>2. posts' \in [Posts -> Post \cup {NoPost}]
    BY <1>0, <1>5, <2>1 DEF Send
  <2>3. queued' \in [Tabs -> Preferences] /\ timer' = {u \in Tabs : queued'[u] # Nothing}
    BY <1>0, <1>5, KeysLemma DEF Send
  <2> QED BY <1>5, <2>2, <2>3 DEF TypeOK, Send
<1>6. ASSUME NEW t \in Tabs, NEW v \in Picked, set(t, v) PROVE TypeOK'
  <2>0. v \in Kind("theme") /\ v \in Themes /\ v # NoValue /\ "theme" \in Keys
    BY KeysLemma
  <2>1. apply(t, v) \in Page
    BY <2>0, PageType
  <2>2. [apply(t, v) EXCEPT !.server = v] \in Page
    BY <2>0, <2>1 DEF Page
  <2>3. page' \in [Tabs -> Page]
    BY <1>0, <1>6, <2>2 DEF set
  <2>4. queued' \in [Tabs -> Preferences] /\ timer' = {u \in Tabs : queued'[u] # Nothing}
    BY <1>6, <2>0, PersistLemma DEF set
  <2>5. stored' \in Preferences /\ latest' \in Preferences
    <3>1. stored \in Preferences /\ latest \in Preferences
      BY DEF TypeOK
    <3>2. [stored EXCEPT !["theme"] = v] \in Preferences /\ [latest EXCEPT !["theme"] = v] \in Preferences
      BY <2>0, <3>1, PutType
    <3> QED BY <1>6, <3>1, <3>2 DEF set, Chosen
  <2>6. raced' \in BOOLEAN
    BY <1>6 DEF TypeOK, set, Chosen
  <2>7. ops' \in 0 .. MaxOps
    BY <1>6, ConstantsAssumption DEF TypeOK, set
  <2> QED BY <1>6, <2>0, <2>3, <2>4, <2>5, <2>6, <2>7 DEF TypeOK, set, Page, Open
<1>7. ASSUME NEW t \in Tabs, NEW v \in Toggled, ToggleSidebar(t, v) PROVE TypeOK'
  <2>0. v \in Kind("sidebar") /\ v # NoValue /\ "sidebar" \in Keys
    BY KeysLemma
  <2>1. ops' \in 0 .. MaxOps
    BY <1>7, ConstantsAssumption DEF TypeOK, ToggleSidebar
  <2>2. CASE persist(t, Only("sidebar", v)) /\ Chosen(t, "sidebar", v)
    <3>1. queued' \in [Tabs -> Preferences] /\ timer' = {u \in Tabs : queued'[u] # Nothing}
      BY <2>0, <2>2, PersistLemma
    <3>2. stored' \in Preferences /\ latest' \in Preferences
      <4>1. stored \in Preferences /\ latest \in Preferences
        BY DEF TypeOK
      <4>2. /\ [stored EXCEPT !["sidebar"] = v] \in Preferences
            /\ [latest EXCEPT !["sidebar"] = v] \in Preferences
        BY <2>0, <4>1, PutType
      <4> QED BY <1>7, <2>2, <4>1, <4>2 DEF ToggleSidebar, Chosen
    <3>3. raced' \in BOOLEAN
      BY <2>2 DEF TypeOK, Chosen
    <3> QED BY <1>7, <2>1, <3>1, <3>2, <3>3 DEF TypeOK, ToggleSidebar
  <2>3. CASE dropped' = TRUE /\ UNCHANGED <<stored, queued, timer, latest, raced>>
    BY <1>7, <2>1, <2>3 DEF TypeOK, ToggleSidebar
  <2> QED BY <1>7, <2>2, <2>3 DEF ToggleSidebar
<1>8. ASSUME NEW p \in Posts, FailPost(p) PROVE TypeOK'
  BY <1>0, <1>8 DEF TypeOK, FailPost
<1>9. ASSUME NEW p \in Posts, HandlerLoads(p) PROVE TypeOK'
  <2>1. posts[p] \in Post /\ row \in Preferences
    BY <1>0, <1>9 DEF TypeOK, HandlerLoads
  <2>2. [posts[p] EXCEPT !.loaded = row] \in Post
    BY <2>1 DEF Post
  <2>3. posts' \in [Posts -> Post \cup {NoPost}]
    BY <1>0, <1>9, <2>2 DEF HandlerLoads
  <2>4. raced' \in BOOLEAN
    BY <1>9 DEF TypeOK, HandlerLoads
  <2> QED BY <1>9, <2>3, <2>4 DEF TypeOK, HandlerLoads
<1>10. ASSUME NEW p \in Posts, HandlerSaves(p) PROVE TypeOK'
  <2>1. posts[p] \in Post /\ posts[p].loaded # NotLoaded
    BY <1>0, <1>10 DEF HandlerSaves
  <2>2. posts[p].loaded \in Preferences /\ posts[p].payload \in Preferences
    BY <2>1 DEF Post
  <2>3. row' \in Preferences
    BY <1>10, <2>2, MergedType DEF TypeOK, HandlerSaves
  <2>4. posts' \in [Posts -> Post \cup {NoPost}]
    BY <1>0, <1>10 DEF HandlerSaves
  <2> QED BY <1>10, <2>3, <2>4 DEF TypeOK, HandlerSaves
<1>11. CASE OsChange
  <2>1. ops' \in 0 .. MaxOps
    BY <1>11, ConstantsAssumption DEF TypeOK, OsChange
  <2> QED BY <1>11, <2>1 DEF TypeOK, OsChange
<1>12. CASE CookieExpires
  BY <1>12 DEF TypeOK, CookieExpires
<1>13. CASE UNCHANGED vars
  BY <1>13 DEF TypeOK, vars
<1> QED
  BY <1>1, <1>2, <1>3, <1>4, <1>5, <1>6, <1>7, <1>8, <1>9, <1>10, <1>11, <1>12, <1>13 DEF Next

LEMMA TypeInit == Init => TypeOK
<1> SUFFICES ASSUME Init PROVE TypeOK
  OBVIOUS
<1>1. Nothing \in Preferences /\ row \in Preferences
  BY KeysLemma, OnlyType DEF Init
<1>2. page \in [Tabs -> Page]
  BY DEF Init, Closed, Page
<1>3. queued \in [Tabs -> Preferences] /\ timer = {t \in Tabs : queued[t] # Nothing}
  BY <1>1 DEF Init
<1>4. ops \in 0 .. MaxOps
  BY ConstantsAssumption DEF Init
<1>5. /\ cookie = NoValue /\ stored \in Preferences /\ latest \in Preferences
      /\ noticed = {} /\ behind = {} /\ posts \in [Posts -> Post \cup {NoPost}]
  BY <1>1 DEF Init
<1>6. osDark \in BOOLEAN /\ missed \in BOOLEAN /\ dropped \in BOOLEAN /\ raced \in BOOLEAN
  BY DEF Init
<1>7. sidebar \in [Tabs -> [server : SidebarStates \cup {NoValue}, shown : SidebarStates \cup {NoValue}]]
  BY DEF Init, NoSidebar
<1> QED BY <1>1, <1>2, <1>3, <1>4, <1>5, <1>6, <1>7 DEF TypeOK, Page

(* A timer runs in exactly the tabs with something queued: no request is      *)
(* empty.                                                                    *)
THEOREM TypeCorrect == Spec => []TypeOK
BY TypeInit, TypeStep, PTL DEF Spec
-----------------------------------------------------------------------------
(* What the browser remembers: the cookie, as long as it lives, and           *)
(* localStorage, unless it refused, hold the newest theme.                   *)
Known ==
  /\ cookie \in {NoValue, latest["theme"]}
  /\ ~missed => stored["theme"] = latest["theme"]

LEMMA SameBrowser ==
  ASSUME Known, UNCHANGED <<stored, latest, missed>>, cookie' \in {NoValue, cookie}
  PROVE  Known'
BY DEF Known

LEMMA KnownStep == TypeOK /\ Known /\ [Next]_vars => Known'
<1> SUFFICES ASSUME TypeOK, Known, [Next]_vars PROVE Known'
  OBVIOUS
<1>0. stored \in Preferences /\ latest \in Preferences
  BY DEF TypeOK
<1>1. ASSUME NEW t \in Tabs, NEW v \in Picked, set(t, v) PROVE Known'
  <2>1. latest'["theme"] = v /\ cookie' = v
    BY <1>0, <1>1, KeysLemma DEF set, Chosen
  <2>2. ~missed' => stored'["theme"] = v
    BY <1>0, <1>1, KeysLemma DEF set
  <2> QED BY <2>1, <2>2 DEF Known
<1>2. ASSUME NEW t \in Tabs, NEW v \in Toggled, ToggleSidebar(t, v) PROVE Known'
  <2>1. latest'["theme"] = latest["theme"] /\ stored'["theme"] = stored["theme"]
    BY <1>0, <1>2, KeysLemma DEF ToggleSidebar, Chosen
  <2>2. cookie' = cookie /\ missed' = missed
    BY <1>2 DEF ToggleSidebar
  <2> QED BY <2>1, <2>2 DEF Known
<1>3. CASE UNCHANGED <<stored, latest, missed>> /\ cookie' \in {NoValue, cookie}
  BY <1>3, SameBrowser
<1> QED
  BY <1>1, <1>2, <1>3
  DEF Next, OpenPage, init, ClosePage, MediaEvent, Send, FailPost, HandlerLoads, HandlerSaves,
      OsChange, CookieExpires, vars, browser, history

LEMMA KnownInit == Init => Known
BY KeysLemma DEF Init, Known, Nothing

(* Every page prefers the newest theme, whatever became of the requests.      *)
THEOREM ChoiceSurvivesCorrect == Spec => []ChoiceSurvives
<1>1. Known => ChoiceSurvives
  BY DEF Known, ChoiceSurvives, Remembered, preferred, Or
<1> QED BY <1>1, KnownInit, TypeCorrect, KnownStep, PTL DEF Spec
-----------------------------------------------------------------------------
(* Pages.  A tab that has not handled a change of the OS scheme is ready.  A  *)
(* painted page shows what the head script worked out; a ready one shows the  *)
(* preferred theme; neither once another tab has chosen.                      *)
NoticedAreReady == \A t \in noticed : page[t].phase = "ready"

PaintedShown ==
  \A t \in Tabs \ behind : page[t].phase = "painted" =>
    page[t].shown = Or(stored["theme"], Or(page[t].server, "system"))

ReadyShown ==
  \A t \in Tabs \ behind : page[t].phase = "ready" /\ Remembered =>
    /\ page[t].shown = preferred(t)
    /\ t \notin noticed \/ page[t].shown # "system" => page[t].dark = Dark(page[t].shown)

PagesInv == NoticedAreReady /\ PaintedShown /\ ReadyShown

(* What the two ways to build a page in a running tab make of it.            *)
LEMMA Built ==
  ASSUME TypeOK, NEW t \in Tabs
  PROVE  /\ \A theme \in Themes :
              /\ [apply(t, theme) EXCEPT !.server = theme].phase = page[t].phase
              /\ [apply(t, theme) EXCEPT !.server = theme].shown = theme
              /\ [apply(t, theme) EXCEPT !.server = theme].dark = Dark(theme)
              /\ [apply(t, theme) EXCEPT !.phase = "ready"].phase = "ready"
              /\ [apply(t, theme) EXCEPT !.phase = "ready"].shown = theme
              /\ [apply(t, theme) EXCEPT !.phase = "ready"].dark = Dark(theme)
              /\ [apply(t, theme) EXCEPT !.phase = "ready"].server = page[t].server
<1> SUFFICES ASSUME NEW theme \in Themes
             PROVE  /\ [apply(t, theme) EXCEPT !.server = theme].phase = page[t].phase
                    /\ [apply(t, theme) EXCEPT !.server = theme].shown = theme
                    /\ [apply(t, theme) EXCEPT !.server = theme].dark = Dark(theme)
                    /\ [apply(t, theme) EXCEPT !.phase = "ready"].phase = "ready"
                    /\ [apply(t, theme) EXCEPT !.phase = "ready"].shown = theme
                    /\ [apply(t, theme) EXCEPT !.phase = "ready"].dark = Dark(theme)
                    /\ [apply(t, theme) EXCEPT !.phase = "ready"].server = page[t].server
  OBVIOUS
<1> PICK r \in Page : r = apply(t, theme)
  BY PageType
<1>1. r.phase = page[t].phase /\ r.shown = theme /\ r.dark = Dark(theme) /\ r.server = page[t].server
  BY PageType
<1> QED BY <1>1 DEF Page

LEMMA PagesStep == TypeOK /\ Known /\ PagesInv /\ [Next]_vars => PagesInv'
<1> SUFFICES ASSUME TypeOK, Known, PagesInv, [Next]_vars PROVE PagesInv'
  OBVIOUS
<1>0. page \in [Tabs -> Page] /\ stored \in Preferences /\ latest \in Preferences /\ noticed \subseteq Tabs
  BY DEF TypeOK, Page
<1> USE DEF PagesInv, NoticedAreReady, PaintedShown, ReadyShown, Remembered, preferred, Or
<1>1. ASSUME NEW u \in Tabs, OpenPage(u) PROVE PagesInv'
  <2>1. page'[u].phase = "painted" /\ page'[u].shown = FirstPaint(row["theme"])
        /\ page'[u].server = row["theme"] /\ page[u].phase = "closed"
    BY <1>0, <1>1 DEF OpenPage
  <2>2. \A t \in Tabs \ {u} : page'[t] = page[t]
    BY <1>0, <1>1 DEF OpenPage
  <2>3. UNCHANGED <<osDark, cookie, stored, noticed, behind, missed>>
    BY <1>1 DEF OpenPage, history
  <2>4. NoticedAreReady'
    BY <1>0, <2>1, <2>2, <2>3
  <2>5. PaintedShown'
    BY <2>1, <2>2, <2>3 DEF FirstPaint, CookieTheme
  <2>6. ReadyShown'
    BY <2>1, <2>2, <2>3 DEF Dark
  <2> QED BY <2>4, <2>5, <2>6
<1>2. ASSUME NEW u \in Tabs, init(u) PROVE PagesInv'
  <2>0. preferred(u) \in Themes
    BY PageType
  <2>1. /\ page'[u].phase = "ready" /\ page'[u].shown = preferred(u)
        /\ page'[u].dark = Dark(preferred(u)) /\ page'[u].server = page[u].server
    <3>1. page'[u] = [apply(u, preferred(u)) EXCEPT !.phase = "ready"]
      BY <1>0, <1>2 DEF init
    <3> HIDE DEF preferred
    <3> QED BY <2>0, <3>1, Built
  <2>2. \A t \in Tabs \ {u} : page'[t] = page[t]
    BY <1>0, <1>2 DEF init
  <2>3. behind' = behind \ {u} /\ UNCHANGED <<osDark, cookie, stored, noticed, missed>>
    BY <1>2 DEF init
  <2>4. NoticedAreReady'
    BY <1>0, <2>1, <2>2, <2>3
  <2>5. PaintedShown'
    BY <2>1, <2>2, <2>3
  <2>6. ReadyShown'
    BY <2>1, <2>2, <2>3 DEF Dark
  <2> QED BY <2>4, <2>5, <2>6
<1>3. ASSUME NEW u \in Tabs, ClosePage(u) PROVE PagesInv'
  <2>1. page'[u].phase = "closed" /\ \A t \in Tabs \ {u} : page'[t] = page[t]
    BY <1>0, <1>3 DEF ClosePage, Closed
  <2>2. /\ behind' = behind \ {u} /\ noticed' = noticed \ {u}
        /\ UNCHANGED <<osDark, cookie, stored, missed>>
    BY <1>3 DEF ClosePage
  <2> QED BY <1>0, <2>1, <2>2 DEF Dark
<1>4. ASSUME NEW u \in Tabs, MediaEvent(u) PROVE PagesInv'
  <2>1. page[u].phase = "ready" /\ noticed' = noticed \ {u} /\ UNCHANGED <<osDark, cookie, stored, missed>>
    BY <1>4 DEF MediaEvent
  <2>2. CASE preferred(u) = "system" /\ page' = [page EXCEPT ![u] = apply(u, "system")]
             /\ behind' = behind \ {u}
    <3>1. /\ page'[u].phase = "ready" /\ page'[u].shown = "system"
          /\ page'[u].dark = Dark("system") /\ page'[u].server = page[u].server
      <4> "system" \in Themes BY DEF Themes
      <4> QED BY <1>0, <2>1, <2>2, PageType
    <3>2. \A t \in Tabs \ {u} : page'[t] = page[t]
      BY <1>0, <2>2
    <3>3. PaintedShown' /\ NoticedAreReady'
      BY <1>0, <2>1, <2>2, <3>1, <3>2
    <3>4. ReadyShown'
      BY <2>1, <2>2, <3>1, <3>2 DEF Dark
    <3> QED BY <3>3, <3>4
  <2>3. CASE preferred(u) # "system" /\ UNCHANGED <<page, behind>>
    <3>1. NoticedAreReady' /\ PaintedShown'
      BY <2>1, <2>3
    <3>2. ReadyShown'
      BY <2>1, <2>3 DEF Dark
    <3> QED BY <3>1, <3>2
  <2> QED BY <1>4, <2>2, <2>3 DEF MediaEvent
<1>5. ASSUME NEW u \in Tabs, NEW v \in Picked, set(u, v) PROVE PagesInv'
  <2>0. v \in Themes /\ v # NoValue
    BY KeysLemma
  <2>1. page'[u].phase = "ready" /\ page'[u].shown = v /\ page'[u].dark = Dark(v)
    <3>1. page'[u] = [apply(u, v) EXCEPT !.server = v] /\ page[u].phase = "ready"
      BY <1>0, <1>5 DEF set
    <3> QED BY <2>0, <3>1, Built
  <2>2. \A t \in Tabs \ {u} : page'[t] = page[t]
    BY <1>0, <1>5 DEF set
  <2>3. behind' = (behind \cup Open) \ {u} /\ cookie' = v /\ UNCHANGED <<osDark, noticed>>
    BY <1>5 DEF set
  <2>4. NoticedAreReady'
    BY <1>0, <2>1, <2>2, <2>3
  <2>5. \A t \in Tabs \ {u} : t \notin behind' => page'[t].phase = "closed"
    BY <2>2, <2>3 DEF Open
  <2>6. PaintedShown'
    BY <2>1, <2>5
  <2>7. ReadyShown'
    BY <2>0, <2>1, <2>3, <2>5 DEF Dark
  <2> QED BY <2>4, <2>6, <2>7
<1>6. ASSUME NEW u \in Tabs, NEW v \in Toggled, ToggleSidebar(u, v) PROVE PagesInv'
  <2>1. stored'["theme"] = stored["theme"]
    BY <1>0, <1>6, KeysLemma DEF ToggleSidebar
  <2>2. UNCHANGED <<osDark, cookie, page, noticed, missed, behind>>
    BY <1>6 DEF ToggleSidebar
  <2> QED BY <2>1, <2>2 DEF Dark
<1>7. CASE OsChange
  <2>1. /\ noticed' = {t \in Tabs : page[t].phase = "ready"}
        /\ UNCHANGED <<cookie, stored, page, missed, behind>>
    BY <1>7 DEF OsChange, history
  <2> QED BY <2>1 DEF Dark
<1>8. CASE CookieExpires
  <2>1. /\ cookie # NoValue /\ cookie' = NoValue
        /\ UNCHANGED <<osDark, stored, page, noticed, missed, behind>>
    BY <1>8 DEF CookieExpires, history
  <2> QED BY <2>1 DEF Dark, Known
<1>9. CASE UNCHANGED <<browser, missed, behind>>
  BY <1>9 DEF browser, Dark
<1> QED
  BY <1>1, <1>2, <1>3, <1>4, <1>5, <1>6, <1>7, <1>8, <1>9
  DEF Next, Send, FailPost, HandlerLoads, HandlerSaves, vars, history

LEMMA PagesInit == Init => PagesInv
BY DEF Init, Closed, PagesInv, NoticedAreReady, PaintedShown, ReadyShown

LEMMA PagesCorrect == Spec => [](Known /\ PagesInv)
BY KnownInit, PagesInit, TypeCorrect, KnownStep, PagesStep, PTL DEF Spec

(* The preferred theme is shown until another tab chooses.                   *)
THEOREM ShownCorrect == Spec => []ShownIsPreferred
<1>1. PagesInv => ShownIsPreferred
  BY DEF PagesInv, ReadyShown, ShownIsPreferred
<1> QED BY <1>1, PagesCorrect, PTL

(* Nothing flashes: app.js applies what was painted.                         *)
THEOREM FirstPaintCorrect == Spec => []FirstPaintMatches
<1>1. Known /\ PagesInv => FirstPaintMatches
  BY DEF Known, PagesInv, PaintedShown, FirstPaintMatches, preferred, Or
<1> QED BY <1>1, PagesCorrect, PTL
-----------------------------------------------------------------------------
(* The way of a choice to the column.  While nothing was dropped and no two   *)
(* writers overlapped, only newest choices wait in a tab or a request, and at *)
(* most one handler has loaded the column, which nobody has changed since.    *)
Loaded == {p \in Posts : posts[p] # NoPost /\ posts[p].loaded # NotLoaded}

WaitingIsLatest ==
  /\ \A t \in Tabs, k \in Keys : queued[t][k] \in {NoValue, latest[k]}
  /\ \A p \in Posts, k \in Keys : posts[p] # NoPost => posts[p].payload[k] \in {NoValue, latest[k]}

OneHandler ==
  /\ \A p, q \in Loaded : p = q
  /\ \A p \in Loaded : posts[p].loaded = row

NothingLost == \A k \in Keys : latest[k] # NoValue => row[k] = latest[k] \/ OnItsWay(k)

WayInv == dropped \/ raced \/ (WaitingIsLatest /\ OneHandler /\ NothingLost)

(* The choice of a key that nothing else carries.                            *)
LEMMA ChosenStep ==
  ASSUME TypeOK, WaitingIsLatest, OneHandler, NothingLost,
         NEW t \in Tabs, NEW k \in Keys, NEW v \in Kind(k), v # NoValue,
         persist(t, Only(k, v)), Chosen(t, k, v), ~raced', UNCHANGED <<row, posts>>
  PROVE  WaitingIsLatest' /\ OneHandler' /\ NothingLost'
<1>0. latest \in Preferences /\ queued \in [Tabs -> Preferences]
  BY DEF TypeOK
<1>1. latest'[k] = v /\ \A j \in Keys \ {k} : latest'[j] = latest[j]
  BY <1>0, KeysLemma DEF Chosen
<1>2. ~UnderWayElsewhere(t, k)
  BY ONLY Chosen(t, k, v), ~raced', Zenon DEF Chosen
<1>3. /\ queued'[t][k] = v /\ \A j \in Keys \ {k} : queued'[t][j] = queued[t][j]
      /\ \A u \in Tabs \ {t} : queued'[u] = queued[u]
  BY PersistLemma
<1>4. /\ \A u \in Tabs \ {t} : queued'[u][k] = NoValue
      /\ \A p \in Posts : posts[p] # NoPost => posts[p].payload[k] = NoValue
  BY <1>2, <1>3 DEF UnderWayElsewhere
<1>5. WaitingIsLatest'
  BY <1>1, <1>3, <1>4 DEF WaitingIsLatest
<1>6. OneHandler'
  BY DEF OneHandler, Loaded
<1>7. NothingLost'
  <2> SUFFICES ASSUME NEW j \in Keys, latest'[j] # NoValue
               PROVE  row'[j] = latest'[j] \/ OnItsWay(j)'
    BY DEF NothingLost
  <2>1. CASE j = k
    BY <1>1, <1>3, <2>1 DEF OnItsWay
  <2>2. CASE j # k
    <3>1. latest'[j] = latest[j] /\ \A u \in Tabs : queued'[u][j] = queued[u][j]
      BY <1>1, <1>3, <2>2
    <3> QED BY <3>1 DEF NothingLost, OnItsWay
  <2> QED BY <2>1, <2>2
<1> QED BY <1>5, <1>6, <1>7

LEMMA WayStep == TypeOK /\ WayInv /\ [Next]_vars => WayInv'
<1> SUFFICES ASSUME TypeOK, WayInv, [Next]_vars, ~dropped', ~raced'
             PROVE  WaitingIsLatest' /\ OneHandler' /\ NothingLost'
  BY DEF WayInv
<1> DEFINE Way == WaitingIsLatest /\ OneHandler /\ NothingLost
<1>0. ~dropped /\ ~raced
  <2>1. dropped => dropped'
    BY Zenon
    DEF Next, OpenPage, init, ClosePage, MediaEvent, Send, set, ToggleSidebar, FailPost, HandlerLoads,
        HandlerSaves, OsChange, CookieExpires, vars, history
  <2>2. raced => raced'
    BY Zenon
    DEF Next, OpenPage, init, ClosePage, MediaEvent, Send, set, ToggleSidebar, FailPost, HandlerLoads,
        HandlerSaves, OsChange, CookieExpires, vars, history, Chosen
  <2> QED BY <2>1, <2>2
<1>a. WaitingIsLatest /\ OneHandler /\ NothingLost
  BY <1>0 DEF WayInv
<1>b. /\ posts \in [Posts -> Post \cup {NoPost}] /\ queued \in [Tabs -> Preferences]
      /\ row \in Preferences /\ latest \in Preferences
  BY DEF TypeOK
<1>1. CASE UNCHANGED <<row, queued, posts, latest>>
  BY <1>1, <1>a DEF WaitingIsLatest, OneHandler, NothingLost, Loaded, OnItsWay
<1>2. ASSUME NEW t \in Tabs, ClosePage(t) PROVE Way'
  <2>1. queued[t] = Nothing
    BY ONLY <1>2, ~dropped', Zenon DEF ClosePage
  <2>2. queued' = queued
    BY <1>2, <1>b, <2>1 DEF ClosePage
  <2> QED BY <1>1, <1>2, <2>2 DEF ClosePage
<1>3. ASSUME NEW t \in Tabs, NEW v \in Picked, set(t, v) PROVE Way'
  BY <1>3, <1>a, KeysLemma, ChosenStep DEF set
<1>4. ASSUME NEW t \in Tabs, NEW v \in Toggled, ToggleSidebar(t, v) PROVE Way'
  <2>1. persist(t, Only("sidebar", v)) /\ Chosen(t, "sidebar", v)
    BY ONLY <1>4, ~dropped', Zenon DEF ToggleSidebar
  <2>2. UNCHANGED <<row, posts>>
    BY <1>4 DEF ToggleSidebar
  <2> QED BY <2>1, <2>2, <1>a, KeysLemma, ChosenStep
<1>5. ASSUME NEW t \in Tabs, Send(t) PROVE Way'
  <2> PICK p \in Posts : posts[p] = NoPost
                         /\ posts' = [posts EXCEPT ![p] = [payload |-> queued[t], loaded |-> NotLoaded]]
    BY <1>5 DEF Send
  <2>1. /\ posts'[p].payload = queued[t] /\ posts'[p].loaded = NotLoaded /\ posts'[p] # NoPost
        /\ \A q \in Posts \ {p} : posts'[q] = posts[q]
    <3>1. [payload |-> queued[t], loaded |-> NotLoaded] \in Post
      BY <1>5, <1>b DEF Post, Send, TypeOK
    <3> QED BY <1>b, <3>1, NamesAssumption
  <2>2. queued'[t] = Nothing /\ \A u \in Tabs \ {t} : queued'[u] = queued[u]
    BY <1>5, <1>b DEF Send
  <2>3. UNCHANGED <<row, latest>>
    BY <1>5 DEF Send, history
  <2>4. WaitingIsLatest'
    BY <1>a, <2>1, <2>2, <2>3 DEF WaitingIsLatest, Nothing
  <2>5. OneHandler'
    <3>1. Loaded' \subseteq Loaded
      BY <2>1 DEF Loaded
    <3>2. \A q \in Loaded' : posts'[q] = posts[q]
      BY <2>1 DEF Loaded
    <3> QED BY <1>a, <2>3, <3>1, <3>2 DEF OneHandler
  <2>6. NothingLost'
    <3> SUFFICES ASSUME NEW k \in Keys, latest[k] # NoValue, OnItsWay(k) PROVE OnItsWay(k)'
      BY <1>a, <2>3 DEF NothingLost
    <3>1. CASE queued[t][k] = latest[k]
      BY <2>1, <2>3, <3>1 DEF OnItsWay
    <3>2. ASSUME NEW u \in Tabs \ {t}, queued[u][k] = latest[k] PROVE OnItsWay(k)'
      BY <2>2, <2>3, <3>2 DEF OnItsWay
    <3>3. ASSUME NEW q \in Posts, posts[q] # NoPost, posts[q].payload[k] = latest[k]
          PROVE  OnItsWay(k)'
      BY <2>1, <2>3, <3>3 DEF OnItsWay
    <3> QED BY <3>1, <3>2, <3>3 DEF OnItsWay
  <2> QED BY <2>4, <2>5, <2>6
<1>6. ASSUME NEW p \in Posts, FailPost(p) PROVE FALSE
  BY <1>6 DEF FailPost
<1>7. ASSUME NEW p \in Posts, HandlerLoads(p) PROVE Way'
  <2>1. Loaded = {}
    <3>1. ~ \E q \in Posts : posts[q] # NoPost /\ posts[q].loaded # NotLoaded
      BY ONLY <1>7, ~raced', Zenon DEF HandlerLoads
    <3> QED BY <3>1 DEF Loaded
  <2>2. /\ posts[p] \in Post /\ posts'[p].loaded = row /\ posts'[p].payload = posts[p].payload
        /\ posts'[p] # NoPost /\ \A q \in Posts \ {p} : posts'[q] = posts[q]
    <3>1. posts[p] \in Post /\ posts' = [posts EXCEPT ![p] = [posts[p] EXCEPT !.loaded = row]]
      BY <1>7, <1>b DEF HandlerLoads
    <3>2. [posts[p] EXCEPT !.loaded = row] \in Post
          /\ [posts[p] EXCEPT !.loaded = row].loaded = row
          /\ [posts[p] EXCEPT !.loaded = row].payload = posts[p].payload
      BY <1>b, <3>1 DEF Post
    <3> QED BY <1>b, <3>1, <3>2, NamesAssumption
  <2>3. UNCHANGED <<row, queued, latest>>
    BY <1>7 DEF HandlerLoads
  <2>4. Loaded' \subseteq {p}
    BY <2>1, <2>2 DEF Loaded
  <2>5. OneHandler'
    BY <2>2, <2>3, <2>4 DEF OneHandler
  <2>6. posts[p] # NoPost
    BY <1>7 DEF HandlerLoads
  <2>7. WaitingIsLatest'
    BY <1>a, <2>2, <2>3, <2>6 DEF WaitingIsLatest
  <2>8. NothingLost'
    BY <1>a, <2>2, <2>3, <2>6 DEF NothingLost, OnItsWay
  <2> QED BY <2>5, <2>7, <2>8
<1>8. ASSUME NEW p \in Posts, HandlerSaves(p) PROVE Way'
  <2>0. p \in Loaded /\ posts[p] \in Post /\ posts[p].loaded = row
    BY <1>8, <1>a, <1>b DEF HandlerSaves, Loaded, OneHandler
  <2>1. \A k \in Keys : row'[k] = IF posts[p].payload[k] # NoValue THEN posts[p].payload[k] ELSE row[k]
    <3>1. posts[p].payload \in Preferences
      BY <2>0 DEF Post
    <3>2. row' = Merged(row, posts[p].payload)
      BY <1>8, <2>0 DEF HandlerSaves
    <3> QED BY <1>b, <3>1, <3>2, MergedType
  <2>2. /\ posts'[p] = NoPost /\ \A q \in Posts \ {p} : posts'[q] = posts[q]
        /\ UNCHANGED <<queued, latest>>
    BY <1>8, <1>b DEF HandlerSaves, history
  <2>3. Loaded' = {}
    BY <1>a, <2>0, <2>2 DEF Loaded, OneHandler
  <2>4. WaitingIsLatest' /\ OneHandler'
    BY <1>a, <2>2, <2>3 DEF WaitingIsLatest, OneHandler
  <2>5. NothingLost'
    <3> SUFFICES ASSUME NEW k \in Keys, latest[k] # NoValue
                 PROVE  row'[k] = latest[k] \/ OnItsWay(k)'
      BY <2>2 DEF NothingLost
    <3>1. posts[p].payload[k] \in {NoValue, latest[k]}
      BY <1>a, <2>0, NamesAssumption DEF WaitingIsLatest
    <3>2. CASE row[k] = latest[k]
      BY <2>1, <3>1, <3>2
    <3>3. ASSUME NEW t \in Tabs, queued[t][k] = latest[k] PROVE OnItsWay(k)'
      BY <2>2, <3>3 DEF OnItsWay
    <3>4. ASSUME NEW q \in Posts, posts[q] # NoPost, posts[q].payload[k] = latest[k]
          PROVE  row'[k] = latest[k] \/ OnItsWay(k)'
      <4>1. CASE q = p
        BY <2>1, <3>4, <4>1
      <4>2. CASE q # p
        BY <2>2, <3>4, <4>2 DEF OnItsWay
      <4> QED BY <4>1, <4>2
    <3> QED BY <1>a, <3>2, <3>3, <3>4 DEF NothingLost, OnItsWay
  <2> QED BY <2>4, <2>5
<1> QED
  BY <1>1, <1>2, <1>3, <1>4, <1>5, <1>6, <1>7, <1>8
  DEF Next, OpenPage, init, MediaEvent, OsChange, CookieExpires, vars, history

LEMMA WayInit == Init => WayInv
BY KeysLemma DEF Init, WayInv, WaitingIsLatest, OneHandler, NothingLost, Loaded, Nothing

(* The newest choices are in the column or on their way, unless something     *)
(* failed or overlapped.                                                     *)
THEOREM SavedCorrect == Spec => []SavedOrOnItsWay
<1>1. WayInv => SavedOrOnItsWay
  BY DEF WayInv, NothingLost, SavedOrOnItsWay
<1> QED BY <1>1, WayInit, TypeCorrect, WayStep, PTL DEF Spec
=============================================================================
