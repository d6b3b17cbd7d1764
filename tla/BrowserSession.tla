--------------------------- MODULE BrowserSession ---------------------------
(***************************************************************************)
(* The browser tools (tools/browser.py): one manager, one browser, one     *)
(* page for all tasks of the process.  A call is suspended at every await: *)
(* four times while it launches, then while the page loads and while it is *)
(* read or acted on.  A launch is a chain of its own (each await goes on   *)
(* with what it has just assigned), but all assign to the same attributes. *)
(* Every task browses a site of its own, named like the task.              *)
(***************************************************************************)
EXTENDS Naturals, FiniteSets

CONSTANTS
  Tasks,
  Nothing,       \* an attribute that is None; a page that shows no task's site
  MaxLaunches    \* bound: launches of a browser

ASSUME BrowserAssumption == Nothing \notin Tasks /\ MaxLaunches \in Nat

VARIABLES
  session,     \* the manager's attributes: the launch each was assigned by
  shows,       \* per launch: the site its page shows
  launches,    \* launches so far
  alive,       \* launches whose browser process runs
  web,         \* per task: its tool call, and where it is suspended
  closed,      \* close_browser has run
  troubled     \* history variable: a launch overlapped another, or failed

browserVars == <<session, shows, launches, alive, web, closed, troubled>>

\* The tools by what they do with the page: web.search, web.fetch and
\* web.extract read it; web.click and web.fill_form act on an element of it.
Reading == {"read"}
Acting  == {"click", "fill"}

NoCall == [tool |-> "none", stage |-> "idle", launch |-> 0, element |-> Nothing]
LaunchStages == {"starting", "launching", "opening", "paging"}

InitBrowser ==
  /\ session = [playwright |-> 0, browser |-> 0, page |-> 0]
  /\ shows = [n \in 1 .. MaxLaunches |-> Nothing]
  /\ launches = 0 /\ alive = {}
  /\ web = [t \in Tasks |-> NoCall]
  /\ closed = FALSE /\ troubled = FALSE

Free(t)      == web[t].stage = "idle"
AllFree      == \A t \in Tasks : Free(t)
Launching(t) == web[t].stage \in LaunchStages
Moves(t, stage) == web' = [web EXCEPT ![t].stage = stage]
Page(t)      == web[t].launch

\* execute: _ensure finds the page, or launches.  Every call names a URL, as
\* the agents are asked to.
Executes(t, tool) ==
  /\ Free(t) /\ ~closed
  /\ IF session.page # 0
     THEN /\ web' = [web EXCEPT ![t] = [NoCall EXCEPT !.tool = tool, !.stage = "loading",
                                                      !.launch = session.page]]
          /\ UNCHANGED <<launches, troubled>>
     ELSE /\ launches < MaxLaunches
          /\ launches' = launches + 1
          /\ troubled' = (troubled \/ \E u \in Tasks : Launching(u))
          /\ web' = [web EXCEPT ![t] = [NoCall EXCEPT !.tool = tool, !.stage = "starting",
                                                      !.launch = launches + 1]]
  /\ UNCHANGED <<session, shows, alive, closed>>

Started(t) ==
  /\ web[t].stage = "starting"
  /\ session' = [session EXCEPT !.playwright = Page(t)]
  /\ Moves(t, "launching")
  /\ UNCHANGED <<shows, launches, alive, closed, troubled>>

Launched(t) ==
  /\ web[t].stage = "launching"
  /\ session' = [session EXCEPT !.browser = Page(t)]
  /\ alive' = alive \cup {Page(t)}
  /\ Moves(t, "opening")
  /\ UNCHANGED <<shows, launches, closed, troubled>>

\* new_context: the context lives and dies with its browser.
Opened(t) ==
  /\ web[t].stage = "opening"
  /\ Moves(t, "paging")
  /\ UNCHANGED <<session, shows, launches, alive, closed, troubled>>

Paged(t) ==
  /\ web[t].stage = "paging"
  /\ session' = [session EXCEPT !.page = Page(t)]
  /\ Moves(t, "loading")
  /\ UNCHANGED <<shows, launches, alive, closed, troubled>>

\* page.goto
Loaded(t) ==
  /\ web[t].stage = "loading"
  /\ shows' = [shows EXCEPT ![Page(t)] = t]
  /\ Moves(t, IF web[t].tool \in Reading THEN "reading" ELSE "finding")
  /\ UNCHANGED <<session, launches, alive, closed, troubled>>

\* content(), query_selector_all(): of whatever the page shows by now.
Read(t) ==
  /\ web[t].stage = "reading"
  /\ web' = [web EXCEPT ![t] = NoCall]
  /\ UNCHANGED <<session, shows, launches, alive, closed, troubled>>

Found(t) ==
  /\ web[t].stage = "finding"
  /\ web' = [web EXCEPT ![t].stage = "acting", ![t].element = shows[Page(t)]]
  /\ UNCHANGED <<session, shows, launches, alive, closed, troubled>>

\* An element of a document that is no longer there cannot be acted on.  A
\* click may lead away from the site.
Acted(t) ==
  /\ web[t].stage = "acting"
  /\ shows[Page(t)] = web[t].element
  /\ web' = [web EXCEPT ![t] = NoCall]
  /\ \/ UNCHANGED shows
     \/ web[t].tool = "click" /\ shows' = [shows EXCEPT ![Page(t)] = Nothing]
  /\ UNCHANGED <<session, launches, alive, closed, troubled>>

\* Any await may raise; the tool answers ok=False.
Failed(t) ==
  /\ ~Free(t)
  /\ web' = [web EXCEPT ![t] = NoCall]
  /\ troubled' = (troubled \/ Launching(t))
  /\ UNCHANGED <<session, shows, launches, alive, closed>>

\* Mutant: the page is closed, its browser is not.
ClosesPage ==
  /\ ~closed /\ AllFree
  /\ session' = [playwright |-> 0, browser |-> 0, page |-> 0]
  /\ closed' = TRUE
  /\ UNCHANGED <<shows, launches, alive, web, troubled>>

\* close_browser, when the requests of the process are over: the browser it
\* knows is closed, and every one of the Playwright it knows.
Closes ==
  /\ ~closed /\ AllFree
  /\ alive' = alive \ {session.browser, session.playwright}
  /\ session' = [playwright |-> 0, browser |-> 0, page |-> 0]
  /\ closed' = TRUE
  /\ UNCHANGED <<shows, launches, web, troubled>>

Browses(t) ==
  Started(t) \/ Launched(t) \/ Opened(t) \/ Paged(t)
    \/ Loaded(t) \/ Read(t) \/ Found(t) \/ Acted(t) \/ Failed(t)

\* After the shutdown a browser is left only if launches overlapped or failed.
BrowserLostOnlyInTrouble == closed /\ ~troubled => alive = {}

\* "Click an element matching a CSS selector on a URL.": what web.click and
\* web.fill_form act on is on the site the call named.
ActsOnItsOwnSite ==
  [][\A t \in Tasks : Acted(t) => web[t].element = t]_browserVars
=============================================================================
