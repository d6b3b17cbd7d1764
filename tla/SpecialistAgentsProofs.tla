----------------------- MODULE SpecialistAgentsProofs -----------------------
(***************************************************************************)
(* Proofs about the specialist agents and the browser they share, for any  *)
(* number of tasks, whatever role works for each, any budget of steps and  *)
(* looks, and any number of launches.                                      *)
(***************************************************************************)
EXTENDS SpecialistAgents, TLAPS

-----------------------------------------------------------------------------
(* The browser *)

Stages == {"idle", "loading", "reading", "finding", "acting"} \cup LaunchStages

WebCall ==
  [tool : {"none"} \cup Reading \cup Acting, stage : Stages, launch : 0 .. MaxLaunches,
   element : Tasks \cup {Nothing}]

Session == [playwright : 0 .. MaxLaunches, browser : 0 .. MaxLaunches, page : 0 .. MaxLaunches]

BrowserTyped ==
  /\ session \in Session
  /\ shows \in [1 .. MaxLaunches -> Tasks \cup {Nothing}]
  /\ launches \in 0 .. MaxLaunches
  /\ web \in [Tasks -> WebCall]
  /\ \A t \in Tasks : ~Free(t) => Page(t) # 0

\* While no launch has overlapped another or failed, there is one launch at a
\* time, and only before there is a page; the browser that runs, if any does, is
\* the one the manager knows, and one runs only from the launch of its process
\* on.
OneLaunch ==
  /\ \A t, u \in Tasks : Launching(t) /\ Launching(u) => t = u
  /\ session.page # 0 => \A t \in Tasks : ~Launching(t)
OneBrowser ==
  /\ alive \subseteq {session.browser}
  /\ session.page # 0 \/ (\E t \in Tasks : web[t].stage \in {"opening", "paging"}) \/ alive = {}
Untroubled == ~troubled => OneLaunch /\ OneBrowser

Finished == closed => AllFree /\ (~troubled => alive = {})

BrowserInv == BrowserTyped /\ Untroubled /\ Finished

\* Nothing is launched or open at the start.
LEMMA BrowserInit == Init => BrowserInv
<1>. SUFFICES ASSUME InitBrowser PROVE BrowserInv
  BY DEF Init
<1>. USE DEF InitBrowser, NoCall
<1>1. \A t \in Tasks : web[t] = NoCall /\ NoCall.stage = "idle"
  OBVIOUS
<1>2. NoCall \in WebCall
  BY BrowserAssumption DEF WebCall, Stages
<1>3. BrowserTyped
  <2>1. web \in [Tasks -> WebCall] /\ \A t \in Tasks : Free(t)
    BY <1>1, <1>2 DEF Free
  <2>2. session \in Session /\ launches \in 0 .. MaxLaunches
    BY BrowserAssumption DEF Session
  <2>. QED  BY <2>1, <2>2 DEF BrowserTyped
<1>4. \A t \in Tasks : Free(t) /\ ~Launching(t)
  BY <1>1 DEF Free, Launching, LaunchStages
<1>. QED  BY <1>3, <1>4 DEF BrowserInv, Untroubled, OneLaunch, OneBrowser, Finished, AllFree

\* Trouble is not forgotten, and a launch that overlaps or fails is trouble.
LEMMA TroubleStays ==
  ASSUME NEW t \in Tasks
  PROVE  /\ \A tool : Executes(t, tool) /\ session.page = 0 /\ ~troubled'
                      => ~troubled /\ \A u \in Tasks : ~Launching(u)
         /\ Failed(t) /\ ~troubled' => ~troubled /\ ~Launching(t)
<1>1. ASSUME NEW tool, Executes(t, tool), session.page = 0, ~troubled'
      PROVE  ~troubled /\ \A u \in Tasks : ~Launching(u)
  <2>1. troubled' = (troubled \/ \E u \in Tasks : Launching(u))
    BY <1>1, Zenon DEF Executes
  <2>. QED  BY <1>1, <2>1, Zenon
<1>2. Failed(t) /\ ~troubled' => ~troubled /\ ~Launching(t)
  BY Zenon DEF Failed
<1>. QED  BY <1>1, <1>2

\* A call finds the page or begins the only launch, unless there is trouble.
LEMMA ExecutesInv ==
  ASSUME BrowserInv, NEW t \in Tasks, NEW tool \in Reading \cup Acting, Executes(t, tool)
  PROVE  BrowserInv'
<1>. USE DEF BrowserInv, BrowserTyped, Executes, Session, WebCall, NoCall, Stages, LaunchStages
<1>1. CASE session.page # 0
  <2>1. web' = [web EXCEPT ![t] = [tool |-> tool, stage |-> "loading", launch |-> session.page,
                                   element |-> Nothing]]
    BY <1>1
  <2>2. BrowserTyped'
    BY <1>1, <2>1, BrowserAssumption DEF Free, Page
  <2>3. Untroubled'
    BY <1>1, <2>1 DEF Untroubled, OneLaunch, OneBrowser, Launching
  <2>. QED  BY <1>1, <2>2, <2>3 DEF Finished
<1>2. CASE session.page = 0
  <2>1. web' = [web EXCEPT ![t] = [tool |-> tool, stage |-> "starting", launch |-> launches + 1,
                                   element |-> Nothing]]
    BY <1>2
  <2>2. BrowserTyped'
    BY <1>2, <2>1, BrowserAssumption DEF Free, Page
  <2>3. Untroubled'
    <3>. SUFFICES ASSUME ~troubled' PROVE OneLaunch' /\ OneBrowser'
      BY DEF Untroubled
    <3>1. ~troubled /\ \A u \in Tasks : ~Launching(u)
      BY <1>2, TroubleStays
    <3>2. \A u \in Tasks : web[u].stage \notin {"opening", "paging"}
      BY <3>1 DEF Launching
    <3>3. alive = {} /\ alive' = {} /\ session' = session
      BY <1>2, <3>1, <3>2 DEF Untroubled, OneBrowser
    <3>4. \A u \in Tasks \ {t} : ~Launching(u)'
      BY <2>1, <3>1 DEF Launching
    <3>. QED  BY <1>2, <3>3, <3>4 DEF OneLaunch, OneBrowser
  <2>. QED  BY <1>2, <2>2, <2>3 DEF Finished
<1>. QED  BY <1>1, <1>2

\* An await of a launch.
LEMMA LaunchInv ==
  ASSUME BrowserInv, NEW t \in Tasks, Started(t) \/ Launched(t) \/ Opened(t) \/ Paged(t)
  PROVE  BrowserInv'
<1>. USE DEF BrowserInv, BrowserTyped, Session, WebCall, Stages, LaunchStages, Moves, Page, Free
<1>1. BrowserTyped'
  BY DEF Started, Launched, Opened, Paged
<1>2. ~closed
  BY DEF Started, Launched, Opened, Paged, Finished, AllFree
<1>3. Untroubled'
  <2>. SUFFICES ASSUME ~troubled PROVE OneLaunch' /\ OneBrowser'
    BY DEF Untroubled, Started, Launched, Opened, Paged
  <2>1. Launching(t) /\ session.page = 0 /\ OneBrowser /\ \A u \in Tasks : Launching(u) => u = t
    BY DEF Untroubled, OneLaunch, Launching, Started, Launched, Opened, Paged
  <2>2. CASE Started(t)
    BY <2>1, <2>2 DEF Started, OneLaunch, OneBrowser, Launching
  <2>3. CASE Launched(t)
    <3>1. alive = {}
      BY <2>1, <2>3 DEF Launched, OneBrowser, Launching
    <3>. QED  BY <2>1, <2>3, <3>1 DEF Launched, OneLaunch, OneBrowser, Launching
  <2>4. CASE Opened(t)
    BY <2>1, <2>4 DEF Opened, OneLaunch, OneBrowser, Launching
  <2>5. CASE Paged(t)
    BY <2>1, <2>5 DEF Paged, OneLaunch, OneBrowser, Launching
  <2>. QED  BY <2>2, <2>3, <2>4, <2>5
<1>4. ~closed'
  BY <1>2 DEF Started, Launched, Opened, Paged
<1>. QED  BY <1>1, <1>3, <1>4 DEF Finished

\* An await of the call's own work, and one that raises.
LEMMA WorkInv ==
  ASSUME BrowserInv, NEW t \in Tasks,
         Loaded(t) \/ Read(t) \/ Found(t) \/ Acted(t) \/ Failed(t)
  PROVE  BrowserInv'
<1>. USE DEF BrowserInv, BrowserTyped, Session, WebCall, Stages, LaunchStages, Moves, Page, Free,
             NoCall
<1>1. BrowserTyped'
  <2>1. CASE Loaded(t)
    BY <2>1 DEF Loaded
  <2>2. CASE Read(t) \/ Acted(t) \/ Failed(t)
    <3>1. web' = [web EXCEPT ![t] = NoCall] /\ NoCall \in WebCall
      BY <2>2, BrowserAssumption DEF Read, Acted, Failed
    <3>2. UNCHANGED <<session, launches>>
      BY <2>2 DEF Read, Acted, Failed
    <3>3. shows' = shows \/ shows' = [shows EXCEPT ![web[t].launch] = Nothing]
      BY <2>2 DEF Read, Acted, Failed
    <3>. QED  BY <3>1, <3>2, <3>3
  <2>3. CASE Found(t)
    <3>1. web[t].launch \in 1 .. MaxLaunches
      BY <2>3, BrowserAssumption DEF Found
    <3>. DEFINE to == [web[t] EXCEPT !.stage = "acting", !.element = shows[Page(t)]]
    <3>2. web' = [web EXCEPT ![t] = to] /\ UNCHANGED <<session, shows, launches>>
      BY <2>3 DEF Found
    <3>3. to \in WebCall
      <4>1. shows[Page(t)] \in Tasks \cup {Nothing}
        BY <3>1
      <4>. QED  BY <4>1
    <3>4. to.launch = web[t].launch /\ web[t].stage # "idle"
      BY <2>3, <3>3 DEF Found
    <3>. HIDE DEF to
    <3>5. web' \in [Tasks -> WebCall]
      BY <3>2, <3>3
    <3>6. \A u \in Tasks : ~Free(u)' => Page(u)' # 0
      BY <3>1, <3>2, <3>4
    <3>. QED  BY <3>2, <3>5, <3>6
  <2>. QED  BY <2>1, <2>2, <2>3
<1>2. ~closed /\ ~closed'
  BY DEF Loaded, Read, Found, Acted, Failed, Finished, AllFree
<1>3. Untroubled'
  <2>. SUFFICES ASSUME ~troubled' PROVE OneLaunch' /\ OneBrowser'
    BY DEF Untroubled
  <2>1. ~troubled /\ ~Launching(t) /\ OneLaunch /\ OneBrowser
    <3>1. ~troubled /\ ~Launching(t)
      <4>1. CASE Failed(t)
        BY <4>1, TroubleStays
      <4>2. CASE Loaded(t) \/ Read(t) \/ Found(t) \/ Acted(t)
        BY <4>2 DEF Launching, Loaded, Read, Found, Acted
      <4>. QED  BY <4>1, <4>2
    <3>. QED  BY <3>1 DEF Untroubled
  <2>2. ~Launching(t)' /\ \A u \in Tasks \ {t} : web'[u] = web[u]
    BY DEF Launching, Loaded, Read, Found, Acted, Failed
  <2>3. UNCHANGED <<session, alive>>
    BY DEF Loaded, Read, Found, Acted, Failed
  <2>. QED  BY <2>1, <2>2, <2>3 DEF OneLaunch, OneBrowser, Launching
<1>. QED  BY <1>1, <1>2, <1>3 DEF Finished

\* The shutdown closes the only browser there is.
LEMMA ClosesInv == ASSUME BrowserInv, Closes PROVE BrowserInv'
<1>1. BrowserTyped'
  BY BrowserAssumption DEF BrowserInv, BrowserTyped, Closes, Session, Free, Page
<1>2. ~troubled' => alive' = {}
  BY DEF BrowserInv, Untroubled, OneBrowser, Closes
<1>3. \A t \in Tasks : ~Launching(t)'
  BY DEF Closes, AllFree, Free, Launching, LaunchStages
<1>. QED  BY <1>1, <1>2, <1>3
         DEF BrowserInv, Untroubled, OneLaunch, OneBrowser, Finished, Closes, AllFree, Free

-----------------------------------------------------------------------------
(* The roles *)

Phases == {"explore", "observe", "capture", "generate", "start", "decide", "interpret", "run",
           "office_done"}

AgentsTyped ==
  /\ role \in [Tasks -> Roles] /\ goal \in [Tasks -> Requests]
  /\ pad \in [Tasks -> [phase : Phases, count : Nat]]
  /\ calls \in [Tasks -> Nat]
  /\ done \in [Tasks -> BOOLEAN] /\ looked \in [Tasks -> BOOLEAN] /\ acted \in [Tasks -> BOOLEAN]

\* What phase and counter say of the calls that returned (n) and of what has
\* been proposed, for each role.
Decided(t) ==
  /\ pad[t].phase \in {FirstPhase(role[t]), "decide"}
  /\ pad[t].phase # "decide" => pad[t].count = 0
  /\ pad[t].phase = "decide" => looked[t] /\ pad[t].count <= MaxSteps
  /\ ~done[t] => calls[t] <= pad[t].count
Searched(t) == pad[t].count > 0 => looked[t]
Counted(t)  == ~done[t] => calls[t] <= pad[t].count /\ pad[t].count <= MaxSteps
Seen(t) ==
  /\ pad[t].phase \in {"capture", "interpret"}
  /\ ~done[t] /\ pad[t].phase = "capture" =>
       pad[t].count < MaxLooks /\ calls[t] <= 2 * pad[t].count
  /\ ~done[t] /\ pad[t].phase = "interpret" =>
       pad[t].count <= MaxLooks /\ calls[t] < 2 * pad[t].count
Written(t) == pad[t].phase \in {"generate", "run"} /\ (pad[t].phase = "run" => looked[t])
OpensOnce(t) ==
  /\ pad[t].phase \in {"start", "office_done"}
  /\ ~done[t] => calls[t] <= 1 /\ (pad[t].phase = "start" => calls[t] = 0)

Fits(t) ==
  /\ acted[t] => looked[t]
  /\ role[t] \in {"file", "automation"} => Decided(t)
  /\ role[t] = "browser"  => Searched(t) /\ Counted(t)
  /\ role[t] = "research" => Searched(t)
  /\ role[t] = "vision"   => Seen(t)
  /\ role[t] = "coding"   => Written(t)
  /\ role[t] = "office"   => OpensOnce(t)
  /\ role[t] = "memory" /\ ~done[t] => calls[t] = 0

RolesInv == AgentsTyped /\ \A t \in Tasks : Fits(t)

\* What the call of an agent may come to.
Quiet(t) ==
  /\ UNCHANGED <<role, goal, done, looked, acted>>
  /\ calls' = calls \/ Returns(t)
Finishes(t) == Returns(t) /\ done' = [done EXCEPT ![t] = TRUE] /\ UNCHANGED <<role, goal, looked, acted>>

\* An agent that found its role's phase and counter right leaves them right, and
\* those of other tasks alone.
LEMMA OthersFit ==
  ASSUME RolesInv, NEW t \in Tasks,
         pad' \in [Tasks -> [phase : Phases, count : Nat]],
         \A u \in Tasks \ {t} : pad'[u] = pad[u],
         ProposesLook(t) \/ ProposesAct(t) \/ Finishes(t) \/ Quiet(t),
         Fits(t)'
  PROVE  RolesInv'
<1>1. AgentsTyped'
  <2>. USE DEF RolesInv, AgentsTyped
  <2>1. calls' \in [Tasks -> Nat] /\ UNCHANGED <<role, goal>>
    BY DEF ProposesLook, ProposesAct, Finishes, Quiet, Returns
  <2>2. looked' \in [Tasks -> BOOLEAN] /\ acted' \in [Tasks -> BOOLEAN]
    BY DEF ProposesLook, ProposesAct, Finishes, Quiet
  <2>3. done' \in [Tasks -> BOOLEAN]
    BY DEF ProposesLook, ProposesAct, Finishes, Quiet
  <2>. QED  BY <2>1, <2>2, <2>3
<1>2. ASSUME NEW u \in Tasks \ {t} PROVE Fits(u)'
  <2>1. /\ role'[u] = role[u] /\ pad'[u] = pad[u] /\ calls'[u] = calls[u]
        /\ done'[u] = done[u] /\ looked'[u] = looked[u] /\ acted'[u] = acted[u]
    BY DEF RolesInv, AgentsTyped, ProposesLook, ProposesAct, Finishes, Quiet, Returns
  <2>2. Fits(u)
    BY DEF RolesInv
  <2>. QED  BY <2>1, <2>2 DEF Fits, Decided, Searched, Counted, Seen, Written, OpensOnce
<1>. QED  BY <1>1, <1>2 DEF RolesInv

\* What an outcome writes for its own task.
LEMMA OutcomeOf ==
  ASSUME RolesInv, NEW t \in Tasks
  PROVE  /\ ProposesLook(t) => /\ role' = role /\ calls'[t] = calls[t] + 1 /\ looked'[t]
                              /\ acted'[t] = acted[t] /\ done'[t] = done[t]
         /\ ProposesAct(t)  => /\ role' = role /\ calls'[t] = calls[t] + 1 /\ looked'[t] = looked[t]
                              /\ done'[t] = done[t]
         /\ Finishes(t)     => /\ role' = role /\ done'[t]
                              /\ looked'[t] = looked[t] /\ acted'[t] = acted[t]
         /\ Quiet(t)        => /\ role' = role /\ calls'[t] \in {calls[t], calls[t] + 1}
                              /\ looked'[t] = looked[t] /\ acted'[t] = acted[t]
                              /\ done'[t] = done[t]
BY DEF RolesInv, AgentsTyped, ProposesLook, ProposesAct, Finishes, Quiet, Returns

\* What it notes in the scratchpad.
LEMMA NotesOf ==
  ASSUME RolesInv, NEW t \in Tasks, NEW phase \in Phases, NEW count \in Nat,
         Notes(t, phase, count)
  PROVE  /\ pad' \in [Tasks -> [phase : Phases, count : Nat]]
         /\ pad'[t].phase = phase /\ pad'[t].count = count
         /\ \A u \in Tasks \ {t} : pad'[u] = pad[u]
BY DEF RolesInv, AgentsTyped, Notes

\* Nothing is counted or proposed at the start.
LEMMA RolesInit == Init => RolesInv
<1>. SUFFICES ASSUME Init PROVE RolesInv
  OBVIOUS
<1>. USE AgentsAssumption DEF Init
<1>1. AgentsTyped
  <2>1. \A r \in Roles : FirstPhase(r) \in Phases
    BY DEF FirstPhase, Phases
  <2>2. pad \in [Tasks -> [phase : Phases, count : Nat]]
    BY <2>1
  <2>. QED  BY <2>2 DEF AgentsTyped
<1>2. ASSUME NEW t \in Tasks PROVE Fits(t)
  <2>1. /\ pad[t].phase = FirstPhase(role[t]) /\ pad[t].count = 0
        /\ calls[t] = 0 /\ ~done[t] /\ ~looked[t] /\ ~acted[t]
    OBVIOUS
  <2>. QED  BY <2>1 DEF Fits, Decided, Searched, Counted, Seen, Written, OpensOnce, FirstPhase
<1>. QED  BY <1>1, <1>2 DEF RolesInv

\* The file and the automation agent.
LEMMA LookersFit ==
  ASSUME RolesInv, NEW t \in Tasks, FileAgent(t) \/ AutomationAgent(t)
  PROVE  RolesInv'
<1>. USE AgentsAssumption
<1>1. /\ role[t] \in {"file", "automation"} /\ Decided(t) /\ ~done[t]
      /\ pad[t].phase \in Phases /\ pad[t].count \in Nat /\ calls[t] \in Nat
      /\ acted[t] => looked[t]
  BY DEF FileAgent, AutomationAgent, Called, RolesInv, AgentsTyped, Fits
<1>2. \/ pad[t].phase # "decide" /\ Looks(t)
      \/ pad[t].phase = "decide" /\ OverBudget(t) /\ SaysDone(t) /\ UNCHANGED pad
      \/ pad[t].phase = "decide" /\ ~OverBudget(t) /\ Decides(t)
  BY DEF FileAgent, AutomationAgent
<1>3. CASE pad[t].phase # "decide" /\ Looks(t)
  <2>1. ProposesLook(t) /\ Notes(t, "decide", pad[t].count + 1)
    BY <1>3 DEF Looks, Proposes
  <2>2. Fits(t)'
    BY <1>1, <1>3, <2>1, NotesOf, OutcomeOf DEF Fits, Decided, Phases
  <2>. QED  BY <1>1, <2>1, <2>2, NotesOf, OthersFit DEF Phases
<1>4. CASE pad[t].phase = "decide" /\ OverBudget(t) /\ SaysDone(t) /\ UNCHANGED pad
  <2>1. Finishes(t)
    BY <1>4 DEF SaysDone, Finishes
  <2>2. Fits(t)'
    BY <1>1, <1>4, <2>1, OutcomeOf DEF Fits, Decided
  <2>. QED  BY <1>4, <2>1, <2>2, OthersFit DEF RolesInv, AgentsTyped
<1>5. CASE pad[t].phase = "decide" /\ ~OverBudget(t) /\ Decides(t)
  <2>1. Notes(t, pad[t].phase, pad[t].count + 1)
    BY <1>5 DEF Decides, Counts
  <2>2. ProposesLook(t) \/ ProposesAct(t) \/ Finishes(t) \/ (Quiet(t) /\ calls' = calls)
    BY <1>5 DEF Decides, Proposes, SaysDone, Finishes, Raises, Quiet
  <2>3. pad[t].count + 1 <= MaxSteps
    BY <1>1, <1>5 DEF OverBudget
  <2>4. Fits(t)'
    BY <1>1, <1>5, <2>1, <2>2, <2>3, NotesOf, OutcomeOf DEF Fits, Decided
  <2>. QED  BY <1>1, <2>1, <2>2, <2>4, NotesOf, OthersFit
<1>. QED  BY <1>2, <1>3, <1>4, <1>5

\* The browser agent.
LEMMA BrowserFits ==
  ASSUME RolesInv, NEW t \in Tasks, BrowserAgent(t)
  PROVE  RolesInv'
<1>. USE AgentsAssumption
<1>1. /\ role[t] = "browser" /\ Searched(t) /\ Counted(t) /\ ~done[t]
      /\ pad[t].phase \in Phases /\ pad[t].count \in Nat /\ calls[t] \in Nat
      /\ acted[t] => looked[t]
  BY DEF BrowserAgent, Called, RolesInv, AgentsTyped, Fits
<1>2. Notes(t, pad[t].phase, pad[t].count + 1)
  BY DEF BrowserAgent, Counts
<1>3. \/ ProposesLook(t) /\ (pad[t].count = 0 \/ pad[t].count < MaxSteps)
      \/ ProposesAct(t) /\ 0 < pad[t].count /\ pad[t].count < MaxSteps
      \/ Finishes(t) /\ 0 < pad[t].count
      \/ Quiet(t) /\ calls' = calls /\ 0 < pad[t].count /\ pad[t].count < MaxSteps
  BY <1>1 DEF BrowserAgent, OverBudget, Visits, Uses, SaysDone, Raises, Finishes, Quiet
<1>4. Fits(t)'
  BY <1>1, <1>2, <1>3, NotesOf, OutcomeOf DEF Fits, Searched, Counted
<1>. QED  BY <1>1, <1>2, <1>3, <1>4, NotesOf, OthersFit

\* The research agent.
LEMMA ResearchFits ==
  ASSUME RolesInv, NEW t \in Tasks, ResearchAgent(t)
  PROVE  RolesInv'
<1>1. /\ role[t] = "research" /\ Searched(t)
      /\ pad[t].phase \in Phases /\ pad[t].count \in Nat
      /\ acted[t] => looked[t]
  BY DEF ResearchAgent, Called, RolesInv, AgentsTyped, Fits
<1>2. Notes(t, pad[t].phase, pad[t].count + 1)
  BY DEF ResearchAgent, Counts
<1>3. ProposesLook(t) \/ ((Finishes(t) \/ Quiet(t)) /\ 0 < pad[t].count)
  BY <1>1 DEF ResearchAgent, Visits, SaysDone, Talks, Raises, Finishes, Quiet
<1>4. Fits(t)'
  BY <1>1, <1>2, <1>3, NotesOf, OutcomeOf DEF Fits, Searched
<1>. QED  BY <1>1, <1>2, <1>3, <1>4, NotesOf, OthersFit

\* The vision agent.
LEMMA VisionFits ==
  ASSUME RolesInv, NEW t \in Tasks, VisionAgent(t)
  PROVE  RolesInv'
<1>. USE AgentsAssumption
<1>1. /\ role[t] = "vision" /\ Seen(t) /\ ~done[t]
      /\ pad[t].phase \in Phases /\ pad[t].count \in Nat /\ calls[t] \in Nat
      /\ acted[t] => looked[t]
  BY DEF VisionAgent, Called, RolesInv, AgentsTyped, Fits
<1>2. CASE pad[t].phase = "capture" /\ Captures(t)
  <2>1. ProposesLook(t) /\ Notes(t, "interpret", pad[t].count + 1)
    BY <1>2 DEF Captures, Proposes
  <2>2. Fits(t)'
    BY <1>1, <1>2, <2>1, NotesOf, OutcomeOf DEF Fits, Seen, Phases
  <2>. QED  BY <1>1, <2>1, <2>2, NotesOf, OthersFit DEF Phases
<1>3. CASE pad[t].phase = "interpret" /\ Interprets(t)
  <2>1. CASE pad[t].count < MaxLooks /\ Notes(t, "capture", pad[t].count) /\ Proposes(t, TRUE)
    <3>1. ProposesLook(t)
      BY <2>1 DEF Proposes
    <3>2. Fits(t)'
      BY <1>1, <1>3, <2>1, <3>1, NotesOf, OutcomeOf DEF Fits, Seen, Phases
    <3>. QED  BY <1>1, <2>1, <3>1, <3>2, NotesOf, OthersFit DEF Phases
  <2>2. CASE (SaysDone(t) \/ Raises(t)) /\ UNCHANGED pad
    <3>1. Finishes(t) \/ (Quiet(t) /\ calls' = calls)
      BY <2>2 DEF SaysDone, Raises, Finishes, Quiet
    <3>2. Fits(t)'
      BY <1>1, <1>3, <2>2, <3>1, OutcomeOf DEF Fits, Seen
    <3>. QED  BY <2>2, <3>1, <3>2, OthersFit DEF RolesInv, AgentsTyped
  <2>. QED  BY <1>3, <2>1, <2>2 DEF Interprets
<1>. QED  BY <1>2, <1>3 DEF VisionAgent

\* The coding agent.
LEMMA CodingFits ==
  ASSUME RolesInv, NEW t \in Tasks, CodingAgent(t)
  PROVE  RolesInv'
<1>1. /\ role[t] = "coding" /\ Written(t)
      /\ pad[t].phase \in Phases /\ pad[t].count \in Nat
      /\ acted[t] => looked[t]
  BY DEF CodingAgent, Called, RolesInv, AgentsTyped, Fits
<1>2. CASE Notes(t, "run", pad[t].count) /\ Proposes(t, TRUE)
  <2>1. ProposesLook(t)
    BY <1>2 DEF Proposes
  <2>2. Fits(t)'
    BY <1>1, <1>2, <2>1, NotesOf, OutcomeOf DEF Fits, Written, Phases
  <2>. QED  BY <1>1, <1>2, <2>1, <2>2, NotesOf, OthersFit DEF Phases
<1>3. CASE (Raises(t) \/ (pad[t].phase = "run" /\ Proposes(t, FALSE))) /\ UNCHANGED pad
  <2>1. Quiet(t) \/ (pad[t].phase = "run" /\ ProposesAct(t))
    BY <1>3 DEF Proposes, Raises, Quiet
  <2>2. Fits(t)'
    BY <1>1, <1>3, <2>1, OutcomeOf DEF Fits, Written
  <2>. QED  BY <1>3, <2>1, <2>2, OthersFit DEF RolesInv, AgentsTyped
<1>. QED  BY <1>2, <1>3 DEF CodingAgent, Generates

\* The office agent.
LEMMA OfficeFits ==
  ASSUME RolesInv, NEW t \in Tasks, OfficeAgent(t)
  PROVE  RolesInv'
<1>1. /\ role[t] = "office" /\ OpensOnce(t) /\ ~done[t]
      /\ pad[t].phase \in Phases /\ pad[t].count \in Nat /\ calls[t] \in Nat
      /\ acted[t] => looked[t]
  BY DEF OfficeAgent, Called, RolesInv, AgentsTyped, Fits
<1>2. CASE pad[t].phase = "start" /\ Notes(t, "office_done", 0) /\ Proposes(t, TRUE)
  <2>1. ProposesLook(t)
    BY <1>2 DEF Proposes
  <2>2. Fits(t)'
    BY <1>1, <1>2, <2>1, NotesOf, OutcomeOf DEF Fits, OpensOnce, Phases
  <2>. QED  BY <1>2, <2>1, <2>2, NotesOf, OthersFit DEF Phases
<1>3. CASE (SaysDone(t) \/ Raises(t)) /\ UNCHANGED pad
  <2>1. Finishes(t) \/ (Quiet(t) /\ calls' = calls)
    BY <1>3 DEF SaysDone, Raises, Finishes, Quiet
  <2>2. Fits(t)'
    BY <1>1, <1>3, <2>1, OutcomeOf DEF Fits, OpensOnce
  <2>. QED  BY <1>3, <2>1, <2>2, OthersFit DEF RolesInv, AgentsTyped
<1>. QED  BY <1>2, <1>3 DEF OfficeAgent

\* The memory and the business agent keep nothing in the scratchpad.
LEMMA KeeplessFit ==
  ASSUME RolesInv, NEW t \in Tasks, MemoryAgent(t) \/ BusinessAgent(t)
  PROVE  RolesInv'
<1>1. /\ role[t] \in {"memory", "business"} /\ ~done[t] /\ Fits(t)
      /\ UNCHANGED pad
  BY DEF MemoryAgent, BusinessAgent, ProposesDocument, Called, RolesInv
<1>2. \/ Finishes(t)
      \/ Quiet(t) /\ calls' = calls
      \/ role[t] = "business" /\ ProposesLook(t)
  BY DEF MemoryAgent, BusinessAgent, ProposesDocument, Proposes, Called, SaysDone, Raises, Finishes,
         Quiet
<1>3. Fits(t)'
  BY <1>1, <1>2, OutcomeOf DEF Fits
<1>. QED  BY <1>1, <1>2, <1>3, OthersFit DEF RolesInv, AgentsTyped

LEMMA AgentFits == ASSUME RolesInv, NEW t \in Tasks, Agent(t) PROVE RolesInv'
BY LookersFit, BrowserFits, ResearchFits, VisionFits, CodingFits, OfficeFits, KeeplessFit DEF Agent

-----------------------------------------------------------------------------
(* The documents of the business agent *)

\* A sheet's or a general document's call holds a list with its own goal.
Owned(t) == /\ pending[t] = NewList(t)
            /\ contents[NewList(t)] = t

DocumentsInv ==
  /\ goal \in [Tasks -> Requests]
  /\ DOMAIN template = Templates /\ DOMAIN contents = Lists
  /\ DOMAIN pending = Tasks /\ DOMAIN handed = Tasks
  /\ \A d \in Words \cup {"report"} : template[d] = OwnList(d)
  /\ contents[OwnList("report")] = Nothing
  /\ \A t \in Tasks : pending[t] # Nothing =>
       /\ goal[t] # "records"
       /\ goal[t] \in Sheets \cup {"other"} => Owned(t)
       /\ goal[t] = "report" => pending[t] = OwnList("report")
  /\ CallsKeepTheirGoal

LEMMA DocumentsInit == Init => DocumentsInv
BY DEF Init, DocumentsInv, CallsKeepTheirGoal, Templates, Lists, Words

\* No two lists are one: a call's is not a template's, nor another task's.
LEMMA ListsDiffer ==
  /\ \A t \in Tasks, d \in Templates : NewList(t) # OwnList(d)
  /\ \A t, u \in Tasks : NewList(t) = NewList(u) => t = u
  /\ \A d, e \in Templates : OwnList(d) = OwnList(e) => d = e
  /\ \A t \in Tasks : NewList(t) \in Lists
  /\ \A d \in Templates : OwnList(d) \in Lists
BY DEF NewList, OwnList, Lists

\* Filling in leaves the calls of the other tasks what they hold, the texts' apart.
LEMMA FillingIn ==
  ASSUME DocumentsInv, NEW t \in Tasks, FillsIn(t)
  PROVE  /\ DOMAIN template' = Templates /\ DOMAIN contents' = Lists
         /\ \A d \in Words \cup {"report"} : template'[d] = OwnList(d)
         /\ contents'[OwnList("report")] = Nothing
         /\ \A u \in Tasks \ {t} : contents'[NewList(u)] = contents[NewList(u)]
         /\ goal[t] \in Sheets \cup {"other"} => contents'[NewList(t)] = t
         /\ goal[t] \in Sheets => template'[goal[t]] = NewList(t)
<1>. USE ListsDiffer
<1>1. CASE goal[t] \in Words /\ WritesInto(t)
  <2>1. template[goal[t]] = OwnList(goal[t]) /\ goal[t] \in Templates /\ goal[t] # "report"
    BY <1>1 DEF DocumentsInv, Words, Templates
  <2>2. contents' = [contents EXCEPT ![OwnList(goal[t])] = t] /\ template' = template
    BY <1>1, <2>1 DEF WritesInto
  <2>3. "report" \in Templates /\ goal[t] \notin Sheets \cup {"other"}
    BY <1>1 DEF Templates, Words, Sheets
  <2>. QED  BY <2>1, <2>2, <2>3 DEF DocumentsInv
<1>2. CASE goal[t] \in Sheets /\ Replaces(t)
  <2>1. goal[t] \in Templates /\ goal[t] \notin Words \cup {"report"} /\ "report" \in Templates
    BY <1>2 DEF Words, Sheets, Templates
  <2>. QED  BY <1>2, <2>1 DEF DocumentsInv, Replaces
<1>3. CASE goal[t] = "other" /\ WritesOwn(t)
  <2>1. "report" \in Templates /\ goal[t] \notin Sheets
    BY <1>3 DEF Templates, Sheets
  <2>. QED  BY <1>3, <2>1 DEF DocumentsInv, WritesOwn
<1>4. CASE goal[t] = "report" /\ UNCHANGED <<template, contents>>
  BY <1>4 DEF DocumentsInv, Sheets
<1>. QED  BY <1>1, <1>2, <1>3, <1>4 DEF FillsIn

\* A proposed call holds the list its goal was filled into.
LEMMA ProposesInv ==
  ASSUME DocumentsInv, NEW t \in Tasks, ProposesDocument(t)
  PROVE  DocumentsInv'
<1>1. goal' = goal /\ handed' = handed /\ FillsIn(t) /\ goal[t] # "records"
  BY DEF ProposesDocument, Proposes, ProposesLook
<1>2. pending' = [pending EXCEPT ![t] = IF goal[t] = "other" THEN NewList(t) ELSE template'[goal[t]]]
  BY DEF ProposesDocument
<1>3. \A u \in Tasks \ {t} : pending'[u] = pending[u] /\ contents'[NewList(u)] = contents[NewList(u)]
  BY <1>1, <1>2, FillingIn DEF DocumentsInv
<1>4. ASSUME goal[t] \in Sheets \cup {"other"} PROVE Owned(t)'
  BY <1>1, <1>2, <1>4, FillingIn DEF DocumentsInv, Owned, NewList, Sheets
<1>5. ASSUME goal[t] = "report" PROVE pending'[t] = OwnList("report")
  BY <1>1, <1>2, <1>5, FillingIn DEF DocumentsInv
<1>6. \A u \in Tasks : pending'[u] # Nothing =>
        /\ goal'[u] # "records"
        /\ goal'[u] \in Sheets \cup {"other"} => Owned(u)'
        /\ goal'[u] = "report" => pending'[u] = OwnList("report")
  BY <1>1, <1>3, <1>4, <1>5 DEF DocumentsInv, Owned, NewList
<1>7. CallsKeepTheirGoal'
  BY <1>1 DEF DocumentsInv, CallsKeepTheirGoal
<1>8. DOMAIN pending' = Tasks
  BY <1>2 DEF DocumentsInv
<1>9. \A d \in Words \cup {"report"} : template'[d] = OwnList(d)'
  BY <1>1, FillingIn DEF OwnList
<1>10. contents'[OwnList("report")'] = Nothing /\ DOMAIN template' = Templates /\ DOMAIN contents' = Lists
  BY <1>1, FillingIn DEF OwnList
<1>. QED  BY <1>1, <1>6, <1>7, <1>8, <1>9, <1>10 DEF DocumentsInv, OwnList

LEMMA AgentDocuments == ASSUME DocumentsInv, NEW t \in Tasks, Agent(t) PROVE DocumentsInv'
<1>1. CASE ProposesDocument(t)
  BY <1>1, ProposesInv
<1>2. CASE ~ProposesDocument(t)
  <2>1. UNCHANGED documentVars
    BY <1>2 DEF Agent, FileAgent, AutomationAgent, BrowserAgent, ResearchAgent, VisionAgent,
                CodingAgent, OfficeAgent, BusinessAgent, MemoryAgent
  <2>2. goal' = goal
    BY DEF Agent, FileAgent, AutomationAgent, BrowserAgent, ResearchAgent, VisionAgent, CodingAgent,
           OfficeAgent, BusinessAgent, MemoryAgent, Looks, Decides, Visits, Uses, Talks,
           Captures, Interprets, Generates, ProposesDocument, Proposes, ProposesLook, ProposesAct,
           SaysDone, Raises
  <2>. QED  BY <2>1, <2>2 DEF documentVars, DocumentsInv, CallsKeepTheirGoal, Owned
<1>. QED  BY <1>1, <1>2

\* What the tool finds is its own task's, unless it is one of the texts.
LEMMA OfficeDocuments ==
  ASSUME DocumentsInv, NEW t \in Tasks, OfficeExecutes(t)
  PROVE  DocumentsInv'
<1>1. pending[t] # Nothing /\ goal' = goal /\ UNCHANGED <<template, contents>>
  BY DEF OfficeExecutes, agentVars
<1>2. goal[t] \notin Words => contents[pending[t]] \in {Nothing, t}
  BY <1>1 DEF DocumentsInv, Owned, Requests, Templates
<1>3. handed' = [handed EXCEPT ![t] = contents[pending[t]]] /\ pending' = [pending EXCEPT ![t] = Nothing]
  BY DEF OfficeExecutes
<1>. QED  BY <1>1, <1>2, <1>3 DEF DocumentsInv, CallsKeepTheirGoal, Owned

-----------------------------------------------------------------------------
(* The specification *)

AgentsInv == BrowserInv /\ RolesInv /\ DocumentsInv

\* Of the browser an agent only begins a call.
LEMMA AgentBrowses ==
  ASSUME NEW t \in Tasks, Agent(t)
  PROVE  UNCHANGED browserVars \/ \E tool \in Reading \cup Acting : Executes(t, tool)
BY DEF Agent, FileAgent, AutomationAgent, BrowserAgent, ResearchAgent, VisionAgent, CodingAgent,
       OfficeAgent, BusinessAgent, MemoryAgent, Looks, Decides, Visits, Uses, Talks, Captures,
       Interprets, Generates, ProposesDocument, Proposes, SaysDone, Raises, Reading

LEMMA Stutters ==
  /\ BrowserInv /\ UNCHANGED browserVars => BrowserInv'
  /\ RolesInv /\ UNCHANGED agentVars => RolesInv'
  /\ DocumentsInv /\ UNCHANGED <<agentVars, documentVars>> => DocumentsInv'
<1>1. BrowserInv /\ UNCHANGED browserVars => BrowserInv'
  BY DEF BrowserInv, BrowserTyped, Untroubled, OneLaunch, OneBrowser, Finished, AllFree, Free,
         Launching, Page, browserVars
<1>2. RolesInv /\ UNCHANGED agentVars => RolesInv'
  BY DEF RolesInv, AgentsTyped, Fits, Decided, Searched, Counted, Seen, Written, OpensOnce, agentVars
<1>3. DocumentsInv /\ UNCHANGED <<agentVars, documentVars>> => DocumentsInv'
  BY DEF DocumentsInv, CallsKeepTheirGoal, Owned, agentVars, documentVars
<1>. QED  BY <1>1, <1>2, <1>3

LEMMA AgentsStep == AgentsInv /\ [Next]_vars => AgentsInv'
<1>. SUFFICES ASSUME AgentsInv, [Next]_vars PROVE AgentsInv'
  OBVIOUS
<1>. USE DEF AgentsInv
<1>1. ASSUME NEW t \in Tasks, Agent(t) PROVE AgentsInv'
  BY <1>1, AgentBrowses, ExecutesInv, AgentFits, AgentDocuments, Stutters
<1>2. ASSUME NEW t \in Tasks, OfficeExecutes(t) PROVE AgentsInv'
  BY <1>2, OfficeDocuments, Stutters DEF OfficeExecutes
<1>3. ASSUME NEW t \in Tasks, Browses(t), UNCHANGED <<agentVars, documentVars>> PROVE AgentsInv'
  BY <1>3, LaunchInv, WorkInv, Stutters DEF Browses
<1>4. CASE Closes /\ UNCHANGED <<agentVars, documentVars>>
  BY <1>4, ClosesInv, Stutters
<1>5. CASE UNCHANGED vars
  BY <1>5, Stutters DEF vars
<1>. QED  BY <1>1, <1>2, <1>3, <1>4, <1>5 DEF Next

LEMMA AgentsInvariant == Spec => []AgentsInv
<1>1. Init => AgentsInv
  BY BrowserInit, RolesInit, DocumentsInit DEF AgentsInv
<1>. QED  BY <1>1, AgentsStep, PTL DEF Spec

-----------------------------------------------------------------------------
\* After the shutdown a browser is left only if two launches overlapped or one
\* failed, for any number of tasks.
THEOREM BrowserIsClosed == Spec => []BrowserLostOnlyInTrouble
<1>1. AgentsInv => BrowserLostOnlyInTrouble
  BY DEF AgentsInv, BrowserInv, Finished, BrowserLostOnlyInTrouble
<1>. QED  BY <1>1, AgentsInvariant, PTL

\* No agent proposes to act before it has proposed to look.
THEOREM LookingComesFirst == Spec => []LooksBeforeActs
<1>1. AgentsInv => LooksBeforeActs
  BY DEF AgentsInv, RolesInv, Fits, LooksBeforeActs
<1>. QED  BY <1>1, AgentsInvariant, PTL

\* Six roles end at their budget of steps or looks, whatever the model answers.
THEOREM BudgetsEndRoles == Spec => []DoneInTime
<1>1. AgentsInv => DoneInTime
  <2>. SUFFICES ASSUME AgentsInv, NEW t \in Tasks, ~done[t],
                       role[t] \notin {"research", "coding", "business"}
                PROVE  ~(calls[t] >= Limit(role[t]))
    BY DEF DoneInTime
  <2>1. /\ role[t] \in Roles /\ Fits(t) /\ calls[t] \in Nat
        /\ pad[t].phase \in Phases /\ pad[t].count \in Nat
    BY DEF AgentsInv, RolesInv, AgentsTyped
  <2>2. CASE role[t] \in {"file", "automation"}
    BY <2>1, <2>2, AgentsAssumption DEF Fits, Decided, Limit, FirstPhase
  <2>3. CASE role[t] = "browser"
    BY <2>1, <2>3, AgentsAssumption DEF Fits, Counted, Limit
  <2>4. CASE role[t] = "vision"
    BY <2>1, <2>4, AgentsAssumption DEF Fits, Seen, Limit
  <2>5. CASE role[t] \in {"office", "memory"}
    BY <2>1, <2>5 DEF Fits, OpensOnce, Limit
  <2>. QED  BY <2>1, <2>2, <2>3, <2>4, <2>5 DEF Roles
<1>. QED  BY <1>1, AgentsInvariant, PTL

\* The call of a sheet or a general document is executed with its own goal, for
\* any number of tasks that fill in the same template between its proposal and
\* its execution.
THEOREM GoalsAreKept == Spec => []CallsKeepTheirGoal
<1>1. AgentsInv => CallsKeepTheirGoal
  BY DEF AgentsInv, DocumentsInv
<1>. QED  BY <1>1, AgentsInvariant, PTL
=============================================================================
