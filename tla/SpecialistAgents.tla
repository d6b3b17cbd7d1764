-------------------------- MODULE SpecialistAgents --------------------------
(***************************************************************************)
(* The specialist agents (agents/): state machines an orchestrator calls   *)
(* once per step, that keep their phase and their counter in the task's    *)
(* scratchpad and propose at most one tool call.  The model's answer is    *)
(* any verb.  A task works with one role (roles do not read each other's   *)
(* keys), several tasks run at once; the browser and the business agent's  *)
(* templates are what they share.  The outcome of a tool never reaches the *)
(* scratchpad, so tools other than the browser's and the business agent's  *)
(* are over when they are proposed.                                        *)
(***************************************************************************)
EXTENDS BrowserSession

CONSTANTS
  MaxSteps,    \* max_steps of the file, automation and browser agents
  MaxLooks,    \* max_looks of the vision agent
  MaxCalls     \* bound: calls of one task's agent, and rounds it counts

ASSUME AgentsAssumption == MaxSteps \in Nat \ {0} /\ MaxLooks \in Nat \ {0} /\ MaxCalls \in Nat

Roles == {"file", "automation", "browser", "research", "vision", "coding", "office",
          "business", "memory"}

\* What a goal asks of the business agent.
Words     == {"quotation", "invoice", "purchase_order"}
Sheets    == {"boq", "estimation"}
Templates == Words \cup Sheets \cup {"report"}
Requests  == Templates \cup {"other", "records"}

\* The lists a document's arguments hold: the template's own, and those a call
\* made.  (A task makes its lists for one goal: its own.)
OwnList(d)  == <<"template", d>>
NewList(t)  == <<"call", t>>
Lists       == {OwnList(d) : d \in Templates} \cup {NewList(t) : t \in Tasks}

VARIABLES
  role,        \* per task: the agent that works for it
  goal,        \* per task: what its goal asks of the business agent
  pad,         \* per task: phase and counter in the scratchpad
  calls,       \* per task: calls of its agent that returned
  done,        \* per task: its agent has said done
  looked,      \* history variable, per task: it has proposed to look
  acted,       \* history variable, per task: it has proposed to act
  template,    \* per business document: the list its shared arguments hold
  contents,    \* per list: whose goal was written into it last
  pending,     \* per task: the list in the arguments of its call yet to execute
  handed       \* history variable, per task: whose goal its tool found there

agentVars == <<role, goal, pad, calls, done, looked, acted>>
documentVars == <<template, contents, pending, handed>>
vars == <<browserVars, agentVars, documentVars>>

FirstPhase(r) ==
  CASE r = "file" -> "explore" [] r = "automation" -> "observe" [] r = "vision" -> "capture"
    [] r = "coding" -> "generate" [] OTHER -> "start"

Init ==
  /\ InitBrowser
  /\ role \in [Tasks -> Roles]
  /\ goal \in [Tasks -> Requests]
  /\ \A t \in Tasks : role[t] # "business" => goal[t] = "other"
  /\ pad = [t \in Tasks |-> [phase |-> FirstPhase(role[t]), count |-> 0]]
  /\ calls = [t \in Tasks |-> 0]
  /\ done = [t \in Tasks |-> FALSE]
  /\ looked = [t \in Tasks |-> FALSE]
  /\ acted = [t \in Tasks |-> FALSE]
  /\ template = [d \in Templates |-> OwnList(d)]
  /\ contents = [l \in Lists |-> Nothing]
  /\ pending = [t \in Tasks |-> Nothing]
  /\ handed = [t \in Tasks |-> Nothing]

-----------------------------------------------------------------------------
(* What a call of an agent may come to *)

Called(t, r) ==
  /\ role[t] = r /\ ~done[t] /\ ~closed
  /\ calls[t] < MaxCalls /\ pad[t].count < MaxCalls
  /\ Free(t) /\ pending[t] = Nothing

Notes(t, phase, count) == pad' = [pad EXCEPT ![t] = [phase |-> phase, count |-> count]]
Counts(t)  == Notes(t, pad[t].phase, pad[t].count + 1)
Returns(t) == calls' = [calls EXCEPT ![t] = @ + 1]

\* A message without a call: the step is over, the agent is not.
Talks(t) == Returns(t) /\ UNCHANGED <<role, goal, done, looked, acted, browserVars>>

\* A call that reads only, and one that does not.
ProposesLook(t) ==
  /\ Returns(t) /\ looked' = [looked EXCEPT ![t] = TRUE]
  /\ UNCHANGED <<role, goal, done, acted>>
ProposesAct(t) ==
  /\ Returns(t) /\ acted' = [acted EXCEPT ![t] = TRUE]
  /\ UNCHANGED <<role, goal, done, looked>>
Proposes(t, reads) == (IF reads THEN ProposesLook(t) ELSE ProposesAct(t)) /\ UNCHANGED browserVars

SaysDone(t) ==
  /\ Returns(t) /\ done' = [done EXCEPT ![t] = TRUE]
  /\ UNCHANGED <<role, goal, looked, acted, browserVars>>

\* The model raised, and so does the agent; what the scratchpad has it keeps.
Raises(t) == UNCHANGED <<role, goal, calls, done, looked, acted, browserVars>>

-----------------------------------------------------------------------------
(* The file and the automation agent: look, then decide up to the budget.  *)

Looks(t) == Notes(t, "decide", pad[t].count + 1) /\ Proposes(t, TRUE)

\* Mutant: the budget is counted one short.
OverBudgetLate(t) == pad[t].count > MaxSteps

OverBudget(t) == pad[t].count >= MaxSteps

\* _decide: an answer that is no verb falls back to "done".
Decides(t) ==
  /\ Counts(t)
  /\ \/ \E reads \in BOOLEAN : Proposes(t, reads)
     \/ SaysDone(t)
     \/ Raises(t)

FileAgent(t) ==
  /\ Called(t, "file")
  /\ \/ pad[t].phase = "explore" /\ Looks(t)
     \/ pad[t].phase = "decide" /\ OverBudget(t) /\ SaysDone(t) /\ UNCHANGED pad
     \/ pad[t].phase = "decide" /\ ~OverBudget(t) /\ Decides(t)
  /\ UNCHANGED documentVars

\* Arguments that are no numbers raise like the model does.
AutomationAgent(t) ==
  /\ Called(t, "automation")
  /\ \/ pad[t].phase = "observe" /\ Looks(t)
     \/ pad[t].phase = "decide" /\ OverBudget(t) /\ SaysDone(t) /\ UNCHANGED pad
     \/ pad[t].phase = "decide" /\ ~OverBudget(t) /\ Decides(t)
  /\ UNCHANGED documentVars

-----------------------------------------------------------------------------
(* The browser and the research agent: search, then what the model says.   *)

\* SEARCH, FETCH and EXTRACT need no approval; CLICK may be refused.
Visits(t) == ProposesLook(t) /\ Executes(t, "read")
Uses(t) ==
  /\ ProposesAct(t)
  /\ (\E tool \in Acting : Executes(t, tool)) \/ UNCHANGED browserVars

\* The round is counted before anything else.
BrowserAgent(t) ==
  /\ Called(t, "browser")
  /\ Counts(t)
  /\ \/ pad[t].count = 0 /\ Visits(t)
     \/ pad[t].count > 0 /\ OverBudget(t) /\ SaysDone(t)
     \/ pad[t].count > 0 /\ ~OverBudget(t) /\ (Visits(t) \/ Uses(t) \/ SaysDone(t) \/ Raises(t))
  /\ UNCHANGED documentVars

\* Only an answer that cannot be parsed ends the research at its cap.
ResearchAgent(t) ==
  /\ Called(t, "research")
  /\ Counts(t)
  /\ \/ pad[t].count = 0 /\ Visits(t)
     \/ /\ pad[t].count > 0
        /\ \/ Visits(t)
           \/ SaysDone(t)
           \/ ~OverBudget(t) /\ Talks(t)
           \/ Raises(t)
  /\ UNCHANGED documentVars

-----------------------------------------------------------------------------
(* The vision, the coding, the office and the memory agent *)

Captures(t)   == Notes(t, "interpret", pad[t].count + 1) /\ Proposes(t, TRUE)

\* LOOK proposes a reading of its own and goes back to the capture, which
\* proposes another; only captures are counted.
Interprets(t) ==
  \/ pad[t].count < MaxLooks /\ Notes(t, "capture", pad[t].count) /\ Proposes(t, TRUE)
  \/ SaysDone(t) /\ UNCHANGED pad
  \/ Raises(t) /\ UNCHANGED pad

VisionAgent(t) ==
  /\ Called(t, "vision")
  /\ \/ pad[t].phase = "capture" /\ Captures(t)
     \/ pad[t].phase = "interpret" /\ Interprets(t)
  /\ UNCHANGED documentVars

\* Mutant: the phase is advanced before the model is asked for the code.
GeneratesEagerly(t) ==
  /\ Notes(t, "run", pad[t].count)
  /\ Proposes(t, TRUE) \/ Raises(t)

\* file.write of the script: what the agent has to do before it runs it.
Generates(t) ==
  \/ Notes(t, "run", pad[t].count) /\ Proposes(t, TRUE)
  \/ Raises(t) /\ UNCHANGED pad

\* Nothing takes the agent from "run" to the phases "fix" and "done".
CodingAgent(t) ==
  /\ Called(t, "coding")
  /\ \/ pad[t].phase = "generate" /\ Generates(t)
     \/ pad[t].phase = "run" /\ Proposes(t, FALSE) /\ UNCHANGED pad
  /\ UNCHANGED documentVars

\* office_done is set with the proposal, whatever becomes of it.
OfficeAgent(t) ==
  /\ Called(t, "office")
  /\ \/ pad[t].phase = "start" /\ Notes(t, "office_done", 0) /\ Proposes(t, TRUE)
     \/ pad[t].phase = "start" /\ Raises(t) /\ UNCHANGED pad
     \/ pad[t].phase = "office_done" /\ SaysDone(t) /\ UNCHANGED pad
  /\ UNCHANGED documentVars

MemoryAgent(t) ==
  /\ Called(t, "memory")
  /\ SaysDone(t) \/ Raises(t)
  /\ UNCHANGED <<pad, documentVars>>

-----------------------------------------------------------------------------
(* The business agent *)

\* The goal of a text goes into the list the template holds, ...
WritesInto(t) ==
  /\ contents' = [contents EXCEPT ![template[goal[t]]] = t]
  /\ UNCHANGED template

\* ... that of a sheet into a new list, which the template holds from then on ...
Replaces(t) ==
  /\ template' = [template EXCEPT ![goal[t]] = NewList(t)]
  /\ contents' = [contents EXCEPT ![NewList(t)] = t]

\* ... and that of a document of no kind into arguments of its own.
WritesOwn(t) == contents' = [contents EXCEPT ![NewList(t)] = t] /\ UNCHANGED template

FillsIn(t) ==
  \/ goal[t] \in Words /\ WritesInto(t)
  \/ goal[t] \in Sheets /\ Replaces(t)
  \/ goal[t] = "other" /\ WritesOwn(t)
  \/ goal[t] = "report" /\ UNCHANGED <<template, contents>>

\* _doc_result: the request copies the dictionary and keeps its list; the
\* document is written later, by a thread.
ProposesDocument(t) ==
  /\ goal[t] # "records"
  /\ FillsIn(t)
  /\ pending' = [pending EXCEPT ![t] = IF goal[t] = "other" THEN NewList(t)
                                       ELSE template'[goal[t]]]
  /\ Proposes(t, TRUE)
  /\ UNCHANGED <<pad, handed>>

\* Customers, vendors, the summary: a call of the repository that never raises.
BusinessAgent(t) ==
  /\ Called(t, "business")
  /\ \/ ProposesDocument(t)
     \/ goal[t] = "records" /\ SaysDone(t) /\ UNCHANGED <<pad, documentVars>>

\* The tool finds in the list what was written into it last, and refuses a call
\* that names no path.
OfficeExecutes(t) ==
  /\ pending[t] # Nothing
  /\ handed' = [handed EXCEPT ![t] = contents[pending[t]]]
  /\ pending' = [pending EXCEPT ![t] = Nothing]
  /\ UNCHANGED <<browserVars, agentVars, template, contents>>

-----------------------------------------------------------------------------
(* The specification *)

Agent(t) ==
  \/ FileAgent(t) \/ AutomationAgent(t)
  \/ BrowserAgent(t) \/ ResearchAgent(t)
  \/ VisionAgent(t) \/ CodingAgent(t) \/ OfficeAgent(t)
  \/ BusinessAgent(t) \/ MemoryAgent(t)

Next ==
  \/ \E t \in Tasks : Agent(t) \/ OfficeExecutes(t)
  \/ (\E t \in Tasks : Browses(t)) /\ UNCHANGED <<agentVars, documentVars>>
  \/ Closes /\ UNCHANGED <<agentVars, documentVars>>

Spec == Init /\ [][Next]_vars

-----------------------------------------------------------------------------
(* Properties *)

\* No agent proposes to act before it has proposed to look: to list the files
\* or the windows, to search, to write the script it runs.  (A phase advanced
\* on a path that proposed nothing.)
LooksBeforeActs == \A t \in Tasks : acted[t] => looked[t]

\* The calls after which each role has said done, whatever the model answers.
\* A vision agent is called twice for every look it counts.
Limit(r) ==
  CASE r \in {"file", "automation", "browser"} -> MaxSteps + 1
    [] r = "vision" -> 2 * MaxLooks
    [] r = "office" -> 2
    [] r = "memory" -> 1
    [] OTHER -> MaxCalls

\* Six roles end by themselves, at their budget and not one call later; the
\* research, the coding and the business agent rely on the task's budget.
DoneInTime ==
  \A t \in Tasks : role[t] \notin {"research", "coding", "business"} /\ calls[t] >= Limit(role[t])
                     => done[t]

\* The call of a sheet or a general document is executed with the goal of its
\* own task, also when another task has proposed the same kind in between: the
\* template goes on to the rows of the other, the call keeps its own.
CallsKeepTheirGoal ==
  \A t \in Tasks : goal[t] \notin Words /\ handed[t] # Nothing => handed[t] = t
=============================================================================
