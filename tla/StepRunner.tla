----------------------------- MODULE StepRunner -----------------------------
(***************************************************************************)
(* The node bodies the linear runner and the graph share                   *)
(* (orchestration/runner.py): planning, one plan step, and the tool call a *)
(* step may make, over the mutable OrchestratorState of ONE task.          *)
(*                                                                         *)
(* An action is the code between two awaits.  pc says where the coroutine  *)
(* is suspended; "planned", "stepped" and "raised" hand control back to    *)
(* the module that owns the control flow (Orchestrator, GraphOrchestrator).*)
(***************************************************************************)
EXTENDS ApprovalGate, PlanParsing, SequencesExt

CONSTANTS
  RegisteredTools,   \* names the ToolRegistry resolves
  ToolRoles,         \* roles whose agents propose tool calls
  Pools,             \* the agent pools a task may start with: sets of roles
  Responses,         \* model answers to the planning prompt
  Budgets,           \* values of max_orchestrator_iterations
  MaxAttempts,       \* PlannerAgent.max_attempts
  NoCall             \* no tool call in flight

ASSUME RunnerAssumption ==
  /\ RegisteredTools \subseteq Tools
  /\ ToolRoles \subseteq Roles
  /\ Pools \subseteq SUBSET Roles
  /\ Responses \subseteq Response
  /\ Budgets \subseteq Nat
  /\ MaxAttempts \in Nat \ {0}
  /\ NoCall \notin Calls

VARIABLES
  settings,    \* the cached Settings: approval level, environment, budget
  agents,      \* roles registered in the pool
  pc,          \* where the coroutine is suspended
  status,      \* TaskStatus
  error,       \* what state.error says, "none" while it is None
  plan,        \* the steps; <<>> while state.plan is None
  step,        \* index of the step being executed
  iterations,
  attempts,    \* planning prompts answered in this planner run
  call,        \* the call whose tool is running
  stop,        \* what _execute_one_step returned
  spoken,      \* state.history is not empty
  events,      \* the audit trail
  results,     \* tool_results: the call and whether it was ok
  started      \* history variable: every tool.execute entered, in order

taskVars == <<status, error, plan, step, iterations, attempts, call, stop,
              spoken, events, results, started>>
envVars  == <<settings, agents>>

Settings == [level : Levels, env : Envs, budget : Budgets]
Statuses == {"pending", "planning", "awaiting_approval", "running", "completed", "failed"}
Errors   == {"none", "raised", "budget", "denied", "unknown_tool", "review"}
Kinds    == {"task_started", "plan_synthesised", "plan_created", "budget_exceeded",
             "step_skipped", "tool_call", "tool_result", "paused_for_approval",
             "step_done", "task_completed", "task_failed", "review", "step_failed_review"}

\* An event: its kind, the call it is about, and the gate's or reviewer's verdict.
Event(kind)         == [kind |-> kind, call |-> NoCall, verdict |-> "none"]
CallEvent(c, v)     == [kind |-> "tool_call", call |-> c, verdict |-> v]
ResultEvent(c)      == [kind |-> "tool_result", call |-> c, verdict |-> "none"]
Verdicts            == Decisions \cup {"pass", "fail", "replan", "none"}
EventSet            == [kind : Kinds, call : Calls \cup {NoCall}, verdict : Verdicts]

\* Mutant: the guardrail trips one iteration late.
OverBudgetLate == iterations > settings.budget

OverBudget == iterations >= settings.budget
Done(i)    == [plan EXCEPT ![i].done = TRUE]
AllDone    == \A i \in DOMAIN plan : plan[i].done

\* The state a run starts from, before its first line has executed.
InitTask ==
  /\ settings \in Settings
  /\ agents \in Pools
  /\ pc = "start"
  /\ status = "pending" /\ error = "none" /\ plan = <<>> /\ step = 1
  /\ iterations = 0 /\ attempts = 0 /\ call = NoCall /\ stop = FALSE
  /\ spoken = FALSE /\ events = <<>> /\ results = <<>> /\ started = <<>>

-----------------------------------------------------------------------------
(* _plan *)

\* No planner in the pool: a single step for the office agent.
PlanSynthesise ==
  /\ pc = "plan" /\ "planner" \notin agents
  /\ plan' = SingleStep
  /\ events' = Append(events, Event("plan_synthesised"))
  /\ pc' = "planned"
  /\ UNCHANGED <<envVars, status, error, step, iterations, attempts, call, stop,
                 spoken, results, started>>

\* The message the planner returned is parsed again; the parse may raise after
\* the message has entered the history.
Receive(message) ==
  /\ spoken' = TRUE /\ attempts' = 0
  /\ \/ /\ RunnerRaises(message)
        /\ pc' = "raised"
        /\ UNCHANGED <<plan, events>>
     \/ /\ ~ RunnerRaises(message)
        /\ plan' = RunnerPlan(message)
        /\ events' = Append(events, Event("plan_created"))
        /\ pc' = "planned"
  /\ UNCHANGED <<envVars, status, error, step, iterations, call, stop, results, started>>

\* The model answered with a plan the planner takes.
PlannerSucceeds ==
  /\ pc = "plan" /\ "planner" \in agents
  /\ \E r \in Responses : PlannerAccepts(r) /\ Receive(r)

\* An unusable answer, with an attempt left: the model is asked again.
PlannerRetries ==
  /\ pc = "plan" /\ "planner" \in agents
  /\ \E r \in Responses : ~ PlannerAccepts(r)
  /\ attempts + 1 < MaxAttempts
  /\ attempts' = attempts + 1
  /\ UNCHANGED <<envVars, pc, status, error, plan, step, iterations, call, stop,
                 spoken, events, results, started>>

\* The last answer was unusable too: the planner sends its single-step plan.
PlannerFallsBack ==
  /\ pc = "plan" /\ "planner" \in agents
  /\ \E r \in Responses : ~ PlannerAccepts(r)
  /\ attempts + 1 = MaxAttempts
  /\ Receive(FallbackMessage)

\* The memory recall or the model call raises.
PlannerRaises ==
  /\ pc = "plan" /\ "planner" \in agents
  /\ pc' = "raised" /\ attempts' = 0
  /\ UNCHANGED <<envVars, status, error, plan, step, iterations, call, stop,
                 spoken, events, results, started>>

Plan == PlanSynthesise \/ PlannerSucceeds \/ PlannerRetries \/ PlannerFallsBack \/ PlannerRaises

-----------------------------------------------------------------------------
(* _execute_one_step *)

\* Whatever the status was, it is RUNNING from here on.
StepOverBudget(i) ==
  /\ OverBudget
  /\ status' = "failed" /\ error' = "budget" /\ step' = i /\ stop' = TRUE
  /\ events' = Append(events, Event("budget_exceeded"))
  /\ pc' = "stepped"
  /\ UNCHANGED <<envVars, plan, iterations, attempts, call, spoken, results, started>>

\* No agent for the step's role: the step counts as done.
SkipStep(i) ==
  /\ ~ OverBudget /\ plan[i].role \notin agents
  /\ status' = "running" /\ step' = i /\ stop' = FALSE
  /\ iterations' = iterations + 1
  /\ plan' = Done(i)
  /\ events' = Append(events, Event("step_skipped"))
  /\ pc' = "stepped"
  /\ UNCHANGED <<envVars, error, attempts, call, spoken, results, started>>

Dispatch(i) ==
  /\ ~ OverBudget /\ plan[i].role \in agents
  /\ status' = "running" /\ step' = i
  /\ iterations' = iterations + 1
  /\ pc' = "agent"
  /\ UNCHANGED <<envVars, error, plan, attempts, call, stop, spoken, events, results, started>>

BeginStep(i) == StepOverBudget(i) \/ SkipStep(i) \/ Dispatch(i)

\* Recall, the agent, or the tool raises: the step stays open.
StepRaises ==
  /\ pc \in {"agent", "tool"}
  /\ pc' = "raised" /\ call' = NoCall
  /\ UNCHANGED <<envVars, status, error, plan, step, iterations, attempts, stop,
                 spoken, events, results, started>>

\* The step is over, after the events of its tool call if it made one.
FinishStep(trail) ==
  /\ plan' = Done(step) /\ stop' = FALSE
  /\ events' = Append(trail, Event("step_done"))
  /\ pc' = "stepped"

\* The agent only talks, or only signals done.
AgentSpeaks ==
  /\ pc = "agent"
  /\ spoken' \in {spoken, TRUE}
  /\ FinishStep(events)
  /\ UNCHANGED <<envVars, status, error, step, iterations, attempts, call, results, started>>

\* Mutant: the pause does not stop the loop.
GateDefersGoesOn(c) ==
  /\ Evaluate(c, settings) = "defer"
  /\ status' = "awaiting_approval"
  /\ FinishStep(Append(events, CallEvent(c, "defer")))
  /\ UNCHANGED <<error, call, started>>

GateDefers(c) ==
  /\ Evaluate(c, settings) = "defer"
  /\ status' = "awaiting_approval" /\ stop' = TRUE /\ pc' = "stepped"
  /\ events' = events \o <<CallEvent(c, "defer"), Event("paused_for_approval")>>
  /\ UNCHANGED <<error, plan, call, started>>

GateDenies(c) ==
  /\ Evaluate(c, settings) = "deny"
  /\ status' = "failed" /\ error' = "denied"
  /\ FinishStep(Append(events, CallEvent(c, "deny")))
  /\ UNCHANGED <<call, started>>

ToolUnknown(c) ==
  /\ Evaluate(c, settings) = "allow" /\ c.tool \notin RegisteredTools
  /\ status' = "failed" /\ error' = "unknown_tool"
  /\ FinishStep(Append(events, CallEvent(c, "allow")))
  /\ UNCHANGED <<call, started>>

ToolStarts(c) ==
  /\ Evaluate(c, settings) = "allow" /\ c.tool \in RegisteredTools
  /\ call' = c /\ started' = Append(started, c)
  /\ events' = Append(events, CallEvent(c, "allow"))
  /\ pc' = "tool"
  /\ UNCHANGED <<status, error, plan, stop>>

\* _handle_tool_call up to the await of tool.execute.
AgentProposes(c) ==
  /\ pc = "agent" /\ plan[step].role \in ToolRoles
  /\ spoken' \in {spoken, TRUE}
  /\ GateDenies(c) \/ GateDefers(c) \/ ToolUnknown(c) \/ ToolStarts(c)
  /\ UNCHANGED <<envVars, step, iterations, attempts, results>>

\* Mutant: only a successful result is kept.
ToolReturnsOk(ok) ==
  /\ pc = "tool"
  /\ results' = IF ok THEN Append(results, [call |-> call, ok |-> ok]) ELSE results
  /\ spoken' = (spoken \/ ~ ok)
  /\ call' = NoCall
  /\ FinishStep(Append(events, ResultEvent(call)))
  /\ UNCHANGED <<envVars, status, error, step, iterations, attempts, started>>

\* A tool that failed is reported to the agents as a message; the step is done
\* either way.
ToolReturns(ok) ==
  /\ pc = "tool"
  /\ results' = Append(results, [call |-> call, ok |-> ok])
  /\ spoken' = (spoken \/ ~ ok)
  /\ call' = NoCall
  /\ FinishStep(Append(events, ResultEvent(call)))
  /\ UNCHANGED <<envVars, status, error, step, iterations, attempts, started>>

StepBody ==
  \/ StepRaises
  \/ AgentSpeaks
  \/ \E c \in Calls : AgentProposes(c)
  \/ \E ok \in BOOLEAN : ToolReturns(ok)

-----------------------------------------------------------------------------
(* Properties of both drivers of these bodies *)

\* Types of the variables above; a running tool has its call.
FlagsTyped == stop \in BOOLEAN /\ spoken \in BOOLEAN

DataTyped ==
  /\ settings \in Settings
  /\ agents \in Pools
  /\ status \in Statuses
  /\ error \in Errors
  /\ plan \in Seq(PlanStep)
  /\ step \in Nat \ {0}
  /\ iterations \in Nat
  /\ attempts \in 0 .. MaxAttempts
  /\ call \in Calls \cup {NoCall}
  /\ events \in Seq(EventSet)
  /\ results \in Seq([call : Calls, ok : BOOLEAN])
  /\ started \in Seq(Calls)

CallTyped == pc = "tool" => call \in Calls

StepRunnerTypeOK == FlagsTyped /\ DataTyped /\ CallTyped

\* The approval policy as its settings document it, independent of the order
\* in which ApprovalGate.evaluate tests things: with approval_level "all" no
\* tool runs; a destructive or elevated call runs only when approvals are off;
\* in production only listed safe calls run besides those; and a
\* policy-elevated tool never runs under a lower claimed risk.
PolicyRespected ==
  \A c \in Range(started) :
    /\ settings.level # "all"
    /\ RiskyCall(c) => settings.level = "none"
    /\ settings.env = "prod" => SafeListed(c) \/ RiskyCall(c)
    /\ c.tool \in ElevatedTools => c.risk = "elevated"

\* Where a trail has an event of one kind and verdict about a tool it can run,
\* and whether those events tell of these calls: one event each, in their order.
Marks(trail, kind, verdict) ==
  {i \in DOMAIN trail : /\ trail[i].kind = kind /\ trail[i].verdict = verdict
                        /\ trail[i].call.tool \in RegisteredTools}

Tells(trail, kind, verdict, calls) ==
  LET marks == Marks(trail, kind, verdict)
  IN /\ Cardinality(marks) = Len(calls)
     /\ \A i \in marks : trail[i].call = calls[Cardinality({j \in marks : j <= i})]

\* "Every step audited": the trail holds every call that took effect, as an
\* allowed call before it ran and as a result after it returned, in order; a
\* call without a result is running, or it raised and ended the run.
AuditComplete ==
  LET returned == [i \in DOMAIN results |-> results[i].call]
  IN /\ Tells(events, "tool_call", "allow", started)
     /\ Tells(events, "tool_result", "none", returned)
     /\ \A i \in DOMAIN returned : i \in DOMAIN started /\ returned[i] = started[i]
     /\ Len(started) - Len(returned) \in
          (IF pc = "tool" THEN {1}
           ELSE IF pc \in {"raised", "lost"} \/ error = "raised" THEN {0, 1} ELSE {0})

\* The guardrail bounds what a task may do: a step costs an iteration, a tool
\* call costs a step, and the budget caps the iterations.
EffectsWithinBudget ==
  /\ iterations <= settings.budget
  /\ Len(started) <= iterations

\* A refused or unknown tool call fails its task: what the code sets on both
\* paths, while an unsuccessful tool is "non-fatal" (runner.py:232, 241, 257).
RefusedCallFailsTask ==
  pc = "returned" /\ error \in {"denied", "unknown_tool"} => status = "failed"

=============================================================================
