---------------------- MODULE GraphOrchestratorProofs ----------------------
(***************************************************************************)
(* Proofs about the graph orchestrator, for every pool of agents, budget,  *)
(* policy and set of tools, and for any answers of the model and verdicts  *)
(* of the reviewer.                                                        *)
(***************************************************************************)
EXTENDS GraphOrchestrator, FiniteSetTheorems, WellFoundedInduction, TLAPS

Working == PCs \ {"ended", "returned", "lost"}

Final == {"failed", "awaiting_approval", "completed"}

\* The types the proofs need.
Typed == settings \in Settings /\ iterations \in Nat /\ started \in Seq(Calls) /\ pc \in PCs

\* The iteration of a dispatched step is counted before its tool may start.
Budgeted == EffectsWithinBudget /\ (pc = "agent" => Len(started) < iterations)

\* There is a plan to walk wherever one is walked.
Planned == pc \notin {"start", "plan", "raised", "lost"} => DOMAIN plan # {}

Settled == status = "completed" => pc \in {"ended", "returned"}

\* A refused or unknown call is not forgotten on the way to END.
Refused ==
  error \in {"denied", "unknown_tool"} =>
    status = "failed" /\ pc \in {"stepped", "route", "ended", "returned"}

GraphInv == Typed /\ Budgeted /\ Planned /\ Settled /\ Refused

-----------------------------------------------------------------------------
\* What the budget sees of a step: nothing, a counted iteration, or a tool.
Counts ==
  \/ UNCHANGED <<iterations, started>> /\ pc' # "agent"
  \/ ~ OverBudget /\ iterations' = iterations + 1 /\ UNCHANGED started
  \/ /\ pc = "agent" /\ pc' = "tool" /\ iterations' = iterations
     /\ \E c \in Calls : started' = Append(started, c)

\* What every step does that stays inside the graph.
Inside ==
  /\ pc \in Working /\ pc' \in Working
  /\ settings' = settings
  /\ status' \in {status, "planning", "running", "failed", "awaiting_approval"}
  /\ Counts
  /\ Planned' /\ Refused'

\* Every plan has a step.
LEMMA PlanHasStep ==
  /\ DOMAIN SingleStep # {}
  /\ \A r \in Response : DOMAIN RunnerPlan(r) # {}
<1>1. DOMAIN SingleStep # {}
  BY DEF SingleStep
<1>2. ASSUME NEW r \in Response, r.steps # <<>> PROVE DOMAIN Coerced(r.steps) # {}
  <2>1. r.steps \in Seq(RawStep)
    BY DEF Response
  <2>2. DOMAIN r.steps # {}
    <3>. SUFFICES ASSUME NEW S, NEW s \in Seq(S), s # <<>> PROVE DOMAIN s # {}
      BY <1>2, <2>1
    <3>1. Len(s) \in Nat /\ Len(s) # 0 /\ DOMAIN s = 1 .. Len(s)
      OBVIOUS
    <3>2. 1 \in 1 .. Len(s)
      BY <3>1
    <3>. QED  BY <3>1, <3>2
  <2>. QED  BY <2>2 DEF Coerced
<1>. QED  BY <1>1, <1>2 DEF RunnerPlan

\* Marking a step done leaves the plan its steps.
LEMMA DoneHasStep == \A i : DOMAIN plan # {} => DOMAIN Done(i) # {}
BY DEF Done

LEMMA PlanInside == ASSUME GraphInv, PlanNode PROVE Inside
<1>1. pc = "plan" /\ Plan
  BY DEF PlanNode, Plan, PlanSynthesise, PlannerSucceeds, PlannerRetries, PlannerFallsBack, PlannerRaises
<1>2. error \notin {"denied", "unknown_tool"}
  BY <1>1 DEF GraphInv, Refused
<1>3. ASSUME NEW r \in Response, Receive(r) PROVE Inside
  <2>1. UNCHANGED <<envVars, status, error, iterations, started>>
    BY <1>3 DEF Receive
  <2>2. pc' \in {"raised", "planned"} /\ (pc' = "planned" => plan' = RunnerPlan(r))
    BY <1>3 DEF Receive
  <2>3. Planned'
    BY <2>2, PlanHasStep DEF Planned
  <2>. QED  BY <1>1, <1>2, <2>1, <2>2, <2>3 DEF Inside, Counts, Refused, envVars, Working, PCs
<1>4. CASE PlanSynthesise
  <2>1. Planned'
    BY <1>4, PlanHasStep DEF PlanSynthesise, Planned
  <2>. QED  BY <1>1, <1>2, <1>4, <2>1 DEF PlanSynthesise, Inside, Counts, Refused, envVars, Working, PCs
<1>5. CASE PlannerSucceeds
  BY <1>3, <1>5, RunnerAssumption DEF PlannerSucceeds
<1>6. CASE PlannerFallsBack
  <2>1. FallbackMessage \in Response
    BY RolesAssumption DEF FallbackMessage, Response, RawStep, Syntaxes
  <2>. QED  BY <1>3, <1>6, <2>1 DEF PlannerFallsBack
<1>7. CASE PlannerRetries \/ PlannerRaises
  <2>1. UNCHANGED <<envVars, status, error, iterations, started>> /\ pc' \in {"plan", "raised"}
    BY <1>1, <1>7 DEF PlannerRetries, PlannerRaises
  <2>. QED  BY <1>1, <1>2, <2>1 DEF Inside, Counts, Planned, Refused, envVars, Working, PCs
<1>. QED  BY <1>1, <1>4, <1>5, <1>6, <1>7 DEF Plan

LEMMA ExecuteInside == ASSUME GraphInv, ExecuteNode PROVE Inside
<1>1. pc = "execute" /\ BeginStep(NextStep) /\ DOMAIN plan # {}
  BY DEF ExecuteNode, GraphInv, Planned
<1>2. error \notin {"denied", "unknown_tool"}
  BY <1>1 DEF GraphInv, Refused
<1>3. ASSUME NEW i, BeginStep(i) PROVE Inside
  <2>1. CASE StepOverBudget(i)
    BY <1>1, <1>2, <2>1 DEF StepOverBudget, Inside, Counts, Planned, Refused, envVars, Working, PCs
  <2>2. CASE SkipStep(i)
    <3>1. Planned'
      BY <1>1, <2>2, DoneHasStep DEF SkipStep, Planned
    <3>. QED  BY <1>1, <1>2, <2>2, <3>1 DEF SkipStep, Inside, Counts, Refused, envVars, Working, PCs
  <2>3. CASE Dispatch(i)
    BY <1>1, <1>2, <2>3 DEF Dispatch, Inside, Counts, Planned, Refused, envVars, Working, PCs
  <2>. QED  BY <1>3, <2>1, <2>2, <2>3 DEF BeginStep
<1>. QED  BY <1>1, <1>3

LEMMA StepInside == ASSUME GraphInv, StepNode PROVE Inside
<1>1. StepBody /\ pc \in {"agent", "tool"} /\ DOMAIN plan # {}
  BY DEF StepNode, StepBody, StepRaises, AgentSpeaks, AgentProposes, ToolReturns, GraphInv, Planned
<1>2. error \notin {"denied", "unknown_tool"}
  BY <1>1 DEF GraphInv, Refused
<1>3. CASE StepRaises
  BY <1>1, <1>2, <1>3 DEF StepRaises, Inside, Counts, Planned, Refused, envVars, Working, PCs
<1>4. ASSUME NEW trail, FinishStep(trail) PROVE pc' = "stepped" /\ Planned'
  BY <1>1, <1>4, DoneHasStep DEF FinishStep, Planned
<1>5. CASE AgentSpeaks
  <2>1. FinishStep(events) /\ UNCHANGED <<envVars, status, error, iterations, started>>
    BY <1>5 DEF AgentSpeaks
  <2>2. pc' = "stepped" /\ Planned'
    BY <1>4, <2>1
  <2>. QED  BY <1>1, <1>2, <2>1, <2>2 DEF Inside, Counts, Refused, envVars, Working, PCs
<1>6. ASSUME NEW c \in Calls, AgentProposes(c) PROVE Inside
  <2>1. UNCHANGED <<envVars, iterations>> /\ pc = "agent"
    BY <1>6 DEF AgentProposes
  <2>2. CASE GateDenies(c) \/ ToolUnknown(c)
    <3>1. status' = "failed" /\ started' = started /\ \E trail : FinishStep(trail)
      BY <2>2 DEF GateDenies, ToolUnknown
    <3>2. pc' = "stepped" /\ Planned'
      BY <1>4, <3>1
    <3>. QED  BY <1>1, <2>1, <3>1, <3>2 DEF Inside, Counts, Refused, envVars, Working, PCs
  <2>3. CASE GateDefers(c)
    BY <1>1, <1>2, <2>1, <2>3 DEF GateDefers, Inside, Counts, Planned, Refused, envVars, Working, PCs
  <2>4. CASE ToolStarts(c)
    BY <1>1, <1>2, <2>1, <2>4 DEF ToolStarts, Inside, Counts, Planned, Refused, envVars, Working, PCs
  <2>. QED  BY <1>6, <2>2, <2>3, <2>4 DEF AgentProposes
<1>7. ASSUME NEW ok \in BOOLEAN, ToolReturns(ok) PROVE Inside
  <2>1. UNCHANGED <<envVars, status, error, iterations, started>> /\ \E trail : FinishStep(trail)
    BY <1>7 DEF ToolReturns
  <2>2. pc' = "stepped" /\ Planned'
    BY <1>4, <2>1
  <2>. QED  BY <1>1, <1>2, <2>1, <2>2 DEF Inside, Counts, Refused, envVars, Working, PCs
<1>. QED  BY <1>1, <1>3, <1>5, <1>6, <1>7 DEF StepBody

\* The review, and the verdicts after which the graph goes on.
LEMMA ReviewInside ==
  ASSUME GraphInv,
         \/ Start \/ ReviewSkipped \/ ReviewBegins \/ ReviewerRaises
         \/ (\E v \in {"pass", "fail", "replan"} : ReviewerReturns(v))
         \/ RouteReplans \/ RouteRetries \/ RouteContinues
  PROVE  Inside
<1>1. /\ UNCHANGED <<envVars, status, error, plan, iterations, started>>
      /\ pc \in {"start", "stepped", "review", "route"}
      /\ pc' \in {"plan", "route", "review", "raised", "execute"}
      /\ pc = "start" => pc' = "plan"
      /\ pc = "stepped" /\ pc' # "route" => status # "failed"
      /\ pc = "route" => status # "failed"
      /\ pc' = "route" => pc \in {"stepped", "review"}
  BY DEF Start, ReviewSkipped, ReviewBegins, ReviewerRaises, ReviewerReturns, RouteReplans,
     RouteRetries, RouteContinues, Graded, Halted, taskVars
<1>2. Planned'
  BY <1>1 DEF GraphInv, Planned
<1>3. Refused'
  BY <1>1 DEF GraphInv, Refused
<1>. QED  BY <1>1, <1>2, <1>3 DEF Inside, Counts, envVars, Working, PCs

-----------------------------------------------------------------------------
(* The way out of the graph *)

\* A step from a place to END, or from there to the caller, touches nothing the
\* budget sees, and no plan.
LEMMA Leaving ==
  ASSUME GraphInv,
         \/ RouteAfterPlan \/ RouteHalted \/ RouteOverBudget \/ RouteCompletes
         \/ RouteFailsAgain \/ Finish
  PROVE  /\ UNCHANGED <<envVars, plan, iterations, started, verdict>>
         /\ pc \in {"planned", "route", "ended"}
         /\ pc' \in {"execute", "ended", "returned"}
         /\ pc' = "execute" => pc = "planned" /\ status # "failed" /\ UNCHANGED <<status, error>>
         /\ pc' = "ended" <=> pc # "ended" /\ pc' # "execute"
BY DEF RouteAfterPlan, RouteHalted, RouteOverBudget, RouteCompletes, RouteFailsAgain, Finish,
   Graded, taskVars, graphVars

\* It settles the status: as it is when it is final or the budget is spent, as
\* failed by the reviewer, or as completed on a passed and finished plan.
LEMMA Settles ==
  ASSUME GraphInv,
         \/ RouteAfterPlan \/ RouteHalted \/ RouteOverBudget \/ RouteCompletes
         \/ RouteFailsAgain \/ Finish
  PROVE  Settled' /\ Refused'
<1>1. iterations' = iterations /\ settings' = settings /\ plan' = plan /\ verdict' = verdict
  BY Leaving DEF envVars
<1>2. OverBudget' = OverBudget /\ AllDone' = AllDone
  BY <1>1 DEF OverBudget, AllDone
<1>3. CASE RouteAfterPlan
  <2>1. pc = "planned" /\ plan # <<>> /\ UNCHANGED <<status, error>>
        /\ (pc' = "ended" => status = "failed") /\ pc' \in {"ended", "execute"}
    <3>1. pc = "planned" /\ UNCHANGED <<status, error>> /\ DOMAIN plan # {}
      BY <1>3 DEF RouteAfterPlan, taskVars, GraphInv, Planned
    <3>2. plan # <<>>
      BY <3>1
    <3>. QED  BY <1>3, <3>1, <3>2 DEF RouteAfterPlan
  <2>. QED  BY <2>1 DEF GraphInv, Settled, Refused, Final
<1>4. CASE RouteHalted
  <2>1. pc' = "ended" /\ pc = "route" /\ UNCHANGED <<status, error>>
        /\ status \in {"awaiting_approval", "failed"}
    BY <1>4 DEF RouteHalted, Halted, taskVars
  <2>. QED  BY <2>1 DEF GraphInv, Settled, Refused, Final
<1>5. CASE RouteOverBudget
  <2>1. pc' = "ended" /\ pc = "route" /\ UNCHANGED <<status, error>> /\ OverBudget
    BY <1>5 DEF RouteOverBudget
  <2>. QED  BY <1>2, <2>1 DEF GraphInv, Settled, Refused
<1>6. CASE RouteCompletes
  <2>1. pc' = "ended" /\ pc = "route" /\ status' = "completed" /\ error' = error
        /\ verdict = "pass" /\ AllDone /\ status # "failed"
    BY <1>6 DEF RouteCompletes, Graded, Halted
  <2>. QED  BY <1>1, <1>2, <2>1 DEF GraphInv, Settled, Refused, Final
<1>7. CASE RouteFailsAgain
  <2>1. pc' = "ended" /\ status' = "failed" /\ error' = "review"
    BY <1>7 DEF RouteFailsAgain
  <2>. QED  BY <2>1 DEF Settled, Refused, Final
<1>8. CASE Finish
  <2>1. pc = "ended" /\ pc' = "returned" /\ error' = error
        /\ status' = (IF status \in Final THEN status ELSE "completed")
    BY <1>8 DEF Finish, Final
  <2>. QED  BY <1>1, <1>2, <2>1 DEF GraphInv, Settled, Refused, Final
<1>. QED  BY <1>3, <1>4, <1>5, <1>6, <1>7, <1>8

-----------------------------------------------------------------------------
(* The invariant *)

LEMMA GraphInit == Init => GraphInv
<1>. SUFFICES ASSUME Init PROVE GraphInv
  OBVIOUS
<1>1. settings \in Settings /\ iterations = 0 /\ started = <<>> /\ pc = "start"
      /\ status = "pending" /\ error = "none"
  BY DEF Init, InitTask
<1>2. settings.budget \in Nat
  BY <1>1, RunnerAssumption DEF Settings
<1>3. Typed
  BY <1>1 DEF Typed, PCs
<1>4. Budgeted
  BY <1>1, <1>2 DEF Budgeted, EffectsWithinBudget
<1>. QED  BY <1>1, <1>3, <1>4 DEF GraphInv, Planned, Settled, Refused

\* A step inside the graph.
LEMMA InsideKeeps == ASSUME GraphInv, Inside PROVE GraphInv'
<1>1. settings.budget \in Nat /\ iterations \in Nat /\ started \in Seq(Calls) /\ Len(started) \in Nat
      /\ settings' = settings
  <2>1. settings \in Settings /\ iterations \in Nat /\ started \in Seq(Calls)
    BY DEF GraphInv, Typed
  <2>2. settings.budget \in Nat
    BY <2>1, RunnerAssumption DEF Settings
  <2>. QED  BY <2>1, <2>2 DEF Inside
<1>2. CASE UNCHANGED <<iterations, started>> /\ pc' # "agent"
  <2>1. Typed' /\ Budgeted'
    BY <1>1, <1>2 DEF Inside, GraphInv, Typed, Budgeted, EffectsWithinBudget, Working
  <2>. QED  BY <2>1 DEF Inside, GraphInv, Settled, Working
<1>3. CASE ~ OverBudget /\ iterations' = iterations + 1 /\ UNCHANGED started
  <2>1. Typed' /\ Budgeted'
    BY <1>1, <1>3 DEF Inside, GraphInv, Typed, Budgeted, EffectsWithinBudget, OverBudget, Working
  <2>. QED  BY <2>1 DEF Inside, GraphInv, Settled, Working
<1>4. ASSUME NEW c \in Calls, pc = "agent", pc' = "tool", iterations' = iterations,
             started' = Append(started, c)
      PROVE  GraphInv'
  <2>1. Len(started') = Len(started) + 1 /\ started' \in Seq(Calls)
    BY <1>1, <1>4
  <2>2. Typed' /\ Budgeted'
    BY <1>1, <1>4, <2>1 DEF Inside, GraphInv, Typed, Budgeted, EffectsWithinBudget, Working
  <2>. QED  BY <2>2 DEF Inside, GraphInv, Settled, Working
<1>. QED  BY <1>2, <1>3, <1>4 DEF Inside, Counts

\* A step is inside the graph, on its way out, or nothing.
LEMMA Where ==
  ASSUME GraphInv, [Next]_vars
  PROVE  \/ Inside
         \/ RouteAfterPlan \/ RouteHalted \/ RouteOverBudget \/ RouteCompletes
         \/ RouteFailsAgain \/ Finish
         \/ Propagate
         \/ UNCHANGED vars
BY PlanInside, ExecuteInside, StepInside, ReviewInside DEF Next, RouteAfterReview

LEMMA GraphStep == GraphInv /\ [Next]_vars => GraphInv'
<1>. SUFFICES ASSUME GraphInv, [Next]_vars PROVE GraphInv'
  OBVIOUS
<1>1. CASE Inside
  BY <1>1, InsideKeeps
<1>2. CASE \/ RouteAfterPlan \/ RouteHalted \/ RouteOverBudget \/ RouteCompletes
           \/ RouteFailsAgain \/ Finish
  <2>1. Settled' /\ Refused'
    BY <1>2, Settles
  <2>2. UNCHANGED <<settings, plan, iterations, started>> /\ pc' \in {"execute", "ended", "returned"}
        /\ pc \in {"planned", "route", "ended"}
    BY <1>2, Leaving DEF envVars
  <2>3. Typed' /\ Budgeted' /\ Planned'
    BY <2>2 DEF GraphInv, Typed, Budgeted, Planned, EffectsWithinBudget, PCs
  <2>. QED  BY <2>1, <2>3 DEF GraphInv
<1>3. CASE Propagate
  BY <1>3 DEF Propagate, taskVars, envVars, GraphInv, Typed, Budgeted, Planned, Settled,
     Refused, EffectsWithinBudget, PCs
<1>4. CASE UNCHANGED vars
  BY <1>4 DEF vars, envVars, taskVars, graphVars, GraphInv, Typed, Budgeted, Planned, Settled, Refused, EffectsWithinBudget, OverBudget, AllDone
<1>. QED  BY <1>1, <1>2, <1>3, <1>4, Where

LEMMA GraphInvariant == Spec => []GraphInv
BY GraphInit, GraphStep, PTL DEF Spec

-----------------------------------------------------------------------------
(* Types *)

\* What _parse_plan makes of any answer is a plan of known roles.
LEMMA RunnerPlanType ==
  ASSUME NEW r \in Response
  PROVE  RunnerPlan(r) \in Seq(PlanStep)
<1>1. SingleStep \in Seq(PlanStep)
  BY RolesAssumption DEF SingleStep, PlanStep
<1>2. Coerced(r.steps) \in Seq(PlanStep)
  <2>1. r.steps \in Seq(RawStep)
    BY DEF Response
  <2>2. \A i \in 1 .. Len(r.steps) : r.steps[i].role \in Roles \cup {"unknown"}
    <3>1. \A i \in 1 .. Len(r.steps) : r.steps[i] \in RawStep
      BY <2>1
    <3>. QED  BY <3>1 DEF RawStep
  <2>3. \A i \in 1 .. Len(r.steps) : CoerceRole(r.steps[i].role) \in Roles
    BY <2>2, RolesAssumption DEF CoerceRole
  <2>4. Coerced(r.steps) \in [1 .. Len(r.steps) -> PlanStep]
    BY <2>1, <2>3 DEF Coerced, PlanStep
  <2>. QED  BY <2>1, <2>4
<1>. QED  BY <1>1, <1>2 DEF RunnerPlan

\* Marking a step done keeps the plan a plan, of the same length.
LEMMA DoneType ==
  ASSUME plan \in Seq(PlanStep), NEW i \in Nat
  PROVE  Done(i) \in Seq(PlanStep) /\ Len(Done(i)) = Len(plan)
<1>1. plan \in [1 .. Len(plan) -> PlanStep]
  OBVIOUS
<1>2. i \in 1 .. Len(plan) => [plan[i] EXCEPT !.done = TRUE] \in PlanStep
  BY <1>1 DEF PlanStep
<1>3. Done(i) \in [1 .. Len(plan) -> PlanStep]
  BY <1>1, <1>2 DEF Done
<1>. QED  BY <1>3

\* The events the actions write are events.
LEMMA EventType ==
  /\ \A kind \in Kinds : Event(kind) \in EventSet
  /\ \A c \in Calls, v \in Decisions : CallEvent(c, v) \in EventSet
  /\ \A c \in Calls : ResultEvent(c) \in EventSet
BY DEF Event, CallEvent, ResultEvent, EventSet, Verdicts, Kinds

\* The step that is executed next is a step of the plan.
LEMMA NextStepType ==
  ASSUME plan \in Seq(PlanStep), DOMAIN plan # {}
  PROVE  NextStep \in DOMAIN plan /\ NextStep \in Nat \ {0}
<1>1. DOMAIN plan = 1 .. Len(plan) /\ Len(plan) \in Nat
  OBVIOUS
<1>2. CASE AllDone
  BY <1>1, <1>2 DEF NextStep
<1>3. CASE ~ AllDone
  <2>. DEFINE open == {i \in DOMAIN plan : ~ plan[i].done}
  <2>1. open # {} /\ open \subseteq Nat
    BY <1>1, <1>3 DEF AllDone
  <2>2. PICK i \in open : \A j \in open : <<j, i>> \notin OpToRel(<, Nat)
    BY <2>1, WFMin, NatLessThanWellFounded, Zenon
  <2>3. \A j \in open : ~ (j < i)
    BY <2>1, <2>2 DEF OpToRel
  <2>4. i \in DOMAIN plan /\ ~ plan[i].done /\ \A j \in 1 .. (i - 1) : plan[j].done
    BY <1>1, <2>3
  <2>5. NextStep \in DOMAIN plan
    BY <1>3, <2>4 DEF NextStep
  <2>. QED  BY <1>1, <2>5
<1>. QED  BY <1>2, <1>3

\* The type invariant without the tie between pc and the call in flight.
NodeTyped ==
  /\ FlagsTyped /\ DataTyped /\ pc \in PCs
  /\ verdict \in {"none", "pass", "fail", "replan", "finish"} /\ failures \in 0 .. 1

LEMMA TypeInit == Init => TypeOK
<1>1. Init => FlagsTyped
  BY DEF Init, InitTask, FlagsTyped
<1>2. Init => DataTyped
  BY RunnerAssumption DEF Init, InitTask, DataTyped, Statuses, Errors
<1>3. Init => pc \in PCs /\ verdict = "none" /\ failures \in 0 .. 1
  BY DEF Init, InitTask, PCs
<1>4. Init => CallTyped
  BY DEF Init, InitTask, CallTyped
<1>. QED  BY <1>1, <1>2, <1>3, <1>4 DEF TypeOK, StepRunnerTypeOK

\* Planning keeps the types.
LEMMA TypePlan == TypeOK /\ PlanNode => NodeTyped'
<1>. SUFFICES ASSUME TypeOK, PlanNode PROVE NodeTyped'
  OBVIOUS
<1>. USE DEF NodeTyped, TypeOK, StepRunnerTypeOK, PlanNode, graphVars
<1>1. CASE PlanSynthesise
  <2>1. FlagsTyped'
    BY <1>1 DEF PlanSynthesise, FlagsTyped
  <2>2. SingleStep \in Seq(PlanStep)
    BY RolesAssumption DEF SingleStep, PlanStep
  <2>3. DataTyped' /\ pc' \in PCs
    BY <1>1, <2>2, EventType DEF PlanSynthesise, DataTyped, PCs, Kinds, envVars
  <2>. QED  BY <2>1, <2>3
<1>2. ASSUME NEW message \in Response, Receive(message) PROVE NodeTyped'
  <2>1. FlagsTyped'
    BY <1>2 DEF Receive, FlagsTyped
  <2>2. RunnerPlan(message) \in Seq(PlanStep)
    BY RunnerPlanType
  <2>3. CASE RunnerRaises(message)
    <3>1. DataTyped' /\ pc' \in PCs
      BY <1>2, <2>3, RunnerAssumption DEF Receive, DataTyped, PCs, envVars
    <3>. QED  BY <2>1, <3>1
  <2>4. CASE ~ RunnerRaises(message)
    <3>1. Event("plan_created") \in EventSet
      BY EventType DEF Kinds
    <3>2. /\ plan' = RunnerPlan(message) /\ events' = Append(events, Event("plan_created"))
          /\ attempts' = 0 /\ pc' = "planned"
          /\ UNCHANGED <<envVars, status, error, step, iterations, call, results, started>>
      BY <1>2, <2>4 DEF Receive
    <3>3. DataTyped' /\ pc' \in PCs
      BY <2>2, <3>1, <3>2, RunnerAssumption DEF DataTyped, PCs, envVars
    <3>. QED  BY <2>1, <3>3
  <2>. QED  BY <2>3, <2>4
<1>3. CASE PlannerSucceeds
  BY <1>2, <1>3, RunnerAssumption DEF PlannerSucceeds
<1>4. CASE PlannerRetries
  <2>1. FlagsTyped'
    BY <1>4 DEF PlannerRetries, FlagsTyped
  <2>2. DataTyped' /\ pc' \in PCs
    BY <1>4, RunnerAssumption DEF PlannerRetries, DataTyped, envVars
  <2>. QED  BY <2>1, <2>2
<1>5. CASE PlannerFallsBack
  <2>1. FallbackMessage \in Response
    BY RolesAssumption DEF FallbackMessage, Response, RawStep, Syntaxes
  <2>. QED  BY <1>2, <1>5, <2>1 DEF PlannerFallsBack
<1>6. CASE PlannerRaises
  <2>1. FlagsTyped'
    BY <1>6 DEF PlannerRaises, FlagsTyped
  <2>2. DataTyped' /\ pc' \in PCs
    BY <1>6, RunnerAssumption DEF PlannerRaises, DataTyped, PCs, envVars
  <2>. QED  BY <2>1, <2>2
<1>. QED  BY <1>1, <1>3, <1>4, <1>5, <1>6 DEF Plan

\* The head of a step keeps the types.
LEMMA TypeBegin == TypeOK /\ Planned /\ ExecuteNode => NodeTyped'
<1>. SUFFICES ASSUME TypeOK, Planned, ExecuteNode PROVE NodeTyped'
  OBVIOUS
<1>0. NextStep \in Nat \ {0}
  BY NextStepType DEF TypeOK, StepRunnerTypeOK, DataTyped, Planned, ExecuteNode
<1>. USE DEF NodeTyped, TypeOK, StepRunnerTypeOK, ExecuteNode, graphVars
<1>1. CASE StepOverBudget(NextStep)
  <2>1. FlagsTyped'
    BY <1>1 DEF StepOverBudget, FlagsTyped
  <2>2. DataTyped' /\ pc' \in PCs
    BY <1>0, <1>1, EventType DEF StepOverBudget, DataTyped, Statuses, Errors, PCs, Kinds, envVars
  <2>. QED  BY <2>1, <2>2
<1>2. CASE SkipStep(NextStep)
  <2>1. FlagsTyped'
    BY <1>2 DEF SkipStep, FlagsTyped
  <2>2. plan' \in Seq(PlanStep)
    BY <1>0, <1>2, DoneType DEF SkipStep, DataTyped
  <2>3. DataTyped' /\ pc' \in PCs
    BY <1>0, <1>2, <2>2, EventType DEF SkipStep, DataTyped, Statuses, PCs, Kinds, envVars
  <2>. QED  BY <2>1, <2>3
<1>3. CASE Dispatch(NextStep)
  <2>1. FlagsTyped'
    BY <1>3 DEF Dispatch, FlagsTyped
  <2>2. DataTyped' /\ pc' \in PCs
    BY <1>0, <1>3 DEF Dispatch, DataTyped, Statuses, PCs, envVars
  <2>. QED  BY <2>1, <2>2
<1>. QED  BY <1>1, <1>2, <1>3 DEF BeginStep

\* What finishing a step leaves.
LEMMA FinishType ==
  ASSUME TypeOK, NEW trail \in Seq(EventSet), FinishStep(trail)
  PROVE  plan' \in Seq(PlanStep) /\ events' \in Seq(EventSet) /\ pc' \in PCs
BY DoneType, EventType DEF TypeOK, StepRunnerTypeOK, DataTyped, FinishStep, Kinds, PCs

\* The body of a step, and the tool call it may make, keeps the types.
LEMMA TypeBody == TypeOK /\ StepNode => NodeTyped'
<1>. SUFFICES ASSUME TypeOK, StepNode PROVE NodeTyped'
  OBVIOUS
<1>. USE DEF NodeTyped, TypeOK, StepRunnerTypeOK, StepNode, graphVars
<1>1. CASE StepRaises
  <2>1. FlagsTyped'
    BY <1>1 DEF StepRaises, FlagsTyped
  <2>2. DataTyped' /\ pc' \in PCs
    BY <1>1 DEF StepRaises, DataTyped, PCs, envVars
  <2>. QED  BY <2>1, <2>2
<1>2. CASE AgentSpeaks
  <2>1. FlagsTyped'
    BY <1>2 DEF AgentSpeaks, FinishStep, FlagsTyped
  <2>2. plan' \in Seq(PlanStep) /\ events' \in Seq(EventSet) /\ pc' \in PCs
    BY <1>2, FinishType DEF AgentSpeaks, DataTyped
  <2>3. DataTyped'
    BY <1>2, <2>2 DEF AgentSpeaks, DataTyped, envVars
  <2>. QED  BY <2>1, <2>2, <2>3
<1>3. ASSUME NEW c \in Calls, AgentProposes(c) PROVE NodeTyped'
  <2>1. FlagsTyped'
    BY <1>3 DEF AgentProposes, GateDenies, GateDefers, ToolUnknown, ToolStarts,
       FinishStep, FlagsTyped
  <2>2. /\ CallEvent(c, "allow") \in EventSet /\ CallEvent(c, "deny") \in EventSet
        /\ CallEvent(c, "defer") \in EventSet
    BY EventType DEF Decisions
  <2>3. CASE GateDenies(c)
    <3>0. /\ Append(events, CallEvent(c, "deny")) \in Seq(EventSet)
          /\ FinishStep(Append(events, CallEvent(c, "deny")))
      BY <2>2, <2>3 DEF GateDenies, DataTyped
    <3>1. plan' \in Seq(PlanStep) /\ events' \in Seq(EventSet) /\ pc' \in PCs
      BY <3>0, FinishType
    <3>2. DataTyped'
      BY <1>3, <2>3, <3>1 DEF AgentProposes, GateDenies, DataTyped, Statuses, Errors, envVars
    <3>. QED  BY <1>3, <2>1, <3>1, <3>2 DEF AgentProposes
  <2>4. CASE GateDefers(c)
    <3>1. events' \in Seq(EventSet)
      BY <2>2, <2>4, EventType DEF GateDefers, DataTyped, Kinds
    <3>2. DataTyped' /\ pc' \in PCs
      BY <1>3, <2>4, <3>1 DEF AgentProposes, GateDefers, DataTyped, Statuses, PCs, envVars
    <3>. QED  BY <1>3, <2>1, <3>2 DEF AgentProposes
  <2>5. CASE ToolUnknown(c)
    <3>0. /\ Append(events, CallEvent(c, "allow")) \in Seq(EventSet)
          /\ FinishStep(Append(events, CallEvent(c, "allow")))
      BY <2>2, <2>5 DEF ToolUnknown, DataTyped
    <3>1. plan' \in Seq(PlanStep) /\ events' \in Seq(EventSet) /\ pc' \in PCs
      BY <3>0, FinishType
    <3>2. DataTyped'
      BY <1>3, <2>5, <3>1 DEF AgentProposes, ToolUnknown, DataTyped, Statuses, Errors, envVars
    <3>. QED  BY <1>3, <2>1, <3>1, <3>2 DEF AgentProposes
  <2>6. CASE ToolStarts(c)
    <3>1. DataTyped' /\ pc' \in PCs
      BY <1>3, <2>2, <2>6 DEF AgentProposes, ToolStarts, DataTyped, PCs, envVars
    <3>. QED  BY <1>3, <2>1, <3>1 DEF AgentProposes
  <2>. QED  BY <1>3, <2>3, <2>4, <2>5, <2>6 DEF AgentProposes
<1>4. ASSUME NEW ok \in BOOLEAN, ToolReturns(ok) PROVE NodeTyped'
  <2>1. FlagsTyped'
    BY <1>4 DEF ToolReturns, FinishStep, FlagsTyped
  <2>2. call \in Calls
    BY <1>4 DEF ToolReturns, CallTyped
  <2>3. /\ Append(events, ResultEvent(call)) \in Seq(EventSet)
        /\ FinishStep(Append(events, ResultEvent(call)))
    BY <1>4, <2>2, EventType DEF ToolReturns, DataTyped
  <2>4. plan' \in Seq(PlanStep) /\ events' \in Seq(EventSet) /\ pc' \in PCs
    BY <2>3, FinishType
  <2>5. /\ results' = Append(results, [call |-> call, ok |-> ok]) /\ call' = NoCall
        /\ UNCHANGED <<envVars, status, error, step, iterations, attempts, started>>
    BY <1>4 DEF ToolReturns
  <2>6. DataTyped'
    BY <2>2, <2>4, <2>5 DEF DataTyped, envVars
  <2>. QED  BY <2>1, <2>4, <2>5, <2>6
<1>. QED  BY <1>1, <1>2, <1>3, <1>4 DEF StepBody

\* The edges of the graph, the reviewer and what surrounds them keep the types.
LEMMA TypeEdges ==
  ASSUME TypeOK,
         \/ Start \/ RouteAfterPlan \/ ReviewSkipped \/ ReviewBegins
         \/ (\E v \in {"pass", "fail", "replan"} : ReviewerReturns(v))
         \/ ReviewerRaises \/ RouteAfterReview \/ Finish \/ Propagate
  PROVE  NodeTyped'
<1>1. /\ UNCHANGED <<envVars, plan, step, iterations, attempts, call, stop, spoken, results, started>>
      /\ status' \in {status, "completed", "failed"} /\ error' \in {error, "review"}
      /\ pc' \in PCs
      /\ verdict' \in {verdict, "pass", "fail", "replan", "finish"} /\ failures' \in {failures, 0, 1}
  BY DEF Start, RouteAfterPlan, ReviewSkipped, ReviewBegins, ReviewerReturns, ReviewerRaises,
     RouteAfterReview, RouteHalted, RouteOverBudget, RouteCompletes, RouteReplans, RouteFailsAgain,
     RouteRetries, RouteContinues, Finish, Propagate, taskVars, graphVars, PCs
<1>2. \/ events' = events
      \/ \E kind \in Kinds : events' = Append(events, Event(kind))
      \/ \E v \in {"pass", "fail", "replan"} :
           events' = Append(events, [kind |-> "review", call |-> NoCall, verdict |-> v])
  BY DEF Start, RouteAfterPlan, ReviewSkipped, ReviewBegins, ReviewerReturns, ReviewerRaises,
     RouteAfterReview, RouteHalted, RouteOverBudget, RouteCompletes, RouteReplans, RouteFailsAgain,
     RouteRetries, RouteContinues, Finish, Propagate, taskVars, Kinds
<1>3. \A v \in {"pass", "fail", "replan"} :
        [kind |-> "review", call |-> NoCall, verdict |-> v] \in EventSet
  BY DEF EventSet, Verdicts, Kinds
<1>4. events' \in Seq(EventSet)
  <2>0. events \in Seq(EventSet)
    BY DEF TypeOK, StepRunnerTypeOK, DataTyped
  <2>1. CASE events' = events
    BY <2>0, <2>1
  <2>2. ASSUME NEW kind \in Kinds, events' = Append(events, Event(kind)) PROVE events' \in Seq(EventSet)
    <3>1. Event(kind) \in EventSet
      BY EventType
    <3>. QED  BY <2>0, <2>2, <3>1
  <2>3. ASSUME NEW v \in {"pass", "fail", "replan"},
               events' = Append(events, [kind |-> "review", call |-> NoCall, verdict |-> v])
        PROVE  events' \in Seq(EventSet)
    BY <1>3, <2>0, <2>3
  <2>. QED  BY <1>2, <2>1, <2>2, <2>3
<1>5. DataTyped'
  BY <1>1, <1>4 DEF TypeOK, StepRunnerTypeOK, DataTyped, Statuses, Errors, envVars
<1>6. FlagsTyped'
  BY <1>1 DEF TypeOK, StepRunnerTypeOK, FlagsTyped
<1>. QED  BY <1>1, <1>5, <1>6 DEF TypeOK, NodeTyped

\* Only the start of a tool leads to "tool", and it sets the call.
LEMMA CallStep == CallTyped /\ [Next]_vars => CallTyped'
<1>. SUFFICES ASSUME CallTyped, [Next]_vars, pc' = "tool" PROVE call' \in Calls
  BY DEF CallTyped
<1>1. CASE StepNode
  BY <1>1 DEF StepNode, StepBody, StepRaises, AgentSpeaks, AgentProposes, GateDenies,
     GateDefers, ToolUnknown, ToolStarts, ToolReturns, FinishStep
<1>2. ~ (Start \/ PlanNode \/ RouteAfterPlan \/ ExecuteNode \/ ReviewSkipped \/ ReviewBegins
         \/ (\E v \in {"pass", "fail", "replan"} : ReviewerReturns(v))
         \/ ReviewerRaises \/ RouteAfterReview \/ Finish \/ Propagate)
  BY DEF Start, PlanNode, Plan, PlanSynthesise, PlannerSucceeds, PlannerRetries,
     PlannerFallsBack, PlannerRaises, Receive, RouteAfterPlan, ExecuteNode, BeginStep,
     StepOverBudget, SkipStep, Dispatch, ReviewSkipped, ReviewBegins, ReviewerReturns,
     ReviewerRaises, RouteAfterReview, RouteHalted, RouteOverBudget, RouteCompletes,
     RouteReplans, RouteFailsAgain, RouteRetries, RouteContinues, Finish, Propagate
<1>3. CASE UNCHANGED vars
  BY <1>3 DEF CallTyped, vars, taskVars
<1>. QED  BY <1>1, <1>2, <1>3 DEF Next

\* The graph keeps the types of what the nodes share and of what the reviewer
\* keeps in the scratchpad; the step it executes next is always one of the plan.
THEOREM GraphTypes == Spec => []TypeOK
<1>1. GraphInv /\ TypeOK /\ [Next]_vars => TypeOK'
  <2>. SUFFICES ASSUME GraphInv, TypeOK, [Next]_vars PROVE TypeOK'
    OBVIOUS
  <2>1. NodeTyped'
    <3>1. CASE UNCHANGED vars
      BY <3>1 DEF NodeTyped, TypeOK, StepRunnerTypeOK, FlagsTyped, DataTyped, vars, envVars,
         taskVars, graphVars
    <3>. QED  BY <3>1, TypePlan, TypeBegin, TypeBody, TypeEdges DEF Next, GraphInv
  <2>2. CallTyped'
    BY CallStep DEF TypeOK, StepRunnerTypeOK
  <2>. QED  BY <2>1, <2>2 DEF NodeTyped, TypeOK, StepRunnerTypeOK
<1>. QED  BY <1>1, TypeInit, GraphInvariant, PTL DEF Spec

-----------------------------------------------------------------------------
(* The reviewer's count.  failures in the scratchpad is the number of       *)
(* failing verdicts that no passing one has followed, except between a      *)
(* verdict and the routing that acts on it.                                 *)

Standing == Cardinality(Unforgiven(events))

Counted ==
  /\ error = "review" => pc \in {"ended", "returned"} /\ Standing = 2
  /\ pc \notin {"route", "ended", "returned", "raised", "lost"} => Standing = failures
  /\ pc = "route" => /\ verdict \in {"pass", "fail", "replan", "finish"}
                     /\ verdict = "pass" => Standing = 0
                     /\ verdict = "fail" => Standing = failures + 1
                     /\ verdict = "replan" => Standing = failures
                     /\ verdict = "finish" => Halted

\* An event that is no verdict, or asks for a new plan, forgives nothing and
\* adds nothing; a failing verdict adds one, and a passing one forgives all.
LEMMA VerdictCounts ==
  ASSUME NEW s \in Seq(EventSet), NEW e \in EventSet
  PROVE  /\ e.kind # "review" \/ e.verdict = "replan" => Unforgiven(Append(s, e)) = Unforgiven(s)
         /\ e.kind = "review" /\ e.verdict = "pass" => Cardinality(Unforgiven(Append(s, e))) = 0
         /\ e.kind = "review" /\ e.verdict = "fail" =>
              Cardinality(Unforgiven(Append(s, e))) = Cardinality(Unforgiven(s)) + 1
<1>. DEFINE t == Append(s, e)
<1>1. /\ Len(s) \in Nat /\ DOMAIN s = 1 .. Len(s) /\ DOMAIN t = 1 .. (Len(s) + 1)
      /\ t[Len(s) + 1] = e /\ \A i \in DOMAIN s : t[i] = s[i]
  OBVIOUS
<1>. HIDE DEF t
<1>2. CASE e.kind # "review" \/ e.verdict = "replan"
  <2>1. Reviews(t, "pass") = Reviews(s, "pass") /\ Reviews(t, "fail") = Reviews(s, "fail")
    BY <1>1, <1>2 DEF Reviews
  <2>2. Unforgiven(t) = Unforgiven(s)
    BY <2>1 DEF Unforgiven
  <2>. QED  BY <1>2, <2>2 DEF t
<1>3. CASE e.kind = "review" /\ e.verdict = "pass"
  <2>1. Len(s) + 1 \in Reviews(t, "pass") /\ \A i \in Reviews(t, "fail") : i <= Len(s)
    BY <1>1, <1>3 DEF Reviews
  <2>2. Unforgiven(t) = {}
    BY <1>1, <2>1 DEF Unforgiven, Reviews
  <2>. QED  BY <1>3, <2>2, FS_EmptySet DEF t
<1>4. CASE e.kind = "review" /\ e.verdict = "fail"
  <2>1. Reviews(t, "pass") = Reviews(s, "pass")
        /\ Reviews(t, "fail") = Reviews(s, "fail") \cup {Len(s) + 1}
        /\ \A i \in Reviews(s, "pass") : i < Len(s) + 1
    BY <1>1, <1>4 DEF Reviews
  <2>2. Unforgiven(t) = Unforgiven(s) \cup {Len(s) + 1}
    BY <2>1 DEF Unforgiven
  <2>3. Unforgiven(s) \in SUBSET (1 .. Len(s)) /\ Len(s) + 1 \notin Unforgiven(s)
    BY <1>1 DEF Unforgiven, Reviews
  <2>4. IsFiniteSet(Unforgiven(s))
    <3>1. IsFiniteSet(1 .. Len(s))
      BY <1>1, FS_Interval
    <3>. QED  BY <2>3, <3>1, FS_Subset
  <2>5. Cardinality(Unforgiven(t)) = Cardinality(Unforgiven(s)) + 1
    BY <2>2, <2>3, <2>4, FS_AddElement
  <2>. QED  BY <1>4, <2>5 DEF t
<1>5. Unforgiven(t) = Unforgiven(Append(s, e))
  BY DEF t
<1>. QED  BY <1>2, <1>3, <1>4, <1>5 DEF t

\* The other events of a node leave the count as it is.
Unreviewed(trail) == trail \in Seq(EventSet) /\ Unforgiven(trail) = Unforgiven(events)

LEMMA Unremarked ==
  ASSUME NEW trail, Unreviewed(trail)
  PROVE  /\ \A kind \in Kinds \ {"review"} : Unreviewed(Append(trail, Event(kind)))
         /\ \A c \in Calls, v \in Decisions : Unreviewed(Append(trail, CallEvent(c, v)))
         /\ \A c \in Calls : Unreviewed(Append(trail, ResultEvent(c)))
<1>1. \A e \in EventSet : e.kind # "review" => Unreviewed(Append(trail, e))
  BY VerdictCounts DEF Unreviewed
<1>2. /\ \A kind \in Kinds : Event(kind).kind = kind
      /\ \A c, v : CallEvent(c, v).kind = "tool_call" /\ ResultEvent(c).kind = "tool_result"
  BY DEF Event, CallEvent, ResultEvent
<1>. QED  BY <1>1, <1>2, EventType

LEMMA NodesUnremarked ==
  ASSUME TypeOK, GraphInv, Start \/ PlanNode \/ ExecuteNode \/ StepNode
  PROVE  Unreviewed(events')
<1>0. Unreviewed(events)
  BY DEF Unreviewed, TypeOK, StepRunnerTypeOK, DataTyped
<1>1. CASE events' = events
  BY <1>0, <1>1
<1>2. ASSUME NEW kind \in Kinds \ {"review"}, events' = Append(events, Event(kind))
      PROVE  Unreviewed(events')
  BY <1>0, <1>2, Unremarked
<1>3. CASE Start \/ PlanNode \/ ExecuteNode
  <2>1. \/ events' = events
        \/ \E kind \in Kinds \ {"review"} : events' = Append(events, Event(kind))
    BY <1>3 DEF Start, PlanNode, Plan, PlanSynthesise, PlannerSucceeds, PlannerRetries,
       PlannerFallsBack, PlannerRaises, Receive, ExecuteNode, BeginStep, StepOverBudget,
       SkipStep, Dispatch, Kinds
  <2>. QED  BY <1>1, <1>2, <2>1
<1>4. "step_done" \in Kinds \ {"review"} /\ "paused_for_approval" \in Kinds \ {"review"}
  BY DEF Kinds
<1>5. ASSUME NEW trail, Unreviewed(trail), FinishStep(trail) PROVE Unreviewed(events')
  BY <1>4, <1>5, Unremarked DEF FinishStep
<1>6. CASE StepRaises \/ AgentSpeaks
  BY <1>0, <1>5, <1>6 DEF StepRaises, AgentSpeaks
<1>7. ASSUME NEW c \in Calls, AgentProposes(c) PROVE Unreviewed(events')
  <2>1. \A v \in Decisions : Unreviewed(Append(events, CallEvent(c, v)))
    BY <1>0, Unremarked
  <2>2. {"allow", "deny", "defer"} \subseteq Decisions
    BY DEF Decisions
  <2>3. CASE GateDefers(c)
    <3>1. events' = events \o <<CallEvent(c, "defer"), Event("paused_for_approval")>>
      BY <2>3 DEF GateDefers
    <3>2. Unreviewed(Append(Append(events, CallEvent(c, "defer")), Event("paused_for_approval")))
      BY <1>4, <2>1, <2>2, Unremarked
    <3>3. ASSUME NEW x \in EventSet, NEW y \in EventSet, NEW s \in Seq(EventSet)
          PROVE  s \o <<x, y>> = Append(Append(s, x), y)
      OBVIOUS
    <3>4. /\ events \in Seq(EventSet) /\ CallEvent(c, "defer") \in EventSet
          /\ Event("paused_for_approval") \in EventSet
      BY <1>0, <1>4, <2>2, EventType DEF Unreviewed
    <3>. QED  BY <3>1, <3>2, <3>3, <3>4
  <2>4. CASE GateDenies(c) \/ ToolUnknown(c) \/ ToolStarts(c)
    BY <1>5, <2>1, <2>2, <2>4 DEF GateDenies, ToolUnknown, ToolStarts
  <2>. QED  BY <1>7, <2>3, <2>4 DEF AgentProposes
<1>8. ASSUME NEW ok \in BOOLEAN, ToolReturns(ok) PROVE Unreviewed(events')
  <2>1. call \in Calls /\ FinishStep(Append(events, ResultEvent(call)))
    BY <1>8 DEF ToolReturns, TypeOK, StepRunnerTypeOK, CallTyped
  <2>. QED  BY <1>0, <1>5, <2>1, Unremarked
<1>. QED  BY <1>3, <1>6, <1>7, <1>8 DEF StepNode, StepBody

\* The nodes keep the count, and never set the reviewer's error.
LEMMA NodesCount ==
  ASSUME TypeOK, GraphInv, Counted, Start \/ PlanNode \/ ExecuteNode \/ StepNode
  PROVE  Counted'
<1>1. Standing' = Standing
  BY NodesUnremarked DEF Unreviewed, Standing
<1>2. /\ pc \in {"start", "plan", "execute", "agent", "tool"}
      /\ pc' \notin {"route", "ended", "returned"}
      /\ UNCHANGED graphVars
      /\ error' # error => error' \in {"budget", "denied", "unknown_tool"}
  BY DEF Start, PlanNode, Plan, PlanSynthesise, PlannerSucceeds, PlannerRetries,
     PlannerFallsBack, PlannerRaises, Receive, ExecuteNode, BeginStep, StepOverBudget,
     SkipStep, Dispatch, StepNode, StepBody, StepRaises, AgentSpeaks, AgentProposes, GateDenies,
     GateDefers, ToolUnknown, ToolStarts, ToolReturns, FinishStep
<1>. QED  BY <1>1, <1>2 DEF Counted, graphVars

\* The reviewer's verdict counts as it says, and the routing acts on the count.
LEMMA ReviewCounts ==
  ASSUME TypeOK, Counted,
         \/ RouteAfterPlan \/ ReviewSkipped \/ ReviewBegins
         \/ \E v \in {"pass", "fail", "replan"} : ReviewerReturns(v)
         \/ ReviewerRaises
  PROVE  Counted'
<1>0. events \in Seq(EventSet)
  BY DEF TypeOK, StepRunnerTypeOK, DataTyped
<1>1. ASSUME NEW v \in {"pass", "fail", "replan"}, ReviewerReturns(v) PROVE Counted'
  <2>. DEFINE e == [kind |-> "review", call |-> NoCall, verdict |-> v]
  <2>1. e \in EventSet /\ e.kind = "review" /\ e.verdict = v
    BY DEF EventSet, Verdicts, Kinds
  <2>2. /\ events' = Append(events, e) /\ pc = "review" /\ pc' = "route" /\ verdict' = v
        /\ UNCHANGED <<failures, error>>
    BY <1>1 DEF ReviewerReturns
  <2>. HIDE DEF e
  <2>3. /\ v = "pass" => Standing' = 0
        /\ v = "fail" => Standing' = Standing + 1
        /\ v = "replan" => Standing' = Standing
    BY <1>0, <2>1, <2>2, VerdictCounts DEF Standing
  <2>. QED  BY <2>2, <2>3 DEF Counted
<1>2. CASE RouteAfterPlan \/ ReviewSkipped \/ ReviewBegins \/ ReviewerRaises
  <2>1. /\ pc \in {"planned", "stepped", "review"} /\ UNCHANGED <<events, error, failures, status>>
        /\ pc' \in {"execute", "review", "route", "ended", "raised"}
        /\ pc' = "route" => verdict' = "finish" /\ status \in {"awaiting_approval", "failed"}
    BY <1>2 DEF RouteAfterPlan, ReviewSkipped, ReviewBegins, ReviewerRaises, taskVars, graphVars
  <2>2. Standing' = Standing
    BY <2>1 DEF Standing
  <2>. QED  BY <2>1, <2>2 DEF Counted, Halted
<1>. QED  BY <1>1, <1>2

LEMMA RoutesCount ==
  ASSUME TypeOK, Counted, RouteAfterReview \/ Finish \/ Propagate
  PROVE  Counted'
<1>0. Unreviewed(events) /\ failures \in 0 .. 1
  BY DEF Unreviewed, TypeOK, StepRunnerTypeOK, DataTyped
<1>1. /\ events' = events \/ \E kind \in Kinds \ {"review"} : events' = Append(events, Event(kind))
      /\ pc \in {"route", "ended", "raised"}
  BY DEF RouteAfterReview, RouteHalted, RouteOverBudget, RouteCompletes, RouteReplans,
     RouteFailsAgain, RouteRetries, RouteContinues, Graded, Finish, Propagate, taskVars, Kinds
<1>2. Standing' = Standing
  <2>1. CASE events' = events
    BY <2>1 DEF Standing
  <2>2. ASSUME NEW kind \in Kinds \ {"review"}, events' = Append(events, Event(kind))
        PROVE  Standing' = Standing
    <3>1. Unreviewed(events')
      BY <1>0, <2>2, Unremarked
    <3>. QED  BY <3>1 DEF Unreviewed, Standing
  <2>. QED  BY <1>1, <2>1, <2>2
<1>3. CASE RouteHalted \/ RouteOverBudget \/ RouteCompletes \/ Finish \/ Propagate
  <2>1. error' = error /\ pc' \in {"ended", "returned", "lost"} /\ (pc = "raised" <=> pc' = "lost")
    BY <1>3 DEF RouteHalted, RouteOverBudget, RouteCompletes, Graded, Finish, Propagate, taskVars
  <2>. QED  BY <1>1, <1>2, <2>1 DEF Counted
<1>4. CASE RouteFailsAgain
  <2>1. pc = "route" /\ verdict = "fail" /\ failures = 1 /\ pc' = "ended"
    BY <1>0, <1>4 DEF RouteFailsAgain, Graded
  <2>2. Standing = 2
    BY <2>1 DEF Counted
  <2>. QED  BY <1>2, <2>1, <2>2 DEF Counted
<1>5. CASE RouteRetries \/ RouteReplans \/ RouteContinues
  <2>1. /\ pc = "route" /\ ~ Halted /\ pc' \in {"execute", "plan"} /\ error' = error
        /\ verdict = "fail" => failures = 0 /\ failures' = 1
        /\ verdict = "replan" => failures' = failures
        /\ verdict = "pass" => failures' = 0
    BY <1>5 DEF RouteRetries, RouteReplans, RouteContinues, Graded, Continues, taskVars, graphVars
  <2>. QED  BY <1>2, <2>1 DEF Counted
<1>. QED  BY <1>3, <1>4, <1>5 DEF RouteAfterReview

LEMMA CountInit == Init => Counted
<1>. SUFFICES ASSUME Init PROVE Counted
  OBVIOUS
<1>1. Unforgiven(<<>>) = {}
  BY DEF Unforgiven, Reviews
<1>. QED  BY <1>1, FS_EmptySet DEF Init, InitTask, Counted, Standing

\* The task fails by review only after two failing verdicts with no passing one
\* between them, whatever the reviewer asks for meanwhile and however long the
\* plan and the budget are.
THEOREM TwoFailuresFail == Spec => []FailsOnlyOnTwoFailures
<1>1. TypeOK /\ GraphInv /\ Counted /\ [Next]_vars => Counted'
  <2>. SUFFICES ASSUME TypeOK, GraphInv, Counted, [Next]_vars PROVE Counted'
    OBVIOUS
  <2>1. CASE UNCHANGED vars
    BY <2>1 DEF Counted, Standing, Halted, vars, taskVars, graphVars
  <2>. QED  BY <2>1, NodesCount, ReviewCounts, RoutesCount DEF Next
<1>2. Counted => FailsOnlyOnTwoFailures
  BY DEF Counted, Standing, FailsOnlyOnTwoFailures
<1>. QED  BY <1>1, <1>2, CountInit, GraphTypes, GraphInvariant, PTL DEF Spec

-----------------------------------------------------------------------------
(* What a completed task was completed on *)

SpentBudget == \E i \in DOMAIN events : events[i].kind = "budget_exceeded"

\* What reaches END without a failure and without a pause has a passed and
\* finished plan, or the trail tells of its spent budget.
Explained ==
  pc \in {"ended", "returned"} /\ status \notin {"failed", "awaiting_approval"} =>
    SpentBudget \/ (status = "completed" /\ verdict = "pass" /\ AllDone)

\* The trail keeps what it tells, and tells what is appended to it.
LEMMA TrailGrows ==
  ASSUME events \in Seq(EventSet), NEW e \in EventSet, events' = Append(events, e)
  PROVE  /\ SpentBudget => SpentBudget'
         /\ e.kind = "budget_exceeded" => SpentBudget'
<1>1. /\ DOMAIN events' = 1 .. Len(events) + 1 /\ Len(events) \in Nat
      /\ events'[Len(events) + 1] = e
      /\ \A i \in DOMAIN events : i \in DOMAIN events' /\ events'[i] = events[i]
  OBVIOUS
<1>. QED  BY <1>1 DEF SpentBudget

LEMMA StepExplains ==
  ASSUME TypeOK, GraphInv, Explained, [Next]_vars
  PROVE  Explained'
<1>0. events \in Seq(EventSet)
  BY DEF TypeOK, StepRunnerTypeOK, DataTyped
<1>1. CASE Inside
  BY <1>1 DEF Inside, Working, Explained
<1>2. CASE RouteAfterPlan
  <2>1. plan # <<>> /\ status' = status /\ pc' = IF status = "failed" THEN "ended" ELSE "execute"
    <3>1. pc = "planned" /\ DOMAIN plan # {}
      BY <1>2 DEF RouteAfterPlan, GraphInv, Planned
    <3>2. plan # <<>>
      BY <3>1
    <3>. QED  BY <1>2, <3>2 DEF RouteAfterPlan, taskVars
  <2>. QED  BY <2>1 DEF Explained
<1>3. CASE RouteHalted
  BY <1>3 DEF RouteHalted, Halted, taskVars, Explained
<1>4. CASE RouteOverBudget
  <2>1. Event("budget_exceeded") \in EventSet /\ Event("budget_exceeded").kind = "budget_exceeded"
    BY EventType DEF Kinds, Event
  <2>2. events' = Append(events, Event("budget_exceeded"))
    BY <1>4 DEF RouteOverBudget
  <2>. QED  BY <1>0, <2>1, <2>2, TrailGrows DEF Explained
<1>5. CASE RouteCompletes
  <2>1. status' = "completed" /\ verdict' = "pass" /\ AllDone /\ plan' = plan
    BY <1>5 DEF RouteCompletes, Graded, graphVars
  <2>. QED  BY <2>1 DEF Explained, AllDone
<1>6. CASE RouteFailsAgain
  BY <1>6 DEF RouteFailsAgain, Explained
<1>7. CASE Finish
  <2>1. pc = "ended" /\ pc' = "returned" /\ verdict' = verdict /\ AllDone' = AllDone
    BY <1>7 DEF Finish, graphVars, AllDone
  <2>2. CASE status \in Final
    <3>1. status' = status /\ SpentBudget' = SpentBudget
      BY <1>7, <2>2 DEF Finish, Final, SpentBudget
    <3>. QED  BY <2>1, <3>1 DEF Explained
  <2>3. CASE status \notin Final
    <3>1. events' = Append(events, Event("task_completed")) /\ Event("task_completed") \in EventSet
      BY <1>7, <2>3, EventType DEF Finish, Final, Kinds
    <3>2. SpentBudget
      BY <2>1, <2>3 DEF Explained, Final
    <3>. QED  BY <1>0, <3>1, <3>2, TrailGrows DEF Explained
  <2>. QED  BY <2>2, <2>3
<1>8. CASE Propagate
  BY <1>8 DEF Propagate, Explained
<1>9. CASE UNCHANGED vars
  BY <1>9 DEF vars, taskVars, graphVars, Explained, SpentBudget, AllDone
<1>. QED  BY <1>1, <1>2, <1>3, <1>4, <1>5, <1>6, <1>7, <1>8, <1>9, Where

\* COMPLETED means a passed and finished plan, or a trail that tells of a spent
\* budget, for plans, budgets and sequences of verdicts of any length.
THEOREM CompletionIsReviewed == Spec => []CompletedIsReviewed
<1>1. Init => Explained
  BY DEF Init, InitTask, Explained
<1>2. GraphInv /\ Explained => CompletedIsReviewed
  BY DEF GraphInv, Settled, Explained, SpentBudget, CompletedIsReviewed
<1>. QED  BY <1>1, <1>2, StepExplains, GraphTypes, GraphInvariant, PTL DEF Spec

\* A task whose tool call was refused comes back failed.
THEOREM RefusalFails == Spec => []RefusedCallFailsTask
<1>1. GraphInv => RefusedCallFailsTask
  BY DEF GraphInv, Refused, RefusedCallFailsTask
<1>. QED  BY <1>1, GraphInvariant, PTL

\* Every step of the graph is a step of the contract, or invisible to it.
LEMMA GraphContract == ASSUME GraphInv, [Next]_vars PROVE [Contract!Next]_(Contract!vars)
<1>1. CASE Inside
  <2>1. settings' = settings /\ pc \in Working /\ pc' \in Working
    BY <1>1 DEF Inside
  <2>2. CASE started' = started
    BY <2>1, <2>2 DEF Working, Contract!vars
  <2>3. ASSUME NEW c \in Calls, pc = "agent", started' = Append(started, c)
        PROVE  Contract!Effect
    <3>1. settings \in Settings /\ iterations \in Nat /\ started \in Seq(Calls)
      BY DEF GraphInv, Typed
    <3>2. settings.budget \in Nat
      BY <3>1, RunnerAssumption DEF Settings
    <3>3. Len(started) < settings.budget /\ Len(started') = Len(started) + 1
      BY <2>3, <3>1, <3>2 DEF GraphInv, Budgeted, EffectsWithinBudget
    <3>. QED  BY <2>1, <3>3 DEF Working, Contract!Effect
  <2>. QED  BY <1>1, <2>2, <2>3 DEF Inside, Counts, Contract!Next
<1>2. CASE \/ RouteAfterPlan \/ RouteHalted \/ RouteOverBudget \/ RouteCompletes \/ RouteFailsAgain
  <2>1. settings' = settings /\ started' = started /\ pc \in {"planned", "route"}
        /\ pc' \in {"execute", "ended"}
    BY <1>2, Leaving DEF envVars, RouteAfterPlan, RouteHalted, RouteOverBudget, RouteCompletes,
       RouteFailsAgain, Graded
  <2>2. CASE pc' = "execute"
    BY <2>1, <2>2 DEF Contract!vars
  <2>3. CASE pc' = "ended"
    <3>1. Contract!Settle
      BY <2>1, <2>3 DEF Contract!Settle, Contract!Outcomes
    <3>. QED  BY <3>1 DEF Contract!Next
  <2>. QED  BY <2>1, <2>2, <2>3
<1>3. CASE Finish
  <2>1. settings' = settings /\ started' = started /\ pc = "ended" /\ pc' = "returned"
        /\ status' = (IF status \in Final THEN status ELSE "completed")
    BY <1>3 DEF Finish, Final, envVars
  <2>2. Contract!Report
    BY <2>1 DEF Contract!Report, Final
  <2>. QED  BY <2>2 DEF Contract!Next
<1>4. CASE Propagate
  <2>1. settings' = settings /\ started' = started /\ pc = "raised" /\ pc' = "lost"
    BY <1>4 DEF Propagate, taskVars, envVars
  <2>2. Contract!Lose
    BY <2>1 DEF Contract!Lose
  <2>. QED  BY <2>2 DEF Contract!Next
<1>5. CASE UNCHANGED vars
  BY <1>5 DEF vars, envVars, taskVars, Contract!vars
<1>. QED  BY <1>1, <1>2, <1>3, <1>4, <1>5, Where

\* The graph keeps the same contract as the linear runner: the budget bounds its
\* effects, they precede the outcome, and the outcome at END is the one returned.
THEOREM GraphContractKept == Spec => KeepsContract
<1>1. Init => Contract!Init
  <2>. SUFFICES ASSUME Init PROVE Contract!Init
    OBVIOUS
  <2>1. settings \in Settings /\ started = <<>> /\ pc = "start"
    BY DEF Init, InitTask
  <2>2. settings.budget \in Nat
    BY <2>1, RunnerAssumption DEF Settings
  <2>. QED  BY <2>1, <2>2 DEF Contract!Init
<1>2. GraphInv /\ [Next]_vars => [Contract!Next]_(Contract!vars)
  BY GraphContract
<1>. QED  BY <1>1, <1>2, GraphInvariant, PTL DEF Spec, KeepsContract, Contract!Spec

-----------------------------------------------------------------------------
(* Termination *)

\* The rank by place, which is how the proof uses it.
RankTable ==
  /\ pc \in {"returned", "lost"} => Rank = 0
  /\ pc \in {"ended", "raised"} => Rank = 1
  /\ pc = "route" => Rank = IF Halted THEN 2 ELSE 7 + MaxAttempts
  /\ pc = "stepped" => Rank = IF Halted THEN 3 ELSE 9 + MaxAttempts
  /\ pc = "execute" => Rank = 4
  /\ pc = "planned" => Rank = 5
  /\ pc = "plan" => Rank = 6 + MaxAttempts - attempts
  /\ pc = "review" => Rank = 8 + MaxAttempts
  /\ pc = "tool" => Rank = 10 + MaxAttempts
  /\ pc \in {"agent", "start"} => Rank = 11 + MaxAttempts

LEMMA RankNow == RankTable
BY DEF RankTable, Rank

LEMMA RankNext == RankTable'
BY DEF RankTable, Rank

Nears == iterations' = iterations /\ Rank' < Rank /\ Rank' >= 0

LEMMA PlanningNears == ASSUME TypeOK, PlanNode PROVE Nears
<1>1. attempts \in 0 .. MaxAttempts /\ MaxAttempts \in Nat
  BY RunnerAssumption DEF TypeOK, StepRunnerTypeOK, DataTyped
<1>2. pc = "plan" /\ Rank = 6 + MaxAttempts - attempts
  BY RankNow DEF RankTable, PlanNode, Plan, PlanSynthesise, PlannerSucceeds, PlannerRetries,
                 PlannerFallsBack, PlannerRaises
<1>3. CASE pc' = "raised" /\ iterations' = iterations
  <2>1. Rank' = 1
    BY <1>3, RankNext DEF RankTable
  <2>. QED  BY <1>1, <1>2, <1>3, <2>1 DEF Nears
<1>4. CASE PlannerRetries
  <2>1. pc' = "plan" /\ attempts' = attempts + 1 /\ attempts + 1 < MaxAttempts
        /\ iterations' = iterations
    BY <1>2, <1>4 DEF PlannerRetries
  <2>2. Rank' = 6 + MaxAttempts - attempts'
    BY <2>1, RankNext DEF RankTable
  <2>. QED  BY <1>1, <1>2, <2>1, <2>2 DEF Nears
<1>5. CASE pc' = "planned" /\ iterations' = iterations
  <2>1. Rank' = 5
    BY <1>5, RankNext DEF RankTable
  <2>. QED  BY <1>1, <1>2, <1>5, <2>1 DEF Nears
<1>. QED  BY <1>3, <1>4, <1>5
     DEF PlanNode, Plan, PlanSynthesise, PlannerSucceeds, PlannerFallsBack, PlannerRaises, Receive

\* A body hands control back, or goes on to its tool.
LEMMA BodyNears == ASSUME TypeOK, StepNode PROVE Nears
<1>1. MaxAttempts \in Nat
  BY RunnerAssumption
<1>2. /\ iterations' = iterations
      /\ \/ pc = "agent" /\ pc' = "tool"
         \/ pc \in {"agent", "tool"} /\ pc' \in {"stepped", "raised"}
  BY DEF StepNode, StepBody, StepRaises, AgentSpeaks, AgentProposes, GateDefers, GateDenies,
         ToolUnknown, ToolStarts, ToolReturns, FinishStep
<1>3. Rank = IF pc = "agent" THEN 11 + MaxAttempts ELSE 10 + MaxAttempts
  BY <1>2, RankNow DEF RankTable
<1>4. \/ pc' = "tool" /\ Rank' = 10 + MaxAttempts
      \/ pc' # "tool" /\ Rank' \in {1, 3, 9 + MaxAttempts}
  BY <1>2, RankNext DEF RankTable
<1>. QED  BY <1>1, <1>2, <1>3, <1>4 DEF Nears

LEMMA ReviewNears ==
  ASSUME TypeOK,
         \/ ReviewSkipped \/ ReviewBegins \/ ReviewerRaises
         \/ \E v \in {"pass", "fail", "replan"} : ReviewerReturns(v)
  PROVE  Nears
<1>1. MaxAttempts \in Nat
  BY RunnerAssumption
<1>2. Halted' <=> Halted
  BY DEF Halted, ReviewSkipped, ReviewBegins, ReviewerRaises, ReviewerReturns, taskVars
<1>3. iterations' = iterations
  BY DEF ReviewSkipped, ReviewBegins, ReviewerRaises, ReviewerReturns, taskVars
<1>4. CASE ReviewSkipped
  <2>1. pc = "stepped" /\ pc' = "route" /\ Halted
    BY <1>4 DEF ReviewSkipped, Halted
  <2>. QED  BY <1>2, <1>3, <2>1, RankNow, RankNext DEF RankTable, Nears
<1>5. CASE ReviewBegins
  <2>1. pc = "stepped" /\ pc' = "review" /\ ~ Halted
    BY <1>5 DEF ReviewBegins, Halted
  <2>. QED  BY <1>1, <1>3, <2>1, RankNow, RankNext DEF RankTable, Nears
<1>6. CASE pc = "review" /\ pc' \in {"route", "raised"}
  <2>1. Rank = 8 + MaxAttempts
    BY <1>6, RankNow DEF RankTable
  <2>2. Rank' \in {1, 2, 7 + MaxAttempts}
    BY <1>6, RankNext DEF RankTable
  <2>. QED  BY <1>1, <1>3, <2>1, <2>2 DEF Nears
<1>. QED  BY <1>4, <1>5, <1>6 DEF ReviewerRaises, ReviewerReturns

LEMMA RoutingNears == ASSUME TypeOK, RouteAfterReview PROVE Nears
<1>1. attempts \in 0 .. MaxAttempts /\ MaxAttempts \in Nat
  BY RunnerAssumption DEF TypeOK, StepRunnerTypeOK, DataTyped
<1>2. pc = "route" /\ pc' \in {"ended", "plan", "execute"} /\ UNCHANGED <<iterations, attempts>>
      /\ (Halted => pc' = "ended")
  BY DEF RouteAfterReview, RouteHalted, RouteOverBudget, RouteCompletes, RouteReplans,
         RouteFailsAgain, RouteRetries, RouteContinues, Graded, taskVars
<1>3. Rank = IF Halted THEN 2 ELSE 7 + MaxAttempts
  BY <1>2, RankNow DEF RankTable
<1>4. \/ pc' = "ended" /\ Rank' = 1
      \/ pc' = "execute" /\ Rank' = 4
      \/ pc' = "plan" /\ Rank' = 6 + MaxAttempts - attempts
  BY <1>2, RankNext DEF RankTable
<1>. QED  BY <1>1, <1>2, <1>3, <1>4 DEF Nears

\* No run goes on for ever, whatever the reviewer's verdicts and new plans: a
\* step spends one of the iterations of the budget or comes nearer to the answer.
THEOREM GraphStepsAreFinite == Spec => StepsRunOut
<1>. DEFINE Spends == iterations < iterations' /\ iterations' <= settings.budget
<1>1. TypeOK /\ [Next]_vars =>
        [\/ iterations < iterations' /\ iterations' <= settings.budget
         \/ iterations' = iterations /\ Rank' < Rank /\ Rank' >= 0]_vars
  <2>. SUFFICES ASSUME TypeOK, Next PROVE Spends \/ Nears
    BY DEF Nears
  <2>0. /\ MaxAttempts \in Nat /\ attempts \in 0 .. MaxAttempts /\ iterations \in Nat
        /\ settings.budget \in Nat
    BY RunnerAssumption DEF TypeOK, StepRunnerTypeOK, DataTyped, Settings
  <2>1. CASE PlanNode
    BY <2>1, PlanningNears
  <2>2. CASE ExecuteNode
    <3>1. PICK i : BeginStep(i) /\ pc = "execute"
      BY <2>2 DEF ExecuteNode
    <3>2. CASE StepOverBudget(i)
      <4>1. pc' = "stepped" /\ Halted' /\ iterations' = iterations
        BY <3>2 DEF StepOverBudget, Halted
      <4>. QED  BY <3>1, <4>1, RankNow, RankNext DEF RankTable, Nears
    <3>3. CASE SkipStep(i) \/ Dispatch(i)
      BY <2>0, <3>3 DEF SkipStep, Dispatch, OverBudget
    <3>. QED  BY <3>1, <3>2, <3>3 DEF BeginStep
  <2>3. CASE StepNode
    BY <2>3, BodyNears
  <2>4. CASE Start
    <3>1. pc = "start" /\ pc' = "plan" /\ UNCHANGED <<iterations, attempts>>
      BY <2>4 DEF Start
    <3>. QED  BY <2>0, <3>1, RankNow, RankNext DEF RankTable, Nears
  <2>5. CASE RouteAfterPlan
    <3>1. pc = "planned" /\ pc' \in {"ended", "execute"} /\ iterations' = iterations
      BY <2>5 DEF RouteAfterPlan, taskVars
    <3>. QED  BY <3>1, RankNow, RankNext DEF RankTable, Nears
  <2>6. CASE RouteAfterReview
    BY <2>6, RoutingNears
  <2>7. CASE Finish \/ Propagate
    <3>1. pc \in {"ended", "raised"} /\ pc' \in {"returned", "lost"} /\ iterations' = iterations
      BY <2>7 DEF Finish, Propagate, taskVars
    <3>. QED  BY <3>1, RankNow, RankNext DEF RankTable, Nears
  <2>. QED  BY <2>1, <2>2, <2>3, <2>4, <2>5, <2>6, <2>7, ReviewNears DEF Next
<1>. QED  BY <1>1, GraphTypes, PTL DEF Spec, StepsRunOut

=============================================================================
