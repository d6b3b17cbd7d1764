------------------------ MODULE OrchestratorProofs ------------------------
(***************************************************************************)
(* Proofs about the linear runner, for every value of its constants.       *)
(***************************************************************************)
EXTENDS Orchestrator, FiniteSetTheorems, TLAPS

\* What _parse_plan makes of any answer is a plan of known roles.
LEMMA RunnerPlanType ==
  ASSUME NEW r \in Response
  PROVE  RunnerPlan(r) \in Seq(PlanStep)
<1>1. SingleStep \in Seq(PlanStep)
  BY RolesAssumption DEF SingleStep, PlanStep
<1>2. Coerced(r.steps) \in Seq(PlanStep)
  <2>1. r.steps \in Seq(RawStep)
    BY DEF Response
  <2>2. \A i \in 1 .. Len(r.steps) : r.steps[i].role \in Roles \cup {"unknown"}
    <3>1. \A i \in 1 .. Len(r.steps) : r.steps[i] \in RawStep
      BY <2>1
    <3>. QED  BY <3>1 DEF RawStep
  <2>3. \A i \in 1 .. Len(r.steps) : CoerceRole(r.steps[i].role) \in Roles
    BY <2>2, RolesAssumption DEF CoerceRole
  <2>4. Coerced(r.steps) \in [1 .. Len(r.steps) -> PlanStep]
    BY <2>1, <2>3 DEF Coerced, PlanStep
  <2>. QED  BY <2>1, <2>4
<1>. QED  BY <1>1, <1>2 DEF RunnerPlan

\* Marking a step done keeps the plan a plan, of the same length.
LEMMA DoneType ==
  ASSUME plan \in Seq(PlanStep), NEW i \in Nat
  PROVE  Done(i) \in Seq(PlanStep) /\ Len(Done(i)) = Len(plan)
<1>1. plan \in [1 .. Len(plan) -> PlanStep]
  OBVIOUS
<1>2. i \in 1 .. Len(plan) => [plan[i] EXCEPT !.done = TRUE] \in PlanStep
  BY <1>1 DEF PlanStep
<1>3. Done(i) \in [1 .. Len(plan) -> PlanStep]
  BY <1>1, <1>2 DEF Done
<1>. QED  BY <1>3

\* The events the actions write are events.
LEMMA EventType ==
  /\ \A kind \in Kinds : Event(kind) \in EventSet
  /\ \A c \in Calls, v \in Decisions : CallEvent(c, v) \in EventSet
  /\ \A c \in Calls : ResultEvent(c) \in EventSet
BY DEF Event, CallEvent, ResultEvent, EventSet, Verdicts, Kinds

\* The type invariant without the tie between pc and the call in flight.
Typed == FlagsTyped /\ DataTyped /\ pc \in PCs /\ remembered \in Statuses \cup {"none"}

\* The first state is typed.
LEMMA TypeInit == Init => TypeOK
<1>1. Init => FlagsTyped
  BY DEF Init, InitTask, FlagsTyped
<1>2. Init => DataTyped
  BY RunnerAssumption DEF Init, InitTask, DataTyped, Statuses, Errors
<1>3. Init => pc \in PCs /\ remembered \in Statuses \cup {"none"}
  BY DEF Init, InitTask, PCs
<1>4. Init => CallTyped
  BY DEF Init, InitTask, CallTyped
<1>. QED  BY <1>1, <1>2, <1>3, <1>4 DEF TypeOK, StepRunnerTypeOK

\* Planning keeps the types.
LEMMA TypePlan == TypeOK /\ PlanStage => Typed'
<1>. SUFFICES ASSUME TypeOK, PlanStage PROVE Typed'
  OBVIOUS
<1>. USE DEF Typed, TypeOK, StepRunnerTypeOK, PlanStage
<1>1. CASE PlanSynthesise
  <2>1. FlagsTyped'
    BY <1>1 DEF PlanSynthesise, FlagsTyped
  <2>2. SingleStep \in Seq(PlanStep)
    BY RolesAssumption DEF SingleStep, PlanStep
  <2>3. DataTyped' /\ pc' \in PCs
    BY <1>1, <2>2, EventType DEF PlanSynthesise, DataTyped, PCs, Kinds, envVars
  <2>. QED  BY <2>1, <2>3
<1>2. ASSUME NEW message \in Response, Receive(message) PROVE Typed'
  <2>1. FlagsTyped'
    BY <1>2 DEF Receive, FlagsTyped
  <2>2. RunnerPlan(message) \in Seq(PlanStep)
    BY RunnerPlanType
  <2>3. CASE RunnerRaises(message)
    <3>1. DataTyped' /\ pc' \in PCs
      BY <1>2, <2>3, RunnerAssumption DEF Receive, DataTyped, PCs, envVars
    <3>. QED  BY <2>1, <3>1
  <2>4. CASE ~ RunnerRaises(message)
    <3>1. Event("plan_created") \in EventSet
      BY EventType DEF Kinds
    <3>2. /\ plan' = RunnerPlan(message) /\ events' = Append(events, Event("plan_created"))
          /\ attempts' = 0 /\ pc' = "planned"
          /\ UNCHANGED <<envVars, status, error, step, iterations, call, results, started>>
      BY <1>2, <2>4 DEF Receive
    <3>3. DataTyped' /\ pc' \in PCs
      BY <2>2, <3>1, <3>2, RunnerAssumption DEF DataTyped, PCs, envVars
    <3>. QED  BY <2>1, <3>3
  <2>. QED  BY <2>3, <2>4
<1>3. CASE PlannerSucceeds
  BY <1>2, <1>3, RunnerAssumption DEF PlannerSucceeds
<1>4. CASE PlannerRetries
  <2>1. FlagsTyped'
    BY <1>4 DEF PlannerRetries, FlagsTyped
  <2>2. DataTyped' /\ pc' \in PCs
    BY <1>4, RunnerAssumption DEF PlannerRetries, DataTyped, envVars
  <2>. QED  BY <2>1, <2>2
<1>5. CASE PlannerFallsBack
  <2>1. FallbackMessage \in Response
    BY RolesAssumption DEF FallbackMessage, Response, RawStep, Syntaxes
  <2>. QED  BY <1>2, <1>5, <2>1 DEF PlannerFallsBack
<1>6. CASE PlannerRaises
  <2>1. FlagsTyped'
    BY <1>6 DEF PlannerRaises, FlagsTyped
  <2>2. DataTyped' /\ pc' \in PCs
    BY <1>6, RunnerAssumption DEF PlannerRaises, DataTyped, PCs, envVars
  <2>. QED  BY <2>1, <2>2
<1>. QED  BY <1>1, <1>3, <1>4, <1>5, <1>6 DEF Plan

\* The head of a step keeps the types.
LEMMA TypeBegin == TypeOK /\ LoopStep => Typed'
<1>. SUFFICES ASSUME TypeOK, LoopStep PROVE Typed'
  OBVIOUS
<1>. USE DEF Typed, TypeOK, StepRunnerTypeOK, LoopStep
<1>1. CASE StepOverBudget(step)
  <2>1. FlagsTyped'
    BY <1>1 DEF StepOverBudget, FlagsTyped
  <2>2. DataTyped' /\ pc' \in PCs
    BY <1>1, EventType DEF StepOverBudget, DataTyped, Statuses, Errors, PCs, Kinds, envVars
  <2>. QED  BY <2>1, <2>2
<1>2. CASE SkipStep(step)
  <2>1. FlagsTyped'
    BY <1>2 DEF SkipStep, FlagsTyped
  <2>2. plan' \in Seq(PlanStep)
    BY <1>2, DoneType DEF SkipStep, DataTyped
  <2>3. DataTyped' /\ pc' \in PCs
    BY <1>2, <2>2, EventType DEF SkipStep, DataTyped, Statuses, PCs, Kinds, envVars
  <2>. QED  BY <2>1, <2>3
<1>3. CASE Dispatch(step)
  <2>1. FlagsTyped'
    BY <1>3 DEF Dispatch, FlagsTyped
  <2>2. DataTyped' /\ pc' \in PCs
    BY <1>3 DEF Dispatch, DataTyped, Statuses, PCs, envVars
  <2>. QED  BY <2>1, <2>2
<1>. QED  BY <1>1, <1>2, <1>3 DEF BeginStep

\* What finishing a step leaves.
LEMMA FinishType ==
  ASSUME TypeOK, NEW trail \in Seq(EventSet), FinishStep(trail)
  PROVE  plan' \in Seq(PlanStep) /\ events' \in Seq(EventSet) /\ pc' \in PCs
BY DoneType, EventType DEF TypeOK, StepRunnerTypeOK, DataTyped, FinishStep, Kinds, PCs

\* The body of a step, and the tool call it may make, keeps the types.
LEMMA TypeBody == TypeOK /\ StepStage => Typed'
<1>. SUFFICES ASSUME TypeOK, StepStage PROVE Typed'
  OBVIOUS
<1>. USE DEF Typed, TypeOK, StepRunnerTypeOK, StepStage
<1>1. CASE StepRaises
  <2>1. FlagsTyped'
    BY <1>1 DEF StepRaises, FlagsTyped
  <2>2. DataTyped' /\ pc' \in PCs
    BY <1>1 DEF StepRaises, DataTyped, PCs, envVars
  <2>. QED  BY <2>1, <2>2
<1>2. CASE AgentSpeaks
  <2>1. FlagsTyped'
    BY <1>2 DEF AgentSpeaks, FinishStep, FlagsTyped
  <2>2. plan' \in Seq(PlanStep) /\ events' \in Seq(EventSet) /\ pc' \in PCs
    BY <1>2, FinishType DEF AgentSpeaks, DataTyped
  <2>3. DataTyped'
    BY <1>2, <2>2 DEF AgentSpeaks, DataTyped, envVars
  <2>. QED  BY <2>1, <2>2, <2>3
<1>3. ASSUME NEW c \in Calls, AgentProposes(c) PROVE Typed'
  <2>1. FlagsTyped'
    BY <1>3 DEF AgentProposes, GateDenies, GateDefers, ToolUnknown, ToolStarts,
       FinishStep, FlagsTyped
  <2>2. /\ CallEvent(c, "allow") \in EventSet /\ CallEvent(c, "deny") \in EventSet
        /\ CallEvent(c, "defer") \in EventSet
    BY EventType DEF Decisions
  <2>3. CASE GateDenies(c)
    <3>0. /\ Append(events, CallEvent(c, "deny")) \in Seq(EventSet)
          /\ FinishStep(Append(events, CallEvent(c, "deny")))
      BY <2>2, <2>3 DEF GateDenies, DataTyped
    <3>1. plan' \in Seq(PlanStep) /\ events' \in Seq(EventSet) /\ pc' \in PCs
      BY <3>0, FinishType
    <3>2. DataTyped'
      BY <1>3, <2>3, <3>1 DEF AgentProposes, GateDenies, DataTyped, Statuses, Errors, envVars
    <3>. QED  BY <1>3, <2>1, <3>1, <3>2 DEF AgentProposes
  <2>4. CASE GateDefers(c)
    <3>1. events' \in Seq(EventSet)
      BY <2>2, <2>4, EventType DEF GateDefers, DataTyped, Kinds
    <3>2. DataTyped' /\ pc' \in PCs
      BY <1>3, <2>4, <3>1 DEF AgentProposes, GateDefers, DataTyped, Statuses, PCs, envVars
    <3>. QED  BY <1>3, <2>1, <3>2 DEF AgentProposes
  <2>5. CASE ToolUnknown(c)
    <3>0. /\ Append(events, CallEvent(c, "allow")) \in Seq(EventSet)
          /\ FinishStep(Append(events, CallEvent(c, "allow")))
      BY <2>2, <2>5 DEF ToolUnknown, DataTyped
    <3>1. plan' \in Seq(PlanStep) /\ events' \in Seq(EventSet) /\ pc' \in PCs
      BY <3>0, FinishType
    <3>2. DataTyped'
      BY <1>3, <2>5, <3>1 DEF AgentProposes, ToolUnknown, DataTyped, Statuses, Errors, envVars
    <3>. QED  BY <1>3, <2>1, <3>1, <3>2 DEF AgentProposes
  <2>6. CASE ToolStarts(c)
    <3>1. DataTyped' /\ pc' \in PCs
      BY <1>3, <2>2, <2>6 DEF AgentProposes, ToolStarts, DataTyped, PCs, envVars
    <3>. QED  BY <1>3, <2>1, <3>1 DEF AgentProposes
  <2>. QED  BY <1>3, <2>3, <2>4, <2>5, <2>6 DEF AgentProposes
<1>4. ASSUME NEW ok \in BOOLEAN, ToolReturns(ok) PROVE Typed'
  <2>1. FlagsTyped'
    BY <1>4 DEF ToolReturns, FinishStep, FlagsTyped
  <2>2. call \in Calls
    BY <1>4 DEF ToolReturns, CallTyped
  <2>3. /\ Append(events, ResultEvent(call)) \in Seq(EventSet)
        /\ FinishStep(Append(events, ResultEvent(call)))
    BY <1>4, <2>2, EventType DEF ToolReturns, DataTyped
  <2>4. plan' \in Seq(PlanStep) /\ events' \in Seq(EventSet) /\ pc' \in PCs
    BY <2>3, FinishType
  <2>5. /\ results' = Append(results, [call |-> call, ok |-> ok]) /\ call' = NoCall
        /\ UNCHANGED <<envVars, status, error, step, iterations, attempts, started, remembered>>
    BY <1>4 DEF ToolReturns
  <2>6. DataTyped'
    BY <2>2, <2>4, <2>5 DEF DataTyped, envVars
  <2>. QED  BY <2>1, <2>4, <2>5, <2>6
<1>. QED  BY <1>1, <1>2, <1>3, <1>4 DEF StepBody

\* Starting, and what follows the plan and its steps, keeps the types.
LEMMA TypeFrame ==
  ASSUME TypeOK,
         \/ Start \/ BeginExecute \/ LoopOverBudget \/ LoopEnds \/ Stepped
         \/ SettleOutcome \/ Catch \/ Persist \/ PersistRaises
  PROVE  Typed'
<1>1. FlagsTyped'
  BY DEF TypeOK, StepRunnerTypeOK, FlagsTyped, Start, BeginExecute, LoopOverBudget, LoopEnds,
     Stepped, SettleOutcome, Catch, Persist, PersistRaises, taskVars
<1>2. /\ Event("task_started") \in EventSet /\ Event("budget_exceeded") \in EventSet
      /\ Event("task_completed") \in EventSet /\ Event("task_failed") \in EventSet
  BY EventType DEF Kinds
<1>. USE DEF Typed, TypeOK, StepRunnerTypeOK
<1>3. CASE Start
  <2>1. DataTyped' /\ pc' \in PCs
    BY <1>2, <1>3 DEF Start, DataTyped, Statuses, PCs, envVars
  <2>. QED  BY <1>1, <1>3, <2>1 DEF Start
<1>4. CASE BeginExecute
  <2>1. DataTyped' /\ pc' \in PCs
    BY <1>4 DEF BeginExecute, DataTyped, Statuses, PCs, envVars
  <2>. QED  BY <1>1, <1>4, <2>1 DEF BeginExecute
<1>5. CASE LoopOverBudget
  <2>1. DataTyped' /\ pc' \in PCs
    BY <1>2, <1>5 DEF LoopOverBudget, DataTyped, Statuses, Errors, PCs, envVars
  <2>. QED  BY <1>1, <1>5, <2>1 DEF LoopOverBudget
<1>6. CASE LoopEnds
  <2>1. DataTyped' /\ pc' \in PCs
    BY <1>6 DEF LoopEnds, DataTyped, PCs, envVars, taskVars
  <2>. QED  BY <1>1, <1>6, <2>1 DEF LoopEnds
<1>7. CASE Stepped
  <2>1. step' \in {step, step + 1} /\ pc' \in {"walked", "loop"}
    BY <1>7 DEF Stepped
  <2>2. DataTyped' /\ pc' \in PCs
    BY <1>7, <2>1 DEF Stepped, DataTyped, PCs, envVars
  <2>. QED  BY <1>1, <1>7, <2>2 DEF Stepped
<1>8. CASE SettleOutcome
  <2>1. CASE status \in {"failed", "awaiting_approval"}
    <3>1. DataTyped' /\ pc' \in PCs
      BY <1>8, <2>1 DEF SettleOutcome, DataTyped, PCs, envVars
    <3>. QED  BY <1>1, <1>8, <3>1 DEF SettleOutcome
  <2>2. CASE status \notin {"failed", "awaiting_approval"}
    <3>1. status' = "completed" /\ events' = Append(events, Event("task_completed"))
      BY <1>8, <2>2 DEF SettleOutcome
    <3>2. status' \in Statuses /\ events' \in Seq(EventSet)
      BY <1>2, <3>1 DEF DataTyped, Statuses
    <3>3. DataTyped' /\ pc' \in PCs
      BY <1>8, <3>2 DEF SettleOutcome, DataTyped, PCs, envVars
    <3>. QED  BY <1>1, <1>8, <3>3 DEF SettleOutcome
  <2>. QED  BY <2>1, <2>2
<1>9. CASE Catch
  <2>1. DataTyped' /\ pc' \in PCs
    BY <1>2, <1>9 DEF Catch, DataTyped, Statuses, Errors, PCs, envVars
  <2>. QED  BY <1>1, <1>9, <2>1 DEF Catch
<1>10. CASE Persist \/ PersistRaises
  <2>1. /\ UNCHANGED <<envVars, taskVars>>
        /\ pc' \in {"returned", "lost"} /\ remembered' \in {remembered, status}
    BY <1>10 DEF Persist, PersistRaises
  <2>2. DataTyped' /\ pc' \in PCs /\ remembered' \in Statuses \cup {"none"}
    BY <2>1 DEF DataTyped, PCs, envVars, taskVars
  <2>. QED  BY <1>1, <2>2
<1>. QED  BY <1>3, <1>4, <1>5, <1>6, <1>7, <1>8, <1>9, <1>10

\* Only the start of a tool leads to "tool", and it sets the call.
LEMMA CallStep == CallTyped /\ [Next]_vars => CallTyped'
<1>. SUFFICES ASSUME CallTyped, [Next]_vars, pc' = "tool" PROVE call' \in Calls
  BY DEF CallTyped
<1>1. CASE StepStage
  BY <1>1 DEF StepStage, StepBody, StepRaises, AgentSpeaks, AgentProposes, GateDenies,
     GateDefers, ToolUnknown, ToolStarts, ToolReturns, FinishStep
<1>2. ~ (Start \/ PlanStage \/ BeginExecute \/ LoopOverBudget \/ LoopStep \/ LoopEnds \/ Stepped
         \/ SettleOutcome \/ Catch \/ Persist \/ PersistRaises)
  BY DEF Start, PlanStage, Plan, PlanSynthesise, PlannerSucceeds, PlannerRetries,
     PlannerFallsBack, PlannerRaises, Receive, BeginExecute, LoopOverBudget, LoopStep,
     BeginStep, StepOverBudget, SkipStep, Dispatch, LoopEnds, Stepped, SettleOutcome,
     Catch, Persist, PersistRaises
<1>3. CASE UNCHANGED vars
  BY <1>3 DEF CallTyped, vars, taskVars
<1>. QED  BY <1>1, <1>2, <1>3 DEF Next

\* Every behaviour of the runner respects its types.
THEOREM TypeCorrect == Spec => []TypeOK
<1>1. Init => TypeOK
  BY TypeInit
<1>2. TypeOK /\ [Next]_vars => TypeOK'
  <2>. SUFFICES ASSUME TypeOK, [Next]_vars PROVE TypeOK'
    OBVIOUS
  <2>1. Typed'
    <3>1. CASE UNCHANGED vars
      BY <3>1 DEF Typed, TypeOK, StepRunnerTypeOK, FlagsTyped, DataTyped, vars, envVars, taskVars
    <3>. QED  BY <3>1, TypePlan, TypeBegin, TypeBody, TypeFrame DEF Next
  <2>2. CallTyped'
    BY CallStep DEF TypeOK, StepRunnerTypeOK
  <2>. QED  BY <2>1, <2>2 DEF Typed, TypeOK, StepRunnerTypeOK
<1>. QED  BY <1>1, <1>2, PTL DEF Spec

-----------------------------------------------------------------------------
(* Safety.  Each invariant is proved from a lemma about what one step does. *)

\* A step starts at most one tool, on a call the gate allows, while the agent
\* of a dispatched plan step has the floor.
LEMMA StartsOnlyAllowed ==
  ASSUME [Next]_vars
  PROVE  \/ started' = started
         \/ /\ pc = "agent" /\ pc' = "tool"
            /\ UNCHANGED <<iterations, status>>
            /\ \E c \in Calls : /\ Evaluate(c, settings) = "allow"
                                /\ started' = Append(started, c)
<1>1. CASE StepStage
  <2>1. CASE StepRaises
    BY <2>1 DEF StepRaises
  <2>2. CASE AgentSpeaks
    BY <2>2 DEF AgentSpeaks
  <2>3. ASSUME NEW c \in Calls, AgentProposes(c)
        PROVE  \/ started' = started
               \/ /\ pc = "agent" /\ pc' = "tool"
                  /\ UNCHANGED <<iterations, status>>
                  /\ Evaluate(c, settings) = "allow"
                  /\ started' = Append(started, c)
    BY <2>3 DEF AgentProposes, GateDenies, GateDefers, ToolUnknown, ToolStarts
  <2>4. ASSUME NEW ok \in BOOLEAN, ToolReturns(ok) PROVE started' = started
    BY <2>4 DEF ToolReturns
  <2>. QED  BY <1>1, <2>1, <2>2, <2>3, <2>4 DEF StepStage, StepBody
<1>2. CASE \/ Start \/ PlanStage \/ BeginExecute \/ LoopOverBudget \/ LoopStep \/ LoopEnds
           \/ Stepped \/ SettleOutcome \/ Catch \/ Persist \/ PersistRaises
  BY <1>2 DEF Start, PlanStage, Plan, PlanSynthesise, PlannerSucceeds, PlannerRetries,
     PlannerFallsBack, PlannerRaises, Receive, BeginExecute, LoopOverBudget, LoopStep,
     BeginStep, StepOverBudget, SkipStep, Dispatch, LoopEnds, Stepped, SettleOutcome,
     Catch, Persist, PersistRaises, taskVars
<1>3. CASE UNCHANGED vars
  BY <1>3 DEF vars, taskVars
<1>. QED  BY <1>1, <1>2, <1>3 DEF Next

\* No step changes the settings or the pool.
LEMMA SettingsFixed == [Next]_vars => UNCHANGED envVars
<1>1. CASE StepStage
  BY <1>1 DEF StepStage, StepBody, StepRaises, AgentSpeaks, AgentProposes, ToolReturns
<1>2. CASE \/ Start \/ PlanStage \/ BeginExecute \/ LoopOverBudget \/ LoopStep \/ LoopEnds
           \/ Stepped \/ SettleOutcome \/ Catch \/ Persist \/ PersistRaises
  BY <1>2 DEF Start, PlanStage, Plan, PlanSynthesise, PlannerSucceeds, PlannerRetries,
     PlannerFallsBack, PlannerRaises, Receive, BeginExecute, LoopOverBudget, LoopStep,
     BeginStep, StepOverBudget, SkipStep, Dispatch, LoopEnds, Stepped, SettleOutcome,
     Catch, Persist, PersistRaises
<1>3. CASE UNCHANGED vars
  BY <1>3 DEF vars
<1>. QED  BY <1>1, <1>2, <1>3 DEF Next

\* What the gate allows, the policy allows: ApprovalGate.evaluate tests its
\* conditions in an order that never lets one shadow another.
LEMMA GateSound ==
  ASSUME NEW c \in Calls, settings \in Settings, Evaluate(c, settings) = "allow"
  PROVE  /\ settings.level # "all"
         /\ RiskyCall(c) => settings.level = "none"
         /\ settings.env = "prod" => SafeListed(c) \/ RiskyCall(c)
         /\ c.tool \in ElevatedTools => c.risk = "elevated"
<1>1. ~ Misclassified(c) /\ ~ Asks(c, settings)
  BY DEF Evaluate
<1>. QED  BY <1>1 DEF Misclassified, Asks, RiskyCall, SafeListed

\* The approval policy holds of every tool that ever runs, for every set of
\* tools, safe list and elevated list.
THEOREM PolicyHolds == Spec => []PolicyRespected
<1>1. Init => PolicyRespected
  BY DEF Init, InitTask, PolicyRespected, Range
<1>2. TypeOK /\ PolicyRespected /\ [Next]_vars => PolicyRespected'
  <2>. SUFFICES ASSUME TypeOK, PolicyRespected, [Next]_vars PROVE PolicyRespected'
    OBVIOUS
  <2>1. settings' = settings
    BY SettingsFixed DEF envVars
  <2>2. CASE started' = started
    BY <2>1, <2>2 DEF PolicyRespected
  <2>3. ASSUME NEW c \in Calls, Evaluate(c, settings) = "allow", started' = Append(started, c)
        PROVE  PolicyRespected'
    <3>1. Range(started') = Range(started) \cup {c}
      <4>1. started \in Seq(Calls)
        BY DEF TypeOK, StepRunnerTypeOK, DataTyped
      <4>. QED  BY <2>3, <4>1 DEF Range
    <3>2. settings \in Settings
      BY DEF TypeOK, StepRunnerTypeOK, DataTyped
    <3>. QED  BY <2>1, <2>3, <3>1, <3>2, GateSound DEF PolicyRespected
  <2>. QED  BY <2>2, <2>3, StartsOnlyAllowed
<1>. QED  BY <1>1, <1>2, TypeCorrect, PTL DEF Spec

\* An iteration is counted below the budget, by a step that starts no tool; only
\* a counted iteration gives an agent the floor.
LEMMA CountsBelowBudget ==
  ASSUME [Next]_vars
  PROVE  \/ /\ iterations' = iterations
            /\ pc' = "agent" => pc = "agent"
         \/ ~ OverBudget /\ iterations' = iterations + 1 /\ started' = started
<1>1. CASE LoopStep
  BY <1>1 DEF LoopStep, BeginStep, StepOverBudget, SkipStep, Dispatch
<1>2. CASE StepStage
  BY <1>2 DEF StepStage, StepBody, StepRaises, AgentSpeaks, AgentProposes, GateDenies,
     GateDefers, ToolUnknown, ToolStarts, ToolReturns, FinishStep
<1>3. CASE \/ Start \/ PlanStage \/ BeginExecute \/ LoopOverBudget \/ LoopEnds \/ Stepped
           \/ SettleOutcome \/ Catch \/ Persist \/ PersistRaises
  BY <1>3 DEF Start, PlanStage, Plan, PlanSynthesise, PlannerSucceeds, PlannerRetries,
     PlannerFallsBack, PlannerRaises, Receive, BeginExecute, LoopOverBudget, LoopEnds,
     Stepped, SettleOutcome, Catch, Persist, PersistRaises, taskVars
<1>4. CASE UNCHANGED vars
  BY <1>4 DEF vars, taskVars
<1>. QED  BY <1>1, <1>2, <1>3, <1>4 DEF Next

\* The inductive form of EffectsWithinBudget: the iteration of a dispatched step
\* is counted before its agent may start a tool.
BudgetInv == EffectsWithinBudget /\ (pc = "agent" => Len(started) < iterations)

\* BudgetInv holds in every state of every run.
LEMMA BudgetInductive == Spec => []BudgetInv
<1>1. Init => BudgetInv
  <2>. SUFFICES ASSUME Init PROVE BudgetInv
    OBVIOUS
  <2>1. settings.budget \in Nat
    BY RunnerAssumption DEF Init, InitTask, Settings
  <2>2. iterations = 0 /\ started = <<>> /\ pc = "start"
    BY DEF Init, InitTask
  <2>. QED  BY <2>1, <2>2 DEF BudgetInv, EffectsWithinBudget
<1>2. TypeOK /\ BudgetInv /\ [Next]_vars => BudgetInv'
  <2>. SUFFICES ASSUME TypeOK, BudgetInv, [Next]_vars PROVE BudgetInv'
    OBVIOUS
  <2>1. settings' = settings
    BY SettingsFixed DEF envVars
  <2>2. /\ settings.budget \in Nat /\ iterations \in Nat
        /\ started \in Seq(Calls) /\ Len(started) \in Nat
    <3>1. settings \in Settings /\ iterations \in Nat /\ started \in Seq(Calls)
      BY DEF TypeOK, StepRunnerTypeOK, DataTyped
    <3>2. settings.budget \in Nat
      BY <3>1, RunnerAssumption DEF Settings
    <3>. QED  BY <3>1, <3>2
  <2>3. CASE ~ OverBudget /\ iterations' = iterations + 1 /\ started' = started
    BY <2>1, <2>2, <2>3 DEF BudgetInv, EffectsWithinBudget, OverBudget
  <2>4. CASE /\ iterations' = iterations
             /\ pc' = "agent" => pc = "agent"
             /\ started' = started
    BY <2>1, <2>4 DEF BudgetInv, EffectsWithinBudget
  <2>5. ASSUME NEW c \in Calls, pc = "agent", pc' = "tool", iterations' = iterations,
               started' = Append(started, c)
        PROVE  BudgetInv'
    <3>1. Len(started') = Len(started) + 1
      BY <2>2, <2>5
    <3>2. Len(started) < iterations /\ iterations <= settings.budget
      BY <2>5 DEF BudgetInv, EffectsWithinBudget
    <3>. QED  BY <2>1, <2>2, <2>5, <3>1, <3>2 DEF BudgetInv, EffectsWithinBudget
  <2>. QED  BY <2>3, <2>4, <2>5, CountsBelowBudget, StartsOnlyAllowed
<1>. QED  BY <1>1, <1>2, TypeCorrect, PTL DEF Spec

\* A task never runs more tools, nor counts more iterations, than its budget.
THEOREM BudgetHolds == Spec => []EffectsWithinBudget
<1>1. BudgetInv => EffectsWithinBudget
  BY DEF BudgetInv
<1>. QED  BY <1>1, BudgetInductive, PTL

-----------------------------------------------------------------------------
\* Once a call waits for approval, the walk is on its way out.
PauseInv ==
  status = "awaiting_approval" =>
    \/ pc = "stepped" /\ stop
    \/ pc \in {"walked", "persist", "returned", "lost"}

\* What a step does to a paused run: it ends the walk, settles nothing anew,
\* and starts, counts and marks nothing.
LEMMA PausedStep ==
  ASSUME PauseInv, [Next]_vars, status = "awaiting_approval"
  PROVE  /\ UNCHANGED <<status, started, iterations, plan>>
         /\ \/ pc' = "stepped" /\ stop'
            \/ pc' \in {"walked", "persist", "returned", "lost"}
<1>1. CASE UNCHANGED vars
  BY <1>1 DEF PauseInv, vars, taskVars
<1>2. CASE Stepped
  BY <1>2 DEF PauseInv, Stepped
<1>3. CASE SettleOutcome
  BY <1>3 DEF SettleOutcome
<1>4. CASE Persist \/ PersistRaises
  BY <1>4 DEF Persist, PersistRaises, taskVars
<1>5. pc \in {"stepped", "walked", "persist", "returned", "lost"}
  BY DEF PauseInv
<1>6. ~ (\/ Start \/ PlanStage \/ BeginExecute \/ LoopOverBudget \/ LoopStep \/ LoopEnds
         \/ StepStage \/ Catch)
  BY <1>5 DEF Start, PlanStage, Plan, PlanSynthesise, PlannerSucceeds, PlannerRetries,
     PlannerFallsBack, PlannerRaises, BeginExecute, LoopOverBudget, LoopStep, LoopEnds,
     StepStage, StepBody, StepRaises, AgentSpeaks, AgentProposes, ToolReturns, Catch
<1>. QED  BY <1>1, <1>2, <1>3, <1>4, <1>6 DEF Next

\* Only the gate's deferral pauses a run, and it stops the walk.
LEMMA PausingStep ==
  ASSUME [Next]_vars, status # "awaiting_approval", status' = "awaiting_approval"
  PROVE  pc' = "stepped" /\ stop'
<1>1. CASE StepStage
  BY <1>1 DEF StepStage, StepBody, StepRaises, AgentSpeaks, AgentProposes, GateDenies,
     GateDefers, ToolUnknown, ToolStarts, ToolReturns
<1>2. ~ (\/ Start \/ PlanStage \/ BeginExecute \/ LoopOverBudget \/ LoopStep \/ LoopEnds
         \/ Stepped \/ SettleOutcome \/ Catch \/ Persist \/ PersistRaises)
  BY DEF Start, PlanStage, Plan, PlanSynthesise, PlannerSucceeds, PlannerRetries,
     PlannerFallsBack, PlannerRaises, Receive, BeginExecute, LoopOverBudget, LoopStep,
     BeginStep, StepOverBudget, SkipStep, Dispatch, LoopEnds, Stepped, SettleOutcome,
     Catch, Persist, PersistRaises, taskVars
<1>3. CASE UNCHANGED vars
  BY <1>3 DEF vars, taskVars
<1>. QED  BY <1>1, <1>2, <1>3 DEF Next

\* PauseInv holds in every state of every run.
LEMMA PauseInductive == Spec => []PauseInv
<1>1. Init => PauseInv
  BY DEF Init, InitTask, PauseInv
<1>2. PauseInv /\ [Next]_vars => PauseInv'
  <2>1. CASE status = "awaiting_approval"
    BY <2>1, PausedStep DEF PauseInv
  <2>2. CASE status # "awaiting_approval"
    BY <2>2, PausingStep DEF PauseInv
  <2>. QED  BY <2>1, <2>2
<1>. QED  BY <1>1, <1>2, PTL DEF Spec

\* A run that waits for the user does nothing more until it returns.
THEOREM PauseHolds == Spec => NothingAfterPause
<1>1. PauseInv /\ [Next]_vars
        => [status = "awaiting_approval" => UNCHANGED <<status, started, iterations, plan>>]_vars
  BY PausedStep
<1>. QED  BY <1>1, PauseInductive, PTL DEF Spec, NothingAfterPause

-----------------------------------------------------------------------------
(* The runner implements TaskContract. *)

Working == {"start", "plan", "planned", "loop", "agent", "tool", "stepped", "walked", "raised"}

\* The contract sees work, a settled status, or a lost one, and nothing else.
View(phase, outcome) == <<settings.budget, Len(started), phase, outcome>>

\* What the contract sees of a run, at every place it may be.
LEMMA ViewNow ==
  /\ pc \in Working  => Contract!vars = View("working", "none")
  /\ pc = "persist"  => Contract!vars = View("settled", status)
  /\ pc = "returned" => Contract!vars = View("reported", status)
  /\ pc = "lost"     => Contract!vars = View("lost", status)
BY DEF Working, View, Contract!vars

\* The same of the next state.
LEMMA ViewNext ==
  /\ pc' \in Working  => Contract!vars' = View("working", "none")'
  /\ pc' = "persist"  => Contract!vars' = View("settled", status)'
  /\ pc' = "returned" => Contract!vars' = View("reported", status)'
  /\ pc' = "lost"     => Contract!vars' = View("lost", status)'
BY DEF Working, View, Contract!vars

\* A step works on, or it is one of the four that leave the work behind.
LEMMA Moves ==
  ASSUME [Next]_vars
  PROVE  \/ pc \in Working /\ pc' \in Working
         \/ SettleOutcome \/ Catch \/ Persist \/ PersistRaises
         \/ UNCHANGED vars
<1>1. CASE StepStage
  BY <1>1 DEF Working, StepStage, StepBody, StepRaises, AgentSpeaks, AgentProposes,
     GateDenies, GateDefers, ToolUnknown, ToolStarts, ToolReturns, FinishStep
<1>2. CASE \/ Start \/ PlanStage \/ BeginExecute \/ LoopOverBudget \/ LoopStep \/ LoopEnds
           \/ Stepped
  BY <1>2 DEF Working, Start, PlanStage, Plan, PlanSynthesise, PlannerSucceeds,
     PlannerRetries, PlannerFallsBack, PlannerRaises, Receive, BeginExecute,
     LoopOverBudget, LoopStep, BeginStep, StepOverBudget, SkipStep, Dispatch, LoopEnds,
     Stepped
<1>. QED  BY <1>1, <1>2 DEF Next

\* Every step of the runner is a step of the contract, or invisible to it.
LEMMA ContractStep ==
  ASSUME TypeOK, BudgetInv, [Next]_vars
  PROVE  [Contract!Next]_(Contract!vars)
<1>1. settings' = settings
  BY SettingsFixed DEF envVars
<1>2. CASE pc \in Working /\ pc' \in Working
  <2>1. CASE started' = started
    BY <1>1, <1>2, <2>1, ViewNow, ViewNext DEF View
  <2>2. ASSUME NEW c \in Calls, pc = "agent", started' = Append(started, c)
        PROVE  Contract!Effect
    <3>1. settings.budget \in Nat /\ iterations \in Nat /\ started \in Seq(Calls)
      <4>1. settings \in Settings /\ iterations \in Nat /\ started \in Seq(Calls)
        BY DEF TypeOK, StepRunnerTypeOK, DataTyped
      <4>. QED  BY <4>1, RunnerAssumption DEF Settings
    <3>2. Len(started) < settings.budget
      BY <2>2, <3>1 DEF BudgetInv, EffectsWithinBudget
    <3>3. Len(started') = Len(started) + 1
      BY <2>2, <3>1
    <3>. QED  BY <1>1, <1>2, <3>2, <3>3 DEF Working, Contract!Effect
  <2>. QED  BY <2>1, <2>2, StartsOnlyAllowed DEF Contract!Next
<1>3. CASE SettleOutcome \/ Catch
  <2>1. /\ pc \in Working /\ pc' = "persist" /\ UNCHANGED started
        /\ status' \in {"completed", "failed", "awaiting_approval"}
    BY <1>3 DEF SettleOutcome, Catch, Working
  <2>2. Contract!Settle
    BY <1>1, <2>1 DEF Working, Contract!Settle, Contract!Outcomes
  <2>. QED  BY <2>2 DEF Contract!Next
<1>4. CASE Persist
  <2>1. pc = "persist" /\ pc' = "returned" /\ UNCHANGED <<started, status>>
    BY <1>4 DEF Persist, taskVars
  <2>2. Contract!Report
    BY <1>1, <2>1 DEF Contract!Report
  <2>. QED  BY <2>2 DEF Contract!Next
<1>5. CASE PersistRaises
  <2>1. pc = "persist" /\ pc' = "lost" /\ UNCHANGED <<started, status>>
    BY <1>5 DEF PersistRaises, taskVars
  <2>2. Contract!Lose
    BY <1>1, <2>1 DEF Contract!Lose
  <2>. QED  BY <2>2 DEF Contract!Next
<1>6. CASE UNCHANGED vars
  BY <1>6 DEF vars, envVars, taskVars, Contract!vars
<1>. QED  BY <1>2, <1>3, <1>4, <1>5, <1>6, Moves

\* Orchestrator.run keeps the contract of TaskContract: the budget bounds its
\* effects, they precede the outcome, and the outcome settled is the one reported.
THEOREM ContractKept == Spec => KeepsContract
<1>1. Init => Contract!Init
  <2>. SUFFICES ASSUME Init PROVE Contract!Init
    OBVIOUS
  <2>1. settings \in Settings /\ started = <<>> /\ pc = "start"
    BY DEF Init, InitTask
  <2>2. settings.budget \in Nat
    BY <2>1, RunnerAssumption DEF Settings
  <2>. QED  BY <2>1, <2>2 DEF Contract!Init
<1>2. TypeOK /\ BudgetInv /\ [Next]_vars => [Contract!Next]_(Contract!vars)
  BY ContractStep
<1>. QED
  BY <1>1, <1>2, TypeCorrect, BudgetInductive, PTL DEF Spec, KeepsContract, Contract!Spec

-----------------------------------------------------------------------------
(* The memory *)

\* The record is written by the last step of a run.
MemoryInv == MemoryMatchesOutcome /\ (pc \notin {"returned", "lost"} => remembered = "none")

\* The conversation record carries the status the caller gets.
THEOREM MemoryTellsOutcome == Spec => []MemoryMatchesOutcome
<1>1. Init => MemoryInv
  BY DEF Init, InitTask, MemoryInv, MemoryMatchesOutcome
<1>2. MemoryInv /\ [Next]_vars => MemoryInv'
  <2>. SUFFICES ASSUME MemoryInv, [Next]_vars PROVE MemoryInv'
    OBVIOUS
  <2>1. CASE Persist \/ PersistRaises
    BY <2>1 DEF Persist, PersistRaises, taskVars, MemoryInv, MemoryMatchesOutcome
  <2>2. CASE UNCHANGED vars
    BY <2>2 DEF vars, taskVars, MemoryInv, MemoryMatchesOutcome
  <2>3. CASE StepStage
    BY <2>3 DEF StepStage, StepBody, StepRaises, AgentSpeaks, AgentProposes, GateDenies,
       GateDefers, ToolUnknown, ToolStarts, ToolReturns, FinishStep, MemoryInv, MemoryMatchesOutcome
  <2>4. CASE \/ Start \/ PlanStage \/ BeginExecute \/ LoopOverBudget \/ LoopStep \/ LoopEnds
             \/ Stepped \/ SettleOutcome \/ Catch
    BY <2>4 DEF Start, PlanStage, Plan, PlanSynthesise, PlannerSucceeds, PlannerRetries,
       PlannerFallsBack, PlannerRaises, Receive, BeginExecute, LoopOverBudget, LoopStep,
       BeginStep, StepOverBudget, SkipStep, Dispatch, LoopEnds, Stepped, SettleOutcome, Catch,
       MemoryInv, MemoryMatchesOutcome
  <2>. QED  BY <2>1, <2>2, <2>3, <2>4 DEF Next
<1>3. MemoryInv => MemoryMatchesOutcome
  BY DEF MemoryInv
<1>. QED  BY <1>1, <1>2, <1>3, PTL DEF Spec

-----------------------------------------------------------------------------
(* The walk *)

DoneUpTo(n) == \A i \in 1 .. n : plan[i].done

Walked == plan # <<>> /\ AllDone /\ iterations = Len(plan)

\* Each step of the plan takes one iteration, and is done before the next one
\* begins; a walk that is cut short has a status that says so.
WalkInv ==
  /\ pc \in {"start", "plan", "planned"} => iterations = 0
  /\ pc \in {"planned", "loop", "agent", "tool"} => plan # <<>>
  /\ pc = "loop" => step <= Len(plan) + 1 /\ iterations = step - 1 /\ DoneUpTo(step - 1)
  /\ pc \in {"agent", "tool"} => step <= Len(plan) /\ iterations = step /\ DoneUpTo(step - 1)
  /\ pc = "stepped" /\ ~stop =>
       plan # <<>> /\ step <= Len(plan) /\ iterations = step /\ DoneUpTo(step)
  /\ pc = "stepped" /\ stop => status \in {"failed", "awaiting_approval"}
  /\ pc = "walked" => status \in {"failed", "awaiting_approval"} \/ Walked
  /\ status = "completed" => pc \in {"persist", "returned", "lost"}

\* A plan has a step.
LEMMA RunnerPlanHasStep == \A r \in Response : RunnerPlan(r) # <<>> /\ SingleStep # <<>>
<1>. SUFFICES ASSUME NEW r \in Response PROVE RunnerPlan(r) # <<>> /\ SingleStep # <<>>
  OBVIOUS
<1>1. SingleStep # <<>>
  BY DEF SingleStep
<1>2. CASE r.syntax = "object" /\ r.steps # <<>>
  <2>1. r.steps \in Seq(RawStep)
    BY DEF Response
  <2>2. DOMAIN r.steps # {}
    <3>. SUFFICES ASSUME NEW S, NEW s \in Seq(S), s # <<>> PROVE DOMAIN s # {}
      BY <1>2, <2>1
    <3>1. Len(s) \in Nat /\ Len(s) # 0 /\ DOMAIN s = 1 .. Len(s)
      OBVIOUS
    <3>2. 1 \in 1 .. Len(s)
      BY <3>1
    <3>. QED  BY <3>1, <3>2
  <2>3. DOMAIN Coerced(r.steps) # {}
    BY <2>2 DEF Coerced
  <2>. QED  BY <1>1, <1>2, <2>3 DEF RunnerPlan
<1>. QED  BY <1>1, <1>2 DEF RunnerPlan

\* Marking a step done leaves the others as they are.
LEMMA DoneMarks ==
  ASSUME plan \in Seq(PlanStep), NEW i \in 1 .. Len(plan)
  PROVE  /\ Len(Done(i)) = Len(plan) /\ Done(i) # <<>>
         /\ Done(i)[i].done
         /\ \A j \in 1 .. Len(plan) : plan[j].done => Done(i)[j].done
<1>1. plan \in [1 .. Len(plan) -> PlanStep] /\ Len(plan) \in Nat
  OBVIOUS
<1>. DEFINE marked == [plan[i] EXCEPT !.done = TRUE]
<1>2. marked \in PlanStep /\ marked.done
  BY <1>1 DEF PlanStep
<1>3. Done(i) = [plan EXCEPT ![i] = marked]
  BY DEF Done
<1>. HIDE DEF marked
<1>4. Done(i)[i].done /\ \A j \in 1 .. Len(plan) : plan[j].done => Done(i)[j].done
  BY <1>1, <1>2, <1>3
<1>5. Len(Done(i)) = Len(plan)
  BY DoneType
<1>6. Len(plan) # 0
  BY <1>1
<1>. QED  BY <1>4, <1>5, <1>6

\* The end of a step: it is done, and the walk goes on.
LEMMA FinishWalks ==
  ASSUME TypeOK, WalkInv, pc \in {"agent", "tool"}, NEW trail, FinishStep(trail),
         UNCHANGED <<step, iterations>>, status' # "completed"
  PROVE  WalkInv'
<1>1. plan \in Seq(PlanStep) /\ step \in Nat \ {0} /\ Len(plan) \in Nat /\ step <= Len(plan)
      /\ iterations = step /\ DoneUpTo(step - 1)
  BY DEF TypeOK, StepRunnerTypeOK, DataTyped, WalkInv
<1>2. step \in 1 .. Len(plan)
  BY <1>1
<1>3. Len(Done(step)) = Len(plan) /\ Done(step) # <<>> /\ Done(step)[step].done
      /\ \A j \in 1 .. Len(plan) : plan[j].done => Done(step)[j].done
  BY <1>1, <1>2, DoneMarks
<1>4. plan' = Done(step) /\ pc' = "stepped" /\ stop' = FALSE /\ step' = step /\ iterations' = iterations
  BY DEF FinishStep
<1>5. \A j \in 1 .. step : Done(step)[j].done
  <2>. SUFFICES ASSUME NEW j \in 1 .. step PROVE Done(step)[j].done
    OBVIOUS
  <2>1. j = step \/ j \in 1 .. (step - 1)
    BY <1>1
  <2>. QED  BY <1>1, <1>3, <2>1 DEF DoneUpTo
<1>6. DoneUpTo(step)'
  BY <1>4, <1>5 DEF DoneUpTo
<1>. QED  BY <1>1, <1>3, <1>4, <1>6 DEF WalkInv

\* Planning walks nothing.
LEMMA PlanWalks == ASSUME TypeOK, WalkInv, PlanStage PROVE WalkInv'
<1>1. pc = "plan" /\ iterations' = iterations /\ iterations = 0 /\ status' = status
      /\ status # "completed" /\ pc' \in {"plan", "raised", "planned"}
  BY DEF PlanStage, Plan, PlanSynthesise, PlannerSucceeds, PlannerRetries, PlannerFallsBack,
     PlannerRaises, Receive, WalkInv
<1>2. FallbackMessage \in Response
  BY RolesAssumption DEF FallbackMessage, Response, RawStep, Syntaxes
<1>3. pc' = "planned" => plan' # <<>>
  <2>1. SingleStep # <<>>
    BY <1>2, RunnerPlanHasStep
  <2>2. \A r \in Response : Receive(r) /\ pc' = "planned" => plan' # <<>>
    BY RunnerPlanHasStep DEF Receive
  <2>. QED  BY <1>1, <1>2, <2>1, <2>2, RunnerAssumption DEF PlanStage, Plan, PlanSynthesise,
            PlannerSucceeds, PlannerRetries, PlannerFallsBack, PlannerRaises
<1>. QED  BY <1>1, <1>3 DEF WalkInv

\* A step begins: it is skipped and done, or given to its agent.
LEMMA BeginWalks == ASSUME TypeOK, WalkInv, LoopStep PROVE WalkInv'
<1>1. pc = "loop" /\ step <= Len(plan) /\ ~ OverBudget /\ plan # <<>> /\ iterations = step - 1
      /\ DoneUpTo(step - 1) /\ plan \in Seq(PlanStep) /\ step \in Nat \ {0} /\ Len(plan) \in Nat
  BY DEF LoopStep, WalkInv, TypeOK, StepRunnerTypeOK, DataTyped
<1>2. CASE SkipStep(step)
  <2>1. step \in 1 .. Len(plan)
    BY <1>1
  <2>2. Len(Done(step)) = Len(plan) /\ Done(step) # <<>> /\ Done(step)[step].done
        /\ \A j \in 1 .. Len(plan) : plan[j].done => Done(step)[j].done
    BY <1>1, <2>1, DoneMarks
  <2>3. plan' = Done(step) /\ pc' = "stepped" /\ stop' = FALSE /\ step' = step
        /\ iterations' = step /\ status' = "running"
    BY <1>1, <1>2 DEF SkipStep
  <2>4. \A j \in 1 .. step : Done(step)[j].done
    <3>. SUFFICES ASSUME NEW j \in 1 .. step PROVE Done(step)[j].done
      OBVIOUS
    <3>1. j = step \/ j \in 1 .. (step - 1)
      BY <1>1
    <3>. QED  BY <1>1, <2>2, <3>1 DEF DoneUpTo
  <2>5. DoneUpTo(step)'
    BY <2>3, <2>4 DEF DoneUpTo
  <2>. QED  BY <1>1, <2>2, <2>3, <2>5 DEF WalkInv
<1>3. CASE Dispatch(step)
  <2>1. pc' = "agent" /\ plan' = plan /\ step' = step /\ iterations' = step /\ status' = "running"
    BY <1>1, <1>3 DEF Dispatch
  <2>2. DoneUpTo(step - 1)'
    BY <1>1, <2>1 DEF DoneUpTo
  <2>. QED  BY <1>1, <2>1, <2>2 DEF WalkInv
<1>. QED  BY <1>1, <1>2, <1>3 DEF LoopStep, BeginStep, StepOverBudget

\* The body of a step.
LEMMA BodyWalks == ASSUME TypeOK, WalkInv, StepStage PROVE WalkInv'
<1>1. pc \in {"agent", "tool"} /\ status # "completed" /\ StepBody
  BY DEF StepStage, StepBody, StepRaises, AgentSpeaks, AgentProposes, ToolReturns, WalkInv
<1>2. CASE StepRaises
  BY <1>1, <1>2 DEF StepRaises, WalkInv
<1>3. CASE AgentSpeaks
  BY <1>1, <1>3, FinishWalks DEF AgentSpeaks
<1>4. ASSUME NEW c \in Calls, AgentProposes(c) PROVE WalkInv'
  <2>1. UNCHANGED <<step, iterations>>
    BY <1>4 DEF AgentProposes
  <2>2. CASE GateDenies(c) \/ ToolUnknown(c)
    <3>1. status' = "failed" /\ \E trail : FinishStep(trail)
      BY <2>2 DEF GateDenies, ToolUnknown
    <3>. QED  BY <1>1, <2>1, <3>1, FinishWalks
  <2>3. CASE GateDefers(c)
    BY <2>3 DEF GateDefers, WalkInv
  <2>4. CASE ToolStarts(c)
    <3>1. pc' = "tool" /\ UNCHANGED <<step, iterations, plan, status>>
      BY <2>1, <2>4 DEF ToolStarts
    <3>2. DoneUpTo(step - 1)' <=> DoneUpTo(step - 1)
      BY <3>1 DEF DoneUpTo
    <3>. QED  BY <1>1, <3>1, <3>2 DEF WalkInv
  <2>. QED  BY <1>4, <2>2, <2>3, <2>4 DEF AgentProposes
<1>5. ASSUME NEW ok \in BOOLEAN, ToolReturns(ok) PROVE WalkInv'
  <2>1. UNCHANGED <<step, iterations, status>> /\ \E trail : FinishStep(trail)
    BY <1>5 DEF ToolReturns
  <2>. QED  BY <1>1, <2>1, FinishWalks
<1>. QED  BY <1>1, <1>2, <1>3, <1>4, <1>5 DEF StepBody

\* The loop around the steps.
LEMMA LoopWalks ==
  ASSUME TypeOK, WalkInv, Start \/ BeginExecute \/ LoopOverBudget \/ LoopEnds \/ Stepped
  PROVE  WalkInv'
<1>1. plan \in Seq(PlanStep) /\ step \in Nat \ {0} /\ Len(plan) \in Nat
      /\ (\A n : DoneUpTo(n) <=> \A i \in 1 .. n : plan[i].done)
  BY DEF TypeOK, StepRunnerTypeOK, DataTyped, DoneUpTo
<1>2. CASE Start
  BY <1>2 DEF Start, WalkInv
<1>3. CASE BeginExecute
  <2>1. pc' = "loop" /\ step' = 1 /\ UNCHANGED <<plan, iterations>> /\ status' = "running"
        /\ iterations = 0 /\ plan # <<>>
    BY <1>3 DEF BeginExecute, WalkInv
  <2>2. DoneUpTo(step - 1)'
    BY <2>1 DEF DoneUpTo
  <2>. QED  BY <1>1, <2>1, <2>2 DEF WalkInv
<1>4. CASE LoopOverBudget
  BY <1>4 DEF LoopOverBudget, WalkInv
<1>5. CASE LoopEnds
  <2>1. pc' = "walked" /\ UNCHANGED <<plan, iterations, status>> /\ status # "completed"
        /\ step > Len(plan) /\ step <= Len(plan) + 1 /\ plan # <<>> /\ iterations = step - 1
        /\ DoneUpTo(step - 1)
    BY <1>5 DEF LoopEnds, taskVars, WalkInv
  <2>2. iterations = Len(plan) /\ AllDone
    BY <1>1, <2>1 DEF AllDone
  <2>3. Walked'
    BY <2>1, <2>2 DEF Walked, AllDone
  <2>. QED  BY <2>1, <2>3 DEF WalkInv
<1>6. CASE Stepped /\ stop
  BY <1>6 DEF Stepped, WalkInv
<1>7. CASE Stepped /\ ~ stop
  <2>1. pc' = "loop" /\ step' = step + 1 /\ UNCHANGED <<plan, iterations, status>>
        /\ status # "completed" /\ plan # <<>> /\ step <= Len(plan) /\ iterations = step
        /\ DoneUpTo(step)
    BY <1>7 DEF Stepped, WalkInv
  <2>2. DoneUpTo(step - 1)'
    BY <1>1, <2>1 DEF DoneUpTo
  <2>. QED  BY <1>1, <2>1, <2>2 DEF WalkInv
<1>. QED  BY <1>2, <1>3, <1>4, <1>5, <1>6, <1>7

\* WalkInv holds in every state of every run.
LEMMA WalkInductive == Spec => []WalkInv
<1>1. Init => WalkInv
  BY DEF Init, InitTask, WalkInv
<1>2. TypeOK /\ WalkInv /\ [Next]_vars => WalkInv'
  <2>. SUFFICES ASSUME TypeOK, WalkInv, [Next]_vars PROVE WalkInv'
    OBVIOUS
  <2>1. CASE SettleOutcome \/ Catch
    BY <2>1 DEF SettleOutcome, Catch, WalkInv
  <2>2. CASE Persist \/ PersistRaises
    BY <2>2 DEF Persist, PersistRaises, taskVars, WalkInv
  <2>3. CASE UNCHANGED vars
    BY <2>3 DEF vars, taskVars, WalkInv, DoneUpTo, Walked, AllDone
  <2>. QED  BY <2>1, <2>2, <2>3, PlanWalks, BeginWalks, BodyWalks, LoopWalks DEF Next
<1>. QED  BY <1>1, <1>2, TypeCorrect, PTL DEF Spec

\* A completed task walked its whole plan, a step an iteration, and completing
\* it was the last thing it wrote.
THEOREM CompletionWalked == Spec => []CompletedMeansWalked
<1>1. Init => CompletedMeansWalked
  BY DEF Init, InitTask, CompletedMeansWalked
<1>2. TypeOK /\ WalkInv /\ CompletedMeansWalked /\ [Next]_vars => CompletedMeansWalked'
  <2>. SUFFICES ASSUME TypeOK, WalkInv, CompletedMeansWalked, [Next]_vars, status' = "completed"
                PROVE  /\ plan' # <<>> /\ AllDone' /\ iterations' = Len(plan')
                       /\ Last(events').kind = "task_completed"
    BY DEF CompletedMeansWalked
  <2>1. CASE SettleOutcome
    <3>1. pc = "walked" /\ status \notin {"failed", "awaiting_approval"}
          /\ UNCHANGED <<plan, iterations>> /\ events' = Append(events, Event("task_completed"))
      BY <2>1 DEF SettleOutcome
    <3>2. Walked
      BY <3>1 DEF WalkInv
    <3>3. events \in Seq(EventSet) /\ Event("task_completed").kind = "task_completed"
      BY DEF TypeOK, StepRunnerTypeOK, DataTyped, Event
    <3>4. Last(events').kind = "task_completed"
      BY <3>1, <3>3, EventType DEF Last, Kinds
    <3>. QED  BY <3>1, <3>2, <3>4 DEF Walked, AllDone
  <2>2. CASE Persist \/ PersistRaises
    BY <2>2 DEF Persist, PersistRaises, taskVars, CompletedMeansWalked, AllDone
  <2>3. CASE UNCHANGED vars
    BY <2>3 DEF vars, taskVars, CompletedMeansWalked, AllDone
  <2>4. ~ (\/ Start \/ PlanStage \/ BeginExecute \/ LoopOverBudget \/ LoopStep \/ LoopEnds
           \/ StepStage \/ Stepped \/ Catch)
    <3>1. status = "completed" => pc \in {"persist", "returned", "lost"}
      BY DEF WalkInv
    <3>2. ~ StepStage
      BY <3>1 DEF StepStage, StepBody, StepRaises, AgentSpeaks, AgentProposes, GateDenies,
         GateDefers, ToolUnknown, ToolStarts, ToolReturns
    <3>3. ~ (Start \/ PlanStage \/ BeginExecute \/ LoopOverBudget \/ LoopStep \/ LoopEnds
             \/ Stepped \/ Catch)
      BY <3>1 DEF Start, PlanStage, Plan, PlanSynthesise, PlannerSucceeds, PlannerRetries,
         PlannerFallsBack, PlannerRaises, Receive, BeginExecute, LoopOverBudget, LoopStep,
         BeginStep, StepOverBudget, SkipStep, Dispatch, LoopEnds, Stepped, Catch, taskVars
    <3>. QED  BY <3>2, <3>3
  <2>. QED  BY <2>1, <2>2, <2>3, <2>4 DEF Next
<1>. QED  BY <1>1, <1>2, TypeCorrect, WalkInductive, PTL DEF Spec

-----------------------------------------------------------------------------
(* The audit trail *)

Returned == [i \in DOMAIN results |-> results[i].call]

\* A trail that tells of these started and these returned calls.
Trail(t, begun, ended) ==
  /\ t \in Seq(EventSet)
  /\ Tells(t, "tool_call", "allow", begun)
  /\ Tells(t, "tool_result", "none", ended)

\* Starts and results keep step: a result is missing only while its tool runs,
\* or once it has raised and the run is on its way out.
InStep ==
  /\ \A i \in DOMAIN results : i \in DOMAIN started /\ results[i].call = started[i]
  /\ error = "raised" => pc \in {"persist", "returned", "lost"}
  /\ pc = "tool" => /\ Len(started) = Len(results) + 1 /\ call = started[Len(started)]
                    /\ call.tool \in RegisteredTools
  /\ pc = "raised" \/ error = "raised" => Len(started) - Len(results) \in {0, 1}
  /\ pc \notin {"tool", "raised"} /\ error # "raised" => Len(started) = Len(results)

AuditInv == Trail(events, started, Returned) /\ InStep

\* An event of another kind tells nothing, and one of the kind tells of its
\* call, after those told of before.
LEMMA EventTells ==
  ASSUME NEW s \in Seq(EventSet), NEW e \in EventSet, NEW calls \in Seq(Calls),
         NEW kind, NEW v, Tells(s, kind, v, calls)
  PROVE  IF e.kind = kind /\ e.verdict = v /\ e.call.tool \in RegisteredTools
         THEN e.call \in Calls => Tells(Append(s, e), kind, v, Append(calls, e.call))
         ELSE Tells(Append(s, e), kind, v, calls)
<1>. DEFINE t == Append(s, e)
            M == Marks(s, kind, v)
            N == Marks(t, kind, v)
            n == Len(s) + 1
<1>1. /\ Len(s) \in Nat /\ DOMAIN s = 1 .. Len(s) /\ DOMAIN t = 1 .. n
      /\ t[n] = e /\ \A i \in DOMAIN s : t[i] = s[i]
  OBVIOUS
<1>2. M \in SUBSET (1 .. Len(s)) /\ n \notin M /\ n \in Nat
  BY <1>1 DEF Marks
<1>3. IsFiniteSet(M)
  <2>1. IsFiniteSet(1 .. Len(s))
    BY <1>1, FS_Interval
  <2>. QED  BY <1>2, <2>1, FS_Subset
<1>4. Cardinality(M) = Len(calls) /\ \A i \in M : s[i].call = calls[Cardinality({j \in M : j <= i})]
  BY DEF Tells
<1>. HIDE DEF t, M, N, n
<1>5. CASE e.kind = kind /\ e.verdict = v /\ e.call.tool \in RegisteredTools
  <2>. SUFFICES ASSUME e.call \in Calls PROVE Tells(t, kind, v, Append(calls, e.call))
    BY <1>5 DEF t
  <2>1. N = M \cup {n}
    BY <1>1, <1>5 DEF M, N, n, Marks
  <2>2. Cardinality(N) = Len(calls) + 1
    BY <1>2, <1>3, <1>4, <2>1, FS_AddElement
  <2>3. ASSUME NEW i \in N PROVE t[i].call = Append(calls, e.call)[Cardinality({j \in N : j <= i})]
    <3>1. CASE i = n
      <4>1. {j \in N : j <= i} = N
        <5>1. \A j \in N : j <= n
          BY <1>1, <1>2, <2>1 DEF n
        <5>. QED  BY <3>1, <5>1
      <4>2. Append(calls, e.call)[Len(calls) + 1] = e.call
        OBVIOUS
      <4>3. Cardinality({j \in N : j <= i}) = Len(calls) + 1
        BY <2>2, <4>1
      <4>4. t[i] = e
        BY <1>1, <3>1
      <4>. QED  BY <4>2, <4>3, <4>4
    <3>2. CASE i # n
      <4>. DEFINE B == {j \in M : j <= i}
      <4>1. i \in M /\ {j \in N : j <= i} = B
        BY <1>2, <2>1, <3>2 DEF n
      <4>2. B \in SUBSET M /\ B # {}
        BY <1>2, <4>1
      <4>3. IsFiniteSet(B) /\ Cardinality(B) <= Cardinality(M)
        BY <1>3, <4>2, FS_Subset
      <4>4. Cardinality(B) \in 1 .. Len(calls)
        <5>. HIDE DEF B
        <5>1. Cardinality(B) \in Nat
          BY <4>3, FS_CardinalityType
        <5>2. Cardinality(B) # 0
          BY <4>2, <4>3, FS_EmptySet
        <5>3. Len(calls) \in Nat
          OBVIOUS
        <5>. QED  BY <1>4, <4>3, <5>1, <5>2, <5>3
      <4>5. t[i] = s[i] /\ s[i].call = calls[Cardinality(B)]
        BY <1>1, <1>2, <1>4, <4>1
      <4>. HIDE DEF B
      <4>6. Append(calls, e.call)[Cardinality(B)] = calls[Cardinality(B)]
        BY <4>4
      <4>. QED  BY <4>1, <4>5, <4>6
    <3>. QED  BY <3>1, <3>2
  <2>4. Len(Append(calls, e.call)) = Len(calls) + 1
    OBVIOUS
  <2>. QED  BY <2>2, <2>3, <2>4 DEF Tells, N
<1>6. CASE ~ (e.kind = kind /\ e.verdict = v /\ e.call.tool \in RegisteredTools)
  <2>1. N = M
    BY <1>1, <1>6 DEF M, N, n, Marks
  <2>2. \A i \in M : t[i] = s[i]
    BY <1>1, <1>2
  <2>3. Tells(t, kind, v, calls)
    BY <1>4, <2>1, <2>2 DEF Tells, N
  <2>. QED  BY <1>6, <2>3 DEF t
<1>. QED  BY <1>5, <1>6

\* What each event adds to a trail.
LEMMA TrailGrows ==
  ASSUME NEW begun \in Seq(Calls), NEW ended \in Seq(Calls), NEW t, Trail(t, begun, ended)
  PROVE  /\ \A k \in Kinds \ {"tool_call", "tool_result"} : Trail(Append(t, Event(k)), begun, ended)
         /\ \A c \in Calls, v \in Decisions :
              v # "allow" \/ c.tool \notin RegisteredTools => Trail(Append(t, CallEvent(c, v)), begun, ended)
         /\ \A c \in Calls :
              c.tool \in RegisteredTools =>
                /\ Trail(Append(t, CallEvent(c, "allow")), Append(begun, c), ended)
                /\ Trail(Append(t, ResultEvent(c)), begun, Append(ended, c))
<1>1. /\ \A k \in Kinds : Event(k) \in EventSet /\ Event(k).kind = k
      /\ \A c \in Calls, v \in Decisions : /\ CallEvent(c, v) \in EventSet
                                           /\ CallEvent(c, v).kind = "tool_call"
                                           /\ CallEvent(c, v).verdict = v /\ CallEvent(c, v).call = c
      /\ \A c \in Calls : /\ ResultEvent(c) \in EventSet /\ ResultEvent(c).kind = "tool_result"
                          /\ ResultEvent(c).verdict = "none" /\ ResultEvent(c).call = c
      /\ "allow" \in Decisions
  BY EventType DEF Event, CallEvent, ResultEvent, Decisions
<1>2. \A e \in EventSet : Append(t, e) \in Seq(EventSet)
  BY DEF Trail
<1>3. ASSUME NEW k \in Kinds \ {"tool_call", "tool_result"} PROVE Trail(Append(t, Event(k)), begun, ended)
  BY <1>1, <1>2, EventTells DEF Trail
<1>4. ASSUME NEW c \in Calls, NEW v \in Decisions, v # "allow" \/ c.tool \notin RegisteredTools
      PROVE  Trail(Append(t, CallEvent(c, v)), begun, ended)
  BY <1>1, <1>2, <1>4, EventTells DEF Trail
<1>5. ASSUME NEW c \in Calls, c.tool \in RegisteredTools
      PROVE  Trail(Append(t, CallEvent(c, "allow")), Append(begun, c), ended)
  BY <1>1, <1>2, <1>5, EventTells DEF Trail
<1>6. ASSUME NEW c \in Calls, c.tool \in RegisteredTools
      PROVE  Trail(Append(t, ResultEvent(c)), begun, Append(ended, c))
  BY <1>1, <1>2, <1>6, EventTells DEF Trail
<1>. QED  BY <1>3, <1>4, <1>5, <1>6

\* A function on 1 .. n is a sequence of length n, and the other way round.
LEMMA FunctionSeq ==
  /\ \A S : \A n \in Nat : \A f \in [1 .. n -> S] : f \in Seq(S) /\ Len(f) = n
  /\ \A S : \A s \in Seq(S) : s = [i \in 1 .. Len(s) |-> s[i]]
<1>1. ASSUME NEW S, NEW n \in Nat, NEW f \in [1 .. n -> S] PROVE f \in Seq(S) /\ Len(f) = n
  OBVIOUS
<1>2. ASSUME NEW S, NEW s \in Seq(S) PROVE s = [i \in 1 .. Len(s) |-> s[i]]
  OBVIOUS
<1>. QED  BY <1>1, <1>2

\* The calls that have returned are calls.
LEMMA ReturnedType ==
  ASSUME TypeOK
  PROVE  /\ Returned \in Seq(Calls) /\ Len(Returned) = Len(results)
         /\ \A c \in Calls, ok \in BOOLEAN :
              results' = Append(results, [call |-> c, ok |-> ok]) => Returned' = Append(Returned, c)
<1>1. results \in Seq([call : Calls, ok : BOOLEAN])
  BY DEF TypeOK, StepRunnerTypeOK, DataTyped
<1>2. Returned \in [1 .. Len(results) -> Calls] /\ Len(results) \in Nat
  <2>. DEFINE R == [call : Calls, ok : BOOLEAN]
  <2>0. results \in Seq(R) /\ \A r \in R : r.call \in Calls
    BY <1>1
  <2>. HIDE DEF R
  <2>1. Len(results) \in Nat /\ DOMAIN results = 1 .. Len(results)
    BY <2>0
  <2>2. \A i \in 1 .. Len(results) : results[i] \in R
    BY <2>0
  <2>3. \A i \in 1 .. Len(results) : results[i].call \in Calls
    BY <2>0, <2>2
  <2>. QED  BY <2>1, <2>3 DEF Returned
<1>3. Returned \in Seq(Calls) /\ Len(Returned) = Len(results)
  BY <1>2, FunctionSeq, Zenon
<1>4. ASSUME NEW c \in Calls, NEW ok \in BOOLEAN, results' = Append(results, [call |-> c, ok |-> ok])
      PROVE  Returned' = Append(Returned, c)
  <2>1. /\ DOMAIN results' = 1 .. (Len(results) + 1)
        /\ \A i \in 1 .. Len(results) : results'[i].call = results[i].call
        /\ results'[Len(results) + 1].call = c
    BY <1>1, <1>4
  <2>2. Returned' = [i \in 1 .. (Len(results) + 1) |-> Append(Returned, c)[i]]
    BY <1>2, <1>3, <2>1 DEF Returned
  <2>3. Append(Returned, c) \in Seq(Calls) /\ Len(Append(Returned, c)) = Len(results) + 1
    BY <1>3
  <2>4. Append(Returned, c) = [i \in 1 .. (Len(results) + 1) |-> Append(Returned, c)[i]]
    BY <2>3, FunctionSeq, Zenon
  <2>. QED  BY <2>2, <2>4
<1>. QED  BY <1>3, <1>4

\* A step without a tool call writes an event of another kind at most.
LEMMA SilentAudit ==
  ASSUME TypeOK, AuditInv,
         \/ Start \/ PlanStage \/ BeginExecute \/ LoopOverBudget \/ LoopStep \/ LoopEnds
         \/ Stepped \/ SettleOutcome \/ Catch \/ Persist \/ PersistRaises \/ UNCHANGED vars
  PROVE  AuditInv'
<1>1. /\ UNCHANGED <<started, results, call>>
      /\ events' = events
           \/ \E k \in Kinds \ {"tool_call", "tool_result"} : events' = Append(events, Event(k))
  BY DEF Start, PlanStage, Plan, PlanSynthesise, PlannerSucceeds, PlannerRetries,
     PlannerFallsBack, PlannerRaises, Receive, BeginExecute, LoopOverBudget, LoopStep,
     BeginStep, StepOverBudget, SkipStep, Dispatch, LoopEnds, Stepped, SettleOutcome, Catch,
     Persist, PersistRaises, vars, taskVars, Kinds
<1>2. Trail(events', started', Returned')
  <2>1. Returned' = Returned /\ started \in Seq(Calls) /\ Returned \in Seq(Calls)
    BY <1>1, ReturnedType DEF Returned, TypeOK, StepRunnerTypeOK, DataTyped
  <2>2. Trail(events, started, Returned)
    BY DEF AuditInv
  <2>3. ASSUME NEW k \in Kinds \ {"tool_call", "tool_result"}, events' = Append(events, Event(k))
        PROVE  Trail(events', started, Returned)
    BY <2>1, <2>2, <2>3, TrailGrows
  <2>. QED  BY <1>1, <2>1, <2>2, <2>3
<1>3. \/ pc = "raised" /\ pc' = "persist" /\ error' = "raised"
      \/ /\ pc \in {"persist"} /\ pc' \in {"returned", "lost"} /\ error' = error
      \/ pc' = pc /\ error' = error
      \/ /\ pc \notin {"tool", "raised", "persist", "returned", "lost"} /\ pc' # "tool"
         /\ error' # error => error' # "raised"
  BY DEF Start, PlanStage, Plan, PlanSynthesise, PlannerSucceeds, PlannerRetries,
     PlannerFallsBack, PlannerRaises, Receive, BeginExecute, LoopOverBudget, LoopStep,
     BeginStep, StepOverBudget, SkipStep, Dispatch, LoopEnds, Stepped, SettleOutcome, Catch,
     Persist, PersistRaises, vars, taskVars
<1>4. InStep'
  <2>1. InStep /\ Len(started) \in Nat /\ Len(results) \in Nat
    BY DEF AuditInv, TypeOK, StepRunnerTypeOK, DataTyped
  <2>. QED  BY <1>1, <1>3, <2>1 DEF InStep
<1>. QED  BY <1>2, <1>4 DEF AuditInv

\* An allowed call enters the trail and starts; its result is told of when it
\* comes; nothing else of a step is told of.
LEMMA BodyAudit == ASSUME TypeOK, AuditInv, StepStage PROVE AuditInv'
<1>0. /\ started \in Seq(Calls) /\ Returned \in Seq(Calls) /\ Len(Returned) = Len(results)
      /\ results \in Seq([call : Calls, ok : BOOLEAN])
      /\ Trail(events, started, Returned) /\ InStep
      /\ Len(started) \in Nat /\ Len(results) \in Nat
  BY ReturnedType DEF TypeOK, StepRunnerTypeOK, DataTyped, AuditInv
<1>1. {"step_done", "paused_for_approval"} \subseteq Kinds \ {"tool_call", "tool_result"}
      /\ {"allow", "deny", "defer"} \subseteq Decisions
  BY DEF Kinds, Decisions
<1>2. ASSUME NEW begun \in Seq(Calls), NEW ended \in Seq(Calls), NEW t, Trail(t, begun, ended), FinishStep(t)
      PROVE  Trail(events', begun, ended) /\ pc' = "stepped"
  BY <1>1, <1>2, TrailGrows DEF FinishStep
<1>3. CASE StepRaises
  <2>1. /\ UNCHANGED <<events, started, results, error>> /\ pc \in {"agent", "tool"} /\ pc' = "raised"
        /\ Returned' = Returned
    BY <1>3 DEF StepRaises, Returned
  <2>. QED  BY <1>0, <2>1 DEF AuditInv, InStep
<1>4. ASSUME UNCHANGED <<started, results>>, pc = "agent", pc' = "stepped",
             error' \in {error, "denied", "unknown_tool"}, Trail(events', started, Returned)
      PROVE  AuditInv'
  <2>1. Returned' = Returned
    BY <1>4 DEF Returned
  <2>. QED  BY <1>0, <1>4, <2>1 DEF AuditInv, InStep
<1>5. CASE AgentSpeaks
  <2>1. /\ UNCHANGED <<started, results, error>> /\ pc = "agent" /\ FinishStep(events)
    BY <1>5 DEF AgentSpeaks
  <2>2. Trail(events', started, Returned) /\ pc' = "stepped"
    BY <1>0, <1>2, <2>1
  <2>. QED  BY <1>4, <2>1, <2>2
<1>6. ASSUME NEW c \in Calls, AgentProposes(c) PROVE AuditInv'
  <2>0. pc = "agent" /\ results' = results
    BY <1>6 DEF AgentProposes
  <2>1. CASE GateDenies(c) \/ ToolUnknown(c)
    <3>1. PICK v \in Decisions :
            /\ v # "allow" \/ c.tool \notin RegisteredTools
            /\ FinishStep(Append(events, CallEvent(c, v)))
      BY <1>1, <2>1 DEF GateDenies, ToolUnknown
    <3>2. Trail(Append(events, CallEvent(c, v)), started, Returned)
      BY <1>0, <3>1, TrailGrows
    <3>3. Trail(events', started, Returned) /\ pc' = "stepped"
      BY <1>0, <1>2, <3>1, <3>2
    <3>4. started' = started /\ error' \in {"denied", "unknown_tool"}
      BY <2>1 DEF GateDenies, ToolUnknown
    <3>. QED  BY <1>4, <2>0, <3>3, <3>4
  <2>2. CASE GateDefers(c)
    <3>1. /\ events' = events \o <<CallEvent(c, "defer"), Event("paused_for_approval")>>
          /\ pc' = "stepped" /\ UNCHANGED <<started, error>>
      BY <2>2 DEF GateDefers
    <3>2. Trail(Append(events, CallEvent(c, "defer")), started, Returned)
      BY <1>0, <1>1, TrailGrows
    <3>3. Trail(Append(Append(events, CallEvent(c, "defer")), Event("paused_for_approval")), started, Returned)
      BY <1>0, <1>1, <3>2, TrailGrows
    <3>4. ASSUME NEW x \in EventSet, NEW y \in EventSet, NEW s \in Seq(EventSet)
          PROVE  s \o <<x, y>> = Append(Append(s, x), y)
      OBVIOUS
    <3>5. /\ events \in Seq(EventSet) /\ CallEvent(c, "defer") \in EventSet
          /\ Event("paused_for_approval") \in EventSet
      BY <1>0, <1>1, EventType DEF Trail
    <3>6. Trail(events', started, Returned)
      BY <3>1, <3>3, <3>4, <3>5
    <3>. QED  BY <1>4, <2>0, <3>1, <3>6
  <2>3. CASE ToolStarts(c)
    <3>1. /\ c.tool \in RegisteredTools /\ call' = c /\ started' = Append(started, c)
          /\ events' = Append(events, CallEvent(c, "allow")) /\ pc' = "tool" /\ error' = error
      BY <2>3 DEF ToolStarts
    <3>2. Trail(events', started', Returned)
      BY <1>0, <3>1, TrailGrows
    <3>3. Returned' = Returned
      BY <2>0 DEF Returned
    <3>4. /\ error # "raised" /\ Len(started) = Len(results)
          /\ Len(started') = Len(started) + 1 /\ started'[Len(started')] = c
          /\ \A i \in DOMAIN started : i \in DOMAIN started' /\ started'[i] = started[i]
      BY <1>0, <2>0, <3>1 DEF InStep
    <3>5. InStep'
      BY <1>0, <2>0, <3>1, <3>4 DEF InStep
    <3>. QED  BY <3>2, <3>3, <3>5 DEF AuditInv
  <2>. QED  BY <1>6, <2>1, <2>2, <2>3 DEF AgentProposes
<1>7. ASSUME NEW ok \in BOOLEAN, ToolReturns(ok) PROVE AuditInv'
  <2>1. /\ pc = "tool" /\ results' = Append(results, [call |-> call, ok |-> ok])
        /\ UNCHANGED <<started, error>> /\ FinishStep(Append(events, ResultEvent(call)))
    BY <1>7 DEF ToolReturns
  <2>2. /\ call \in Calls /\ call.tool \in RegisteredTools /\ error # "raised"
        /\ Len(started) = Len(results) + 1 /\ call = started[Len(started)]
    BY <1>0, <2>1 DEF InStep, TypeOK, StepRunnerTypeOK, CallTyped
  <2>3. Returned' = Append(Returned, call)
    BY <2>1, <2>2, ReturnedType
  <2>4. Append(Returned, call) \in Seq(Calls)
    BY <1>0, <2>2
  <2>5. Trail(Append(events, ResultEvent(call)), started, Append(Returned, call))
    BY <1>0, <2>2, TrailGrows
  <2>6. Trail(events', started, Append(Returned, call)) /\ pc' = "stepped"
    BY <1>0, <1>2, <2>1, <2>4, <2>5
  <2>7. InStep'
    <3>1. /\ Len(results') = Len(results) + 1 /\ DOMAIN results' = 1 .. (Len(results) + 1)
          /\ results'[Len(results) + 1].call = call
          /\ \A i \in 1 .. Len(results) : results'[i] = results[i] /\ i \in DOMAIN results
          /\ DOMAIN started = 1 .. Len(started)
      BY <1>0, <2>1
    <3>2. \A i \in DOMAIN results' : i \in DOMAIN started' /\ results'[i].call = started'[i]
      BY <1>0, <2>1, <2>2, <3>1 DEF InStep
    <3>. QED  BY <1>0, <2>1, <2>2, <2>6, <3>1, <3>2 DEF InStep
  <2>. QED  BY <2>1, <2>3, <2>6, <2>7 DEF AuditInv
<1>. QED  BY <1>3, <1>5, <1>6, <1>7 DEF StepStage, StepBody

LEMMA AuditInit == Init => AuditInv
<1>. SUFFICES ASSUME Init PROVE AuditInv
  OBVIOUS
<1>1. events = <<>> /\ started = <<>> /\ results = <<>> /\ pc = "start" /\ error = "none"
  BY DEF Init, InitTask
<1>2. Returned = <<>>
  BY <1>1 DEF Returned
<1>3. \A kind, v : Marks(<<>>, kind, v) = {}
  BY DEF Marks
<1>4. \A kind, v : Tells(<<>>, kind, v, <<>>)
  BY <1>3, FS_EmptySet DEF Tells
<1>. QED  BY <1>1, <1>2, <1>4 DEF AuditInv, Trail, InStep

\* The trail tells of every call that took effect, before and after, in order,
\* and a call it has no result of is running or raised; for tasks of any length.
THEOREM TrailIsComplete == Spec => []AuditComplete
<1>1. TypeOK /\ AuditInv /\ [Next]_vars => AuditInv'
  BY SilentAudit, BodyAudit DEF Next
<1>2. TypeOK /\ AuditInv => AuditComplete
  <2>. SUFFICES ASSUME TypeOK, AuditInv PROVE AuditComplete
    OBVIOUS
  <2>1. /\ Tells(events, "tool_call", "allow", started) /\ Tells(events, "tool_result", "none", Returned)
        /\ InStep /\ Len(Returned) = Len(results)
    BY ReturnedType DEF AuditInv, Trail
  <2>2. Len(started) \in Nat /\ Len(results) \in Nat
    BY DEF TypeOK, StepRunnerTypeOK, DataTyped
  <2>3. \A i \in DOMAIN Returned : i \in DOMAIN started /\ Returned[i] = started[i]
    BY <2>1 DEF Returned, InStep
  <2>4. Len(started) - Len(Returned) \in
          (IF pc = "tool" THEN {1}
           ELSE IF pc \in {"raised", "lost"} \/ error = "raised" THEN {0, 1} ELSE {0})
    BY <2>1, <2>2 DEF InStep
  <2>. QED  BY <2>1, <2>3, <2>4 DEF AuditComplete, Returned
<1>. QED  BY <1>1, <1>2, AuditInit, TypeCorrect, PTL DEF Spec

-----------------------------------------------------------------------------
(* Termination *)

\* The rank by place, which is how the proof uses it.
RankTable ==
  /\ pc \in {"returned", "lost"} => Rank = 0
  /\ pc = "persist" => Rank = 1
  /\ pc \in {"walked", "raised"} => Rank = 2
  /\ pc = "loop" => Rank = 3
  /\ pc = "stepped" => Rank = 4
  /\ pc = "tool" => Rank = 5
  /\ pc \in {"agent", "planned"} => Rank = 6
  /\ pc = "plan" => Rank = 7 + MaxAttempts - attempts
  /\ pc = "start" => Rank = 8 + MaxAttempts

LEMMA RankNow == RankTable
BY DEF RankTable, Rank

LEMMA RankNext == RankTable'
BY DEF RankTable, Rank

\* The attempts of a planner come to an end as well.
LEMMA PlanningEnds ==
  ASSUME TypeOK, PlanStage
  PROVE  iterations' = iterations /\ Rank' < Rank /\ Rank' >= 0
<1>1. attempts \in 0 .. MaxAttempts /\ MaxAttempts \in Nat
  BY RunnerAssumption DEF TypeOK, StepRunnerTypeOK, DataTyped
<1>2. pc = "plan" /\ Rank = 7 + MaxAttempts - attempts
  BY RankNow DEF RankTable, PlanStage, Plan, PlanSynthesise, PlannerSucceeds, PlannerRetries,
                 PlannerFallsBack, PlannerRaises
<1>3. CASE pc' \in {"planned", "raised"} /\ iterations' = iterations
  <2>1. Rank' \in {6, 2}
    BY <1>3, RankNext DEF RankTable
  <2>. QED  BY <1>1, <1>2, <1>3, <2>1
<1>4. CASE PlannerRetries
  <2>1. pc' = "plan" /\ attempts' = attempts + 1 /\ attempts + 1 < MaxAttempts
        /\ iterations' = iterations
    BY <1>2, <1>4 DEF PlannerRetries
  <2>2. Rank' = 7 + MaxAttempts - attempts'
    BY <2>1, RankNext DEF RankTable
  <2>. QED  BY <1>1, <1>2, <2>1, <2>2
<1>. QED  BY <1>3, <1>4
     DEF PlanStage, Plan, PlanSynthesise, PlannerSucceeds, PlannerFallsBack, PlannerRaises, Receive

\* A body hands control back, or goes on to its tool.
LEMMA BodyEnds ==
  ASSUME StepBody
  PROVE  /\ iterations' = iterations
         /\ \/ pc = "agent" /\ pc' = "tool"
            \/ pc \in {"agent", "tool"} /\ pc' \in {"stepped", "raised"}
BY DEF StepBody, StepRaises, AgentSpeaks, AgentProposes, GateDefers, GateDenies, ToolUnknown,
       ToolStarts, ToolReturns, FinishStep

\* No run goes on for ever, whatever the model answers: a step spends one of
\* the iterations of the budget or comes nearer to the answer.
THEOREM StepsAreFinite == Spec => StepsRunOut
<1>. DEFINE Spends == iterations < iterations' /\ iterations' <= settings.budget
            Nears  == iterations' = iterations /\ Rank' < Rank /\ Rank' >= 0
<1>1. TypeOK /\ [Next]_vars => [Spends \/ Nears]_vars
  <2>. SUFFICES ASSUME TypeOK, Next PROVE Spends \/ Nears
    OBVIOUS
  <2>0. /\ attempts \in 0 .. MaxAttempts /\ MaxAttempts \in Nat /\ iterations \in Nat
        /\ settings.budget \in Nat
    BY RunnerAssumption DEF TypeOK, StepRunnerTypeOK, DataTyped, Settings
  <2>1. CASE PlanStage
    BY <2>1, PlanningEnds
  <2>2. CASE LoopStep
    BY <2>0, <2>2 DEF LoopStep, BeginStep, StepOverBudget, SkipStep, Dispatch, OverBudget
  <2>3. CASE StepStage
    <3>1. pc \in {"agent", "tool"} => Rank = IF pc = "agent" THEN 6 ELSE 5
      BY RankNow DEF RankTable
    <3>2. pc' \in {"tool", "stepped", "raised"} =>
            Rank' = IF pc' = "tool" THEN 5 ELSE IF pc' = "stepped" THEN 4 ELSE 2
      BY RankNext DEF RankTable
    <3>. QED  BY <2>3, <3>1, <3>2, BodyEnds DEF StepStage
  <2>4. CASE Start
    BY <2>0, <2>4, RankNow, RankNext DEF Start, RankTable
  <2>5. CASE BeginExecute
    BY <2>5, RankNow, RankNext DEF BeginExecute, RankTable
  <2>6. CASE LoopOverBudget \/ LoopEnds
    BY <2>6, RankNow, RankNext DEF LoopOverBudget, LoopEnds, taskVars, RankTable
  <2>7. CASE Stepped
    BY <2>7, RankNow, RankNext DEF Stepped, RankTable
  <2>8. CASE SettleOutcome \/ Catch
    BY <2>8, RankNow, RankNext DEF SettleOutcome, Catch, RankTable
  <2>9. CASE Persist \/ PersistRaises
    BY <2>9, RankNow, RankNext DEF Persist, PersistRaises, taskVars, RankTable
  <2>. QED  BY <2>1, <2>2, <2>3, <2>4, <2>5, <2>6, <2>7, <2>8, <2>9 DEF Next
<1>. QED  BY <1>1, TypeCorrect, PTL DEF Spec, StepsRunOut

=============================================================================
