------------------------- MODULE GraphOrchestrator -------------------------
(***************************************************************************)
(* GraphOrchestrator (orchestration/graph.py): the same step bodies under  *)
(* the review-driven control flow of its StateGraph                        *)
(*     START -> plan -> execute -> review -> execute | plan | END.         *)
(* The class itself registers a planner and a reviewer; Pools may add a    *)
(* working agent to the inner runner's pool.                               *)
(***************************************************************************)
EXTENDS StepRunner

VARIABLES
  verdict,    \* scratchpad["last_verdict"], "none" while unset
  failures    \* scratchpad["consecutive_failures"], 0 while unset

graphVars == <<verdict, failures>>
vars == <<envVars, pc, taskVars, graphVars>>

PCs == {"start", "plan", "planned", "execute", "agent", "tool", "stepped", "review",
        "route", "ended", "raised", "returned", "lost"}

Init == InitTask /\ verdict = "none" /\ failures = 0

\* The status stays PENDING until the first step begins.
Start ==
  /\ pc = "start"
  /\ events' = Append(events, Event("task_started"))
  /\ pc' = "plan"
  /\ UNCHANGED <<envVars, status, error, plan, step, iterations, attempts, call, stop,
                 spoken, results, started, graphVars>>

PlanNode == Plan /\ UNCHANGED graphVars

RouteAfterPlan ==
  /\ pc = "planned"
  /\ pc' = IF status = "failed" \/ plan = <<>> THEN "ended" ELSE "execute"
  /\ UNCHANGED <<envVars, taskVars, graphVars>>

\* The first step not yet done; the last one when all are.
NextStep ==
  IF AllDone THEN Len(plan)
  ELSE CHOOSE i \in DOMAIN plan : ~ plan[i].done /\ \A j \in 1 .. (i - 1) : plan[j].done

ExecuteNode == pc = "execute" /\ BeginStep(NextStep) /\ UNCHANGED graphVars

StepNode == StepBody /\ UNCHANGED graphVars

\* Mutant: a paused step waits for its approval before the review.
ReviewAwaits ==
  /\ pc = "stepped" /\ status = "failed"
  /\ verdict' = "finish" /\ pc' = "route"
  /\ UNCHANGED <<envVars, taskVars, failures>>

\* A paused or failed step is not reviewed.
ReviewSkipped ==
  /\ pc = "stepped" /\ status \in {"awaiting_approval", "failed"}
  /\ verdict' = "finish" /\ pc' = "route"
  /\ UNCHANGED <<envVars, taskVars, failures>>

ReviewBegins ==
  /\ pc = "stepped" /\ status \notin {"awaiting_approval", "failed"}
  /\ pc' = "review"
  /\ UNCHANGED <<envVars, taskVars, graphVars>>

\* The reviewer's verdict; "fail" too when no answer of its model has one.
ReviewerReturns(v) ==
  /\ pc = "review"
  /\ verdict' = v /\ pc' = "route"
  /\ events' = Append(events, [kind |-> "review", call |-> NoCall, verdict |-> v])
  /\ UNCHANGED <<envVars, status, error, plan, step, iterations, attempts, call, stop,
                 spoken, results, started, failures>>

ReviewerRaises ==
  /\ pc = "review"
  /\ pc' = "raised"
  /\ UNCHANGED <<envVars, taskVars, graphVars>>

-----------------------------------------------------------------------------
(* _route_after_review *)

\* Mutant: a failed step does not end the run.
HaltedPaused == status = "awaiting_approval"

\* The conditions of the early returns, in their order.
Halted == status \in {"awaiting_approval", "failed"}
Graded == pc = "route" /\ ~ Halted /\ ~ OverBudget

RouteHalted ==
  /\ pc = "route" /\ Halted
  /\ pc' = "ended"
  /\ UNCHANGED <<envVars, taskVars, graphVars>>

\* The budget is spent: an event, and the run ends with the status it has.
RouteOverBudget ==
  /\ pc = "route" /\ ~ Halted /\ OverBudget
  /\ events' = Append(events, Event("budget_exceeded"))
  /\ pc' = "ended"
  /\ UNCHANGED <<envVars, status, error, plan, step, iterations, attempts, call, stop,
                 spoken, results, started, graphVars>>

\* Mutant: one passed step completes the task.
RouteCompletesEarly ==
  /\ Graded /\ verdict = "pass"
  /\ status' = "completed"
  /\ events' = Append(events, Event("task_completed"))
  /\ pc' = "ended"
  /\ UNCHANGED <<envVars, error, plan, step, iterations, attempts, call, stop, spoken,
                 results, started, graphVars>>

RouteCompletes ==
  /\ Graded /\ verdict = "pass" /\ AllDone
  /\ status' = "completed"
  /\ events' = Append(events, Event("task_completed"))
  /\ pc' = "ended"
  /\ UNCHANGED <<envVars, error, plan, step, iterations, attempts, call, stop, spoken,
                 results, started, graphVars>>

\* Mutant: a new plan comes with a new budget.
RouteReplansAfresh ==
  /\ Graded /\ verdict = "replan"
  /\ iterations' = 0 /\ pc' = "plan"
  /\ UNCHANGED <<envVars, status, error, plan, step, attempts, call, stop, spoken, events,
                 results, started, graphVars>>

RouteReplans ==
  /\ Graded /\ verdict = "replan"
  /\ pc' = "plan"
  /\ UNCHANGED <<envVars, taskVars, graphVars>>

RouteFailsAgain ==
  /\ Graded /\ verdict = "fail" /\ failures >= 1
  /\ status' = "failed" /\ error' = "review"
  /\ events' = Append(events, Event("step_failed_review"))
  /\ pc' = "ended"
  /\ UNCHANGED <<envVars, plan, step, iterations, attempts, call, stop, spoken, results,
                 started, graphVars>>

RouteRetries ==
  /\ Graded /\ verdict = "fail" /\ failures = 0
  /\ failures' = 1
  /\ events' = Append(events, Event("step_failed_review"))
  /\ pc' = "execute"
  /\ UNCHANGED <<envVars, status, error, plan, step, iterations, attempts, call, stop,
                 spoken, results, started, verdict>>

\* Any other verdict, or a passed step that is not the last.
Continues == verdict \notin {"replan", "fail"} /\ ~ (verdict = "pass" /\ AllDone)

\* Mutant: a passed step does not clear the failure count.
RouteContinuesCounting ==
  /\ Graded /\ Continues
  /\ pc' = "execute"
  /\ UNCHANGED <<envVars, taskVars, graphVars>>

RouteContinues ==
  /\ Graded /\ Continues
  /\ failures' = 0 /\ pc' = "execute"
  /\ UNCHANGED <<envVars, taskVars, verdict>>

RouteAfterReview ==
  \/ RouteHalted \/ RouteOverBudget \/ RouteCompletes \/ RouteReplans
  \/ RouteFailsAgain \/ RouteRetries \/ RouteContinues

-----------------------------------------------------------------------------
\* Mutant: a paused task is completed.
FinishPaused ==
  /\ pc = "ended"
  /\ IF status \in {"failed", "completed"}
     THEN UNCHANGED <<status, events>>
     ELSE /\ status' = "completed"
          /\ events' = Append(events, Event("task_completed"))
  /\ pc' = "returned"
  /\ UNCHANGED <<envVars, error, plan, step, iterations, attempts, call, stop, spoken,
                 results, started, graphVars>>

\* After the graph: any status that is not final becomes COMPLETED.
Finish ==
  /\ pc = "ended"
  /\ IF status \in {"failed", "awaiting_approval", "completed"}
     THEN UNCHANGED <<status, events>>
     ELSE /\ status' = "completed"
          /\ events' = Append(events, Event("task_completed"))
  /\ pc' = "returned"
  /\ UNCHANGED <<envVars, error, plan, step, iterations, attempts, call, stop, spoken,
                 results, started, graphVars>>

\* run() has no handler: an exception in a node reaches the caller.
Propagate ==
  /\ pc = "raised"
  /\ pc' = "lost"
  /\ UNCHANGED <<envVars, taskVars, graphVars>>

Next ==
  \/ Start \/ PlanNode \/ RouteAfterPlan \/ ExecuteNode \/ StepNode
  \/ ReviewSkipped \/ ReviewBegins
  \/ \E v \in {"pass", "fail", "replan"} : ReviewerReturns(v)
  \/ ReviewerRaises \/ RouteAfterReview \/ Finish \/ Propagate

Spec == Init /\ [][Next]_vars /\ WF_vars(Next)

-----------------------------------------------------------------------------
(* Properties *)

\* Types of every variable, and the nodes the graph may be at.
TypeOK ==
  /\ StepRunnerTypeOK
  /\ pc \in PCs
  /\ verdict \in {"none", "pass", "fail", "replan", "finish"}
  /\ failures \in 0 .. 1

\* COMPLETED means the reviewer passed the last step of a finished plan, or that
\* the trail tells of a spent budget.  (Within its budget no failed, replanned or
\* half-walked task completes; over it a task does with whatever verdict it has.)
CompletedIsReviewed ==
  status = "completed" =>
    \/ verdict = "pass" /\ AllDone
    \/ \E i \in DOMAIN events : events[i].kind = "budget_exceeded"

\* A spent budget fails the task, as in the linear runner, whose behaviour the
\* graph is to keep (graph.py:50).  It does not: run() completes the task, here
\* one whose last step the reviewer failed.
FailedIsNotCompleted == status = "completed" => verdict # "fail"

\* Where a trail has a verdict of the reviewer, and where it has a failing one
\* that no passing one follows.
Reviews(trail, v) == {i \in DOMAIN trail : trail[i].kind = "review" /\ trail[i].verdict = v}
Unforgiven(trail) == {i \in Reviews(trail, "fail") : \A j \in Reviews(trail, "pass") : j < i}

\* How far a run that begins no further step is from its answer: after a step
\* come its review and, if the run is not halted, perhaps a new plan.
Rank ==
  CASE pc \in {"returned", "lost"}     -> 0
    [] pc \in {"ended", "raised"}      -> 1
    [] pc = "route" /\ Halted          -> 2
    [] pc = "stepped" /\ Halted        -> 3
    [] pc = "execute"                  -> 4
    [] pc = "planned"                  -> 5
    [] pc = "plan"                     -> 6 + MaxAttempts - attempts
    [] pc = "route" /\ ~ Halted        -> 7 + MaxAttempts
    [] pc = "review"                   -> 8 + MaxAttempts
    [] pc = "stepped" /\ ~ Halted      -> 9 + MaxAttempts
    [] pc = "tool"                     -> 10 + MaxAttempts
    [] pc \in {"agent", "start"}       -> 11 + MaxAttempts

\* No run goes on for ever, whatever the reviewer's verdicts and new plans: a
\* step spends one of the iterations of the budget or comes nearer to the answer.
StepsRunOut ==
  [][\/ iterations < iterations' /\ iterations' <= settings.budget
     \/ iterations' = iterations /\ Rank' < Rank /\ Rank' >= 0]_vars

\* "Reviewer failed the step twice": the task fails by review only after two
\* failing verdicts with no passing one between them, however often the
\* reviewer asked for a new plan meanwhile.
FailsOnlyOnTwoFailures == error = "review" => Cardinality(Unforgiven(events)) = 2

\* The graph keeps the same contract with its caller as the linear runner: the
\* outcome is settled when it reaches END.
Contract == INSTANCE TaskContract WITH
  budget  <- settings.budget,
  effects <- Len(started),
  phase   <- CASE pc = "lost"     -> "lost"
               [] pc = "returned" -> "reported"
               [] pc = "ended"    -> "settled"
               [] OTHER           -> "working",
  outcome <- IF pc \notin {"ended", "returned"} THEN "none"
             ELSE IF status \in {"failed", "awaiting_approval"} THEN status ELSE "completed"

\* What the graph does is what TaskContract allows.
KeepsContract == Contract!Spec

\* The caller of run() always gets a state or an exception: only the budget
\* ends a reviewer that keeps asking for new plans.
AlwaysAnswers == Contract!Answered

=============================================================================
