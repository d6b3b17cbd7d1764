---------------------------- MODULE Orchestrator ----------------------------
(***************************************************************************)
(* Orchestrator.run (orchestration/runner.py): plan, walk the plan once,   *)
(* settle the status, write conversation memory, return the state.         *)
(***************************************************************************)
EXTENDS StepRunner

VARIABLE remembered   \* status in the conversation record, "none" if none written

vars == <<envVars, pc, taskVars, remembered>>

PCs == {"start", "plan", "planned", "loop", "agent", "tool", "stepped", "walked",
        "raised", "persist", "returned", "lost"}

Init == InitTask /\ remembered = "none"

Start ==
  /\ pc = "start"
  /\ status' = "planning"
  /\ events' = Append(events, Event("task_started"))
  /\ pc' = "plan"
  /\ UNCHANGED <<envVars, error, plan, step, iterations, attempts, call, stop, spoken,
                 results, started, remembered>>

PlanStage == Plan /\ UNCHANGED remembered

BeginExecute ==
  /\ pc = "planned"
  /\ status' = "running" /\ step' = 1 /\ pc' = "loop"
  /\ UNCHANGED <<envVars, error, plan, iterations, attempts, call, stop, spoken, events,
                 results, started, remembered>>

\* The head of the for loop in _execute.
LoopOverBudget ==
  /\ pc = "loop" /\ step <= Len(plan) /\ OverBudget
  /\ status' = "failed" /\ error' = "budget"
  /\ events' = Append(events, Event("budget_exceeded"))
  /\ pc' = "walked"
  /\ UNCHANGED <<envVars, plan, step, iterations, attempts, call, stop, spoken, results,
                 started, remembered>>

LoopStep ==
  /\ pc = "loop" /\ step <= Len(plan) /\ ~ OverBudget
  /\ BeginStep(step)
  /\ UNCHANGED remembered

LoopEnds ==
  /\ pc = "loop" /\ step > Len(plan)
  /\ pc' = "walked"
  /\ UNCHANGED <<envVars, taskVars, remembered>>

StepStage == StepBody /\ UNCHANGED remembered

\* Mutant: a pause waits for an answer instead of ending the walk.
SteppedWaits ==
  /\ pc = "stepped" /\ ~ stop
  /\ pc' = "loop" /\ step' = step + 1
  /\ UNCHANGED <<envVars, status, error, plan, iterations, attempts, call, stop, spoken,
                 events, results, started, remembered>>

\* _execute_one_step has returned: stop, or on to the next step of the plan,
\* whatever the status is.
Stepped ==
  /\ pc = "stepped"
  /\ \/ stop /\ pc' = "walked" /\ UNCHANGED step
     \/ ~ stop /\ pc' = "loop" /\ step' = step + 1
  /\ UNCHANGED <<envVars, status, error, plan, iterations, attempts, call, stop, spoken,
                 events, results, started, remembered>>

\* Mutant: a paused run is completed like any other.
SettlePaused ==
  /\ pc = "walked"
  /\ IF status = "failed"
     THEN UNCHANGED <<status, events>>
     ELSE /\ status' = "completed"
          /\ events' = Append(events, Event("task_completed"))
  /\ pc' = "persist"
  /\ UNCHANGED <<envVars, error, plan, step, iterations, attempts, call, stop, spoken,
                 results, started, remembered>>

\* Mutant: memory is written before the status is settled.
SettleLate ==
  /\ pc = "walked"
  /\ IF status \in {"failed", "awaiting_approval"}
     THEN UNCHANGED <<status, events>>
     ELSE /\ status' = "completed"
          /\ events' = Append(events, Event("task_completed"))
  /\ remembered' = (IF spoken THEN status ELSE "none")
  /\ pc' = "returned"
  /\ UNCHANGED <<envVars, error, plan, step, iterations, attempts, call, stop, spoken,
                 results, started>>

SettleOutcome ==
  /\ pc = "walked"
  /\ IF status \in {"failed", "awaiting_approval"}
     THEN UNCHANGED <<status, events>>
     ELSE /\ status' = "completed"
          /\ events' = Append(events, Event("task_completed"))
  /\ pc' = "persist"
  /\ UNCHANGED <<envVars, error, plan, step, iterations, attempts, call, stop, spoken,
                 results, started, remembered>>

\* except Exception: whatever planning or a step raised fails the task.
Catch ==
  /\ pc = "raised"
  /\ status' = "failed" /\ error' = "raised"
  /\ events' = Append(events, Event("task_failed"))
  /\ pc' = "persist"
  /\ UNCHANGED <<envVars, plan, step, iterations, attempts, call, stop, spoken, results,
                 started, remembered>>

\* _persist_memory: nothing to write, or a record of the last message.
Persist ==
  /\ pc = "persist"
  /\ \/ ~ spoken /\ pc' = "returned" /\ UNCHANGED remembered
     \/ spoken /\ pc' = "returned" /\ remembered' = status
  /\ UNCHANGED <<envVars, taskVars>>

\* Mutant: a failing memory write turns the settled outcome into a failure.
PersistFailsTask ==
  /\ pc = "persist" /\ spoken
  /\ status' = "failed" /\ pc' = "returned"
  /\ UNCHANGED <<envVars, error, plan, step, iterations, attempts, call, stop, spoken,
                 events, results, started, remembered>>

\* The memory store raises, outside the try: run() passes it on.
PersistRaises ==
  /\ pc = "persist" /\ spoken
  /\ pc' = "lost"
  /\ UNCHANGED <<envVars, taskVars, remembered>>

Next ==
  \/ Start \/ PlanStage \/ BeginExecute
  \/ LoopOverBudget \/ LoopStep \/ LoopEnds \/ StepStage \/ Stepped
  \/ SettleOutcome \/ Catch \/ Persist \/ PersistRaises

\* Every await returns or raises: model calls and tools carry timeouts.
Spec == Init /\ [][Next]_vars /\ WF_vars(Next)

-----------------------------------------------------------------------------
(* Properties *)

\* Types of every variable, and the places the coroutine may be at.
TypeOK == StepRunnerTypeOK /\ pc \in PCs /\ remembered \in Statuses \cup {"none"}

\* A task that finished as COMPLETED walked its whole plan: every step is done,
\* each took one iteration, and completion is the last thing in the trail.
CompletedMeansWalked ==
  status = "completed" =>
    /\ plan # <<>> /\ AllDone
    /\ iterations = Len(plan)
    /\ Last(events).kind = "task_completed"

\* Once a call waits for approval, the run starts no tool, begins no step and
\* keeps the paused step open until it returns.
NothingAfterPause ==
  [][status = "awaiting_approval" =>
       UNCHANGED <<status, started, iterations, plan>>]_vars

\* How far a run that begins no further step is from its answer.
Rank ==
  CASE pc \in {"returned", "lost"} -> 0
    [] pc = "persist"              -> 1
    [] pc \in {"walked", "raised"} -> 2
    [] pc = "loop"                 -> 3
    [] pc = "stepped"              -> 4
    [] pc = "tool"                 -> 5
    [] pc \in {"agent", "planned"} -> 6
    [] pc = "plan"                 -> 7 + MaxAttempts - attempts
    [] pc = "start"                -> 8 + MaxAttempts

\* No run goes on for ever, whatever the model answers: a step spends one of
\* the iterations of the budget or comes nearer to the answer.
StepsRunOut ==
  [][\/ iterations < iterations' /\ iterations' <= settings.budget
     \/ iterations' = iterations /\ Rank' < Rank /\ Rank' >= 0]_vars

\* The conversation record carries the status the caller gets, and a task that
\* said something leaves one.
MemoryMatchesOutcome ==
  pc = "returned" => remembered = IF spoken THEN status ELSE "none"

\* The run keeps the caller's contract.
Contract == INSTANCE TaskContract WITH
  budget  <- settings.budget,
  effects <- Len(started),
  phase   <- CASE pc = "lost"     -> "lost"
               [] pc = "returned" -> "reported"
               [] pc = "persist"  -> "settled"
               [] OTHER           -> "working",
  outcome <- IF pc \in {"persist", "returned", "lost"} THEN status ELSE "none"

\* What the run does is what TaskContract allows.
KeepsContract == Contract!Spec

\* The caller of run() always gets a state or an exception.
AlwaysAnswers == Contract!Answered

=============================================================================
