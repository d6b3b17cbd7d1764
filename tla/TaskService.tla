----------------------------- MODULE TaskService -----------------------------
(***************************************************************************)
(* The life of a submitted goal: POST /tasks (api/routes/tasks.py), the    *)
(* Celery job that runs it (tasks/orchestrator_tasks.py), and the          *)
(* repository both save to.  A run of the orchestrator is one that returns *)
(* or raises (TaskContract).  The broker is external: it delivers a        *)
(* message until it is acknowledged, and delivers it again when the worker *)
(* that holds it dies.  A worker is one that has the task registered.      *)
(***************************************************************************)
EXTENDS Naturals, TaskRepository

CONSTANTS
  Submissions,   \* goals posted; the Celery job of goal s has the id s
  Workers,       \* worker processes
  Api,           \* the API process
  MaxRetries,    \* max_retries of the Celery task
  MaxCrashes,    \* bound: worker deaths
  MaxRestarts,   \* bound: restarts of the API process
  NoMessage      \* held by a worker without a message

ASSUME ServiceAssumption ==
  /\ Processes = Workers \cup {Api} /\ Api \notin Workers
  /\ MaxRetries \in Nat /\ MaxCrashes \in Nat /\ MaxRestarts \in Nat

\* Only the API's lifespan calls init_db.
Probing  == {Api}
Messages == [job : Submissions, retries : 0 .. MaxRetries]
\* state.id: a fresh UUID for every run of the orchestrator.
RunId(s, n) == <<s, n>>

VARIABLES
  post,        \* per goal: where its POST handler is suspended
  answer,      \* per goal: what the POST was answered with
  inline,      \* per goal: the run its POST handler made, 0 if none
  broker,      \* per message: copies to deliver
  held,        \* per worker: the message it has not acknowledged
  stage,       \* per worker: "idle", "running", or "acking" what it ran
  working,     \* per worker: the number of its run
  result,      \* per goal: what the result backend has of its job
  runs,        \* history variable, per goal: runs started
  trouble,     \* history variable: goals a failure has made run again
  crashes, restarts

postVars   == <<post, answer, inline>>
workerVars == <<held, stage, working>>
counters   == <<crashes, restarts>>
vars == <<repositoryVars, postVars, workerVars, broker, result, runs, trouble, counters>>

Init ==
  /\ InitRepository(Probing)
  /\ post = [s \in Submissions |-> "idle"]
  /\ answer = [s \in Submissions |-> "none"]
  /\ inline = [s \in Submissions |-> 0]
  /\ broker = [m \in Messages |-> 0]
  /\ held = [w \in Workers |-> NoMessage]
  /\ stage = [w \in Workers |-> "idle"]
  /\ working = [w \in Workers |-> 0]
  /\ result = [s \in Submissions |-> "none"]
  /\ runs = [s \in Submissions |-> 0]
  /\ trouble = {}
  /\ crashes = 0 /\ restarts = 0

Enqueued(m) == broker' = [broker EXCEPT ![m] = @ + 1]
First(s)    == [job |-> s, retries |-> 0]

-----------------------------------------------------------------------------
(* create_task *)

Answer(s, what) ==
  /\ answer' = [answer EXCEPT ![s] = what]
  /\ post' = [post EXCEPT ![s] = "done"]

\* The goal runs in the handler.
RunInline(s) ==
  /\ post' = [post EXCEPT ![s] = "running"]
  /\ runs' = [runs EXCEPT ![s] = @ + 1]
  /\ inline' = [inline EXCEPT ![s] = runs[s] + 1]
  /\ UNCHANGED answer

\* Mutant: the handler goes on after it has queued the job.
QueuedGoesOn(s) ==
  /\ post[s] = "idle"
  /\ Enqueued(First(s)) /\ RunInline(s)
  /\ UNCHANGED <<repositoryVars, workerVars, result, trouble, counters>>

\* delay() returned: the client gets the id of the job.
Queued(s) ==
  /\ post[s] = "idle"
  /\ Enqueued(First(s)) /\ Answer(s, "queued")
  /\ UNCHANGED <<repositoryVars, inline, workerVars, result, runs, trouble, counters>>

\* delay() raised, before the broker had the message or after.
FallsBack(s) ==
  /\ post[s] = "idle"
  /\ \/ UNCHANGED <<broker, trouble>>
     \/ Enqueued(First(s)) /\ trouble' = trouble \cup {s}
  /\ RunInline(s)
  /\ UNCHANGED <<repositoryVars, workerVars, result, counters>>

\* The run returned: its snapshot is cached, and the answer ready if there is
\* no database to write to.
InlineReturns(s) ==
  /\ post[s] = "running"
  /\ SaveToCache(Api, RunId(s, inline[s]))
  /\ IF available[Api]
     THEN post' = [post EXCEPT ![s] = "saving"] /\ UNCHANGED answer
     ELSE Answer(s, "task")
  /\ UNCHANGED <<inline, workerVars, broker, result, runs, trouble, counters>>

InlineRaises(s) ==
  /\ post[s] = "running"
  /\ Answer(s, "error")
  /\ UNCHANGED <<repositoryVars, inline, workerVars, broker, result, runs, trouble, counters>>

\* What get() finds then or the state's own snapshot: the task either way.
SaveEnds(s) ==
  /\ post[s] = "saving"
  /\ SaveToRows(RunId(s, inline[s]))
  /\ Answer(s, "task")
  /\ UNCHANGED <<inline, workerVars, broker, result, runs, trouble, counters>>

Handles(s) == Queued(s) \/ FallsBack(s) \/ InlineReturns(s) \/ InlineRaises(s) \/ SaveEnds(s)

\* The API process restarts: the requests it handled are cut off.
ApiRestarts ==
  /\ restarts < MaxRestarts /\ restarts' = restarts + 1
  /\ Restarted(Api, Probing)
  /\ LET cut == {s \in Submissions : post[s] \in {"running", "saving"}}
     IN /\ post' = [s \in Submissions |-> IF s \in cut THEN "done" ELSE post[s]]
        /\ answer' = [s \in Submissions |-> IF s \in cut THEN "lost" ELSE answer[s]]
  /\ UNCHANGED <<inline, workerVars, broker, result, runs, trouble, crashes>>

-----------------------------------------------------------------------------
(* run_goal *)

\* A message is delivered, and not acknowledged (acks_late).
Delivers(w) ==
  /\ stage[w] = "idle"
  /\ \E m \in Messages :
       /\ broker[m] > 0
       /\ broker' = [broker EXCEPT ![m] = @ - 1]
       /\ held' = [held EXCEPT ![w] = m]
       /\ working' = [working EXCEPT ![w] = runs[m.job] + 1]
       /\ runs' = [runs EXCEPT ![m.job] = @ + 1]
  /\ stage' = [stage EXCEPT ![w] = "running"]
  /\ UNCHANGED <<repositoryVars, postVars, result, trouble, counters>>

\* The run returned, and its snapshot is saved: in the worker's cache.
RunReturns(w) ==
  /\ stage[w] = "running"
  /\ SaveToCache(w, RunId(held[w].job, working[w]))
  /\ result' = [result EXCEPT ![held[w].job] = "success"]
  /\ stage' = [stage EXCEPT ![w] = "acking"]
  /\ UNCHANGED <<postVars, held, working, broker, runs, trouble, counters>>

\* Mutant: the retry carries the count of the try it replaces.
RaisesUncounted(w) ==
  /\ stage[w] = "running"
  /\ Enqueued(held[w])
  /\ trouble' = trouble \cup {held[w].job}
  /\ stage' = [stage EXCEPT ![w] = "acking"]
  /\ UNCHANGED <<repositoryVars, postVars, held, working, result, runs, counters>>

\* Mutant: the task raises and is not tried again.
RaisesSilently(w) ==
  /\ stage[w] = "running"
  /\ trouble' = trouble \cup {held[w].job}
  /\ stage' = [stage EXCEPT ![w] = "acking"]
  /\ UNCHANGED <<repositoryVars, postVars, held, working, broker, result, runs, counters>>

\* The run raised: it is retried by a new message, or the job has failed.
RunRaises(w) ==
  /\ stage[w] = "running"
  /\ IF held[w].retries < MaxRetries
     THEN Enqueued([held[w] EXCEPT !.retries = @ + 1]) /\ UNCHANGED result
     ELSE result' = [result EXCEPT ![held[w].job] = "failure"] /\ UNCHANGED broker
  /\ trouble' = trouble \cup {held[w].job}
  /\ stage' = [stage EXCEPT ![w] = "acking"]
  /\ UNCHANGED <<repositoryVars, postVars, held, working, runs, counters>>

Acknowledges(w) ==
  /\ stage[w] = "acking"
  /\ stage' = [stage EXCEPT ![w] = "idle"]
  /\ held' = [held EXCEPT ![w] = NoMessage]
  /\ working' = [working EXCEPT ![w] = 0]
  /\ UNCHANGED <<repositoryVars, postVars, broker, result, runs, trouble, counters>>

\* Mutant: the message was acknowledged when it was delivered.
DiesAcknowledged(w) ==
  /\ crashes < MaxCrashes /\ crashes' = crashes + 1
  /\ stage[w] # "idle"
  /\ trouble' = trouble \cup {held[w].job}
  /\ stage' = [stage EXCEPT ![w] = "idle"]
  /\ held' = [held EXCEPT ![w] = NoMessage]
  /\ working' = [working EXCEPT ![w] = 0]
  /\ Restarted(w, Probing)
  /\ UNCHANGED <<postVars, broker, result, runs, restarts>>

\* The worker dies: what it held is delivered again, whatever came of it.
Dies(w) ==
  /\ crashes < MaxCrashes /\ crashes' = crashes + 1
  /\ stage[w] # "idle"
  /\ Enqueued(held[w])
  /\ trouble' = trouble \cup {held[w].job}
  /\ stage' = [stage EXCEPT ![w] = "idle"]
  /\ held' = [held EXCEPT ![w] = NoMessage]
  /\ working' = [working EXCEPT ![w] = 0]
  /\ Restarted(w, Probing)
  /\ UNCHANGED <<postVars, result, runs, restarts>>

Works(w) == RunReturns(w) \/ RunRaises(w) \/ Acknowledges(w)
Consumes == \E w \in Workers : Delivers(w)

Next ==
  \/ \E s \in Submissions : Handles(s)
  \/ \E w \in Workers : Works(w) \/ Dies(w)
  \/ Consumes \/ ApiRestarts
  \/ DatabaseFlips /\ UNCHANGED <<postVars, workerVars, broker, result, runs, trouble, counters>>

\* A started worker takes messages, and what it runs ends (TaskContract).
Fairness == WF_vars(Consumes) /\ \A w \in Workers : WF_vars(Works(w))

Spec == Init /\ [][Next]_vars /\ Fairness

-----------------------------------------------------------------------------
(* Properties *)

InBroker(s) == \E m \in Messages : m.job = s /\ broker[m] > 0
OnWorker(s) == \E w \in Workers : stage[w] # "idle" /\ held[w].job = s

\* A job the API has accepted is in the broker or on a worker until it has a
\* result, whichever of its runs raise and whichever workers die.
NoJobLost ==
  \A s \in Submissions :
    answer[s] = "queued" /\ result[s] = "none" => InBroker(s) \/ OnWorker(s)

\* The runs of one goal, each with effects of its own, are bounded: every dead
\* worker costs at most one more round of retries.
RunsBounded ==
  \A s \in Submissions :
    runs[s] <= (MaxRetries + 1) * (crashes + 1) + (IF inline[s] # 0 THEN 1 ELSE 0)

\* A goal runs a second time only after a run of it raised, a worker died with
\* it, or the broker took it without saying so.
RunsOnceUnlessTrouble ==
  \A s \in Submissions : runs[s] > 1 => s \in trouble

\* A queued job gets its result.
JobsFinish ==
  \A s \in Submissions : answer[s] = "queued" ~> result[s] # "none"

\* GET /tasks/{id}/status, "status poll for Celery-submitted tasks"
\* (api/routes/tasks.py:79): the poll of a queued task ends.
PollSettles ==
  \A s \in Submissions : answer[s] = "queued" ~> Found(Api, s)

=============================================================================
