# Rabeeh AI: a specification of its core

This directory holds TLA+ modules for the parts of `rabeeh_core` whose
correctness depends on the order of things: the orchestrators that run an
autonomous task, the gate and the budget that bound what it may do, the agents
that work for it and the browser they share, the router that keeps it talking to
some model, the service that queues, runs, saves and answers it, the memory it
remembers with, the middlewares and tokens in front of it, and the business
tables behind it. TLC checks each part on a small instance; TLAPS proves every
safety property these runs check, for every instance.

Paths below are relative to `src/src/rabeeh_core/`.

## 1. Inventory

| Component | State it keeps | Operations | What is hard about it | Module |
|---|---|---|---|---|
| Linear orchestrator `orchestration/runner.py`, `state.py` | one `OrchestratorState` per task: status, error, plan, iterations, history, events, tool results | `run`, `_plan`, `_execute`, `_execute_one_step`, `_handle_tool_call`, `_persist_memory` | early returns that must agree on one status; every await may raise, some inside the `try` and one outside | `Orchestrator`, `StepRunner` |
| Graph orchestrator `orchestration/graph.py` | the same state, plus verdict and failure count in the scratchpad | nodes plan, execute, review; two conditional edges; `run` | loops ended only by counters; a retry that relies on which step is "next" | `GraphOrchestrator`, `StepRunner` |
| Plan parsing `agents/planner.py`, `runner._parse_plan` | attempts of one planner run | a tolerant and a strict parse of the same text | the two disagree | `PlanParsing` |
| Approval gate `security/approval.py` | none (settings) | `evaluate` | ordered early returns over claimed risk, level, environment | `ApprovalGate` |
| Agents `agents/` | a phase and a counter per role in the task's scratchpad; the business agent's templates, shared by all tasks | `run` of eleven roles | each role counts at another point; a phase advanced before its proposal; shared nested lists | `SpecialistAgents`, `PlanParsing`, `GraphOrchestrator` |
| Browser tools `tools/browser.py` | one playwright, browser and page for the process | search, fetch, extract, click, fill form, close | a launch of four awaits, a page all tasks share | `BrowserSession` |
| Other tools `tools/` | none of their own | one library call each | an effect may happen and raise | an effect in `StepRunner` |
| LLM router `llm/router.py`, `api/routes/chat.py` | per provider: consecutive failures, `opened_at` | `chat`, `chat_stream`, `select_for_task` | interleaved requests, a clock read once, bookkeeping after a `yield` | `LLMRouter` |
| Providers and registry `llm/` | one cached client | `chat`, `chat_stream`, `get_client` | none of their own | environment of `LLMRouter` |
| Task API, Celery job, repository `api/routes/tasks.py`, `tasks/`, `persistence/` | job messages, per-process cache and availability flag, rows | POST, GET, status poll, `run_goal`, `save`, `get`, `init_db` | two processes, redelivery, retry, lost replies, a database that comes and goes | `TaskService`, `TaskRepository` |
| Memory `memory/` | a list or a table of records; triples in a file; connections opened lazily | `append`, `recent`, `recall`, `forget`, `learn`, `ask`, `delete` | answers before or after a commit, one connection for all callers, the order of filter, rank and limit | `ConversationStores`, `KnowledgeGraph`, `MemoryService` |
| Authentication `api/auth.py`, `api/routes/auth.py` | a blacklist in the process | login, refresh, logout, the bearer check | a token exchanged once, while others are on their way with it | `Tokens`, `Gateway` |
| Middleware `api/middleware.py`, `api/monitoring.py`, `config/logging.py` | times per address; a gauge; one logging context | correlation id, metrics, rate limit | two pruning rules over one window; process-wide state under interleaved requests; every way out of a layer | `RateLimiter`, `Gateway` |
| Business `business/` | eight tables, or dictionaries in the process | 31 endpoints: create, get, list, update, delete, a report | read and write with awaits between; a fallback without constraints; columns that round | `BusinessSchema`, `BusinessRepository`, `BusinessApi` |
| CLI, settings, frontend, deployment, migrations | configuration | start the above | none | not modelled |

How they meet. The API, the CLI and the Celery job call `Orchestrator.run`. The
orchestrator calls agents (which call the LLM client), the gate and the tools,
and reads and writes memory; it shares one mutable state and one scratchpad with
all of them. A run's outcome reaches the repository only after `run` returns.
The router is an LLM client; the WebSocket route is the consumer that decides
how far a stream is read. All HTTP requests pass the middlewares, which await
each other and the route. The browser manager, the business agent's templates,
the logging context, the blacklist and the rate window belong to the process.

What makes each correct:

- orchestrators: the policy is respected by every tool that runs; effects and
  iterations stay within the budget; a pause stops everything; COMPLETED means
  the plan was walked (linear) or passed by the reviewer (graph); the trail has
  every effect; the caller always gets an answer, and the one that was settled;
- agents and browser: no role acts before it looked, each ends at its budget,
  what one task writes into a sheet does not show in another's call, and a
  browser is lost only when two launches overlapped or one failed;
- router: a circuit is open only for cause, a broken provider is left alone and
  later tried again, and a request fails only when every provider has failed it;
- service: an accepted job is never lost and gets a result; a goal runs again
  only after a failure, a bounded number of times;
- memory: an answered append is kept until its session is cleared; a recall
  returns the best matches; `ask` names every neighbour;
- gateway: what was revoked opens nothing while the process lives, the limit is
  exact, the gauge counts, the logging context names only a live request;
- business: what was acknowledged stays, what is gone stays gone, rows refer to
  rows (on Postgres), totals are the sums of their parts, a report agrees with
  itself.

## 2. Modules

### Tasks

`TaskContract` is the abstract specification: what a caller of either
orchestrator relies on. A task works, takes at most `budget` effects, settles
one outcome and reports that one, or is lost with an exception. `Lose` is there
because both runners do lose runs (a memory write outside the `try`, a reviewer
that raises): `KeepsContract` says that a run is not reported twice, changed
after it was settled or over its budget, and not that none is lost.

`ApprovalGate` and `PlanParsing` are the pure parts. A call is its tool and the
risk its proposer claims; the registered tool's own risk plays no part in
`evaluate`. A planner's answer is reduced to what the two parsers tell apart:
its syntax, and for each step whether it has a description, which role it names,
and whether its `expected_risk` is spelled as a `RiskLevel`.

`StepRunner` has the node bodies both orchestrators share. An action is the code
between two awaits; `pc` says where the coroutine is suspended. `planned`,
`stepped` and `raised` hand control back to the driver. An agent is any agent:
it talks, proposes any call (only roles in `ToolRoles`), or raises.

`Orchestrator` and `GraphOrchestrator` EXTEND `StepRunner` and add the control
flow around it: the loop, the settling, the `except`, the memory write; or the
graph's nodes and edges. A conditional edge of the graph changes the state it
routes by, which `_state_from_dict` passes by reference.

| Variable | Code |
|---|---|
| `settings` | the cached Settings: `approval_level`, `env`, `max_orchestrator_iterations` |
| `status`, `error`, `plan`, `iterations`, `events`, `results` | the fields of `OrchestratorState`; `error` by cause, `results` is `tool_results` |
| `step`, `call`, `stop`, `attempts` | loop index, call being executed, return value of `_execute_one_step`, planner attempts |
| `spoken` | `history` is not empty, all `_persist_memory` looks at |
| `remembered` | the status in the conversation record |
| `verdict`, `failures` | `last_verdict`, `consecutive_failures` in the scratchpad |
| `started` | history variable: calls whose `tool.execute` was entered |

### Agents and their browser

`BrowserSession` is the manager of `tools/browser.py`. `session` has its three
attributes as the number of the launch that assigned them; a call is suspended
at each await of a launch (`starting`, `launching`, `opening`, `paging`) and of
its own work (`loading`, then reading or acting). Every task browses a site
named like itself, so a page that shows another task's site can be told.

`SpecialistAgents` EXTENDS it with the nine working roles: `pad` is the phase
and the counter a role keeps in the scratchpad; a model's answer is any verb.
Roles read disjoint keys, so a task works with one role. The business agent's
templates are dictionaries of the module. A call copies the dictionary and shares
its lists: `template` is the list each dictionary holds, `contents` what was
written into a list last, `pending` the list of a call that waits for its tool,
`handed` what the tool found there. A text is written into the list that is
there (`WritesInto`), a sheet's row into a new one that the template then holds
too (`Replaces`), and a document of no kind has a list of its own (`WritesOwn`);
whose goal a tool is handed follows from that.

### Models behind the router

`LLMRouter` has one record per provider and one request per client. Time is
relative: the router compares the clock only with `opened_at`, so the state has
the age of an opening, and the lag of the one clock reading a request makes. A
stream is suspended at its last event (`request.event`); what follows the
`yield` in the code is the action `ResumeDone` or `ResumeError`, which only a
consumer that reads on can take. Kinds of request: `chat`, a stream read to its
end (`drained`), and the WebSocket route (`socket`), which leaves at the first
`done` or `error`. `chat_stream_ws` builds a router per connection; two clients
share one here because `LLMRouter` is an `LLMClient` like those the registry
shares between tasks.

### The service

`TaskRepository` and `TaskService`: the cache and availability flag of each
process, the rows of the shared database, the POST handler, the broker, and
workers that hold a message until they acknowledge it. The orchestrator appears
as its contract: a run returns or raises.

### Memory

`SessionMemory` is the abstract specification of the `MemoryStore` protocol: a
record whose append was answered is kept until its session is cleared or, if the
memory is not durable, the process ends.

`ConversationStores` has both stores. An operation on the list is one step; on
the table it is suspended while the table is made (`preparing`), at its
statement (`executing`), at its commit and at its answer, and each may fail. A
record is its age (`created` counts them, as `created_at` orders them), its
session and its words, which is all the queries look at. `promised` is a history
variable: appended, answered, not forgotten.

`KnowledgeGraph` is the SQLite graph over one connection: two coroutines that
find none open one each; a transaction belongs to the connection, so whoever
commits, commits for all. `learned` is a history variable: what an answered
`learn` promised, if no other connection's transaction had begun to delete it
(`Standing`); with three callers that happens, and an answer that promised the
fact even then would be wrong. `MemoryService` composes them as `memory/base.py`
does, and restarts the process.

### The gateway

`Tokens` has what was issued, what clients hold and the blacklist; a token
expires at any time. `RateLimiter` has `_window` and the clock, with
`_clean_window` and the per-address filter as they prune. `Gateway` composes
them: a request goes through correlation, metrics, limiter, bearer check and
route, suspended between any two layers, and back; `context` is the one
dictionary of `config/logging.py`. `over` and `admitted` are history variables;
a restart empties `over` with the blacklist. The clock of the limiter only goes
forward, which `time.time()` does unless the machine's clock is set back.

### Business

`BusinessSchema` has the tables' references, nullability and defaults, the
bodies a creation may bring, the fields a response cannot be made without, and
the money: exact products, `quantize`, and columns that round each amount. No
schema bounds an amount or a tax, so lines may be credits, and a tax is any
rational percentage. `Engine` says which database it is. Postgres rounds a half
cent away from zero and enforces foreign keys; on SQLite a Numeric is a float,
whose halves go either way (`TiesDown` are those that go down), and no foreign
key is enforced, as `db.py` never sets the pragma (`ForeignKeys`). Amounts stay
within what a Numeric(12, 2) and a Decimal of 28 digits hold.
`BusinessRepository` has every operation twice, as the code does: on the
process' dictionaries in one step, on the database suspended between statements.
`BusinessApi` is the endpoints and the restarts. A field's value is the number
of the commit that wrote it, which is how a lost update would show. A patch says
which columns it changes and which it sends with the value they have: what the
flush sees as unchanged against the row it read is not in the UPDATE (`Wants`),
although the row may be another by then. `AcknowledgedStays` promises such a
column only that it is no older than what the patch read (`seen`).

## 3. Runs

| Run | Instance | States | Checks |
|---|---|---|---|
| `linear` | 4 tools (safe-listed, plain, elevated, unregistered), every level and environment, budgets 0, 1, 2, eight kinds of planner answer, pools with and without planner | 27,601 | `TypeOK`, `PolicyRespected`, `AuditComplete`, `CompletedMeansWalked`, `EffectsWithinBudget`, `MemoryMatchesOutcome`, `NothingAfterPause`, `KeepsContract`, `AlwaysAnswers` |
| `graph` | one elevated tool, three-step plan, budgets 0 and 4, with and without a working agent | 79,911 | `RefusedCallFailsTask`, `CompletedIsReviewed`, `FailsOnlyOnTwoFailures`, `KeepsContract`, `StepsRunOut`, `AlwaysAnswers` |
| `router` | 2 clients, 3 hops of which the second cannot stream and the third always answers, threshold 2, cooldown 2, lag up to 2 | 48,434 | `TypeOK`, `OpenIsEarned`, `SafetyNet`, `BrokenGetsNoCall`, `PrimaryTriedAgain` |
| `service` | 1 goal, 2 workers, 1 retry, 2 worker deaths, 1 API restart, a database that flips freely | 213,876 | `NoJobLost`, `RunsBounded`, `RunsOnceUnlessTrouble`, `JobsFinish` |
| `business` | 2 clients, `MaxRows` 2, `MaxRequests` 3, `MaxRestarts` 1, with Postgres and without a database; a cart with a credit of half a cent, a tax of 9.5 % | 458,872 | `AcknowledgedStays`, `NotFoundIsForever`, `TableIsSound`, `TotalsAddUp`, `ReportIsCoherent` |
| `agents` | 2 tasks of every pair of roles, `MaxLaunches` 3, `MaxSteps` 2, `MaxLooks` 2, `MaxCalls` 4 | 558,795 | `LooksBeforeActs`, `DoneInTime`, `CallsKeepTheirGoal`, `BrowserLostOnlyInTrouble` |
| `gateway` | 2 requests at a time from 1 address, `MaxTokens` 6, limit 2 in a window of 3, `MaxClock` 4, `MaxServed` 4, `MaxRestarts` 1 | 1,395,588 | `GaugeCounts`, `ContextIsLive`, `RevokedIsOver`, `LimitIsExact` |
| `memory` | 2 clients, 2 sessions, 2 words, 2 entities, `Limit` 2, `MaxCalls` 4, `MaxRestarts` 1, either store | 2,487,935 | `KeepsSessions`, `RecallIsBest`, `AskNamesEveryNeighbour` |

Why the bounds are enough.

- `linear`: two-step plans already have a step before and after every event of a
  step, and budgets below, at and above the plan's length; a planner makes two
  attempts, so one can fail before another succeeds.
- `graph`: four iterations let a step fail, pass and fail again, and three steps
  let a plan end at, before and after a failure; a new plan restarts from any of
  these.
- `router`: a threshold of 2 separates the first failure from the one that
  opens; the lag reaches the cooldown, so readings can be stale enough to matter;
  ages past `Cooldown + MaxLag` behave alike and are capped there.
- `service`: one retry and two deaths let a message and its retry be on two
  workers at once, and both be delivered again; goals share nothing but the
  workers, so one is enough for safety, and more than two workers only repeat
  what two do.
- `business`: a reference needs two rows; three requests are a creation and two
  that interleave on what it made. Clients are interchangeable.
- `agents`: three launches let two overlap and a third come after a failure;
  budgets of 2 separate the first step from the last, four calls reach the
  longest (a vision agent's four); tasks are interchangeable.
- `gateway`: a clock of 4 leaves a window of 3 behind; two admissions fill the
  limit and two more requests meet it; six tokens are three pairs, one more
  exchange than requests in flight.
- `memory`: four calls are one more than the limit plus a query of it, and leave
  room for two clients' appends to meet a forget and a query; two entities give
  facts both ways and to itself. Clients, sessions, words and entities are
  interchangeable; no property orders them.

`SYMMETRY` is used only in runs without liveness. `CHECK_DEADLOCK FALSE`
everywhere: a task ends, a goal is answered, a bounded number of requests is
served.

### Fairness

The orchestrators are one coroutine each, under weak fairness of their next
step: every await returns or raises, since model calls carry
`request_timeout_seconds` and tools timeouts of their own. The choice between
returning, raising and what is returned stays free. `LLMRouter` assumes that the
clock advances and that a provider's call, or the consumer of its stream, ends;
never that a provider succeeds, and `PrimaryTriedAgain` itself assumes that
requests keep coming. `TaskService` assumes workers that take messages and runs
that end; not that the database comes back. The other specifications state
safety only and assume no fairness.

### Where the code and its documents differ

Each of these has a run that TLC must find violated, on the instance of the
passing run or less of it: one budget for `graph_budget`, one launch less for
`browser_click`.

1. `linear_refused`: a denied or unknown call sets FAILED, the next step's first
   line sets RUNNING (`orchestration/runner.py:167`), and the task ends COMPLETED
   with an error. In the graph the review in between stops at FAILED, and the same
   property, `RefusedCallFailsTask`, holds (`graph` run, and theorem `RefusalFails`).
2. `graph_budget`: the node bodies keep "behaviour identical to the linear runner"
   (`orchestration/graph.py:50-52`). That one FAILS a task over its budget; the
   graph ends it COMPLETED, against `FailedIsNotCompleted` even one whose last
   step the reviewer failed. What does hold is `CompletedIsReviewed`: the trail
   then tells of the spent budget.
3. `service_poll`: the id a queued POST answers with is not an id anything is
   saved under (`api/routes/tasks.py:47`), so `PollSettles` fails.
4. `browser_click`: "Click an element matching a CSS selector on a URL."
   (`tools/browser.py:246`) clicks whatever page another task has meanwhile
   navigated the shared one to (`tools/browser.py:272`), against
   `ActsOnItsOwnSite`.

Met while modelling, without a run of their own:

- tasks: "the orchestrator never hard-stops on a malformed model output"
  (`runner.py:302-303`), but an `expected_risk` that the planner normalises makes
  the runner's own parse raise (`:325`), and the run ends FAILED before any step.
  "One retry of the same step" (`graph.py:187`) executes the next step, the
  failed one being marked done.
- router: the failover is behind a `yield` (`llm/router.py:268`) that the
  WebSocket route, which leaves at an error event (`api/routes/chat.py:182`),
  never returns to: the mock is no net for it, and `SafetyNet` is stated for the
  other kinds of request. The clock is read once per request
  (`llm/router.py:200,244`), so a provider whose cooldown elapsed while another
  was being tried is skipped. `llm/registry.py:9` speaks of a shared `LLMRouter`
  that nothing installs.
- service: a task whose save the database refused is not found once the database
  is back, although its process has it cached
  (`persistence/repository.py:95-97`). `rabeeh-worker` starts an app that imports
  no task module, and the API process never imports that app, so the job path
  modelled here needs a worker started with the task module included and a broker
  configured for the default app.
- agents: an agent is "a stateless reasoning unit" (`agents/base.py:3`), but a
  quotation, an invoice and an order are written into the module's own list
  (`agents/business.py:207`), and a call that waits for its tool then carries the
  goal of another task. `WritesInto` models it; `CallsKeepTheirGoal` is stated
  for the documents that get a new list. A manager "Owns a single Playwright
  browser" (`tools/browser.py:34`), but two calls that find none launch one each
  (`:48-64`): `BrowserLostOnlyInTrouble` leaves overlapping launches out by its
  premise and says that no other browser outlives the shutdown. The business
  agent's office calls name no path, so the tool always answers "Missing 'path'
  argument." (`tools/office.py:31-33`). The coding agent never reaches "fix" or
  "done": nothing calls `classify_run_result`.
- gateway: "every log line during the request carries the correlation id"
  (`api/middleware.py:189-190`), but the context is one dictionary of the process
  (`config/logging.py:24`): lines of interleaved requests carry another's id or
  none. What holds is `ContextIsLive`: no id outlives its request. The id goes
  "into every response" (`api/middleware.py:185`), except that to a request whose
  handler raised, which the server answers further out. A restart forgets the
  blacklist, and a token revoked before it opens again, as `api/auth.py:34` says
  it does; `RevokedIsOver` is a statement about one process, and `over` is
  emptied with it.
- memory: "Return the most recent records" (`memory/base.py:86`); past its limit
  the list in memory returns the oldest (`memory/in_memory.py:55`, modelled as
  `RecentInMemory`). The append and the forget of a table that cannot be made end
  without an error and without an effect, where the class "Falls back to an
  in-memory store transparently" (`memory/postgres_store.py:60`). The two stores
  return `recent` in opposite orders, and the table ranks only what the limit
  left and keeps records that share no word. `ask` drops the second of two facts
  between the same entities, where it speaks of "all known facts"
  (`memory/base.py:302`), and never goes beyond one hop. Nothing in `src/`
  constructs `PostgresMemoryStore`, and the memory agent's store
  (`agents/__init__.py:102`) is not the one the runner appends to.
- business: SQLite is a supported database (`persistence/db.py:8-10`), and stores
  rows for customers and vendors that the tables' foreign keys
  (`business/models.py:58-60`) should refuse, as
  `tests/test_business_repository.py:531-623` do and find right. With `Engine` =
  "sqlite" `ReferencesHold` fails; the rest of `TableIsSound`, and every other
  business property, is proved for either database. Without a database a row that
  leaves out a field with a declared default is stored without it; its creation
  and every list after it answer with an error until it is patched or deleted
  (`business/repository.py:447`). With a database the default or NOT NULL
  decides. A patch acknowledged for the value it had read does not restore it
  when another client's patch came between (`business/repository.py:115-119`).

## 4. Proofs

TLAPS checks every proof below from nothing, for every value of the constants
that meets the named assumption of its module (`RunnerAssumption`,
`RolesAssumption`, `GateAssumption`; `RouterAssumption`; `GatewayAssumption`,
`LimiterAssumption`; `ServiceAssumption`; `BrowserAssumption`,
`AgentsAssumption`; `StoresAssumption`; `TokensAssumption`; `BusinessAssumption`,
`EngineAssumption`, `MoneyAssumption`, `RestartAssumption`). Each is an inductive invariant, one
lemma per kind of step, and a last temporal step.

What a recursive function, a fold or a sorted sequence gives for every input is
shown without an induction theorem, by the least-number principle: of the
numbers where a claim fails there would be a least (`WFMin` on `<` of the
naturals), and there it holds because it does one below. The community modules'
`SelectSeq`, `SortSeq`, `:>` and `@@` cannot be unfolded by the provers, which is
why `Since` and `Ranked` are defined without them.

`OrchestratorProofs`, the linear runner:

- `TypeCorrect`: `TypeOK`. It is inductive with one tie between variables: a
  coroutine suspended at a tool has a call (`CallTyped`), which `ToolReturns`
  needs to write a typed result. `CallStep` shows that only `ToolStarts` leads
  there.
- `PolicyHolds`: `PolicyRespected`. `StartsOnlyAllowed` says that a step appends
  to `started` only a call the gate allows; `GateSound` that what `evaluate`
  allows, the policy, stated without its order of tests, allows too; and
  `SettingsFixed` that the verdict of the past is still one of the present.
- `BudgetHolds`: `EffectsWithinBudget`. Not inductive: it says nothing of a step
  that was counted but whose tool has not started. `BudgetInv` adds that while
  an agent has the floor, fewer tools have started than iterations were counted.
- `PauseHolds`: `NothingAfterPause`. Not provable from the status alone, since an
  agent's step does change things; `PauseInv` adds where a paused run can be:
  handing `stop` back, or past the walk.
- `MemoryTellsOutcome`: `MemoryMatchesOutcome`, with the fact that nothing is
  remembered before the last step.
- `CompletionWalked`: `CompletedMeansWalked`. `WalkInv` ties loop index, counted
  iterations and the prefix of done steps at each place of the walk, and says
  where a run can be that stopped early or that has completed.
- `TrailIsComplete`: `AuditComplete`. The property compares filtered sequences;
  the proof works with the order in which a trail `Tells` of calls instead.
  `AuditInv` says that events tell of what has started and of what has returned,
  and `InStep` where the one may be ahead of the other: while a tool runs, or
  after one has raised.
- `StepsAreFinite`: `StepsRunOut`. A step spends an iteration of the budget or
  lowers `Rank`, the distance to the answer of a run that begins no further step;
  so no run has infinitely many steps, whatever anybody answers. With weak
  fairness this is why `AlwaysAnswers` holds, and the part of it that is proved.
- `ContractKept`: `Spec => KeepsContract`, the refinement of `TaskContract` (its
  safety; `AlwaysAnswers` is the liveness half). `Moves` sorts the steps into
  those that keep the run working and the four that leave it; `ContractStep`
  maps each to a step of the contract or a stutter, using `BudgetInv` for the
  guard of `Effect`.

`GraphOrchestratorProofs`, with `GraphInv`:

- `GraphTypes`: `TypeOK`. Beyond the linear runner's it needs that the step picked
  next is one of the plan, which `GraphInv` knows of every place a plan is walked.
- `TwoFailuresFail`: `FailsOnlyOnTwoFailures`. `Counted` ties the scratchpad's
  count to the failing verdicts that no passing one follows in the trail: they
  agree except between a verdict and the edge that acts on it.
- `CompletionIsReviewed`: `CompletedIsReviewed`. What the proof needs beyond it
  is that a run at END has a final status or a trail that tells of the spent
  budget (`Explained`, `SpentBudget`), that a trail only grows (`TrailGrows`), and
  that COMPLETED is set nowhere else (`Settled`).
- `RefusalFails`: `RefusedCallFailsTask`. `Refused` says where a refused run can
  be: on its way from the step through the review to END, never in a step.
- `GraphContractKept`: the graph refines the same `TaskContract`, with the
  budget's invariant as in the linear runner.
- `GraphStepsAreFinite`: `StepsRunOut`. The rank counts the new plans that are
  left, so neither the retry nor the replanning edge goes round for ever.

`LLMRouterProofs`, with `RouterInv`, for chains of any length and any number of
clients:

- `TypeHolds`: `TypeOK`; `OpeningsAreEarned`: `OpenIsEarned`, from `Earned`, what
  the health of one hop may be, preserved by success, failure and half-opening.
- `NetHolds`: `SafetyNet`. `Safe` says that no outcome but the socket's is an
  error while the last hop is reliable; the key is that the next hop a request
  finds exists, by the least-number principle on hops (`LeastHop`).
- `BreakerHolds`: `BrokenGetsNoCall`, an action property: a hop that a step begins
  to call is closed or past its cooldown, because the lag of a reading only makes
  an opening look younger than it is.

`TaskServiceProofs`, with `ServiceInv`:

- `NothingIsLost`: `NoJobLost`. `JobsCarried` is stronger: a worker that is only
  acknowledging carries nothing any more, so its job must have a result or a
  message elsewhere.
- `RunsOnce`: `RunsOnceUnlessTrouble`. `Untroubled` says that a goal nothing
  happened to is in one place only: unposted, one copy of its first message, or
  run.
- `RunsAreBounded`: `RunsBounded`, by a potential. A copy of a message holds a
  ticket for every run it can still lead to; the runs of a goal and its tickets
  together never exceed one round of retries for the posting and one for each
  death (`Paid`). That a second copy is never free is what `RunsInv` adds: an
  unposted goal has no copy anywhere.

`GatewayProofs`, with `GatewayInv`:

- `ContextLives`: `ContextIsLive`: only an arrival binds an id, every step between
  leaves its request under way (`Underway`), and who leaves clears it.
- `GaugeIsExact`: `GaugeCounts`, by the cardinality of the set of metered requests
  as one joins or leaves it.
- `RevokedStaysOver`: `RevokedIsOver`, from `OverIsListed` (what is over is on
  the blacklist, and both are lost together) and `StatusIsLate` (a status is
  only the route's or the limiter's).
- `LimitHolds`: `LimitIsExact`, with `LimiterInv`: the times admitted within the
  window are what the stored list would keep now. That needs the last time of a
  list to be its latest, by which `_clean_window` judges the whole list, and that
  pruning twice is pruning by the later cutoff.

`MemoryServiceProofs`:

- `SessionsAreKept`: `Spec => KeepsSessions`, the refinement of `SessionMemory`
  by both stores. `MemoryInv` adds what a suspended call carries, that a record
  before its commit is not in the table, and that two clients never append the
  same record; without the last, a commit could look like a second `Keep`.
- `RecallsAreBest`: `RecallIsBest`, with `ListInv`. A finite set whose members are
  totally ordered has one sorted sequence (`SortExists`, `RankedIs`), and the
  first of it outrank the rest (`FirstAreBest`).
- `AskNamesAll`: `AskNamesEveryNeighbour`, with `GraphInv`: what was promised is in
  the file and in what every open transaction sees. The walk over the rows visits
  each in some order (`WalkCovers`), and what it drops it has already named. The
  proof fails if an answered `learn` promises a fact that another connection is
  deleting; TLC shows the three callers it takes (`Standing`, section 2).

`SpecialistAgentsProofs`, for any number of tasks, steps and launches:

- `BrowserIsClosed`: `BrowserLostOnlyInTrouble`. Until two launches have
  overlapped or one has failed, at most one call is launching (`OneLaunch`) and
  the only browser alive is the session's (`OneBrowser`), which is the one the
  shutdown closes.
- `LookingComesFirst`: `LooksBeforeActs`; `BudgetsEndRoles`: `DoneInTime`. Neither
  is inductive: they follow from what phase and counter of a role mean (`Decided`,
  `Searched`, `Counted`, `Seen`, `Written`, `OpensOnce`), and from the fact that a
  step of one task leaves the scratchpads of the others alone (`OthersFit`).
- `GoalsAreKept`: `CallsKeepTheirGoal`, from `DocumentsInv`: a pending call of a
  sheet or a general document holds a list of its own task with its own goal in
  it (`Owned`). What another task fills in goes into its own list or a text's
  (`FillingIn`), which is never that one (`ListsDiffer`).

`BusinessApiProofs`, with `BusinessInv`, for any number of clients, rows, requests
and restarts:

- `AcknowledgedRows`: `AcknowledgedStays`; `AbsenceLasts`: `NotFoundIsForever`;
  `SoundTable`: `TableIsSound`. The argument is that stores only grow
  (`KeepsRows`): a row is kept with its kind, and with nothing older in its
  columns, until its id is gone, and a row that appears has a fresh id. What was
  answered therefore goes on to hold (`GoodStays`), and each operation has to show
  only that its own answer is right when it is given. A column the flush leaves
  out is covered by what the patch read (`Newer`); references are shown for
  Postgres only. `Good` adds what a suspended
  request relies on: the row it read is there with the kind asked for, or gone.
- `StoredTotalsAddUp`: `TotalsAddUp`, and `ReportsAreCoherent`: `ReportIsCoherent`,
  with `MoneyInv`, for lines and taxes of either sign. Each rounding moves an
  amount by at most half a cent (`RoundingIs`, `QuantizedIs`), whichever way a half
  goes; it goes the same way for subtotal and total on Postgres while neither is
  negative, so there they stay equal. A sum over fewer invoices is smaller while
  none has a negative total; one that has is the exception `ReportIsCoherent`
  names. The sums are `SumFunction`, about which the module proves what it needs.

Two results are of no run of their own: `GraphTypes`, whose bounds on the shared
variables `linear` checks and whose loop counters `StepsRunOut` watches in `graph`, and
`StepsAreFinite`, the same argument as the graph's without its two loops.

Only model-checked: liveness, which needs fairness and ENABLED. `AlwaysAnswers`
(its termination is proved, see `StepsRunOut`; that a suspended run is always
able to go on is not), `PrimaryTriedAgain` and `JobsFinish`. Every invariant,
action property and refinement of a passing run is a theorem. The four runs
that end in a violation refute a sentence of the repository on one instance, which
is enough.

## 5. What is left out

- Cancellation of a coroutine from outside, and langgraph's recursion limit
  (both look like a raising node to the caller).
- The content of messages, goals, arguments and results; what recalled memory
  does to a prompt.
- `LLMRouter.close` and the counters nothing reads; two half-open probes at once
  are possible in the model as in the code, and nothing documented forbids them.
- The update branch of `TaskRepository.save`: no caller saves a state twice.
  Listing tasks, which is sorting. A failing publish inside `self.retry`.
- Resuming after an approval: no code does it.
- The vector store (`memory/chroma_store.py`): every operation is one call of
  chromadb. `query` and `close` of the knowledge graph: no caller.
- The providers (`llm/`), which are one HTTP call each and appear as any answer,
  error event or exception; the registry, whose cached client only the shutdown
  of the API resets.
- Tools other than the browser's: one library call each. The browser's
  screenshot, which reads like the others.
- `require_role` (no route uses it), the vault of `security/secrets.py`, request
  timing, CORS, tracing and health routes: they keep no state or only report.
- Validation of business requests that answers 422 before the repository is
  reached, and fields other than the four told apart.
- CLI, frontend, deployment and migrations: argument parsing, a client, and
  configuration.

## 6. What could follow

1. What each request of the router and each job of the service has left to do, as
   a rank like `StepsRunOut`, for the termination half of their liveness.
2. A composition of the service with the orchestrator in place of its contract.
