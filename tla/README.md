# FlowMesh: TLA+ models, model checking and proofs

FlowMesh is an asyncio workflow engine in Python: a workflow is a set of tasks
with dependencies, conditions, retries and timeouts; an engine runs them, saves
checkpoints and resumes; a REST API with its middleware, four stores, an event bus, a
WebSocket manager, a circuit breaker and a rate limiter surround it. This directory holds
TLA+ models of these parts, the TLC configurations that check them, and TLAPS proofs of
their main properties.

Paths below are relative to `src/flowmesh/` of the repository. `PROJECT.json` maps every
definition to its lines and lists the components, the runs, the mutants (for every
checked property a plausible mistake in the code, which the property must catch), the
hazards and the theorems.

    tlc -workers 2 -config MCEngineFaults.cfg MCEngine     # any run of PROJECT.json
    tlapm EngineProofs.tla                                 # any *Proofs module

## 1. The system

Everything runs in one asyncio event loop: control changes hands only at an `await`, and
only if what is awaited suspends. The code in between is atomic, and that is how actions are
cut throughout.

| component | state | operations | interacts with |
|---|---|---|---|
| Execution engine `core/engine.py` | `_scheduler`, results and futures of a run, `Task.status`, `Workflow.status` | `execute`, `resume`, `_run_loop`, `_execute_task`, `_invoke` | scheduler, event bus, hooks, checkpoint store, breaker |
| Dry run `core/engine.py` | local tables | `dry_run` | `build_dag`, `topological_sort` |
| Scheduler `core/scheduler.py` | sets completed, failed, running, skipped | `mark_*`, `get_ready_tasks`, `is_complete`, `reset` | read by run loops, written by task coroutines |
| Graph and data model `core/models.py` | nodes, adjacency, in-degrees | `build_dag`, `topological_sort`, `get_ready_nodes` | engine, scheduler |
| Definition `dsl/`, `decorators/` | tasks made so far | `validate`, parsing, `workflow`, `WorkflowBuilder` | models |
| Checkpoint store `core/checkpoint.py` | results per workflow id | save, load, clear | engine |
| Hooks `core/hooks.py` | none | `before_task`, `after_task` | called by task coroutines |
| Retry `patterns/retry.py` | attempt number | `retry_with_backoff` | around the task function |
| Circuit breaker `patterns/circuit_breaker.py` | state, failure count, half-open count, last failure | `call` | shared by the coroutines of an engine |
| Rate limiter `patterns/rate_limiter.py` | tokens, last refill | `acquire`, `available_tokens` | any coroutine |
| Event bus `core/events.py` | list of handlers per event type | `subscribe`, `unsubscribe`, `publish` | engine, WebSocket manager |
| WebSocket manager `api/websocket.py`, `api/app.py` | list of connections | `connect`, `disconnect`, `broadcast` | event bus |
| Workflow stores `storage/` | rows of workflows and results | `save`, `get`, `list_all`, `delete`, `update_status`, `save_results` | API |
| REST API `api/routes.py` | `_running_workflows`, background tasks | create, execute, cancel, reads | engine, store |
| Middleware `auth/`, `api/auth.py` | per-client request log, keys, tokens | `dispatch`, `validate`, `generate_token`, `require_role` | in front of the API |
| Observability `observability/` | counters, start times, observations | hook, text export | hook of the engine |
| Dashboard `dashboard/index.html` | - | a static page | API |

What is hard, and what correct means:

* **Engine.** Three records describe a task - its status, the scheduler's sets, the results
  dictionary - and a fourth, the checkpoint, outlives the process. Different coroutines
  write them on either side of awaits, and the loop decides from two of them that it is
  done. Conditions, hooks, functions and the store may raise, and `CancelledError` passes
  every `except Exception`. Correct: dependencies first; SUCCESS only when all is finished; a
  failure stops only what depends on it; retries are counted right; a resumed run repeats
  nothing that was saved and agrees with it; every run ends.
* **Shared engine.** `routes.configure` makes one engine for all workflows. Their runs share a
  scheduler that knows tasks by bare names and that every new run resets. Correct: tasks start
  once and in order all the same; runs end; a lone run gets the right verdict; the metrics
  count each task once.
* **Circuit breaker.** The wrapped function runs outside the lock: results arrive in another
  state than the call was let through in, and a cancelled call reports nothing. Correct:
  probes are counted exactly, an open breaker is probed, a half-open one decided.
* **Rate limiter.** Tokens appear only when somebody looks. Correct: indistinguishable from a
  bucket that is filled by a clock.
* **Definition and planning.** Four pieces of code each reject something else. Correct: what
  `validate` passes is planned in full; Kahn's algorithm accepts just the acyclic graphs;
  phases are earliest, the critical path longest.
* **Stores.** SQLite's `INSERT OR REPLACE` cascades, a failing `save_results` leaves a transaction
  open, Redis needs several commands, PostgreSQL's `get` forgets `created_at`. Correct: all
  look like one atomic store to their callers, and their parts fit each other.
* **REST API.** Requests and background tasks meet in `_running_workflows`, around awaits of a
  store that may or may not suspend and may fail. Correct: one execution per workflow;
  cancelled means stopped; RUNNING means running; every request is answered.
* **Middleware.** The window of a client is cleaned only when it asks again. Correct: no window
  overflows, no unjustified refusal, and what is handled was authorized.
* **Event bus and WebSocket manager.** Both iterate over a live list across awaits. Correct: one
  failing subscriber or client costs the others nothing; nobody hears twice.

## 2. The modules

    WorkflowGraph          build_dag, acyclicity, get_ready_nodes (operators)
      Scheduler            the scheduler's methods (operators on a record of four sets)
        Engine             execute / resume / run loop / task coroutines / caller
          MCEngine, EngineProofs
        SharedEngine       several runs over one scheduler and one metrics hook
          MCSharedEngine, SharedEngineProofs
      Planner              topological_sort and dry_run, one iteration per step
        Definition         validate, parser, decorators, builder; then Planner
          MCPlanner, PlannerProofs
    CircuitBreaker         one breaker, any number of callers
    TokenBucket            abstract: a bucket filled by the clock
    RateLimiter            the limiter that refills on demand; INSTANCE TokenBucket
      PatternProofs        of CircuitBreaker and RateLimiter
    WorkflowStore          abstract: the promise of storage/base.py
    Stores                 memory, SQLite, Redis, PostgreSQL; INSTANCE WorkflowStore
      MCStores, StoresProofs
    Service                create, execute, cancel and the background task;  ServiceProofs
    Gateway                rate limit, authentication, roles;  MCGateway, GatewayProofs
    Delivery               event bus, forwarding handler, broadcast;  MCDelivery, DeliveryProofs

An operator named `Op_Variant` before an operator `Op` is a mutation: a mistake the code
could plausibly contain, never part of a specification.

### Engine

`loop` is the caller's coroutine inside `execute`/`resume`: *starting* while
WORKFLOW_STARTED is published, *waiting* in `asyncio.wait`, *polling* in the sleep,
*ending* while the last event is published, then *returned* or *raised*. `stage[t]` is
`_execute_task` of task `t`, named for the await it stands at.

| code | action |
|---|---|
| `execute` up to its first await, l. 150-160 | `Execute` |
| `resume`: load, `build_dag`, restore, l. 194-226 | `Resume` |
| either raising at once | `RejectRun` |
| a turn of `_run_loop`, l. 264-285, and the verdict l. 171-184 that follows its break | `Dispatch`, as `BeginLoop`, `Wake` or `Poll` |
| `d.exception()` of a cancelled future, l. 282 | `WakeToCancelled` |
| last event; `clear` of a resumed run | `EndRun` |
| condition false / true or none / raises, l. 293-323 | `SkipTask` / `StartTask` / `ConditionRaises` |
| before hook raises, l. 326 | `BeforeHookRaises` |
| `_invoke`, `retry_with_backoff` | `Invoke`, `BackOff`, `Retry`, `FuncFails`, `FuncReturns`, `FuncCancelled` |
| publication and save, l. 346-357, 307-315 | `SaveResult`, `SaveSkip`, `SaveResultRaises`, `SaveSkipRaises` |
| after hooks, l. 378-380 | `AfterHooks` |
| the caller cancels, makes FAILED/RUNNING tasks PENDING, or the process dies and starts anew | `CancelRun`, `ResetTasks`, `Restart` |

Limits, all in guards or constants: one run at a time (`NoRun`; overlapping runs are
SharedEngine's); `execute` gets a workflow none of whose tasks has run, `resume` one that has
not succeeded; `MaxRuns` bounds the calls; timeouts and failures are one action, and a
task in `Hanging` can end by its timeout only; delays have no length.

### SharedEngine

Any number of workflows on one engine, without checkpoints, breaker and retries. `scheduler` is
shared; `stage`, `woken`, `status`, `co` and `verdict` belong to a workflow's run. `woken` says
that the loop of a run has something to look at: a turn that leaves futures to wait for
clears it, the end of a coroutine sets it. `Dispatch` and `EndRun` are the two outcomes of a
turn. `startTimes`, `total` and `observed` are `PrometheusMetrics`, written by its hook.
`alone` is a ghost: no other run has overlapped this one.

### Definition and Planner

`Definition` makes a workflow by one of three routes - the parser with or without `validate`,
the `workflow` decorator, `WorkflowBuilder` (whose list of tasks the workflow shares, so that
`AddTask` goes on after `BuildWorkflow`) - and has it planned. Of a definition it keeps the
names, with `NoName` for a missing one, and the dependencies. In `Planner`, `pc` walks through
`build_dag`, the loop of `topological_sort`, and the three loops of `dry_run`, an iteration per
action; where the code iterates over a set, any order may come out.

### CircuitBreaker

`AdmitNormal`, `AdmitProbe` (with `_maybe_transition` to HALF_OPEN) and `Reject` are the outcomes of
the locked half of `call`; `Succeed` and `Fail` are the two records, `Cancel` a call that ends
by `CancelledError` and records nothing. The count is kept at the threshold and `elapsed` at
the timeout, beyond which the code does not tell values apart. `lost` is a ghost.

### RateLimiter and TokenBucket

`Refilled` is what `_refill` would make of `_tokens`; `Granted` and `Naps` are the two ends of the
locked body of `acquire`. Floats are integers in units smaller than a token; `NapTime` is the
time a token takes. `TokenBucket` is the promise: `Fill` at each tick, `Take` when granted. The
refinement mapping is `level <- Refilled`. Names that `CircuitBreaker` has too carry `Limiter`, so that
one module of proofs can extend both.

### WorkflowStore and Stores

`WorkflowStore` says what callers may rely on: an operation takes effect at one moment between
call and return, `update_status` changes only the status, and a durable store has on disk
whatever a completed operation saw. Two liberties are in it because the implementations
take them: saving a workflow again may drop its results (SQLite), and a failing
`save_results` may leave some behind (SQLite).

In `Stores` each method of the memory, SQLite and PostgreSQL stores is one action, since it
never awaits or is one statement of the server. Redis's `save` is SET and ZADD, its
`update_status` a GET before them; other coroutines, failures and cancellations come in
between (`commands`, `RedisInterrupted`). `disk` is what a restarted process finds, `inTransaction`
the transaction SQLite's failing `save_results` leaves open. Outputs are told apart as far as
the encodings do: text, other JSON, or neither. The mapping keeps of a row its version and
status and of a result whether it succeeded.

`TakesTurns` names the stores whose clients do not let `update_status` overlap a save of the
same workflow. With `TakesTurns = {}` Redis violates `ImplementsStore`: a save is lost.

### Service

A request is *creating*, *looking* (in `store.get`), *waiting* (`await task`) or *recording*; a
job - the background task - stands at one of its store calls, or is *executing*. `turn`
holds the event loop for a coroutine whose await does not suspend: with the memory and SQLite
stores no store call does. The engine returns, with results or without (`EngineReturns`), raises an
`Exception` (`EngineRaises`), or raises the `CancelledError` of one of its tasks
(`EngineCancelled`, the `WakeToCancelled` of Engine), which only the `finally` clause of the job
meets. Cancellation reaches a job where it waits; a remote store call that is cancelled may have
had its effect or not.

Requests come in any order and at any moment: an execution may start while a cancellation of its
workflow is being handled. Three ghosts record what the properties except: `unsettled`, the
store could not be told how an execution ended; `abandoned`, a `CancelledError` ended it; and `crossed`, an
execution was started while a cancellation was being handled. An execution that starts after these
settles them anew. `JobIsLeft` is the bound on jobs: a request to execute comes only if there is one
left for it. The bound hides nothing else, since a job that has ended and that no request or
`_running_workflows` knows is free again.

### Gateway

A request passes the middlewares in the order `Stack`, each in one step since they run
without an await up to `call_next`; then the endpoint, perhaps behind `require_role`. `auth` is
the kind installed: `APIKeyAuthMiddleware` (*key*), `JWTAuthMiddleware` (*jwt*), `api/auth.py`'s
`APIKeyMiddleware` (*env*, or *off* when no key is set). Time is discrete; `Window` is the 60 s. The
clock never goes back, as a monotonic one would; the code reads `time.time()` (auth/\_\_init\_\_.py:283), which
may be set back, and then the entries of the future stay in the log until they are 60 s old.

### Delivery

`Publish` makes a coroutine of every subscriber (`calls`); `PublishReturns` looks up the handlers of
those that raised in the list as it is then, `events.py:79`: the list may have become too short
(`IndexError`), or the subscriber found has no `__qualname__` (`AttributeError`), as a
`functools.partial` has none; `nameless` are those. `disturbed` is a ghost: a subscriber has left
while the publication was under way. The forwarding handler broadcasts:
`cast` is its place in the live list, the client it sends to and the stale ones. `removals`
counts how often somebody else shortened the list meanwhile; `Without` is what `disconnect` leaves
of it, without recursion, since it is reasoned about. Events are of one type. The
endpoint that would accept clients, and the subscription of the bridge, are not in the
repository and are modelled as what an application can do with these classes.

## 3. The runs

All bounds are the constants of the named `.cfg`.

| run | shows |
|---|---|
| `engine_faults` (1.2M states) | All graphs on three tasks, cyclic ones and an unknown name included; three runs, with raising conditions and hooks, cancelled functions, a cancelled caller and crashes at any moment. The inductive invariant of the proofs; failures are contained; inputs arrive; attempts are exhausted; checkpoint and run agree; a resumed run repeats nothing saved; results are final. |
| `engine_live` (205k) | Every run ends, with a function that hangs until its timeout, a condition, retries, a store that fails and a caller that cancels; the records agree and SUCCESS is complete even when the store fails. |
| `shared_engine` (153k) | Two workflows of two or three tasks, names apart, equal or mixed: tasks with names of their own start once and in order whatever is reset; lone runs get their verdict; metrics agree; every run ends. |
| `planner_graphs` (25k) | Every acyclic graph of four tasks up to renaming, each with and without a back edge, and seven odd definitions, by three routes: validation, acceptance, order, phases, critical path, termination. |
| `breaker_calls` (0.5k) | Three callers, threshold 3, two probes, cancellation: exact counts, open is probed, half-open is decided unless all its probes were cancelled. |
| `limiter` (21k) | Two callers asking for a fraction, for more than one refill and for more than the bucket holds: refinement of `TokenBucket`, window bound, someone is served. |
| `stores` (258k) | Two clients, two workflows of two tasks with two versions, on each store: refinement of `WorkflowStore` through partial failures and restarts; the parts fit; creation times stay. |
| `service` (66k) | Three requests and two jobs for a workflow, on a store of each kind, with failures, a `CancelledError` out of the engine, executions that cross cancellations, and restarts: `ServiceInv`, `RunningIsTrue`, `CancelMeansStopped`, `RequestsAreAnswered`. |
| `gateway` (1.2M) | Three requests of two clients, one allowed per window, each kind of authentication, a token that expires: windows, refusals, authorization. |
| `delivery` (1.7M) | Two publications overlap while two subscribers and two clients come, fail and go: failures stay apart and are blamed on those that failed, with or without a name; only removals hide clients; nobody hears twice. |
| `resume_unreset` | a violation, section 6 |
| `shared_names` | a violation, section 6 |

Why the bounds suffice. Three tasks give chains, forks, joins and an independent task next to
each; three runs are the shortest history in which a checkpoint is read and extended twice.
Two runs suffice for a reset to hit a run in each of its stages, and the second of two tasks
depends on one that was forgotten. Three callers are two probes and a late call. Windows of
four ticks are twice the nap and fill the bucket once. In `stores` a workflow is changed
while another is left alone; `OneTorn` keeps a second Redis listing from being torn while one
is, which changes nothing but the number of states. In `service` workflows meet only in the
event loop; three requests are one that cancels, one that executes and one more, and two jobs the one that
is registered and one that is left over, so that an execution crosses a cancellation and a second
one starts beside it. With three jobs the safety properties hold as well. In `gateway`
a window of two ticks with four ticks of clock slides over every pair of requests. In `delivery`
a subscriber without a name is looked at with one client (`OneClientIfNameless`), as clients do
not matter to what `publish` logs. The
proofs of section 5 remove the bounds for most safety properties.

Symmetry is used in runs without liveness only. Deadlock is not checked where the system may
stop: an engine whose callers do nothing more, a finished plan, requests and publications
that are each handled once.

## 4. Fairness

* `Engine!Fairness`: weak fairness of the loop and of each coroutine. asyncio runs every ready
  callback in turn, and timers fire. It presumes that subscribers, hooks and the store
  answer. Nothing is presumed of the caller. A function may be presumed to end only by its
  timeout: `Hanging` functions have no other fair step, and none at all behind a breaker.
* `SharedEngine!FairSpec`: weak fairness of each run loop and of each run's coroutines; functions
  end. Nobody has to call `execute`.
* `CircuitBreaker!Fairness`: time passes; each call in flight ends; some idle caller goes on
  calling. Without the last a breaker stays open for want of a probe, as in the code, where
  only `call` looks at the clock.
* `RateLimiter!LimiterFairness`: the clock ticks and a caller whose sleep is over looks again. No order
  among waiters is presumed: `SomeoneIsServed` allows one to be overtaken for ever.
* `Service!FairSpec`: strong fairness of each job and each request. Strong, because a coroutine
  that is ready is disabled whenever another keeps the loop across an await that does not
  suspend; but the loop serves all that were ready before it begins again. It presumes that
  the store answers or raises and that the engine comes to an end; no failure is forced.
* `Definition!Spec`: weak fairness of the whole, a synchronous program that goes on while it can.

Stores, Gateway and Delivery have safety properties only.

## 5. What is proved

`tlapm` checks every leaf; nothing is assumed beyond the named `ASSUME`s of the modules,
which say that constants have their types, and the hypotheses named here.

**Engine** (`EngineProofs`), for all tasks, graphs, retries, faults and numbers of runs:
`TypeCorrect` unconditionally, and, under

    CarefulUse == SaveRaises = {} /\ CallerResets = {"failed", "running"}

(the store saves; the caller makes PENDING what did not finish before it resumes)
`Invariant`, `SuccessIsComplete`, `DependenciesComeFirst`, `SchedulerAndTasksAgree` and
`SavedTasksAreNotRerun`. Both conditions are needed: without the second TLC shows
`resume_unreset`, without the first section 6's store failure.

`SuccessMeansAllFinished` is not inductive. That the loop's exit means that all is done needs:
the scheduler, the tasks and the results say the same of every task, from the start of a
run until its last coroutine is over (`RecordsAgree`); where a coroutine stands fixes its
task's status (`StageFitsStatus`); the graph is acyclic during a run (`LoopFits`); what is
finished is saved or about to be (`FinishedIsSaved`), and a resumed run has taken over what was
saved (`CheckpointIsRestored`). Their conjunction is `IInv`, which `engine_faults` checks. The
step that uses acyclicity is the lemma `NothingReadyNothingLeft`: if nothing runs, is ready or
has failed, the set of pending tasks has a member with no dependency in the set, would be ready; so the set is empty.

The same module goes on from `IInv` to what a run leaves behind, under `CarefulUse` as well:

* `ResultsStay`: a step writes a result only for a task that has none; a coroutine that
  concludes belongs to a RUNNING task, and `RecordsAgree` says that it has none yet.
* `InputsAreThere`: `_invoke` finds what it asks of its dependencies by `DependenciesFirst`, and retries keep it.
* `AttemptsAreCounted`: inductive once it says too that a coroutine that pauses has an attempt left
  (`AttemptInv`).
* `CheckpointIsTrue`, if also `Reexecutes` is false: from a run's start, what the store holds has
  reached the results (`CheckpointInv`), so a task that concludes has no older result in it.
* `FailureStopsNothingElse`: at the exit of the loop a task without a result is PENDING and not
  ready, so it has a dependency that has not ended well (`LeavingIsContained`). That this is still so
  when the run has returned needs that no coroutine is left then: every live one has its future
  pending (`FuturesFit`).

**Shared engine** (`SharedEngineProofs`), for any number of workflows of any size and shape:
`Invariant`, `LoneVerdicts`, `OrderIsKept`, `MetricsAreExact`. The invariant `RunInv` has a part that no reset can
disturb, since it does not mention the scheduler - where a coroutine is fixes its task's
status (`CoFitsStatus`), and a run that is not active has no coroutine left (`QuietRuns`) - and a part
that holds while `alone`: the scheduler is exactly the record of the run's tasks (`LoneRecords`). The
latter is restored by every `Execute`, whatever earlier runs left; that their coroutines are
over is `QuietRuns`. `OrderIsKept` uses none of the scheduler's agreement with the tasks: with
names apart it needs only that whatever the scheduler calls completed or skipped has succeeded or
was skipped (`RecordsTrue`). A reset only forgets; so a task may start
late, but not early, and its status, not the scheduler, keeps it from starting twice.
`MetricsAreExact` is inductive next to `RunInv`: `after_task` finds the start that `before_task` kept
because a run does not begin again while a coroutine of its is left, and each key belongs to one
coroutine (`MetricsInv`, in which the ended tasks are finite sets, so that they can be counted).

**Planner and Definition** (`PlannerProofs`), for definitions of any length, by each route: `Invariant`,
`SortDecides`, `OrderIsFound`, `PhasesAreFound`, `PathIsCritical`, `ValidationIsTrue`. `IInv` has one part for each loop:

* While the sort runs, the in-degree of a task is the number of its dependencies outside
  the order, and the queue is exactly the tasks outside it that have none left (`QueueFits`). When the queue
  is empty, either the order is complete, and its places rank the graph, which then has no cycle, or
  every task outside has a dependency outside, and the graph is cyclic (`OrderedIsAcyclic`, `StuckIsCyclic`).
* Each phase is what is ready after the phases before it (`PhasesInv`); an acyclic graph always
  has such a task, so that the phases end with every task.
* `dist` is no less than any relaxed dependency makes it, `pred` names the one that made it, and for
  a relaxed task it is the number of its phase (`DistancesFit`). This is where longest path and
  phases meet: `DistanceIsPhase`. So the farthest task is in the last phase (`LastPhaseIsFarthest`), and walking
  back by `pred` shortens the distance by one a step (`WalkInv`).
* What `validate` found was true of the definition, and the tasks are its entries up to where the route
  stopped (`ErrorsFit`, `DefinitionInv`); `ValidationIsTrue` then counts: entries with distinct names are as many as
  the nodes of the graph, and these as many as the places of the order.

No recursion and no induction over data is used: every loop is an action of the model, and
induction is the invariance of `IInv`.

**Circuit breaker** (`PatternProofs`), for any finite set of callers and any thresholds:
`TypeCorrect`; `StateFitsCount`; `CountedProbesAreInFlight` (the half-open count is the cardinality of
the probes in flight plus the cancelled ones: one lemma about the effect of each action on
`Probes`); `NoShortcutFromOpen`.

**Rate limiter** (`PatternProofs`), for any capacity, rate and callers: `LimiterTypeCorrect`;
`Implementation` (every step is a bucket step or a stutter under `level <- Refilled`; the clock's
case needs that two refills capped one after the other are one capped refill);
`WindowsAreBounded`, from the stronger `taken + level <= MaxTokens + age * RefillRate`.

**Stores** (`StoresProofs`), for any clients, workflows, tasks and values: `Invariant`, `CreationTimes`
and, if Redis's clients take turns, `Implementation`. The refinement needs `StoreInv`: a
PostgreSQL or SQLite step is an abstract one on disk only because disk and rows are equal
outside a transaction (`Durability`), and Redis's second step of `update_status` is the abstract
`UpdateStatus` only because the workflow it read is still the one that is stored
(`UpdatesAreFresh`, where turns come in). The step that begins a Redis call maps to
`Call`, its SET to the effect, its ZADD to a stutter.

**Service** (`ServiceProofs`), for any number of workflows, requests and jobs: `Invariant`
(`ServiceInv`), `CancelStops` and `RunningIsShown`, of clients that do as they please. One execution per
workflow (`LiveIsTracked`) is kept by `ExecuteStarts`, and can be lost only where an entry of
`_running_workflows` is removed: at the end of a job, which must be the one registered, and when
a cancellation is recorded, when none may live (`RecordingIsAlone`). An execution that crosses a cancellation
breaks both, which is why these parts except the workflows in `crossed`; that `crossed` may be forgotten at
the next start needs that no job of the workflow and no cancellation is left then. What holds without
exception is that the job a request has cancelled is one of its workflow and has ended before the
cancellation is recorded; and that a workflow shown RUNNING has a job or a cancellation, or is `unsettled`
or `abandoned`. `TrackedIsLive` and `CancelledIsAwaited` are what these parts need of each other.

**Gateway** (`GatewayProofs`), for any requests, clients, keys, limit and both orders of the
middlewares: `Invariant`, `NoWindowOverflows`, `RefusalsAreJustified`, `Authorization`. The window bound
looks back from each request that was let through; it needs that whoever is in the present
window is still in the log though the log is cleaned (`Recorded`), and that stamps never
lie in the future. Authorization needs that a request which has the authentication behind
it had a good credential when it was checked, and that the user attached to it is its own
(`Cleared`), not that the token is still good when the request is handled.

**Delivery** (`DeliveryProofs`), for any subscribers and publications and any finite set of clients:
`Invariant`, `HeardOnce`, `HandlersAreApart`, `LeftOutForRemovals`. A broadcast walks through a list that others
change while it waits. `CastInv` says what survives: nobody at a place behind the
broadcast's own has been sent to, so whoever comes next is new. And it counts `Missed`, the clients
of its audience that are up to its place in the list without having been sent to: with every removal
by others at most one more slips in front of the place, since a client of `Without` stood at most as many
places farther back as were removed (`WithoutFits`, `FrontGains`). When the broadcast ends the whole list is in
front of its place, and so whoever is left out was missed. `HandlersAreApart` is kept up by `PlacesFit`:
until a subscriber leaves, the handlers of a publication under way are the first ones of the list,
in their order, though others subscribe; so the place of a call that raised is still its handler's. Clients connect once, and the forwarding
handler is subscribed once at a time: this is the application's part, and the model's.

Only model-checked: the liveness properties (`EveryRunEnds`, `PlanIsMade`, `OpenIsProbed`,
`HalfOpenIsDecided`, `SomeoneIsServed`, `RequestsAreAnswered`), as fairness is out of the prover's reach. Every
invariant, action property and refinement that a run checks is stated by a theorem; those of Engine
and Stores under the hypotheses named above.

## 6. Where code and documentation disagree

Two disagreements have a run that TLC must end with a violation.

| run | the code | the documentation |
|---|---|---|
| `resume_unreset` | `resume` restores SUCCESS and SKIPPED only; a FAILED task is neither ready nor a failure of the reset scheduler: the workflow is reported SUCCESS without it (core/engine.py:204) | "the engine picks up where the last run left off" (core/engine.py:190) |
| `shared_names` | one scheduler, keyed by bare task names, serves all runs of an engine: when runs with a name in common overlap, a task starts before its own dependency (core/scheduler.py:49) | "respecting dependency order" (core/engine.py:63) |

What the models show besides, most of it by changing one constant of a run:

* An execute request that was looking up its workflow when the cancellation came starts a job in
  the moment after the cancelled one has ended; the cancel handler then marks the workflow CANCELLED
  though it executes, and forgets the new job (api/routes.py:307-309), so that a third request
  may start a second execution beside it. This is what `crossed` stands for in `service`. The docstring at
  api/routes.py:290-291 allows tasks of the cancelled execution to complete, not a new one.
* A `CancelledError` that comes out of the engine (core/engine.py:282) passes `except Exception`
  (api/routes.py:233): the job ends and the workflow stays RUNNING, and as nothing is registered for it
  DELETE answers 404 from then on; a new execution settles it. These are the `abandoned`.
* DELETE only cancels: for a workflow that is not running it answers 404 (api/routes.py:293-294).
  tests/integration/test\_auth\_and\_delete.py:87-92 expects it to delete the workflow and answer 204. No
  property covers this, since the code has no such operation to model; `delete` of the stores is in `stores`.
* Redis and PostgreSQL have no `delete`, though storage/base.py:38 requires it of every store
  (memory.py:47 and sqlite.py:162 have it); they do not derive from the class and so are not kept from
  being used. `Stores` has the action for the other two only.
* With `SaveRaises = {a}` `engine_faults` violates `ResultsAreFinal` and `AttemptsAreExhausted`: a store that
  fails to save turns a task already published as completed into a FAILED one.
* With `Reexecutes = TRUE` it violates `CheckpointMatchesRun`: the checkpoint of an earlier run stays
  until it is overwritten.
* With a hook that raises (`HookRaises`), `engine_live` violates `EveryRunEnds`: before hooks are called
  outside the `try` (core/engine.py:326), the task stays RUNNING and the loop polls for ever;
  core/hooks.py:38-39 says such a task is marked as failed.
* With `UsesBreaker = TRUE` it violates the same: behind a breaker there is no `wait_for`
  (core/engine.py:396), in spite of "Maximum execution time in seconds"
  (decorators/\_\_init\_\_.py:96).
* The semaphore made from `max_concurrency` is acquired nowhere (core/scheduler.py:36).
* A breaker counts failures that are not consecutive, as a success in CLOSED does not reset the
  count (patterns/circuit_breaker.py:42 against 117); any late success closes a half-open one,
  probe or not (l. 120); and when every probe of a half-open period was cancelled it refuses
  all calls from then on, which `HalfOpenIsDecided` excepts.
* Overlapping runs whose task names differ keep the order, but one of them may
  end as SUCCESS with tasks PENDING, or wait for tasks of another run, because a reset has
  emptied the sets; only a lone run is promised its verdict.
* `JobFinishes`: a `TaskStatus` is never equal to the string `"success"` (api/routes.py:226), so that
  a workflow with tasks always ends as FAILED. Nothing resets RUNNING after a restart.
* A publication raises `IndexError` when a subscriber raised and another left meanwhile, and
  `AttributeError` when one that has no `__qualname__` raised (core/events.py:79). If the list was
  shifted instead, the log blames another subscriber than the one that failed.
* Redis's `update_status` replaces `created_at` by the present time (storage/redis.py:164);
  `CreationTimeKept` excepts it. Redis and PostgreSQL store `str(output)`.
* `validate` finds no dependency on an unknown task, though its comment at
  dsl/\_\_init\_\_.py:283 says it validates them; parsing does not call `validate`; tasks with
  equal names become one node.
* `create_app` cannot run at this commit: `get_ws_manager` returns a name that is defined nowhere
  (api/routes.py:50). Service, Gateway and Delivery are the code as written.

## 7. Not modelled

* The dashboard, a page without state of its own.
* Text export and logging of `observability/`; the workflow counters, which nobody calls. The
  histogram export counts cumulative buckets twice over (observability/\_\_init\_\_.py:171): a matter for a unit test.
* Endpoints that only read, schemas, HTTP status codes.
* Formats: headers, hashes, signatures, JSON and YAML, SQL types. What the code does with a
  malformed one is one refusal or one exception.
* The lengths of retry delays (patterns/retry.py:60): a retry may come at any later moment, which
  covers each of them.
* Lazy initialisation of the Redis and PostgreSQL stores (storage/postgres.py:57,
  storage/redis.py:50), where two first calls may each make a pool; the order of listings,
  which differs between the stores.
* A custom `CheckpointStore` that suspends between its own steps; the one in the repository
  does not.

What could follow: a composition of Service with SharedEngine, to say what a verdict means when
API executions overlap; in Delivery, several types of events and clients that come back.
