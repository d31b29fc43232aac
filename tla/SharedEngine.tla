---------------------------- MODULE SharedEngine ----------------------------
(***************************************************************************)
(* One ExecutionEngine that executes several workflows at a time, as the   *)
(* API's background tasks do (routes.configure makes one engine for all):  *)
(* their runs share one Scheduler, which knows tasks by their names and    *)
(* is reset by every run that begins.  The engine has no checkpoint store, *)
(* circuit breaker or retries here (Engine looks at those), and one hook,  *)
(* that of observability/__init__.py, whose metrics all runs share too.    *)
(***************************************************************************)
EXTENDS Scheduler, Naturals, FiniteSets

CONSTANTS
  Workflows,
  Loads         \* what the workflows may consist of: per workflow the
                \* depends_on function on its task names

ASSUME SharedEngineAssumption ==
  \A l \in Loads : \A w \in Workflows : BuildsDag(DOMAIN l[w], l[w])

VARIABLES
  load,         \* the workflows' tasks and dependencies
  scheduler,    \* self._scheduler
  stage,        \* a workflow's run: idle, started, looping or ended
  woken,        \* the run loop has something to look at
  status,       \* task.status
  co,           \* _execute_task, the coroutine of a task, and where it is
  verdict,      \* workflow.status
  startTimes,   \* the keys of _task_start_times
  total,        \* _task_total
  observed,     \* the lengths of the lists in _task_duration_observations
  alone         \* ghost: no other run has overlapped this one

runVars == <<load, scheduler, stage, woken, status, co, verdict, alone>>
metricVars == <<startTimes, total, observed>>
vars == <<runVars, metricVars>>

Tasks(w) == DOMAIN load[w]
Names == UNION {Tasks(w) : w \in Workflows}

Init ==
  /\ load \in Loads
  /\ scheduler = EmptyScheduler
  /\ stage = [w \in Workflows |-> "idle"]
  /\ woken = [w \in Workflows |-> FALSE]
  /\ status = [w \in Workflows |-> [t \in Tasks(w) |-> "pending"]]
  /\ co = [w \in Workflows |-> [t \in Tasks(w) |-> "none"]]
  /\ verdict = [w \in Workflows |-> "pending"]
  /\ startTimes = {}
  /\ total = [s \in {"success", "failed"} |-> 0]
  /\ observed = [s \in {"success", "failed"} |-> 0]
  /\ alone = [w \in Workflows |-> TRUE]

Active(w) == stage[w] \notin {"idle", "ended"}
Others(w) == {v \in Workflows \ {w} : Active(v)}

\* Mutation: the scheduler is not reset for a run.
Execute_NoReset(w) ==
  /\ stage[w] = "idle"
  /\ stage' = [stage EXCEPT ![w] = "started"]
  /\ verdict' = [verdict EXCEPT ![w] = "running"]
  /\ alone' = [v \in Workflows |-> alone[v] /\ (v = w => Others(w) = {}) /\ v \notin Others(w)]
  /\ UNCHANGED <<load, scheduler, woken, status, co, metricVars>>

\* execute, up to the end of publishing WORKFLOW_STARTED.
Execute(w) ==
  /\ stage[w] = "idle"
  /\ scheduler' = EmptyScheduler
  /\ stage' = [stage EXCEPT ![w] = "started"]
  /\ verdict' = [verdict EXCEPT ![w] = "running"]
  /\ alone' = [v \in Workflows |-> alone[v] /\ (v = w => Others(w) = {}) /\ v \notin Others(w)]
  /\ UNCHANGED <<load, woken, status, co, metricVars>>

EnterLoop(w) ==
  /\ stage[w] = "started"
  /\ stage' = [stage EXCEPT ![w] = "looping"]
  /\ woken' = [woken EXCEPT ![w] = TRUE]
  /\ UNCHANGED <<load, scheduler, status, co, verdict, alone, metricVars>>

Pending(w) == {t \in Tasks(w) : co[w][t] \notin {"none", "ended"}}
Ready(w) == GetReadyTasks(scheduler, Tasks(w), load[w], status[w])

\* One turn of _run_loop that starts every ready task; unless something is left
\* to wait for, the next turn comes after a sleep.
Dispatch(w) ==
  /\ stage[w] = "looping" /\ woken[w]
  /\ Ready(w) \cup Pending(w) # {} \/ ~IsComplete(scheduler)
  /\ scheduler' = MarkRunning(scheduler, Ready(w))
  /\ status' = [status EXCEPT ![w] = [t \in Tasks(w) |->
                  IF t \in Ready(w) THEN "running" ELSE @[t]]]
  /\ co' = [co EXCEPT ![w] = [t \in Tasks(w) |-> IF t \in Ready(w) THEN "created" ELSE @[t]]]
  /\ woken' = [woken EXCEPT ![w] = Ready(w) \cup Pending(w) = {}]
  /\ UNCHANGED <<load, stage, verdict, alone, metricVars>>

\* The turn that breaks the loop, and the verdict by the scheduler's failures.
EndRun(w) ==
  /\ stage[w] = "looping" /\ woken[w]
  /\ Ready(w) \cup Pending(w) = {} /\ IsComplete(scheduler)
  /\ stage' = [stage EXCEPT ![w] = "ended"]
  /\ verdict' = [verdict EXCEPT ![w] = IF HasFailures(scheduler) THEN "failed" ELSE "success"]
  /\ woken' = [woken EXCEPT ![w] = FALSE]
  /\ UNCHANGED <<load, scheduler, status, co, alone, metricVars>>

-----------------------------------------------------------------------------
(* _execute_task *)

\* The coroutine is at one stage and goes on to the next.
Goes(w, t, from, to) == co[w][t] = from /\ co' = [co EXCEPT ![w][t] = to]

\* The condition is false.
Skip(w, t) ==
  /\ Goes(w, t, "created", "skipped")
  /\ status' = [status EXCEPT ![w][t] = "skipped"]
  /\ scheduler' = MarkSkipped(scheduler, t)
  /\ UNCHANGED <<load, stage, woken, verdict, alone, metricVars>>

\* TASK_STARTED is being published.
Begin(w, t) ==
  /\ Goes(w, t, "created", "begun")
  /\ UNCHANGED <<load, scheduler, stage, woken, status, verdict, alone, metricVars>>

\* Mutation: a start is kept under the name of the task alone.
Key_Name(w, t) == t

\* The name of a start in the metrics: "{workflow.id}:{task.name}".
Key(w, t) == <<w, t>>

\* The hook's before_task, record_task_started.
BeforeTask(w, t) ==
  /\ Goes(w, t, "begun", "running")
  /\ startTimes' = startTimes \cup {Key(w, t)}
  /\ UNCHANGED <<load, scheduler, stage, woken, status, verdict, alone, total, observed>>

Succeed(w, t) ==
  /\ Goes(w, t, "running", "finishing")
  /\ status' = [status EXCEPT ![w][t] = "success"]
  /\ scheduler' = MarkCompleted(scheduler, t)
  /\ UNCHANGED <<load, stage, woken, verdict, alone, metricVars>>

\* Mutation: a failure is not taken off the tasks that run.
Fail_StillRunning(w, t) ==
  /\ Goes(w, t, "running", "finishing")
  /\ status' = [status EXCEPT ![w][t] = "failed"]
  /\ scheduler' = [scheduler EXCEPT !.failed = @ \cup {t}]
  /\ UNCHANGED <<load, stage, woken, verdict, alone, metricVars>>

Fail(w, t) ==
  /\ Goes(w, t, "running", "finishing")
  /\ status' = [status EXCEPT ![w][t] = "failed"]
  /\ scheduler' = MarkFailed(scheduler, t)
  /\ UNCHANGED <<load, stage, woken, verdict, alone, metricVars>>

\* The hook's after_task, record_task_completed; the end of the coroutine wakes
\* its run loop.
AfterTask(w, t) ==
  LET s == status[w][t]
  IN /\ Goes(w, t, "finishing", "ended")
     /\ total' = [total EXCEPT ![s] = @ + 1]
     /\ observed' = IF Key(w, t) \in startTimes THEN [observed EXCEPT ![s] = @ + 1] ELSE observed
     /\ startTimes' = startTimes \ {Key(w, t)}
     /\ woken' = [woken EXCEPT ![w] = TRUE]
     /\ UNCHANGED <<load, scheduler, stage, status, verdict, alone>>

\* A skipped task has no hooks.
SkipEnds(w, t) ==
  /\ Goes(w, t, "skipped", "ended")
  /\ woken' = [woken EXCEPT ![w] = TRUE]
  /\ UNCHANGED <<load, scheduler, stage, status, verdict, alone, metricVars>>

TaskStep(w, t) ==
  \/ Skip(w, t) \/ Begin(w, t) \/ BeforeTask(w, t) \/ Succeed(w, t) \/ Fail(w, t)
  \/ AfterTask(w, t) \/ SkipEnds(w, t)

LoopStep(w) == EnterLoop(w) \/ Dispatch(w) \/ EndRun(w)

Next == \E w \in Workflows :
  Execute(w) \/ LoopStep(w) \/ \E t \in Tasks(w) : TaskStep(w, t)

Spec == Init /\ [][Next]_vars

\* The event loop runs every coroutine that is ready, and functions end.
TaskSteps(w) == \E t \in Tasks(w) : TaskStep(w, t)

FairSpec ==
  Spec /\ \A w \in Workflows : WF_vars(LoopStep(w)) /\ WF_vars(TaskSteps(w))

-----------------------------------------------------------------------------
(* Properties *)

TypeOK ==
  /\ load \in Loads
  /\ scheduler \in SchedulerType(Names)
  /\ stage \in [Workflows -> {"idle", "started", "looping", "ended"}]
  /\ woken \in [Workflows -> BOOLEAN] /\ alone \in [Workflows -> BOOLEAN]
  /\ verdict \in [Workflows -> {"pending", "running", "success", "failed"}]
  /\ DOMAIN status = Workflows /\ DOMAIN co = Workflows
  /\ \A w \in Workflows :
       /\ status[w] \in [Tasks(w) -> {"pending", "running", "success", "failed", "skipped"}]
       /\ co[w] \in [Tasks(w) -> {"none", "created", "begun", "running", "finishing",
                                  "skipped", "ended"}]

NamesApart == \A v, w \in Workflows : v # w => Tasks(v) \cap Tasks(w) = {}

\* "Runs a Workflow respecting dependency order" (engine.py:63): a task is
\* started when all it depends on in its own workflow has succeeded or was
\* skipped.
DependencyOrder ==
  \A w \in Workflows : \A t \in Tasks(w) : co[w][t] # "none" =>
    \A d \in load[w][t] : status[w][d] \in {"success", "skipped"}

\* That holds in spite of the resets if no two workflows have a task name in
\* common; and no task is started twice, although a reset forgets that it runs.
OrderSurvivesResets ==
  [][NamesApart => /\ DependencyOrder'
                   /\ \A w \in Workflows : \A t \in Tasks(w) :
                        co'[w][t] = "created" => co[w][t] \in {"none", "created"}]_vars

\* A run that no other one has overlapped is told its own outcome, whatever ran
\* on the engine before it.
LoneVerdictIsTrue ==
  \A w \in Workflows : alone[w] /\ stage[w] = "ended" =>
    /\ verdict[w] = "success" <=> \A t \in Tasks(w) : status[w][t] \in {"success", "skipped"}
    /\ verdict[w] = "failed" <=> \E t \in Tasks(w) : status[w][t] = "failed"

\* The keys of the tasks between their hooks, and the tasks that ended with s.
Timed == UNION {{Key(w, t) : t \in {u \in Tasks(w) : co[w][u] \in {"running", "finishing"}}} :
                  w \in Workflows}
EndedWith(s) == UNION {{<<w, t>> : t \in {u \in Tasks(w) : co[w][u] = "ended" /\ status[w][u] = s}} :
                         w \in Workflows}

\* Overlapping runs do not confuse the metrics: every task that ended was counted
\* and timed once, and starts are kept for those between their hooks.
MetricsAgree ==
  /\ startTimes = Timed
  /\ observed = total
  /\ \A s \in {"success", "failed"} : total[s] = Cardinality(EndedWith(s))

\* Every run ends, whatever the others do to the scheduler.
EveryRunEnds == \A w \in Workflows : Active(w) ~> stage[w] = "ended"
=============================================================================
