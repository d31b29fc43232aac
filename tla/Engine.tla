------------------------------- MODULE Engine -------------------------------
(***************************************************************************)
(* core/engine.py: ExecutionEngine running one workflow, once or several   *)
(* times, with the checkpoints that let a later run resume an earlier one. *)
(*                                                                         *)
(* The program is single-threaded asyncio: control changes hands only at   *)
(* an await, so one action is the code between two awaits.  The processes  *)
(* are the run loop (execute or resume, variable loop), one coroutine per  *)
(* dispatched task (_execute_task, variable stage) and the caller.         *)
(***************************************************************************)
EXTENDS Scheduler, Naturals

CONSTANTS
  Tasks,          \* the workflow's task names
  Graphs,         \* the depends_on functions a workflow may be built with
  Conditional,    \* tasks with a condition (its answer is not predicted)
  RetryCount,     \* [Tasks -> Nat], Task.retry_count
  DefaultRetries, \* max_retries of the engine's default_retry policy
  InputMap,       \* [Tasks -> SUBSET Tasks], the values of Task.input_map
  Priority,       \* [Tasks -> Nat], Task.priority
  HasStore,       \* whether the engine was given a checkpoint store
  UsesBreaker,    \* whether it was given a circuit breaker
  Hanging,        \* tasks whose function never leaves an await
  CondRaises,     \* tasks whose condition may raise an exception
  HookRaises,     \* tasks before which a before_task hook may raise
  SaveRaises,     \* tasks whose result the store may fail to save
  FuncCancels,    \* tasks whose function may raise CancelledError
  CallerCancels,  \* whether the caller may cancel execute or resume
  Crashes,        \* whether the process may die in the middle of a run
  CallerResets,   \* the statuses a caller sets back to PENDING before resuming
  Reexecutes,     \* whether execute may find an older checkpoint in the store
  MaxRuns         \* bound: calls of execute and resume

ASSUME EngineAssumption ==
  /\ Graphs # {}
  /\ Conditional \subseteq Tasks
  /\ RetryCount \in [Tasks -> Nat] /\ DefaultRetries \in Nat
  /\ InputMap \in [Tasks -> SUBSET Tasks]
  /\ Priority \in [Tasks -> Nat]
  /\ HasStore \in BOOLEAN /\ UsesBreaker \in BOOLEAN
  /\ CallerCancels \in BOOLEAN /\ Crashes \in BOOLEAN /\ Reexecutes \in BOOLEAN
  /\ CallerResets \subseteq {"failed", "running"}
  /\ MaxRuns \in Nat

VARIABLES
  dependsOn,      \* Task.depends_on, chosen once
  status,         \* Task.status
  wfStatus,       \* Workflow.status
  loop,           \* where the caller's execute or resume stands
  mode,           \* which of the two it is
  pending,        \* pending_futures of _run_loop
  sched,          \* the engine's Scheduler
  results,        \* the results dictionary; "none" is an absent key
  stage,          \* where each task's _execute_task coroutine stands
  attempt,        \* the attempt number of retry_with_backoff
  inputs,         \* upstream tasks whose output _invoke put in kwargs
  checkpoint,     \* what the store holds for the workflow
  runs            \* runs started so far

vars == <<dependsOn, status, wfStatus, loop, mode, pending, sched, results,
          stage, attempt, inputs, checkpoint, runs>>

TaskStatus == {"pending", "running", "success", "failed", "skipped"}
WorkflowStatus == {"pending", "running", "success", "failed"}

Active == {"starting", "waiting", "polling", "ending"}
Ended == {"returned", "raised"}

\* Stages of a coroutine that has not come to an end.
Live == {"created", "skipping", "starting", "invoking", "backoff", "saving", "after"}
Over == {"done", "raised", "cancelled"}

NoResult == [t \in Tasks |-> "none"]

TypeOK ==
  /\ dependsOn \in Graphs
  /\ status \in [Tasks -> TaskStatus]
  /\ wfStatus \in WorkflowStatus
  /\ loop \in {"idle"} \cup Active \cup Ended
  /\ mode \in {"execute", "resume"}
  /\ pending \subseteq Tasks
  /\ sched \in SchedulerType(Tasks)
  /\ results \in [Tasks -> {"none", "success", "failed", "skipped"}]
  /\ stage \in [Tasks -> {"idle"} \cup Live \cup Over]
  /\ attempt \in [Tasks -> Nat]
  /\ inputs \in [Tasks -> SUBSET Tasks]
  /\ checkpoint \in [Tasks -> {"none", "success", "skipped"}]
  /\ runs \in 0 .. MaxRuns

Init ==
  /\ dependsOn \in Graphs
  /\ status = [t \in Tasks |-> "pending"]
  /\ wfStatus = "pending"
  /\ loop = "idle"
  /\ mode = "execute"
  /\ pending = {}
  /\ sched = EmptyScheduler
  /\ results = NoResult
  /\ stage = [t \in Tasks |-> "idle"]
  /\ attempt = [t \in Tasks |-> 0]
  /\ inputs = [t \in Tasks |-> {}]
  /\ checkpoint = NoResult
  /\ runs = 0

-----------------------------------------------------------------------------
(* The caller *)

NoRun == loop \notin Active /\ \A t \in Tasks : stage[t] \notin Live

\* What execute and resume do alike up to the publication of WORKFLOW_STARTED.
StartRun(m) ==
  /\ NoRun /\ runs < MaxRuns
  /\ runs' = runs + 1
  /\ mode' = m
  /\ loop' = "starting"
  /\ wfStatus' = "running"
  /\ pending' = {}
  /\ stage' = [t \in Tasks |-> "idle"]
  /\ attempt' = [t \in Tasks |-> 0]
  /\ inputs' = [t \in Tasks |-> {}]
  /\ UNCHANGED <<dependsOn, checkpoint>>

\* execute, on a workflow none of whose tasks has run.
Execute ==
  /\ BuildsDag(Tasks, dependsOn)
  /\ \A t \in Tasks : status[t] = "pending"
  /\ Reexecutes \/ checkpoint = NoResult
  /\ StartRun("execute")
  /\ sched' = EmptyScheduler
  /\ results' = NoResult
  /\ UNCHANGED status

\* Mutations: what was saved reaches the results only; or all but the results.
Resume_ResultsOnly ==
  /\ HasStore /\ wfStatus # "success"
  /\ \A t \in Tasks : status[t] \notin CallerResets
  /\ BuildsDag(Tasks, dependsOn)
  /\ StartRun("resume")
  /\ sched' = EmptyScheduler
  /\ results' = checkpoint
  /\ UNCHANGED status

Resume_NoResults ==
  LET saved(r) == {t \in Tasks : checkpoint[t] = r}
  IN /\ HasStore /\ wfStatus # "success"
     /\ \A t \in Tasks : status[t] \notin CallerResets
     /\ BuildsDag(Tasks, dependsOn)
     /\ StartRun("resume")
     /\ sched' = [EmptyScheduler EXCEPT !.completed = saved("success"),
                                        !.skipped = saved("skipped")]
     /\ results' = NoResult
     /\ status' = [t \in Tasks |-> IF checkpoint[t] = "none" THEN status[t]
                                                             ELSE checkpoint[t]]

\* resume, on a workflow that has not succeeded: the saved results become the
\* tasks', the results' and the scheduler's.
Resume ==
  LET saved(r) == {t \in Tasks : checkpoint[t] = r}
  IN /\ HasStore
     /\ wfStatus # "success"
     /\ \A t \in Tasks : status[t] \notin CallerResets
     /\ BuildsDag(Tasks, dependsOn)
     /\ StartRun("resume")
     /\ sched' = [EmptyScheduler EXCEPT !.completed = saved("success"),
                                        !.skipped = saved("skipped")]
     /\ results' = checkpoint
     /\ status' = [t \in Tasks |-> IF checkpoint[t] = "none" THEN status[t]
                                                             ELSE checkpoint[t]]

\* build_dag raises, or resume finds no store: nothing else has happened yet.
RejectRun ==
  /\ NoRun /\ runs < MaxRuns
  /\ ~BuildsDag(Tasks, dependsOn) \/ ~HasStore
  /\ runs' = runs + 1
  /\ loop' = "raised"
  /\ UNCHANGED <<dependsOn, status, wfStatus, mode, pending, sched, results,
                 stage, attempt, inputs, checkpoint>>

\* The caller makes a task that did not finish PENDING again.
ResetTasks ==
  /\ NoRun /\ loop \in Ended /\ runs < MaxRuns
  /\ \E t \in Tasks : status[t] \in CallerResets
  /\ status' = [t \in Tasks |-> IF status[t] \in CallerResets THEN "pending"
                                                              ELSE status[t]]
  /\ UNCHANGED <<dependsOn, wfStatus, loop, mode, pending, sched, results,
                 stage, attempt, inputs, checkpoint, runs>>

\* The process ends and a new one builds the workflow again under the same id.
\* Only the checkpoint store is still there.
Restart ==
  /\ runs \in 1 .. MaxRuns - 1
  /\ Crashes \/ (NoRun /\ loop \in Ended)
  /\ status' = [t \in Tasks |-> "pending"]
  /\ wfStatus' = "pending"
  /\ loop' = "idle"
  /\ pending' = {}
  /\ sched' = EmptyScheduler
  /\ results' = NoResult
  /\ stage' = [t \in Tasks |-> "idle"]
  /\ attempt' = [t \in Tasks |-> 0]
  /\ inputs' = [t \in Tasks |-> {}]
  /\ UNCHANGED <<dependsOn, mode, checkpoint, runs>>

\* The caller cancels the coroutine of execute or resume.  CancelledError is
\* no Exception, so no handler runs, and the task futures go on.
CancelRun ==
  /\ CallerCancels
  /\ loop \in Active
  /\ loop' = "raised"
  /\ pending' = {}
  /\ UNCHANGED <<dependsOn, status, wfStatus, mode, sched, results, stage,
                 attempt, inputs, checkpoint, runs>>

-----------------------------------------------------------------------------
(* The run loop *)

\* One turn of the loop: create a coroutine per ready task, then wait, poll or
\* leave.  Leaving decides the workflow's status before the next await.
Dispatch(remaining) ==
  LET ready == GetReadyTasks(sched, Tasks, dependsOn, status)
      marked == MarkRunning(sched, ready)
      idle == remaining \cup ready = {}
      leaves == idle /\ IsComplete(marked)
  IN /\ sched' = marked
     /\ pending' = remaining \cup ready
     /\ status' = [t \in Tasks |-> IF t \in ready THEN "running" ELSE status[t]]
     /\ stage' = [t \in Tasks |-> IF t \in ready THEN "created" ELSE stage[t]]
     /\ loop' = IF leaves THEN "ending" ELSE IF idle THEN "polling" ELSE "waiting"
     /\ wfStatus' = IF ~leaves THEN wfStatus
                    ELSE IF HasFailures(marked) THEN "failed" ELSE "success"
     /\ UNCHANGED <<dependsOn, mode, results, attempt, inputs, checkpoint, runs>>

BeginLoop == loop = "starting" /\ Dispatch({})

FinishedFutures == {t \in pending : stage[t] \in Over}

\* asyncio.wait returns.  The event loop is first in, first out, so every
\* coroutine of the last dispatch has taken its first step by then.
LoopWakes ==
  /\ loop = "waiting"
  /\ FinishedFutures # {}
  /\ \A t \in Tasks : stage[t] # "created"

Wake ==
  /\ LoopWakes
  /\ \A t \in FinishedFutures : stage[t] # "cancelled"
  /\ Dispatch(pending \ FinishedFutures)

\* d.exception() raises CancelledError for a cancelled future: it leaves
\* _run_loop and execute past every handler.
WakeToCancelled ==
  /\ LoopWakes
  /\ \E t \in FinishedFutures : stage[t] = "cancelled"
  /\ loop' = "raised"
  /\ pending' = {}
  /\ UNCHANGED <<dependsOn, status, wfStatus, mode, sched, results, stage,
                 attempt, inputs, checkpoint, runs>>

\* No future is pending but the scheduler still counts a task as running.
Poll == loop = "polling" /\ Dispatch({})

\* The last event is published; a resumed run that succeeded drops its checkpoint.
EndRun ==
  /\ loop = "ending"
  /\ loop' = "returned"
  /\ checkpoint' = IF mode = "resume" /\ wfStatus = "success" THEN NoResult
                                                              ELSE checkpoint
  /\ UNCHANGED <<dependsOn, status, wfStatus, mode, pending, sched, results,
                 stage, attempt, inputs, runs>>

-----------------------------------------------------------------------------
(* The coroutine of one task *)

\* Coroutines start in the order of their creation: by descending priority.
FirstStep(t) ==
  /\ stage[t] = "created"
  /\ \A u \in Tasks : stage[u] = "created" => Priority[u] <= Priority[t]

MoveTo(t, s) == stage' = [stage EXCEPT ![t] = s]

\* The task, the results and the scheduler learn how the task ended.
Conclude(t, outcome, mark) ==
  /\ status' = [status EXCEPT ![t] = outcome]
  /\ results' = [results EXCEPT ![t] = outcome]
  /\ sched' = mark
  /\ UNCHANGED <<dependsOn, wfStatus, loop, mode, pending, inputs, runs>>

OnlyStageChanges ==
  UNCHANGED <<dependsOn, status, wfStatus, loop, mode, pending, sched, results,
              attempt, inputs, checkpoint, runs>>

\* The condition is false.
SkipTask(t) ==
  /\ FirstStep(t) /\ t \in Conditional
  /\ MoveTo(t, "skipping")
  /\ Conclude(t, "skipped", MarkSkipped(sched, t))
  /\ UNCHANGED <<attempt, checkpoint>>

\* There is no condition or it is true: TASK_STARTED is published.
StartTask(t) == FirstStep(t) /\ MoveTo(t, "starting") /\ OnlyStageChanges

\* The condition raises outside every handler of _execute_task.
ConditionRaises(t) ==
  FirstStep(t) /\ t \in CondRaises /\ MoveTo(t, "raised") /\ OnlyStageChanges

\* A before_task hook raises, also outside every handler.
BeforeHookRaises(t) ==
  /\ stage[t] = "starting" /\ t \in HookRaises
  /\ MoveTo(t, "raised")
  /\ OnlyStageChanges

EffectiveRetries(t) == IF RetryCount[t] = 0 THEN DefaultRetries ELSE RetryCount[t]

\* The hooks have run; _invoke collects the arguments once, for all attempts.
Invoke(t) ==
  /\ stage[t] = "starting"
  /\ MoveTo(t, "invoking")
  /\ inputs' = [inputs EXCEPT ![t] = {u \in InputMap[t] : results[u] # "none"}]
  /\ UNCHANGED <<dependsOn, status, wfStatus, loop, mode, pending, sched,
                 results, attempt, checkpoint, runs>>

FuncReturns(t) ==
  /\ stage[t] = "invoking" /\ t \notin Hanging
  /\ MoveTo(t, "saving")
  /\ Conclude(t, "success", MarkCompleted(sched, t))
  /\ UNCHANGED <<attempt, checkpoint>>

\* The function raises, or its timeout expires; a breaker's call has no timeout.
AttemptFails(t) == stage[t] = "invoking" /\ (t \in Hanging => ~UsesBreaker)

\* Mutation: one attempt too many.
BackOff_OnceMore(t) ==
  /\ AttemptFails(t) /\ attempt[t] <= EffectiveRetries(t)
  /\ MoveTo(t, "backoff")
  /\ OnlyStageChanges

\* ... and an attempt is left,
BackOff(t) ==
  /\ AttemptFails(t) /\ attempt[t] < EffectiveRetries(t)
  /\ MoveTo(t, "backoff")
  /\ OnlyStageChanges

Retry(t) ==
  /\ stage[t] = "backoff"
  /\ MoveTo(t, "invoking")
  /\ attempt' = [attempt EXCEPT ![t] = @ + 1]
  /\ UNCHANGED <<dependsOn, status, wfStatus, loop, mode, pending, sched,
                 results, inputs, checkpoint, runs>>

\* ... or none is, and the exception reaches _execute_task.
FuncFails(t) ==
  /\ AttemptFails(t) /\ attempt[t] = EffectiveRetries(t)
  /\ MoveTo(t, "after")
  /\ Conclude(t, "failed", MarkFailed(sched, t))
  /\ UNCHANGED <<attempt, checkpoint>>

\* CancelledError passes retry_with_backoff and _execute_task unhandled.
FuncCancelled(t) ==
  /\ stage[t] = "invoking" /\ t \in FuncCancels
  /\ MoveTo(t, "cancelled")
  /\ OnlyStageChanges

\* Mutation: whatever the result, success is saved.
Save_AsSuccess(t) ==
  /\ checkpoint' = [checkpoint EXCEPT ![t] = "success"]
  /\ UNCHANGED <<dependsOn, status, wfStatus, loop, mode, pending, sched,
                 results, attempt, inputs, runs>>

Save(t) ==
  /\ checkpoint' = IF HasStore THEN [checkpoint EXCEPT ![t] = results[t]] ELSE checkpoint
  /\ UNCHANGED <<dependsOn, status, wfStatus, loop, mode, pending, sched,
                 results, attempt, inputs, runs>>

\* TASK_COMPLETED is published and the result saved.
SaveResult(t) == stage[t] = "saving" /\ MoveTo(t, "after") /\ Save(t)

\* TASK_SKIPPED is published and the result saved; no after_task hook is called.
SaveSkip(t) == stage[t] = "skipping" /\ MoveTo(t, "done") /\ Save(t)

\* Mutation: the scheduler does not learn of the failure.
SaveResultRaises_Unmarked(t) ==
  /\ stage[t] = "saving" /\ HasStore /\ t \in SaveRaises
  /\ MoveTo(t, "after")
  /\ Conclude(t, "failed", sched)
  /\ UNCHANGED <<attempt, checkpoint>>

\* The handler that is meant for the function's exceptions catches the store's.
SaveResultRaises(t) ==
  /\ stage[t] = "saving" /\ HasStore /\ t \in SaveRaises
  /\ MoveTo(t, "after")
  /\ Conclude(t, "failed", MarkFailed(sched, t))
  /\ UNCHANGED <<attempt, checkpoint>>

SaveSkipRaises(t) ==
  /\ stage[t] = "skipping" /\ HasStore /\ t \in SaveRaises
  /\ MoveTo(t, "raised")
  /\ OnlyStageChanges

\* The after_task hooks run; if one raises, the loop only logs it.
AfterHooks(t) ==
  /\ stage[t] = "after"
  /\ \E s \in {"done", "raised"} : MoveTo(t, s)
  /\ OnlyStageChanges

-----------------------------------------------------------------------------

LoopStep == BeginLoop \/ Wake \/ WakeToCancelled \/ Poll \/ EndRun

TaskStep(t) ==
  \/ SkipTask(t) \/ StartTask(t) \/ ConditionRaises(t)
  \/ BeforeHookRaises(t) \/ Invoke(t)
  \/ FuncReturns(t) \/ BackOff(t) \/ Retry(t) \/ FuncFails(t) \/ FuncCancelled(t)
  \/ SaveResult(t) \/ SaveSkip(t) \/ SaveResultRaises(t) \/ SaveSkipRaises(t)
  \/ AfterHooks(t)

CallerStep ==
  Execute \/ Resume \/ RejectRun \/ ResetTasks \/ Restart \/ CancelRun

Next == CallerStep \/ LoopStep \/ \E t \in Tasks : TaskStep(t)

Spec == Init /\ [][Next]_vars

\* The event loop runs every ready callback, and subscribers, hooks and the
\* store answer.  Nothing is asked of the caller.
Fairness == WF_vars(LoopStep) /\ \A t \in Tasks : WF_vars(TaskStep(t))

FairSpec == Spec /\ Fairness

-----------------------------------------------------------------------------
(* Properties *)

\* The scheduler's four sets and the task objects' statuses are two records of
\* the same run, updated in different places; the loop decides by both.  Once a
\* run has started they never disagree.
SchedulerAgreesWithTasks ==
  loop \in Active =>
    \A t \in Tasks :
      /\ status[t] = "running" <=> t \in sched.running
      /\ status[t] = "failed" <=> t \in sched.failed
      /\ status[t] = "skipped" <=> t \in sched.skipped
      /\ status[t] = "success" <=> t \in sched.completed \ sched.failed

\* A task whose coroutine exists has only dependencies whose results are there
\* and are not failures: what the condition and input_map read is complete.
DependenciesFirst ==
  \A t \in Tasks : stage[t] \in Live =>
    \A d \in dependsOn[t] : results[d] \in {"success", "skipped"}

\* The engine never reports SUCCESS while a task is not finished, whatever made
\* its loop stop: no ready task is not the same as no task left.
SuccessMeansAllFinished ==
  wfStatus = "success" => \A t \in Tasks : status[t] \in {"success", "skipped"}

\* When a run ends in failure, the tasks that did not run are just those held
\* back, directly or not, by a failed one: a failure stops nothing else.
FailureIsContained ==
  loop \in {"ending", "returned"} /\ wfStatus = "failed" =>
    /\ \E t \in Tasks : results[t] = "failed"
    /\ \A t \in Tasks :
         results[t] = "none" =>
           \E d \in dependsOn[t] : results[d] \in {"failed", "none"}

\* A task is FAILED only after 1 + retries attempts, and none is made beyond them.
AttemptsAreExhausted ==
  \A t \in Tasks :
    /\ attempt[t] <= EffectiveRetries(t)
    /\ results[t] = "failed" => attempt[t] = EffectiveRetries(t)

\* A function is called with the output of every upstream task its input_map
\* names, also when that task finished in an earlier run.
InputsArrive ==
  \A t \in Tasks : stage[t] \in {"invoking", "backoff"} =>
    InputMap[t] \cap dependsOn[t] \subseteq inputs[t]

\* What the checkpoint says of a task is what this run says of it.
CheckpointMatchesRun ==
  loop # "idle" => \A t \in Tasks :
    results[t] # "none" /\ checkpoint[t] # "none" => checkpoint[t] = results[t]

\* "Already-succeeded tasks are not re-executed": while a run resumes, the
\* function of a task that the checkpoint holds is never called.
ResumeNeverReruns ==
  [][\A t \in Tasks : mode = "resume" /\ checkpoint[t] # "none" /\ stage'[t] = "invoking"
                         => stage[t] = "invoking"]_vars

\* A result, once in the dictionary, stays as it is until the run is over.
ResultsAreFinal ==
  [][\A t \in Tasks : loop \in Active /\ loop' # "idle" /\ results[t] # "none"
                         => results'[t] = results[t]]_vars

\* Every run that starts ends.
EveryRunEnds == loop \in Active ~> loop \notin Active

-----------------------------------------------------------------------------
(* The inductive invariant of EngineProofs *)

\* A task whose function has not been called for the last time.
Unconcluded == {"created", "starting", "invoking", "backoff"}

\* From the start of a run until it and its coroutines are over, the task, the
\* scheduler and the results dictionary say the same of every task.
RecordsAgree ==
  ~NoRun => \A t \in Tasks :
    /\ status[t] = "running" <=> t \in sched.running
    /\ status[t] = "failed" <=> t \in sched.failed
    /\ status[t] = "skipped" <=> t \in sched.skipped
    /\ status[t] = "success" <=> t \in sched.completed
    /\ results[t] = IF status[t] \in {"pending", "running"} THEN "none" ELSE status[t]

\* Where a coroutine stands, its task's status and result follow.
StageFitsStatus ==
  \A t \in Tasks :
    /\ stage[t] \in Unconcluded => status[t] = "running"
    /\ stage[t] = "skipping" => status[t] = "skipped" /\ results[t] = "skipped"
    /\ stage[t] = "saving" => status[t] = "success" /\ results[t] = "success"

\* What is finished is in the store or on its way there, unless the workflow
\* succeeded and the checkpoint was dropped.
FinishedIsSaved ==
  HasStore /\ wfStatus # "success" => \A t \in Tasks :
    status[t] \in {"success", "skipped"} =>
      checkpoint[t] # "none" \/ stage[t] \in {"saving", "skipping"}

LoopFits ==
  /\ loop \in Active => BuildsDag(Tasks, dependsOn)
  /\ loop \in {"starting", "waiting", "polling"} => wfStatus = "running"

\* A resumed run has taken over whatever the store holds.
CheckpointIsRestored ==
  ~NoRun /\ mode = "resume" => \A t \in Tasks :
    checkpoint[t] # "none" => results[t] = checkpoint[t]

IInv ==
  /\ TypeOK
  /\ RecordsAgree
  /\ StageFitsStatus
  /\ FinishedIsSaved
  /\ LoopFits
  /\ CheckpointIsRestored
  /\ DependenciesFirst
  /\ SuccessMeansAllFinished

-----------------------------------------------------------------------------
(* What the documentation says and the code does not do *)

\* "The engine picks up where the last run left off" (engine.py:190-191): a
\* resumed run that succeeds has finished the workflow.
ResumeFinishesTheWorkflow ==
  mode = "resume" /\ wfStatus = "success" =>
    \A t \in Tasks : status[t] \in {"success", "skipped"}
=============================================================================
