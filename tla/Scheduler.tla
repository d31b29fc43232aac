----------------------------- MODULE Scheduler -----------------------------
(***************************************************************************)
(* core/scheduler.py: the bookkeeping the engine decides by.  A scheduler  *)
(* is a record of four sets of task names; each operator is one method,    *)
(* from the scheduler before the call to the one after it.                 *)
(*                                                                         *)
(* The semaphore that __init__ builds from max_concurrency is not here:    *)
(* no code acquires it.                                                    *)
(***************************************************************************)
EXTENDS WorkflowGraph

SchedulerType(tasks) == [completed : SUBSET tasks, failed  : SUBSET tasks,
                         running   : SUBSET tasks, skipped : SUBSET tasks]

\* __init__ and reset
EmptyScheduler == [completed |-> {}, failed |-> {}, running |-> {}, skipped |-> {}]

MarkRunning(s, names) == [s EXCEPT !.running = @ \cup names]

MarkCompleted(s, t) == [s EXCEPT !.completed = @ \cup {t}, !.running = @ \ {t}]

MarkFailed(s, t) == [s EXCEPT !.failed = @ \cup {t}, !.running = @ \ {t}]

\* Mutations of this module's operators, each a plausible mistake that a property
\* of Engine or SharedEngine has to catch, stand before the operator they change.
MarkSkipped_StillRunning(s, t) == [s EXCEPT !.skipped = @ \cup {t}]

MarkSkipped(s, t) == [s EXCEPT !.skipped = @ \cup {t}, !.running = @ \ {t}]

\* Mutations: a failure stops everything; what has run once is ready again.
GetReadyTasks_FailFast(s, tasks, deps, status) ==
  {t \in GetReadyNodes(tasks, deps, s.completed \cup s.skipped) :
      s.failed = {} /\ t \notin s.running /\ status[t] = "pending"}
GetReadyTasks_AnyStatus(s, tasks, deps, status) ==
  GetReadyNodes(tasks, deps, s.completed \cup s.skipped) \ s.running

\* get_ready_tasks: dependencies completed or skipped, neither running nor
\* failed, and the task object still PENDING.
GetReadyTasks(s, tasks, deps, status) ==
  {t \in GetReadyNodes(tasks, deps, s.completed \cup s.skipped) :
      t \notin s.running \cup s.failed /\ status[t] = "pending"}

IsComplete(s) == s.running = {}

HasFailures(s) == s.failed # {}
=============================================================================
