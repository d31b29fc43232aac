------------------------------ MODULE Service ------------------------------
(***************************************************************************)
(* api/routes.py: the requests that create, execute and cancel workflows,  *)
(* and the background task (job) that executes one.  They are coroutines   *)
(* of one event loop that meet in _running_workflows and in the store.     *)
(* Whether a store call lets other coroutines run depends on the store:    *)
(* those of memory.py and sqlite.py never suspend.  A job's store call     *)
(* that is cancelled while it waits may have had its effect or not.        *)
(***************************************************************************)
EXTENDS Naturals, FiniteSets

CONSTANTS
  Workflows,
  Requests,     \* coroutines that handle requests, at most so many at once
  Jobs,         \* background tasks, at most so many that somebody still knows (a bound)
  NoJob, Nobody,
  Backends      \* the stores to look at

ASSUME ServiceAssumption ==
  /\ NoJob \notin Jobs /\ Nobody \notin Jobs \cup Requests
  /\ Jobs \cap Requests = {}
  /\ Backends \subseteq {"memory", "sqlite", "remote"}

VARIABLES
  backend,      \* the store create_app or configure has chosen
  status,       \* the store: [Workflows -> WorkflowStatus or "absent"]
  running,      \* _running_workflows
  job,          \* the background tasks
  req,          \* the requests
  turn,         \* who runs on without a suspension, or Nobody
  unsettled,    \* ghost: workflows whose end the store could not be told
  abandoned,    \* ghost: workflows out of whose execution a CancelledError came
  crossed       \* ghost: workflows an execution of which was started while a
                \* cancellation was being handled, and what came of it

ghosts == <<unsettled, abandoned, crossed>>
vars == <<backend, status, running, job, req, turn, ghosts>>

WorkflowStatus == {"pending", "running", "success", "failed", "cancelled"}
JobStoreCalls == {"getting", "marking", "saving", "finishing", "failing"}
JobStages == JobStoreCalls \cup {"created", "executing", "done"}
RequestStages == {"idle", "creating", "looking", "waiting", "recording"}
StoreCalls == JobStoreCalls \cup {"creating", "looking", "recording"}

Init ==
  /\ backend \in Backends
  /\ status = [w \in Workflows |-> "absent"]
  /\ running = [w \in Workflows |-> NoJob]
  /\ job \in [Jobs -> {[stage |-> "done", w |-> w, cancelled |-> FALSE, empty |-> FALSE] :
                         w \in Workflows}]
  /\ req \in [Requests -> {[stage |-> "idle", w |-> w, job |-> NoJob] : w \in Workflows}]
  /\ turn = Nobody
  /\ unsettled = {} /\ abandoned = {} /\ crossed = {}

Suspends(stage) == stage \notin StoreCalls \/ backend = "remote"
Live(j) == job[j].stage # "done"
Executing(w) == \E j \in Jobs : Live(j) /\ job[j].w = w
MayRun(x) == turn \in {x, Nobody}

\* x goes on to the stage, and keeps the event loop if that cannot suspend.
JobGoesTo(j, stage) ==
  /\ job' = [job EXCEPT ![j].stage = stage]
  /\ turn' = IF Suspends(stage) THEN Nobody ELSE j

\* With its end a request forgets the job it knows.
RequestGoesTo(h, stage) ==
  /\ req' = [req EXCEPT ![h].stage = stage, ![h].job = IF stage = "idle" THEN NoJob ELSE @]
  /\ turn' = IF Suspends(stage) THEN Nobody ELSE h

\* An update_status of a workflow that is not stored changes nothing.
UpdateStatus(w, s) ==
  status' = IF status[w] = "absent" THEN status ELSE [status EXCEPT ![w] = s]

Handling(w, stages) == \E h \in Requests : req[h].w = w /\ req[h].stage \in stages
Cancelling(w) == Handling(w, {"waiting", "recording"})

\* A request for w begins at the stage.
Arrives(h, w, stage) ==
  /\ turn = Nobody /\ req[h].stage = "idle"
  /\ req' = [req EXCEPT ![h].stage = stage, ![h].w = w]
  /\ turn' = IF Suspends(stage) THEN Nobody ELSE h

-----------------------------------------------------------------------------
(* create_workflow *)

\* The workflow is valid, and its id is new.
CreateWorkflow(h, w) ==
  /\ status[w] = "absent" /\ ~Handling(w, {"creating"})
  /\ Arrives(h, w, "creating")
  /\ UNCHANGED <<backend, status, running, job, ghosts>>

CreateSaves(h) ==
  /\ MayRun(h) /\ req[h].stage = "creating"
  /\ status' = [status EXCEPT ![req[h].w] = "pending"]
  /\ RequestGoesTo(h, "idle")
  /\ UNCHANGED <<backend, running, job, ghosts>>

\* The store raises: the request is answered with an error.
RequestFails(h) ==
  /\ MayRun(h) /\ req[h].stage \in {"creating", "looking"}
  /\ RequestGoesTo(h, "idle")
  /\ UNCHANGED <<backend, status, running, job, ghosts>>

-----------------------------------------------------------------------------
(* execute_workflow *)

\* A task object nobody knows any more is free for the next create_task.
Forgotten(j) ==
  /\ ~Live(j)
  /\ \A w \in Workflows : running[w] # j
  /\ \A h \in Requests : req[h].job # j

\* The bound on jobs: one is free for every request that may start one.
JobIsLeft ==
  Cardinality({h \in Requests : req[h].stage = "looking"}) < Cardinality({j \in Jobs : Forgotten(j)})

ExecuteWorkflow(h, w) ==
  /\ JobIsLeft
  /\ Arrives(h, w, "looking")
  /\ UNCHANGED <<backend, status, running, job, ghosts>>

\* Mutation: a request to execute waits while the workflow is executing.
ExecuteRefused_Waits(h) ==
  /\ MayRun(h) /\ req[h].stage = "looking"
  /\ status[req[h].w] = "absent"
  /\ RequestGoesTo(h, "idle")
  /\ UNCHANGED <<backend, status, running, job, ghosts>>

\* Not found, or already executing.
ExecuteRefused(h) ==
  /\ MayRun(h) /\ req[h].stage = "looking"
  /\ status[req[h].w] = "absent" \/ running[req[h].w] # NoJob
  /\ RequestGoesTo(h, "idle")
  /\ UNCHANGED <<backend, status, running, job, ghosts>>

\* Bookkeeping of a start: what an earlier execution of w has left unrecorded is
\* forgotten, and whether a cancellation is crossed is settled anew unless a job
\* is left over.
Begins(w) ==
  /\ unsettled' = unsettled \ {w}
  /\ abandoned' = abandoned \ {w}
  /\ crossed' = IF Cancelling(w) THEN crossed \cup {w}
                ELSE IF Executing(w) THEN crossed ELSE crossed \ {w}

\* Mutation: the check of _running_workflows is made before the store is asked.
ExecuteStarts_Unchecked(h, j) ==
  /\ MayRun(h) /\ req[h].stage = "looking"
  /\ status[req[h].w] # "absent"
  /\ Forgotten(j)
  /\ job' = [job EXCEPT ![j] = [stage |-> "created", w |-> req[h].w,
                                cancelled |-> FALSE, empty |-> FALSE]]
  /\ running' = [running EXCEPT ![req[h].w] = j]
  /\ Begins(req[h].w)
  /\ RequestGoesTo(h, "idle")
  /\ UNCHANGED <<backend, status>>

ExecuteStarts(h, j) ==
  /\ MayRun(h) /\ req[h].stage = "looking"
  /\ status[req[h].w] # "absent" /\ running[req[h].w] = NoJob
  /\ Forgotten(j)
  /\ job' = [job EXCEPT ![j] = [stage |-> "created", w |-> req[h].w,
                                cancelled |-> FALSE, empty |-> FALSE]]
  /\ running' = [running EXCEPT ![req[h].w] = j]
  /\ Begins(req[h].w)
  /\ RequestGoesTo(h, "idle")
  /\ UNCHANGED <<backend, status>>

-----------------------------------------------------------------------------
(* _execute_workflow_background *)

JobRuns(j, stage) == MayRun(j) /\ job[j].stage = stage /\ ~job[j].cancelled

Done(task) == [task EXCEPT !.stage = "done", !.cancelled = FALSE, !.empty = FALSE]

\* The finally clause: whatever task is registered is removed.
JobEnds(j) ==
  /\ job' = [job EXCEPT ![j] = Done(@)]
  /\ turn' = Nobody
  /\ running' = [running EXCEPT ![job[j].w] = NoJob]

JobStarts(j) ==
  /\ JobRuns(j, "created")
  /\ JobGoesTo(j, "getting")
  /\ UNCHANGED <<backend, status, running, req, ghosts>>

JobGets(j) ==
  /\ JobRuns(j, "getting")
  /\ JobGoesTo(j, "marking")
  /\ UNCHANGED <<backend, status, running, req, ghosts>>

JobMarks(j) ==
  /\ JobRuns(j, "marking")
  /\ UpdateStatus(job[j].w, "running")
  /\ JobGoesTo(j, "executing")
  /\ UNCHANGED <<backend, running, req, ghosts>>

\* The engine returns its results, perhaps none at all,
EngineReturns(j, empty) ==
  /\ JobRuns(j, "executing")
  /\ job' = [job EXCEPT ![j].stage = "saving", ![j].empty = empty]
  /\ turn' = IF Suspends("saving") THEN Nobody ELSE j
  /\ UNCHANGED <<backend, status, running, req, ghosts>>

\* or raises an Exception,
EngineRaises(j) ==
  /\ JobRuns(j, "executing")
  /\ JobGoesTo(j, "failing")
  /\ UNCHANGED <<backend, status, running, req, ghosts>>

\* or the CancelledError of one of the workflow's tasks (WakeToCancelled of
\* Engine), which is no Exception: only the finally clause is left.
EngineCancelled(j) ==
  /\ JobRuns(j, "executing")
  /\ JobEnds(j)
  /\ abandoned' = abandoned \cup {job[j].w}
  /\ UNCHANGED <<backend, status, req, unsettled, crossed>>

JobSaves(j) ==
  /\ JobRuns(j, "saving")
  /\ JobGoesTo(j, "finishing")
  /\ UNCHANGED <<backend, status, running, req, ghosts>>

\* A TaskStatus is never equal to the string "success".
FinalStatus(j) == IF job[j].empty THEN "success" ELSE "failed"

JobFinishes(j) ==
  /\ JobRuns(j, "finishing")
  /\ UpdateStatus(job[j].w, FinalStatus(j))
  /\ JobEnds(j)
  /\ UNCHANGED <<backend, req, ghosts>>

\* Mutation: a store that fails ends the task at once.
JobStoreFails_Unreported(j) ==
  /\ MayRun(j) /\ ~job[j].cancelled
  /\ job[j].stage \in JobStoreCalls \ {"failing"}
  /\ JobEnds(j)
  /\ UNCHANGED <<backend, status, req, ghosts>>

\* The store raises: the job tries to record a failure.
JobStoreFails(j) ==
  /\ MayRun(j) /\ ~job[j].cancelled
  /\ job[j].stage \in JobStoreCalls \ {"failing"}
  /\ JobGoesTo(j, "failing")
  /\ UNCHANGED <<backend, status, running, req, ghosts>>

JobRecordsFailure(j) ==
  /\ JobRuns(j, "failing")
  /\ UpdateStatus(job[j].w, "failed")
  /\ JobEnds(j)
  /\ UNCHANGED <<backend, req, ghosts>>

\* The store raises again: that is only logged.
JobRecordFails(j) ==
  /\ JobRuns(j, "failing")
  /\ JobEnds(j)
  /\ unsettled' = unsettled \cup {job[j].w}
  /\ UNCHANGED <<backend, status, req, abandoned, crossed>>

\* CancelledError is raised where the job waits: no handler but finally
\* catches it, and before its first step there is nothing to catch it.
JobCancelled(j) ==
  /\ turn = Nobody /\ Live(j) /\ job[j].cancelled
  /\ job' = [job EXCEPT ![j] = Done(@)]
  /\ UNCHANGED turn
  /\ running' = IF job[j].stage = "created" THEN running
                ELSE [running EXCEPT ![job[j].w] = NoJob]
  /\ \/ UNCHANGED status
     \/ job[j].stage = "marking" /\ UpdateStatus(job[j].w, "running")
     \/ job[j].stage = "finishing" /\ UpdateStatus(job[j].w, FinalStatus(j))
     \/ job[j].stage = "failing" /\ UpdateStatus(job[j].w, "failed")
  /\ UNCHANGED <<backend, req, ghosts>>

-----------------------------------------------------------------------------
(* cancel_workflow *)

\* Mutation: the handler does not wait for the task it cancels.
CancelWorkflow_NoAwait(h, w) ==
  /\ running[w] # NoJob
  /\ turn = Nobody /\ req[h].stage = "idle"
  /\ req' = [req EXCEPT ![h] = [stage |-> "recording", w |-> w, job |-> running[w]]]
  /\ turn' = IF Suspends("recording") THEN Nobody ELSE h
  /\ job' = [job EXCEPT ![running[w]].cancelled = @ \/ Live(running[w])]
  /\ UNCHANGED <<backend, status, running, ghosts>>

\* Without a registered task the request is answered 404.
CancelWorkflow(h, w) ==
  /\ running[w] # NoJob
  /\ turn = Nobody /\ req[h].stage = "idle"
  /\ req' = [req EXCEPT ![h] = [stage |-> "waiting", w |-> w, job |-> running[w]]]
  /\ job' = [job EXCEPT ![running[w]].cancelled = @ \/ Live(running[w])]
  /\ UNCHANGED <<backend, status, running, turn, ghosts>>

\* The task it awaits has ended.
CancelResumes(h) ==
  /\ MayRun(h) /\ req[h].stage = "waiting"
  /\ ~Live(req[h].job)
  /\ RequestGoesTo(h, "recording")
  /\ UNCHANGED <<backend, status, running, job, ghosts>>

CancelRecords(h) ==
  /\ MayRun(h) /\ req[h].stage = "recording"
  /\ UpdateStatus(req[h].w, "cancelled")
  /\ running' = [running EXCEPT ![req[h].w] = NoJob]
  /\ RequestGoesTo(h, "idle")
  /\ unsettled' = unsettled \ {req[h].w}
  /\ abandoned' = abandoned \ {req[h].w}
  /\ UNCHANGED <<backend, job, crossed>>

\* The store raises: the request is answered with an error.
CancelFails(h) ==
  /\ MayRun(h) /\ req[h].stage = "recording"
  /\ RequestGoesTo(h, "idle")
  /\ unsettled' = unsettled \cup {req[h].w}
  /\ UNCHANGED <<backend, status, running, job, abandoned, crossed>>

-----------------------------------------------------------------------------
\* The process ends and is started again: nobody looks for workflows that
\* were running.
Restart ==
  /\ status' = IF backend = "memory" THEN [w \in Workflows |-> "absent"] ELSE status
  /\ unsettled' = IF backend = "memory" THEN {}
                  ELSE unsettled \cup {w \in Workflows : status[w] = "running"}
  /\ abandoned' = {} /\ crossed' = {}
  /\ running' = [w \in Workflows |-> NoJob]
  /\ job' = [j \in Jobs |-> Done(job[j])]
  /\ req' = [h \in Requests |-> [req[h] EXCEPT !.stage = "idle", !.job = NoJob]]
  /\ turn' = Nobody
  /\ UNCHANGED backend

JobStep(j) ==
  \/ JobStarts(j) \/ JobGets(j) \/ JobMarks(j) \/ JobSaves(j) \/ JobFinishes(j)
  \/ \E empty \in BOOLEAN : EngineReturns(j, empty)
  \/ JobRecordsFailure(j) \/ JobCancelled(j)

JobFailure(j) ==
  EngineRaises(j) \/ EngineCancelled(j) \/ JobStoreFails(j) \/ JobRecordFails(j)

RequestStep(h) ==
  \/ CreateSaves(h)
  \/ ExecuteRefused(h) \/ \E j \in Jobs : ExecuteStarts(h, j)
  \/ CancelResumes(h) \/ CancelRecords(h)

RequestFailure(h) == RequestFails(h) \/ CancelFails(h)

Next ==
  \/ \E h \in Requests :
       \/ RequestStep(h) \/ RequestFailure(h)
       \/ \E w \in Workflows : CreateWorkflow(h, w) \/ ExecuteWorkflow(h, w) \/ CancelWorkflow(h, w)
  \/ \E j \in Jobs : JobStep(j) \/ JobFailure(j)
  \/ Restart

Spec == Init /\ [][Next]_vars

\* Stores answer and the engine comes to an end (EveryRunEnds of Engine);
\* nothing has to fail.  The fairness is strong: a coroutine that is ready
\* waits while another one runs on, but the event loop serves all that are
\* ready before it starts again.
FairSpec ==
  /\ Spec
  /\ \A j \in Jobs : SF_vars(JobStep(j))
  /\ \A h \in Requests : SF_vars(RequestStep(h))

-----------------------------------------------------------------------------
(* Properties *)

TypeOK ==
  /\ backend \in Backends
  /\ status \in [Workflows -> WorkflowStatus \cup {"absent"}]
  /\ running \in [Workflows -> Jobs \cup {NoJob}]
  /\ job \in [Jobs -> [stage : JobStages, w : Workflows, cancelled : BOOLEAN, empty : BOOLEAN]]
  /\ req \in [Requests -> [stage : RequestStages, w : Workflows, job : Jobs \cup {NoJob}]]
  /\ turn \in Jobs \cup Requests \cup {Nobody}
  /\ unsettled \subseteq Workflows /\ abandoned \subseteq Workflows /\ crossed \subseteq Workflows

\* A job that lives is the one registered for its workflow,
LiveIsTracked == \A j \in Jobs : Live(j) /\ job[j].w \notin crossed => running[job[j].w] = j

\* and a registered job lives, or is being cancelled, or was cancelled
\* before it began by a request that could not record it.
TrackedIsLive ==
  \A w \in Workflows : running[w] # NoJob =>
    /\ job[running[w]].w = w
    /\ w \notin crossed => Live(running[w]) \/ Cancelling(w) \/ w \in unsettled

\* A job is cancelled by a request that waits for it.
CancelledIsAwaited ==
  \A j \in Jobs : Live(j) /\ job[j].cancelled =>
    \E h \in Requests : req[h].stage = "waiting" /\ req[h].job = j

\* The job a request has cancelled is one of its workflow, and has ended when
\* the cancellation is recorded.  No other job of the workflow lives.
RecordingIsAlone ==
  \A h \in Requests : req[h].stage \in {"waiting", "recording"} =>
    /\ req[h].job \in Jobs /\ job[req[h].job].w = req[h].w
    /\ req[h].stage = "recording" => ~Live(req[h].job)
    /\ req[h].w \notin crossed =>
         \A j \in Jobs : Live(j) /\ job[j].w = req[h].w => j = req[h].job

\* _running_workflows tells exactly which workflows are being executed, so that
\* there is one execution of each at most - unless an execution was started while
\* a cancellation of the workflow was being handled: then the cancellation may
\* remove another job than the one it has cancelled, and so may every job that
\* ends, until no job of the workflow is left (routes.py:263-273, 242, 309).
ServiceInv ==
  TypeOK /\ LiveIsTracked /\ TrackedIsLive /\ CancelledIsAwaited /\ RecordingIsAlone

\* A workflow is shown RUNNING only while something executes or cancels it, with
\* three exceptions: the store failed just when its end was to be recorded, or
\* the process ended, or a CancelledError came out of the engine, which
\* _execute_workflow_background does not catch.  A store that fails anywhere else
\* and an engine that raises anything else are survived (routes.py:213-242).
RunningIsTrue ==
  \A w \in Workflows : status[w] = "running" =>
    Executing(w) \/ Cancelling(w) \/ w \in unsettled \/ w \in abandoned

\* A workflow is marked CANCELLED only when the job that the request has cancelled
\* has ended, and with it every job of the workflow unless one was started while
\* the cancellation was being handled.  (Single tasks of the workflow may go on,
\* as the docstring says: those are the engine's, not jobs; routes.py:290-309.)
CancelMeansStopped ==
  [][\A h \in Requests : CancelRecords(h) =>
       /\ ~Live(req[h].job)
       /\ Executing(req[h].w) => req[h].w \in crossed]_vars

\* Every request is answered, a cancellation included.
RequestsAreAnswered ==
  \A h \in Requests : req[h].stage # "idle" ~> req[h].stage = "idle"
=============================================================================
