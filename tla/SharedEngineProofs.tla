-------------------------- MODULE SharedEngineProofs --------------------------
(***************************************************************************)
(* Theorems about SharedEngine, for any number of workflows of any size    *)
(* and shape, with any names: what the resets of an overlapping run cannot *)
(* break, and what a run that is alone is told.                            *)
(***************************************************************************)
EXTENDS SharedEngine, FiniteSetTheorems, TLAPS

\* Where a coroutine is fixes the status of its task.
CoFitsStatus ==
  \A w \in Workflows : \A t \in Tasks(w) :
    /\ co[w][t] = "none" <=> status[w][t] = "pending"
    /\ co[w][t] \in {"created", "begun", "running"} <=> status[w][t] = "running"
    /\ co[w][t] = "finishing" => status[w][t] \in {"success", "failed"}
    /\ co[w][t] = "skipped" => status[w][t] = "skipped"

\* A run that is not active has no coroutine left, and one that has not begun
\* has had none.
QuietRuns ==
  \A w \in Workflows : \A t \in Tasks(w) :
    /\ ~Active(w) => co[w][t] \in {"none", "ended"}
    /\ stage[w] = "idle" => co[w][t] = "none"

With(w, s) == {t \in Tasks(w) : status[w][t] = s}

\* The scheduler of a run that is alone is the record of its tasks.
LoneRecords ==
  \A w \in Workflows : alone[w] /\ Active(w) =>
    /\ Others(w) = {}
    /\ scheduler = [completed |-> With(w, "success"), failed |-> With(w, "failed"),
                    running |-> With(w, "running"), skipped |-> With(w, "skipped")]

RunInv == TypeOK /\ CoFitsStatus /\ QuietRuns /\ LoneRecords /\ LoneVerdictIsTrue

-----------------------------------------------------------------------------
(* Types *)

\* The scheduler's methods return schedulers.
LEMMA SchedulerTypes ==
  ASSUME NEW T, NEW s \in SchedulerType(T), NEW t \in T
  PROVE  /\ MarkCompleted(s, t) \in SchedulerType(T)
         /\ MarkFailed(s, t) \in SchedulerType(T)
         /\ MarkSkipped(s, t) \in SchedulerType(T)
  BY DEF SchedulerType, MarkCompleted, MarkFailed, MarkSkipped

LEMMA RunningType ==
  ASSUME NEW T, NEW s \in SchedulerType(T), NEW S \in SUBSET T
  PROVE  MarkRunning(s, S) \in SchedulerType(T)
  BY DEF SchedulerType, MarkRunning

\* Ready tasks are the workflow's own, and PENDING.
LEMMA ReadyTasks ==
  ASSUME NEW w
  PROVE  Ready(w) \subseteq Tasks(w) /\ \A t \in Ready(w) : status[w][t] = "pending"
  BY DEF Ready, GetReadyTasks, GetReadyNodes

\* A step of a coroutine as its parts: it moves on,
Moves(w, t, to) ==
  /\ co[w][t] \notin {"none", "ended"}
  /\ co' = [co EXCEPT ![w][t] = to]
  /\ stage' = stage /\ load' = load /\ verdict' = verdict /\ alone' = alone
  /\ woken' \in {woken, [woken EXCEPT ![w] = TRUE]}

\* ... and ends its task, which the scheduler is told, or changes nothing else.
Marks(w, t, s) ==
  /\ co[w][t] \in {"created", "running"}
  /\ Moves(w, t, IF s = "skipped" THEN "skipped" ELSE "finishing")
  /\ status' = [status EXCEPT ![w][t] = s]
  /\ \/ s = "skipped" /\ scheduler' = MarkSkipped(scheduler, t)
     \/ s = "success" /\ scheduler' = MarkCompleted(scheduler, t)
     \/ s = "failed" /\ scheduler' = MarkFailed(scheduler, t)

MovesOnly(w, t, to) ==
  /\ Moves(w, t, to)
  /\ \/ co[w][t] \in {"created", "begun"} /\ to \in {"begun", "running"}
     \/ co[w][t] \in {"finishing", "skipped"} /\ to = "ended"
  /\ status' = status /\ scheduler' = scheduler

LEMMA TaskStepEffect ==
  ASSUME NEW w \in Workflows, NEW t \in Tasks(w), TaskStep(w, t)
  PROVE  \/ \E s \in {"skipped", "success", "failed"} : Marks(w, t, s)
         \/ \E to \in {"begun", "running", "ended"} : MovesOnly(w, t, to)
<1>1. CASE Skip(w, t)
  BY <1>1 DEF Skip, Goes, Marks, Moves
<1>2. CASE Begin(w, t)
  BY <1>2 DEF Begin, Goes, MovesOnly, Moves
<1>3. CASE BeforeTask(w, t)
  BY <1>3 DEF BeforeTask, Goes, MovesOnly, Moves
<1>4. CASE Succeed(w, t)
  BY <1>4 DEF Succeed, Goes, Marks, Moves
<1>5. CASE Fail(w, t)
  BY <1>5 DEF Fail, Goes, Marks, Moves
<1>6. CASE AfterTask(w, t)
  BY <1>6 DEF AfterTask, Goes, MovesOnly, Moves
<1>7. CASE SkipEnds(w, t)
  BY <1>7 DEF SkipEnds, Goes, MovesOnly, Moves
<1> QED
  BY <1>1, <1>2, <1>3, <1>4, <1>5, <1>6, <1>7 DEF TaskStep

\* ... and so every step keeps the types and what fits a coroutine.
LEMMA TypeStep ==
  ASSUME TypeOK, CoFitsStatus, [Next]_vars
  PROVE  TypeOK' /\ CoFitsStatus'
<1>1. ASSUME NEW w \in Workflows, Execute(w) \/ EnterLoop(w) \/ EndRun(w)
      PROVE  TypeOK' /\ CoFitsStatus'
  <2>1. load' = load /\ status' = status /\ co' = co
    BY <1>1 DEF Execute, EnterLoop, EndRun
  <2>2. scheduler' \in {scheduler, EmptyScheduler}
    BY <1>1 DEF Execute, EnterLoop, EndRun
  <2>3. /\ stage' \in [Workflows -> {"idle", "started", "looping", "ended"}]
        /\ woken' \in [Workflows -> BOOLEAN] /\ alone' \in [Workflows -> BOOLEAN]
        /\ verdict' \in [Workflows -> {"pending", "running", "success", "failed"}]
    BY <1>1 DEF TypeOK, Execute, EnterLoop, EndRun
  <2>4. scheduler' \in SchedulerType(Names)
    BY <2>2 DEF TypeOK, SchedulerType, EmptyScheduler
  <2> QED
    <3>1. Names' = Names /\ \A v \in Workflows : Tasks(v)' = Tasks(v)
      BY <2>1 DEF Names, Tasks
    <3> QED
      BY <2>1, <2>3, <2>4, <3>1 DEF TypeOK, CoFitsStatus
<1>2. ASSUME NEW w \in Workflows, Dispatch(w)
      PROVE  TypeOK' /\ CoFitsStatus'
  <2>1. Ready(w) \subseteq Tasks(w) /\ \A t \in Ready(w) : status[w][t] = "pending"
    BY ReadyTasks
  <2>2. scheduler' \in SchedulerType(Names)
    <3>1. Ready(w) \in SUBSET Names
      BY <2>1 DEF Names
    <3> QED
      BY <3>1, <1>2, RunningType DEF TypeOK, Dispatch
  <2>3. /\ load' = load /\ stage' = stage /\ alone' = alone /\ verdict' = verdict
        /\ woken' \in [Workflows -> BOOLEAN]
    BY <1>2 DEF Dispatch, TypeOK
  <2>4. \A v \in Workflows : Tasks(v)' = Tasks(v)
    BY <2>3 DEF Tasks
  <2>5. Names' = Names
    BY <2>4 DEF Names
  <2>6. /\ DOMAIN status' = Workflows /\ DOMAIN co' = Workflows
        /\ \A v \in Workflows \ {w} : status'[v] = status[v] /\ co'[v] = co[v]
        /\ status'[w] = [t \in Tasks(w) |-> IF t \in Ready(w) THEN "running" ELSE status[w][t]]
        /\ co'[w] = [t \in Tasks(w) |-> IF t \in Ready(w) THEN "created" ELSE co[w][t]]
    BY <1>2 DEF Dispatch, TypeOK
  <2>7. TypeOK'
    BY <2>1, <2>2, <2>3, <2>4, <2>5, <2>6 DEF TypeOK
  <2>8. CoFitsStatus'
    BY <2>1, <2>4, <2>6 DEF TypeOK, CoFitsStatus
  <2> QED
    BY <2>7, <2>8
<1>3. ASSUME NEW w \in Workflows, NEW t \in Tasks(w), TaskStep(w, t)
      PROVE  TypeOK' /\ CoFitsStatus'
  <2>1. /\ \A v \in Workflows : Tasks(v)' = Tasks(v)
        /\ woken' \in [Workflows -> BOOLEAN]
    <3>1. load' = load /\ woken' \in {woken, [woken EXCEPT ![w] = TRUE]}
      BY <1>3, TaskStepEffect, Zenon DEF Marks, MovesOnly, Moves
    <3>2. woken \in [Workflows -> BOOLEAN]
      BY DEF TypeOK
    <3>3. woken' \in [Workflows -> BOOLEAN]
      BY <3>1, <3>2
    <3> QED
      BY <3>1, <3>3 DEF Tasks
  <2>2. scheduler' \in SchedulerType(Names)
    <3>1. t \in Names
      BY DEF Names
    <3> QED
      BY <1>3, <3>1, TaskStepEffect, SchedulerTypes DEF Marks, MovesOnly, TypeOK
  <2>3. Names' = Names
    BY <2>1 DEF Names
  <2>4. CASE \E s \in {"skipped", "success", "failed"} : Marks(w, t, s)
    <3>1. PICK s \in {"skipped", "success", "failed"} : Marks(w, t, s)
      BY <2>4
    <3>2. /\ DOMAIN status' = Workflows /\ DOMAIN co' = Workflows
          /\ \A v \in Workflows \ {w} : status'[v] = status[v] /\ co'[v] = co[v]
          /\ status'[w] = [status[w] EXCEPT ![t] = s]
          /\ co'[w] = [co[w] EXCEPT ![t] = IF s = "skipped" THEN "skipped" ELSE "finishing"]
      BY <3>1 DEF Marks, Moves, TypeOK
    <3>3. TypeOK'
      BY <2>1, <2>2, <2>3, <3>1, <3>2 DEF TypeOK, Marks, Moves
    <3>4. CoFitsStatus'
      BY <2>1, <3>1, <3>2 DEF TypeOK, CoFitsStatus
    <3> QED
      BY <3>3, <3>4
  <2>5. CASE \E to \in {"begun", "running", "ended"} : MovesOnly(w, t, to)
    <3>1. PICK to \in {"begun", "running", "ended"} : MovesOnly(w, t, to)
      BY <2>5
    <3>2. /\ DOMAIN co' = Workflows /\ status' = status
          /\ \A v \in Workflows \ {w} : co'[v] = co[v]
          /\ co'[w] = [co[w] EXCEPT ![t] = to]
      BY <3>1 DEF MovesOnly, Moves, TypeOK
    <3>3. TypeOK'
      BY <2>1, <2>2, <2>3, <3>1, <3>2 DEF TypeOK, MovesOnly, Moves
    <3>4. CoFitsStatus'
      BY <2>1, <3>1, <3>2 DEF TypeOK, CoFitsStatus, MovesOnly, Moves
    <3> QED
      BY <3>3, <3>4
  <2> QED
    BY <1>3, <2>4, <2>5, TaskStepEffect
<1>4. CASE UNCHANGED vars
  <2>1. Names' = Names /\ \A v \in Workflows : Tasks(v)' = Tasks(v)
    BY <1>4 DEF vars, runVars, Tasks, Names
  <2> QED
    BY <1>4, <2>1 DEF vars, runVars, TypeOK, CoFitsStatus
<1> QED
  BY <1>1, <1>2, <1>3, <1>4 DEF Next, LoopStep

-----------------------------------------------------------------------------
(* Runs that are alone *)

\* A step leaves every workflow its tasks, and its coroutines' places tell what
\* it did to their run.
LEMMA TasksStay == [Next]_vars => load' = load /\ \A v \in Workflows : Tasks(v)' = Tasks(v)
<1> SUFFICES ASSUME [Next]_vars PROVE load' = load
  BY DEF Tasks
<1>1. ASSUME NEW w \in Workflows, Execute(w) \/ LoopStep(w) PROVE load' = load
  BY <1>1 DEF Execute, LoopStep, EnterLoop, Dispatch, EndRun
<1>2. ASSUME NEW w \in Workflows, NEW t \in Tasks(w), TaskStep(w, t) PROVE load' = load
  BY <1>2, TaskStepEffect DEF Marks, MovesOnly, Moves
<1>3. CASE UNCHANGED vars
  BY <1>3 DEF vars, runVars
<1> QED
  BY <1>1, <1>2, <1>3 DEF Next

\* A coroutine that makes a step belongs to an active run.
LEMMA SteppingIsActive ==
  ASSUME QuietRuns, NEW w \in Workflows, NEW t \in Tasks(w), TaskStep(w, t)
  PROVE  Active(w)
  BY TaskStepEffect DEF QuietRuns, Marks, MovesOnly, Moves

LEMMA QuietStep ==
  ASSUME TypeOK, CoFitsStatus, QuietRuns, [Next]_vars
  PROVE  QuietRuns'
<1>0. \A v \in Workflows : Tasks(v)' = Tasks(v)
  BY TasksStay
<1>1. ASSUME NEW w \in Workflows, Execute(w) \/ EnterLoop(w) PROVE QuietRuns'
  BY <1>0, <1>1 DEF QuietRuns, TypeOK, Active, Execute, EnterLoop
<1>2. ASSUME NEW w \in Workflows, Dispatch(w) PROVE QuietRuns'
  BY <1>0, <1>2 DEF QuietRuns, TypeOK, Active, Dispatch
<1>3. ASSUME NEW w \in Workflows, EndRun(w) PROVE QuietRuns'
  BY <1>0, <1>3 DEF QuietRuns, TypeOK, Active, EndRun, Pending
<1>4. ASSUME NEW w \in Workflows, NEW t \in Tasks(w), TaskStep(w, t) PROVE QuietRuns'
  <2>1. Active(w) /\ stage' = stage
    BY <1>4, SteppingIsActive, TaskStepEffect DEF Marks, MovesOnly, Moves
  <2>2. \A v \in Workflows \ {w} : co'[v] = co[v]
    BY <1>4, TaskStepEffect DEF Marks, MovesOnly, Moves, TypeOK
  <2> QED
    BY <1>0, <2>1, <2>2 DEF QuietRuns, Active
<1>5. CASE UNCHANGED vars
  BY <1>0, <1>5 DEF vars, runVars, QuietRuns, Active
<1> QED
  BY <1>1, <1>2, <1>3, <1>4, <1>5 DEF Next, LoopStep

LEMMA LoneRecordsStep ==
  ASSUME TypeOK, CoFitsStatus, QuietRuns, LoneRecords, [Next]_vars
  PROVE  LoneRecords'
<1>0. \A v \in Workflows : Tasks(v)' = Tasks(v)
  BY TasksStay
<1> DEFINE Fits(v) == scheduler = [completed |-> With(v, "success"), failed |-> With(v, "failed"),
                                   running |-> With(v, "running"), skipped |-> With(v, "skipped")]
<1> SUFFICES ASSUME NEW v \in Workflows, alone'[v], Active(v)'
             PROVE  Others(v)' = {} /\ Fits(v)'
  BY DEF LoneRecords
<1> USE DEF TypeOK
<1>1. ASSUME alone[v], Active(v), NEW w \in Workflows, Active(w)
      PROVE  w = v /\ Others(v) = {} /\ Fits(v)
  BY <1>1 DEF LoneRecords, Others
<1>2. ASSUME NEW w \in Workflows, Execute(w)
      PROVE  Others(v)' = {} /\ Fits(v)'
  <2>1. v = w
    BY <1>2 DEF Execute, Others, Active
  <2>2. Others(w) = {} /\ Others(w)' = Others(w)
    BY <1>2, <2>1 DEF Execute, Others, Active
  <2>3. \A t \in Tasks(w) : status[w][t] = "pending"
    BY <1>2 DEF Execute, QuietRuns, CoFitsStatus
  <2>4. With(w, "success")' = {} /\ With(w, "failed")' = {}
        /\ With(w, "running")' = {} /\ With(w, "skipped")' = {}
    BY <1>0, <1>2, <2>3 DEF With, Execute
  <2> QED
    BY <1>2, <2>1, <2>2, <2>4 DEF Execute, EmptyScheduler
<1>3. ASSUME NEW w \in Workflows, EnterLoop(w)
      PROVE  Others(v)' = {} /\ Fits(v)'
  <2>1. Active(v) /\ alone[v] /\ Others(v)' = Others(v)
    BY <1>3 DEF EnterLoop, Active, Others
  <2>2. \A s : With(v, s)' = With(v, s)
    BY <1>0, <1>3 DEF With, EnterLoop
  <2> QED
    BY <1>1, <1>3, <2>1, <2>2 DEF EnterLoop
<1>4. ASSUME NEW w \in Workflows, Dispatch(w)
      PROVE  Others(v)' = {} /\ Fits(v)'
  <2>1. Active(v) /\ Active(w) /\ alone[v] /\ Others(v)' = Others(v)
    BY <1>4 DEF Dispatch, Active, Others
  <2>2. v = w /\ Others(v) = {} /\ Fits(v)
    BY <1>1, <2>1
  <2>3. Ready(w) \subseteq Tasks(w) /\ \A t \in Ready(w) : status[w][t] = "pending"
    BY ReadyTasks
  <2>4. status'[w] = [t \in Tasks(w) |-> IF t \in Ready(w) THEN "running" ELSE status[w][t]]
    BY <1>4 DEF Dispatch
  <2>5. /\ With(w, "running")' = With(w, "running") \cup Ready(w)
        /\ \A s \in {"success", "failed", "skipped"} : With(w, s)' = With(w, s)
    BY <1>0, <2>3, <2>4 DEF With
  <2>6. scheduler' = MarkRunning(scheduler, Ready(w))
    BY <1>4 DEF Dispatch
  <2> QED
    BY <2>1, <2>2, <2>5, <2>6 DEF MarkRunning
<1>5. ASSUME NEW w \in Workflows, EndRun(w)
      PROVE  FALSE
  <2>1. Active(w) /\ alone[v] /\ Active(v) /\ v # w
    BY <1>5 DEF EndRun, Active
  <2> QED
    BY <1>1, <2>1
<1>6. ASSUME NEW w \in Workflows, NEW t \in Tasks(w), TaskStep(w, t)
      PROVE  Others(v)' = {} /\ Fits(v)'
  <2>1. stage' = stage /\ alone' = alone /\ Others(v)' = Others(v) /\ Active(v)
    BY <1>6, TaskStepEffect DEF Marks, MovesOnly, Moves, Active, Others
  <2>2. v = w /\ Others(v) = {} /\ Fits(v)
    BY <1>1, <1>6, <2>1, SteppingIsActive
  <2>3. ASSUME NEW s \in {"skipped", "success", "failed"}, Marks(w, t, s)
        PROVE  Fits(v)'
    <3>1. status'[w] = [status[w] EXCEPT ![t] = s] /\ status[w][t] = "running"
      BY <2>3 DEF Marks, Moves, CoFitsStatus
    <3>2. CASE s = "skipped"
      <4>1. /\ With(v, "running")' = With(v, "running") \ {t}
            /\ With(v, "skipped")' = With(v, "skipped") \cup {t}
            /\ With(v, "success")' = With(v, "success")
            /\ With(v, "failed")' = With(v, "failed")
        BY <1>0, <2>2, <3>1, <3>2 DEF With
      <4> QED
        BY <2>2, <2>3, <3>2, <4>1 DEF Marks, MarkSkipped
    <3>3. CASE s = "success"
      <4>1. /\ With(v, "running")' = With(v, "running") \ {t}
            /\ With(v, "success")' = With(v, "success") \cup {t}
            /\ With(v, "skipped")' = With(v, "skipped")
            /\ With(v, "failed")' = With(v, "failed")
        BY <1>0, <2>2, <3>1, <3>3 DEF With
      <4> QED
        BY <2>2, <2>3, <3>3, <4>1 DEF Marks, MarkCompleted
    <3>4. CASE s = "failed"
      <4>1. /\ With(v, "running")' = With(v, "running") \ {t}
            /\ With(v, "failed")' = With(v, "failed") \cup {t}
            /\ With(v, "skipped")' = With(v, "skipped")
            /\ With(v, "success")' = With(v, "success")
        BY <1>0, <2>2, <3>1, <3>4 DEF With
      <4> QED
        BY <2>2, <2>3, <3>4, <4>1 DEF Marks, MarkFailed
    <3> QED
      BY <3>2, <3>3, <3>4
  <2>4. ASSUME NEW to \in {"begun", "running", "ended"}, MovesOnly(w, t, to)
        PROVE  Fits(v)'
    <3>1. scheduler' = scheduler /\ status' = status
      BY <2>4 DEF MovesOnly
    <3>2. \A s : With(v, s)' = With(v, s)
      BY <1>0, <3>1 DEF With
    <3> QED
      BY <2>2, <3>1, <3>2
  <2> QED
    BY <1>6, <2>1, <2>2, <2>3, <2>4, TaskStepEffect
<1>7. CASE UNCHANGED vars
  <2>1. Active(v) /\ alone[v] /\ Others(v)' = Others(v) /\ \A s : With(v, s)' = With(v, s)
    BY <1>0, <1>7 DEF vars, runVars, Active, Others, With
  <2> QED
    BY <1>1, <1>7, <2>1 DEF vars, runVars
<1> QED
  BY <1>2, <1>3, <1>4, <1>5, <1>6, <1>7 DEF Next, LoopStep

\* The turn that ends a run that is alone: with nothing running and nothing ready
\* no task is left PENDING unless one has failed, since the graph is acyclic.
LEMMA NothingLeft ==
  ASSUME SharedEngineAssumption, TypeOK, CoFitsStatus, LoneRecords,
         NEW v \in Workflows, alone[v], EndRun(v), With(v, "failed") = {}
  PROVE  \A t \in Tasks(v) : status[v][t] \in {"success", "skipped"}
<1>1. /\ scheduler.completed = With(v, "success") /\ scheduler.failed = {}
      /\ scheduler.running = {} /\ scheduler.skipped = With(v, "skipped")
      /\ With(v, "running") = {}
  BY DEF LoneRecords, EndRun, Active, IsComplete
<1>2. BuildsDag(Tasks(v), load[v])
  BY DEF SharedEngineAssumption, TypeOK, Tasks
<1> DEFINE S == With(v, "pending")
<1>3. ASSUME S # {} PROVE FALSE
  <2>1. PICK t \in S : load[v][t] \cap S = {}
    BY <1>2, <1>3 DEF BuildsDag, Acyclic, With
  <2>2. load[v][t] \subseteq Tasks(v)
    BY <1>2, <2>1 DEF BuildsDag, AllDependenciesKnown, With
  <2>3. load[v][t] \subseteq scheduler.completed \cup scheduler.skipped
    BY <1>1, <2>1, <2>2 DEF With, TypeOK
  <2>4. t \in Ready(v)
    BY <1>1, <2>1, <2>3 DEF Ready, GetReadyTasks, GetReadyNodes, With
  <2> QED
    BY <2>4 DEF EndRun
<1> QED
  BY <1>1, <1>3 DEF With, TypeOK

LEMMA LoneVerdictStep ==
  ASSUME SharedEngineAssumption, RunInv, [Next]_vars
  PROVE  LoneVerdictIsTrue'
<1> USE DEF RunInv
<1>0. \A v \in Workflows : Tasks(v)' = Tasks(v)
  BY TasksStay
<1> DEFINE Told(v) ==
  /\ verdict[v] = "success" <=> \A t \in Tasks(v) : status[v][t] \in {"success", "skipped"}
  /\ verdict[v] = "failed" <=> \E t \in Tasks(v) : status[v][t] = "failed"
<1> SUFFICES ASSUME NEW v \in Workflows, alone'[v], stage'[v] = "ended"
             PROVE  Told(v)'
  BY DEF LoneVerdictIsTrue
<1>1. ASSUME alone[v], stage[v] = "ended", verdict'[v] = verdict[v], status'[v] = status[v]
      PROVE  Told(v)'
  BY <1>0, <1>1 DEF LoneVerdictIsTrue
<1>2. ASSUME NEW w \in Workflows, Execute(w) \/ EnterLoop(w)
      PROVE  Told(v)'
  <2>1. alone[v] /\ stage[v] = "ended" /\ verdict'[v] = verdict[v] /\ status'[v] = status[v]
    BY <1>2 DEF Execute, EnterLoop, TypeOK
  <2> QED
    BY <1>1, <2>1
<1>3. ASSUME NEW w \in Workflows, Dispatch(w)
      PROVE  Told(v)'
  <2>1. alone[v] /\ stage[v] = "ended" /\ v # w /\ verdict'[v] = verdict[v]
    BY <1>3 DEF Dispatch
  <2>2. status'[v] = status[v]
    BY <1>3, <2>1 DEF Dispatch, TypeOK
  <2> QED
    BY <1>1, <2>1, <2>2
<1>4. ASSUME NEW w \in Workflows, EndRun(w)
      PROVE  Told(v)'
  <2>1. alone[v] /\ status' = status
    BY <1>4 DEF EndRun
  <2>2. CASE v # w
    BY <1>1, <1>4, <2>1, <2>2 DEF EndRun, TypeOK
  <2>3. CASE v = w
    <3>1. verdict'[v] = IF With(v, "failed") # {} THEN "failed" ELSE "success"
      BY <1>4, <2>1, <2>3 DEF EndRun, TypeOK, HasFailures, LoneRecords, Active
    <3>2. CASE With(v, "failed") # {}
      BY <1>0, <2>1, <3>1, <3>2 DEF With
    <3>3. CASE With(v, "failed") = {}
      BY <1>0, <1>4, <2>1, <2>3, <3>1, <3>3, NothingLeft
    <3> QED
      BY <3>2, <3>3
  <2> QED
    BY <2>2, <2>3
<1>5. ASSUME NEW w \in Workflows, NEW t \in Tasks(w), TaskStep(w, t)
      PROVE  Told(v)'
  <2>1. alone[v] /\ stage[v] = "ended" /\ verdict'[v] = verdict[v]
    BY <1>5, TaskStepEffect DEF Marks, MovesOnly, Moves
  <2>2. v # w
    BY <1>5, <2>1, SteppingIsActive DEF Active
  <2>3. status'[v] = status[v]
    BY <1>5, <2>2, TaskStepEffect DEF Marks, MovesOnly, TypeOK
  <2> QED
    BY <1>1, <2>1, <2>3
<1>6. CASE UNCHANGED vars
  BY <1>1, <1>6 DEF vars, runVars
<1> QED
  BY <1>2, <1>3, <1>4, <1>5, <1>6 DEF Next, LoopStep

LEMMA InitRunInv == Init => RunInv
<1> SUFFICES ASSUME Init PROVE RunInv
  OBVIOUS
<1>1. TypeOK
  BY DEF Init, TypeOK, SchedulerType, EmptyScheduler
<1>2. CoFitsStatus /\ QuietRuns /\ LoneRecords /\ LoneVerdictIsTrue
  BY DEF Init, CoFitsStatus, QuietRuns, LoneRecords, LoneVerdictIsTrue, Active
<1> QED
  BY <1>1, <1>2 DEF RunInv

LEMMA RunInvStep == SharedEngineAssumption /\ RunInv /\ [Next]_vars => RunInv'
  BY TypeStep, QuietStep, LoneRecordsStep, LoneVerdictStep DEF RunInv

\* RunInv is an invariant: it says of every run what its records say, as long as
\* no other run has overlapped it (SharedEngine, ExecutionEngine.execute).
THEOREM Invariant == Spec => []RunInv
<1>1. Init => RunInv
  BY InitRunInv
<1>2. RunInv /\ [Next]_vars => RunInv'
  BY SharedEngineAssumption, RunInvStep
<1> QED
  BY <1>1, <1>2, PTL DEF Spec

\* A run that no other one has overlapped is reported SUCCESS just if all its
\* tasks succeeded or were skipped, and FAILED just if one failed.
THEOREM LoneVerdicts == Spec => []LoneVerdictIsTrue
<1>1. RunInv => LoneVerdictIsTrue
  BY DEF RunInv
<1> QED
  BY <1>1, Invariant, PTL

-----------------------------------------------------------------------------
(* Runs that overlap *)

\* What the scheduler has down as finished has finished, in whatever workflow.
RecordsTrue ==
  \A w \in Workflows : \A t \in Tasks(w) :
    t \in scheduler.completed \cup scheduler.skipped => status[w][t] \in {"success", "skipped"}

OrderInv == NamesApart => RecordsTrue /\ DependencyOrder

\* No step takes back the success or the skipping of a task, and a task that has a
\* coroutine is not given another one.
Stays(v, d) ==
  /\ status[v][d] \in {"success", "skipped"} => status'[v][d] = status[v][d]
  /\ co'[v][d] = "created" => co[v][d] \in {"none", "created"}
  /\ co'[v][d] # "none" /\ co[v][d] = "none" => d \in Ready(v)

LEMMA FinishedStays ==
  ASSUME RunInv, [Next]_vars, NEW v \in Workflows, NEW d \in Tasks(v)
  PROVE  Stays(v, d)
<1> USE DEF RunInv, Stays
<1>1. ASSUME NEW w \in Workflows, Execute(w) \/ EnterLoop(w) \/ EndRun(w)
      PROVE  Stays(v, d)
  BY <1>1 DEF Execute, EnterLoop, EndRun
<1>2. ASSUME NEW w \in Workflows, Dispatch(w)
      PROVE  Stays(v, d)
  <2>1. Ready(w) \subseteq Tasks(w) /\ \A t \in Ready(w) : status[w][t] = "pending"
    BY ReadyTasks
  <2>2. CASE v = w
    <3>1. /\ status'[v][d] = IF d \in Ready(v) THEN "running" ELSE status[v][d]
          /\ co'[v][d] = IF d \in Ready(v) THEN "created" ELSE co[v][d]
      BY <1>2, <2>2 DEF Dispatch, TypeOK
    <3> QED
      BY <2>1, <2>2, <3>1 DEF CoFitsStatus
  <2>3. CASE v # w
    BY <1>2, <2>3 DEF Dispatch, TypeOK
  <2> QED
    BY <2>2, <2>3
<1>3. ASSUME NEW w \in Workflows, NEW t \in Tasks(w), TaskStep(w, t)
      PROVE  Stays(v, d)
  <2>1. CASE v = w /\ d = t
    BY <1>3, <2>1, TaskStepEffect DEF Marks, MovesOnly, Moves, TypeOK, CoFitsStatus
  <2>2. CASE ~(v = w /\ d = t)
    BY <1>3, <2>2, TaskStepEffect DEF Marks, MovesOnly, Moves, TypeOK
  <2> QED
    BY <2>1, <2>2
<1>4. CASE UNCHANGED vars
  BY <1>4 DEF vars, runVars
<1> QED
  BY <1>1, <1>2, <1>3, <1>4 DEF Next, LoopStep

\* What a step writes into the scheduler's completed and skipped sets is true of
\* every task of that name, if no other workflow has one.
LEMMA RecordsStep ==
  ASSUME RunInv, NamesApart, RecordsTrue, [Next]_vars
  PROVE  RecordsTrue'
<1> USE DEF RunInv
<1>0. \A v \in Workflows : Tasks(v)' = Tasks(v)
  BY TasksStay
<1> DEFINE Finished(s) == s.completed \cup s.skipped
<1>1. ASSUME Finished(scheduler') \subseteq Finished(scheduler)
      PROVE  RecordsTrue'
  BY <1>0, <1>1, FinishedStays DEF RecordsTrue, Stays
<1>2. ASSUME NEW w \in Workflows, Execute(w) \/ LoopStep(w)
      PROVE  RecordsTrue'
  <2>1. Finished(scheduler') \subseteq Finished(scheduler)
    BY <1>2 DEF Execute, LoopStep, EnterLoop, Dispatch, EndRun, EmptyScheduler, MarkRunning,
                TypeOK, SchedulerType
  <2> QED
    BY <1>1, <2>1
<1>3. ASSUME NEW w \in Workflows, NEW t \in Tasks(w), TaskStep(w, t)
      PROVE  RecordsTrue'
  <2>1. ASSUME NEW s \in {"skipped", "success", "failed"}, Marks(w, t, s)
        PROVE  RecordsTrue'
    <3>1. CASE s = "failed"
      BY <1>1, <2>1, <3>1 DEF Marks, MarkFailed, TypeOK, SchedulerType
    <3>2. CASE s # "failed"
      <4>1. Finished(scheduler') \subseteq Finished(scheduler) \cup {t}
        <5>1. CASE s = "skipped"
          BY <2>1, <5>1 DEF Marks, MarkSkipped, TypeOK, SchedulerType
        <5>2. CASE s = "success"
          <6>1. scheduler' = MarkCompleted(scheduler, t)
            BY <2>1, <5>2 DEF Marks
          <6>2. scheduler'.skipped = scheduler.skipped
                /\ scheduler'.completed = scheduler.completed \cup {t}
            BY <6>1 DEF MarkCompleted, TypeOK, SchedulerType
          <6> QED
            BY <6>2
        <5> QED
          BY <3>2, <5>1, <5>2
      <4>2. status'[w][t] \in {"success", "skipped"}
        BY <2>1, <3>2 DEF Marks, TypeOK
      <4>3. \A v \in Workflows : t \in Tasks(v) => v = w
        BY DEF NamesApart
      <4> QED
        BY <1>0, <4>1, <4>2, <4>3, FinishedStays DEF RecordsTrue, Stays
    <3> QED
      BY <3>1, <3>2
  <2>2. ASSUME NEW to \in {"begun", "running", "ended"}, MovesOnly(w, t, to)
        PROVE  RecordsTrue'
    BY <1>1, <2>2 DEF MovesOnly
  <2> QED
    BY <1>3, <2>1, <2>2, TaskStepEffect
<1>4. CASE UNCHANGED vars
  BY <1>1, <1>4 DEF vars, runVars
<1> QED
  BY <1>2, <1>3, <1>4 DEF Next

\* A task that is started is ready by those records.
LEMMA OrderStep ==
  ASSUME SharedEngineAssumption, RunInv, RecordsTrue, DependencyOrder, [Next]_vars
  PROVE  DependencyOrder'
<1>0. \A v \in Workflows : load' = load /\ Tasks(v)' = Tasks(v)
  BY TasksStay
<1> SUFFICES ASSUME NEW w \in Workflows, NEW t \in Tasks(w), co'[w][t] # "none",
                    NEW d \in load[w][t]
             PROVE  status'[w][d] \in {"success", "skipped"}
  BY <1>0 DEF DependencyOrder
<1>1. d \in Tasks(w)
  BY DEF RunInv, TypeOK, SharedEngineAssumption, BuildsDag, AllDependenciesKnown, Tasks
<1>2. status[w][d] \in {"success", "skipped"}
  <2>1. CASE co[w][t] # "none"
    BY <2>1 DEF DependencyOrder
  <2>2. CASE co[w][t] = "none"
    <3>1. t \in Ready(w)
      BY <2>2, FinishedStays DEF Stays
    <3>2. d \in scheduler.completed \cup scheduler.skipped
      BY <3>1 DEF Ready, GetReadyTasks, GetReadyNodes
    <3> QED
      BY <1>1, <3>2 DEF RecordsTrue
  <2> QED
    BY <2>1, <2>2
<1> QED
  BY <1>1, <1>2, FinishedStays DEF Stays

LEMMA OrderInvStep ==
  SharedEngineAssumption /\ RunInv /\ OrderInv /\ [Next]_vars => OrderInv'
<1> SUFFICES ASSUME SharedEngineAssumption, RunInv, OrderInv, [Next]_vars PROVE OrderInv'
  OBVIOUS
<1>1. NamesApart' => NamesApart
  BY TasksStay DEF NamesApart
<1> QED
  BY <1>1, RecordsStep, OrderStep DEF OrderInv

\* As long as no two workflows have a task name in common, no reset makes the
\* engine start a task before its dependencies, or start one twice
\* (scheduler.py:42-47, engine.py:153).
THEOREM OrderIsKept == Spec => OrderSurvivesResets
<1>1. Init => OrderInv
  BY DEF Init, OrderInv, RecordsTrue, DependencyOrder, EmptyScheduler
<1>2. RunInv /\ OrderInv /\ [Next]_vars => OrderInv'
  BY SharedEngineAssumption, OrderInvStep
<1> DEFINE Kept == NamesApart => /\ DependencyOrder'
                                /\ \A w \in Workflows : \A t \in Tasks(w) :
                                     co'[w][t] = "created" => co[w][t] \in {"none", "created"}
<1>3. RunInv /\ OrderInv /\ OrderInv' /\ [Next]_vars => Kept
  <2> SUFFICES ASSUME RunInv, OrderInv', [Next]_vars, NamesApart PROVE Kept
    OBVIOUS
  <2>1. NamesApart'
    BY TasksStay DEF NamesApart
  <2>2. DependencyOrder'
    BY <2>1 DEF OrderInv
  <2> QED
    BY <2>2, FinishedStays DEF Stays
<1>4. Spec => []OrderInv
  BY <1>1, <1>2, Invariant, PTL DEF Spec
<1> QED
  BY <1>3, <1>4, Invariant, PTL DEF Spec, OrderSurvivesResets

-----------------------------------------------------------------------------
(* The metrics all runs share *)

\* As MetricsAgree, with what makes the cardinalities count.
MetricsInv ==
  /\ MetricsAgree
  /\ total \in [{"success", "failed"} -> Nat]
  /\ \A s \in {"success", "failed"} : IsFiniteSet(EndedWith(s))

LEMMA TimedMember ==
  ASSUME NEW p
  PROVE  p \in Timed <=> \E w \in Workflows : \E t \in Tasks(w) :
                           p = <<w, t>> /\ co[w][t] \in {"running", "finishing"}
  BY DEF Timed, Key

LEMMA EndedMember ==
  ASSUME NEW p, NEW s
  PROVE  p \in EndedWith(s) <=> \E w \in Workflows : \E t \in Tasks(w) :
                                  p = <<w, t>> /\ co[w][t] = "ended" /\ status[w][t] = s
  BY DEF EndedWith

\* What the metrics see of a step: the tasks that come between their hooks or
\* leave, and those that end.
SameTimed ==
  \A w \in Workflows : \A t \in Tasks(w) :
    co'[w][t] \in {"running", "finishing"} <=> co[w][t] \in {"running", "finishing"}

SameEnded ==
  \A w \in Workflows : \A t \in Tasks(w) : \A s \in {"success", "failed"} :
    co'[w][t] = "ended" /\ status'[w][t] = s <=> co[w][t] = "ended" /\ status[w][t] = s

LEMMA NothingToCount ==
  ASSUME MetricsInv, SameEnded, \A w \in Workflows : Tasks(w)' = Tasks(w),
         total' = total, observed' = observed, startTimes' = Timed'
  PROVE  MetricsInv'
<1>1. ASSUME NEW s \in {"success", "failed"} PROVE EndedWith(s)' = EndedWith(s)
  BY EndedMember DEF SameEnded, EndedWith
<1> QED
  BY <1>1 DEF MetricsInv, MetricsAgree

LEMMA TimedStays ==
  ASSUME SameTimed, \A w \in Workflows : Tasks(w)' = Tasks(w)
  PROVE  Timed' = Timed
  BY DEF SameTimed, Timed, Key

\* The steps without a hook leave the metrics alone.
LEMMA HooklessStep ==
  ASSUME RunInv, NEW w \in Workflows,
         \/ Execute(w) \/ LoopStep(w)
         \/ \E t \in Tasks(w) : Skip(w, t) \/ Begin(w, t) \/ Succeed(w, t) \/ Fail(w, t)
                                  \/ SkipEnds(w, t)
  PROVE  SameTimed /\ SameEnded /\ UNCHANGED metricVars
<1> USE DEF RunInv, TypeOK, SameTimed, SameEnded
<1>1. CASE Execute(w) \/ EnterLoop(w) \/ EndRun(w)
  BY <1>1 DEF Execute, EnterLoop, EndRun
<1>2. CASE Dispatch(w)
  <2>1. \A t \in Ready(w) : co[w][t] = "none"
    BY ReadyTasks DEF CoFitsStatus
  <2> QED
    BY <1>2, <2>1 DEF Dispatch
<1>3. ASSUME NEW t \in Tasks(w), Skip(w, t) \/ Begin(w, t) \/ Succeed(w, t) \/ Fail(w, t)
      PROVE  SameTimed /\ SameEnded /\ UNCHANGED metricVars
  <2>1. /\ \E from, to : /\ Goes(w, t, from, to) /\ from # "ended" /\ to # "ended"
                         /\ (from = "running" <=> to = "finishing") /\ from # "finishing" /\ to # "running"
        /\ UNCHANGED metricVars
        /\ status' = status \/ \E s : status' = [status EXCEPT ![w][t] = s]
    <3>1. CASE Skip(w, t)
      BY <3>1 DEF Skip
    <3>2. CASE Begin(w, t)
      BY <3>2 DEF Begin
    <3>3. CASE Succeed(w, t)
      BY <3>3 DEF Succeed
    <3>4. CASE Fail(w, t)
      BY <3>4 DEF Fail
    <3> QED
      BY <1>3, <3>1, <3>2, <3>3, <3>4
  <2>2. /\ co[w][t] # "ended" /\ co'[w][t] # "ended"
        /\ co'[w][t] \in {"running", "finishing"} <=> co[w][t] \in {"running", "finishing"}
    BY <2>1 DEF Goes
  <2>3. ASSUME NEW v \in Workflows, NEW u \in Tasks(v), v # w \/ u # t
        PROVE  co'[v][u] = co[v][u] /\ status'[v][u] = status[v][u]
    <3>1. co'[v][u] = co[v][u]
      BY <2>1, <2>3 DEF Goes
    <3>2. status'[v][u] = status[v][u]
      BY <2>1, <2>3
    <3> QED
      BY <3>1, <3>2
  <2>4. SameTimed
    BY <2>2, <2>3
  <2>5. SameEnded
    BY <2>2, <2>3
  <2> QED
    BY <2>1, <2>4, <2>5
<1>4. ASSUME NEW t \in Tasks(w), SkipEnds(w, t)
      PROVE  SameTimed /\ SameEnded /\ UNCHANGED metricVars
  <2>1. status[w][t] = "skipped"
    BY <1>4 DEF SkipEnds, Goes, CoFitsStatus
  <2> QED
    BY <1>4, <2>1 DEF SkipEnds, Goes
<1> QED
  BY <1>1, <1>2, <1>3, <1>4 DEF LoopStep

\* before_task keeps a start for a task that has none.
LEMMA BeforeTaskStep ==
  ASSUME RunInv, MetricsInv, NEW w \in Workflows, NEW t \in Tasks(w), BeforeTask(w, t)
  PROVE  MetricsInv'
<1> USE DEF RunInv, TypeOK, BeforeTask, Goes
<1>1. \A v \in Workflows : Tasks(v)' = Tasks(v)
  BY DEF Tasks
<1>2. SameEnded
  BY DEF SameEnded
<1>3. ASSUME NEW p PROVE p \in Timed' <=> p \in Timed \cup {<<w, t>>}
  BY <1>1 DEF Timed, Key
<1>4. startTimes' = Timed'
  BY <1>3 DEF MetricsInv, MetricsAgree, Key
<1> QED
  BY <1>1, <1>2, <1>4, NothingToCount

\* after_task counts a task that was not counted, and finds its start.
LEMMA AfterTaskStep ==
  ASSUME RunInv, MetricsInv, NEW w \in Workflows, NEW t \in Tasks(w), AfterTask(w, t)
  PROVE  MetricsInv'
<1> USE DEF RunInv, TypeOK
<1>0. PICK s \in {"success", "failed"} : s = status[w][t]
  BY DEF AfterTask, Goes, CoFitsStatus
<1>1. /\ co[w][t] = "finishing" /\ co' = [co EXCEPT ![w][t] = "ended"]
      /\ status' = status /\ load' = load
      /\ total' = [total EXCEPT ![s] = @ + 1]
      /\ observed' = IF Key(w, t) \in startTimes THEN [observed EXCEPT ![s] = @ + 1] ELSE observed
      /\ startTimes' = startTimes \ {<<w, t>>}
  BY <1>0 DEF AfterTask, Goes, Key
<1>3. \A v \in Workflows : Tasks(v)' = Tasks(v)
  BY <1>1 DEF Tasks
<1>4. startTimes' = Timed'
  <2>1. ASSUME NEW p PROVE p \in Timed' <=> p \in Timed \ {<<w, t>>}
    BY <1>1, <1>3 DEF Timed, Key
  <2> QED
    BY <1>1, <2>1 DEF MetricsInv, MetricsAgree
<1>5. observed' = total'
  <2>1. Key(w, t) \in startTimes
    BY <1>1, TimedMember DEF MetricsInv, MetricsAgree, Key
  <2> QED
    BY <1>1, <2>1 DEF MetricsInv, MetricsAgree
<1>6. EndedWith(s)' = EndedWith(s) \cup {<<w, t>>} /\ <<w, t>> \notin EndedWith(s)
  <2>1. ASSUME NEW p PROVE p \in EndedWith(s)' <=> p \in EndedWith(s) \cup {<<w, t>>}
    BY <1>1, <1>0, <1>3 DEF EndedWith
  <2>2. <<w, t>> \notin EndedWith(s)
    BY <1>1, <1>0, EndedMember
  <2> QED
    BY <2>1, <2>2
<1>7. ASSUME NEW r \in {"success", "failed"}, r # s PROVE EndedWith(r)' = EndedWith(r)
  <2>1. ASSUME NEW p PROVE p \in EndedWith(r)' <=> p \in EndedWith(r)
    BY <1>1, <1>0, <1>3, <1>7 DEF EndedWith
  <2> QED
    BY <2>1
<1>8. /\ IsFiniteSet(EndedWith(s)')
      /\ Cardinality(EndedWith(s)') = Cardinality(EndedWith(s)) + 1
  <2>1. IsFiniteSet(EndedWith(s))
    BY DEF MetricsInv
  <2>2. /\ IsFiniteSet(EndedWith(s) \cup {<<w, t>>})
        /\ Cardinality(EndedWith(s) \cup {<<w, t>>}) = Cardinality(EndedWith(s)) + 1
    BY <1>6, <2>1, FS_AddElement
  <2> QED
    BY <1>6, <2>2
<1>9. \A r \in {"success", "failed"} :
        IsFiniteSet(EndedWith(r)') /\ total'[r] = Cardinality(EndedWith(r)')
  BY <1>1, <1>0, <1>7, <1>8 DEF MetricsInv, MetricsAgree
<1>10. total' \in [{"success", "failed"} -> Nat]
  BY <1>1, <1>0 DEF MetricsInv
<1> QED
  BY <1>4, <1>5, <1>9, <1>10 DEF MetricsInv, MetricsAgree

LEMMA MetricsStep ==
  ASSUME RunInv, MetricsInv, [Next]_vars
  PROVE  MetricsInv'
<1>1. \A v \in Workflows : Tasks(v)' = Tasks(v)
  BY TasksStay
<1>2. CASE SameTimed /\ SameEnded /\ UNCHANGED metricVars
  <2>1. startTimes' = Timed'
    BY <1>1, <1>2, TimedStays DEF metricVars, MetricsInv, MetricsAgree
  <2> QED
    BY <1>1, <1>2, <2>1, NothingToCount DEF metricVars
<1>3. CASE UNCHANGED vars
  <2>1. SameTimed /\ SameEnded /\ UNCHANGED metricVars
    BY <1>3 DEF vars, runVars, SameTimed, SameEnded
  <2> QED
    BY <1>2, <2>1
<1>4. ASSUME NEW w \in Workflows, Execute(w) \/ LoopStep(w) PROVE MetricsInv'
  BY <1>2, <1>4, HooklessStep
<1>5. ASSUME NEW w \in Workflows, NEW t \in Tasks(w), TaskStep(w, t) PROVE MetricsInv'
  BY <1>2, <1>5, HooklessStep, BeforeTaskStep, AfterTaskStep DEF TaskStep
<1> QED
  BY <1>3, <1>4, <1>5 DEF Next

\* However the runs overlap and whatever their tasks are called, every task that
\* ended was counted and timed once (observability/__init__.py:82-96).
THEOREM MetricsAreExact == Spec => []MetricsAgree
<1>1. Init => MetricsInv
  <2> SUFFICES ASSUME Init PROVE MetricsInv
    OBVIOUS
  <2>1. \A w \in Workflows : \A t \in Tasks(w) : co[w][t] = "none"
    BY DEF Init
  <2>2. Timed = {}
    BY <2>1, TimedMember
  <2>3. \A s : EndedWith(s) = {}
    BY <2>1, EndedMember
  <2> QED
    BY <2>2, <2>3, FS_EmptySet DEF Init, MetricsInv, MetricsAgree
<1>2. RunInv /\ MetricsInv /\ [Next]_vars => MetricsInv'
  BY MetricsStep
<1>3. MetricsInv => MetricsAgree
  BY DEF MetricsInv
<1> QED
  BY <1>1, <1>2, <1>3, Invariant, PTL DEF Spec
=============================================================================
