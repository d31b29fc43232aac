---------------------------- MODULE EngineProofs ----------------------------
(***************************************************************************)
(* Theorems about Engine, for every set of tasks, every graph, every       *)
(* choice of retries, conditions and faults, and any number of runs.       *)
(***************************************************************************)
EXTENDS Engine, TLAPS

-----------------------------------------------------------------------------
(* Type correctness *)

\* The scheduler's methods return schedulers.
LEMMA SchedulerTypes ==
  ASSUME NEW T, NEW s \in SchedulerType(T), NEW t \in T, NEW S \in SUBSET T
  PROVE  /\ EmptyScheduler \in SchedulerType(T)
         /\ MarkRunning(s, S) \in SchedulerType(T)
         /\ MarkCompleted(s, t) \in SchedulerType(T)
         /\ MarkFailed(s, t) \in SchedulerType(T)
         /\ MarkSkipped(s, t) \in SchedulerType(T)
  BY DEF SchedulerType, EmptyScheduler, MarkRunning, MarkCompleted, MarkFailed,
         MarkSkipped

\* Ready tasks are tasks of the workflow.
LEMMA ReadyAreTasks ==
  ASSUME NEW s, NEW deps, NEW st
  PROVE  GetReadyTasks(s, Tasks, deps, st) \subseteq Tasks
  BY DEF GetReadyTasks, GetReadyNodes

LEMMA EmptyType == EmptyScheduler \in SchedulerType(Tasks)
  BY DEF SchedulerType, EmptyScheduler

Typed == TypeOK /\ StageFitsStatus

\* One turn of the loop keeps the types, and the tasks it starts are RUNNING.
LEMMA DispatchTyped ==
  ASSUME Typed, NEW rest \in SUBSET Tasks, Dispatch(rest)
  PROVE  Typed'
<1> DEFINE ready == GetReadyTasks(sched, Tasks, dependsOn, status)
<1>1. ready \in SUBSET Tasks
  BY ReadyAreTasks
<1>2. MarkRunning(sched, ready) \in SchedulerType(Tasks)
  BY <1>1 DEF Typed, TypeOK, SchedulerType, MarkRunning
<1>3. TypeOK'
  BY <1>1, <1>2 DEF Typed, TypeOK, Dispatch, Active, Ended, Live, Over, TaskStatus,
                    WorkflowStatus
<1>4. StageFitsStatus'
  <2>1. ASSUME NEW t \in ready PROVE status[t] = "pending"
    BY <2>1 DEF GetReadyTasks
  <2> QED
    BY <1>1, <2>1 DEF Typed, TypeOK, StageFitsStatus, Dispatch, Unconcluded
<1> QED
  BY <1>3, <1>4 DEF Typed

\* The steps that move a coroutine on and change nothing else.
Advance(t) ==
  \/ StartTask(t) \/ ConditionRaises(t) \/ BeforeHookRaises(t) \/ BackOff(t)
  \/ FuncCancelled(t) \/ SaveSkipRaises(t) \/ AfterHooks(t)

\* Those that end a task, with the outcome they leave.
Conclusion(t, outcome) ==
  \/ SkipTask(t) /\ outcome = "skipped"
  \/ FuncReturns(t) /\ outcome = "success"
  \/ FuncFails(t) /\ outcome = "failed"
  \/ SaveResultRaises(t) /\ outcome = "failed"

LEMMA TaskStepCases ==
  ASSUME NEW t \in Tasks, TaskStep(t)
  PROVE  \/ Advance(t) \/ Invoke(t) \/ Retry(t) \/ SaveResult(t) \/ SaveSkip(t)
         \/ \E o \in {"skipped", "success", "failed"} : Conclusion(t, o)
  BY DEF TaskStep, Advance, Conclusion

\* An advance leads on from a live stage, and before the task's end only from
\* before its end; it never leads to a stage in which a result is saved.
LEMMA AdvanceEffect ==
  ASSUME NEW t \in Tasks, Advance(t)
  PROVE  /\ OnlyStageChanges
         /\ stage[t] \in Live
         /\ stage[t] = "skipping" => SaveRaises # {}
         /\ stage[t] # "saving"
         /\ \E s \in {"starting", "backoff"} \cup Over :
              /\ stage' = [stage EXCEPT ![t] = s]
              /\ s \in {"starting", "backoff"} => stage[t] \in Unconcluded
<1> USE DEF MoveTo, Live, Over, Unconcluded
<1>1. CASE StartTask(t) \/ ConditionRaises(t)
  BY <1>1 DEF StartTask, ConditionRaises, FirstStep
<1>2. CASE BeforeHookRaises(t) \/ FuncCancelled(t) \/ SaveSkipRaises(t)
  BY <1>2 DEF BeforeHookRaises, FuncCancelled, SaveSkipRaises
<1>3. CASE BackOff(t)
  BY <1>3 DEF BackOff, AttemptFails
<1>4. CASE AfterHooks(t)
  BY <1>4 DEF AfterHooks
<1> QED
  BY <1>1, <1>2, <1>3, <1>4 DEF Advance

\* A conclusion writes the same outcome into the three records and leads to the
\* stage that fits it.
LEMMA ConclusionEffect ==
  ASSUME NEW t \in Tasks, NEW o \in {"skipped", "success", "failed"}, Conclusion(t, o)
  PROVE  /\ stage[t] \in Unconcluded \/ (stage[t] = "saving" /\ SaveRaises # {})
         /\ stage' = [stage EXCEPT ![t] = IF o = "skipped" THEN "skipping"
                                          ELSE IF o = "success" THEN "saving" ELSE "after"]
         /\ status' = [status EXCEPT ![t] = o]
         /\ results' = [results EXCEPT ![t] = o]
         /\ sched' = IF o = "skipped" THEN MarkSkipped(sched, t)
                     ELSE IF o = "success" THEN MarkCompleted(sched, t)
                     ELSE MarkFailed(sched, t)
         /\ UNCHANGED <<dependsOn, wfStatus, loop, mode, pending, inputs, runs,
                        attempt, checkpoint>>
<1> USE DEF MoveTo, Unconcluded, Conclude
<1>1. CASE SkipTask(t) /\ o = "skipped"
  BY <1>1 DEF SkipTask, FirstStep
<1>2. CASE FuncReturns(t) /\ o = "success"
  BY <1>2 DEF FuncReturns
<1>3. CASE FuncFails(t) /\ o = "failed"
  BY <1>3 DEF FuncFails, AttemptFails
<1>4. CASE SaveResultRaises(t) /\ o = "failed"
  BY <1>4 DEF SaveResultRaises
<1> QED
  BY <1>1, <1>2, <1>3, <1>4 DEF Conclusion

\* Every step of a task's coroutine keeps the types.
LEMMA TaskStepTyped ==
  ASSUME EngineAssumption, Typed, NEW t \in Tasks, TaskStep(t)
  PROVE  Typed'
<1> USE DEF Typed, TypeOK, StageFitsStatus, Unconcluded, MoveTo, Live, Over
<1>1. CASE Advance(t)
  BY <1>1, AdvanceEffect DEF OnlyStageChanges
<1>2. CASE Invoke(t)
  BY <1>2 DEF Invoke, EngineAssumption
<1>3. CASE Retry(t)
  BY <1>3 DEF Retry
<1>4. CASE SaveResult(t) \/ SaveSkip(t)
  BY <1>4 DEF SaveResult, SaveSkip, Save
<1>5. ASSUME NEW o \in {"skipped", "success", "failed"}, Conclusion(t, o)
      PROVE  Typed'
  <2>1. sched' \in SchedulerType(Tasks)
    BY <1>5, ConclusionEffect, SchedulerTypes, SMTT(30)
  <2> QED
    BY <1>5, <2>1, ConclusionEffect DEF TaskStatus
<1> QED
  BY <1>1, <1>2, <1>3, <1>4, <1>5, TaskStepCases

LEMMA CallerStepTyped ==
  ASSUME EngineAssumption, Typed, CallerStep
  PROVE  Typed'
<1> USE DEF Typed, TypeOK, StageFitsStatus, Unconcluded, Live, Over, Active, Ended,
            TaskStatus, WorkflowStatus
<1>1. CASE Execute
  BY <1>1, EmptyType DEF Execute, StartRun, NoResult, EngineAssumption
<1>2. CASE Resume
  <2>1. sched' \in SchedulerType(Tasks)
    BY <1>2 DEF Resume, EmptyScheduler, SchedulerType
  <2> QED
    BY <1>2, <2>1 DEF Resume, StartRun, EngineAssumption
<1>3. CASE RejectRun
  BY <1>3 DEF RejectRun, EngineAssumption
<1>4. CASE ResetTasks
  BY <1>4 DEF ResetTasks, NoRun, EngineAssumption
<1>5. CASE Restart
  BY <1>5, EmptyType DEF Restart, NoResult
<1>6. CASE CancelRun
  BY <1>6 DEF CancelRun
<1> QED
  BY <1>1, <1>2, <1>3, <1>4, <1>5, <1>6 DEF CallerStep

LEMMA LoopStepTyped ==
  ASSUME EngineAssumption, Typed, LoopStep
  PROVE  Typed'
<1>1. CASE BeginLoop \/ Poll
  BY <1>1, DispatchTyped DEF BeginLoop, Poll
<1>2. CASE Wake
  BY <1>2, DispatchTyped DEF Wake, Typed, TypeOK
<1>3. CASE WakeToCancelled
  BY <1>3 DEF WakeToCancelled, Typed, TypeOK, StageFitsStatus, Active, Ended
<1>4. CASE EndRun
  BY <1>4 DEF EndRun, NoResult, Typed, TypeOK, StageFitsStatus, Active, Ended
<1> QED
  BY <1>1, <1>2, <1>3, <1>4 DEF LoopStep

\* Every variable keeps its type: above all, the store never holds a result
\* that is not a success or a skip.
THEOREM TypeCorrect == Spec => []TypeOK
<1> USE EngineAssumption
<1>1. Init => Typed
  BY EmptyType DEF Init, Typed, TypeOK, StageFitsStatus, Unconcluded, NoResult, Active,
                   TaskStatus, WorkflowStatus, EngineAssumption
<1>2. Typed /\ [Next]_vars => Typed'
  <2> SUFFICES ASSUME Typed, [Next]_vars PROVE Typed'
    OBVIOUS
  <2>1. CASE UNCHANGED vars
    BY <2>1 DEF vars, Typed, TypeOK, StageFitsStatus
  <2> QED
    BY <2>1, CallerStepTyped, LoopStepTyped, TaskStepTyped DEF Next
<1>3. Typed => TypeOK
  BY DEF Typed
<1> QED
  BY <1>1, <1>2, <1>3, PTL DEF Spec

-----------------------------------------------------------------------------
(* The inductive invariant *)

\* What the theorems below assume of the store and of the caller: the store
\* saves what it is given, and a caller that resumes makes every task that was
\* not finished PENDING again.  Engine's violation runs drop either.
CarefulUse == SaveRaises = {} /\ CallerResets = {"failed", "running"}

LEMMA InitInvariant == EngineAssumption /\ Init => IInv
<1> SUFFICES ASSUME EngineAssumption, Init PROVE IInv
  OBVIOUS
<1>1. TypeOK
  BY EmptyType DEF Init, TypeOK, NoResult, TaskStatus, WorkflowStatus
<1> QED
  BY <1>1 DEF Init, IInv, RecordsAgree, NoRun, StageFitsStatus, FinishedIsSaved, LoopFits,
              CheckpointIsRestored, DependenciesFirst, SuccessMeansAllFinished, Active,
              Live, Unconcluded, NoResult

\* The parts of IInv besides Typed.
RunInv ==
  /\ RecordsAgree /\ FinishedIsSaved /\ LoopFits /\ CheckpointIsRestored
  /\ DependenciesFirst /\ SuccessMeansAllFinished

LEMMA IInvParts == IInv <=> Typed /\ RunInv
  BY DEF IInv, Typed, RunInv

\* While no run is on, every status is one that the next run starts from.
LEMMA ExecuteInv ==
  ASSUME IInv, Execute  PROVE RunInv'
<1> USE DEF IInv, TypeOK, Execute, StartRun, NoResult
<1>1. RecordsAgree'
  BY DEF RecordsAgree, EmptyScheduler
<1>2. FinishedIsSaved' /\ LoopFits' /\ CheckpointIsRestored'
  BY DEF FinishedIsSaved, LoopFits, CheckpointIsRestored, Active
<1>3. DependenciesFirst' /\ SuccessMeansAllFinished'
  BY DEF DependenciesFirst, SuccessMeansAllFinished, Live
<1> QED
  BY <1>1, <1>2, <1>3 DEF RunInv

\* A task that is finished but not in the store would be left out of the
\* scheduler's books; FinishedIsSaved says that there is none.
LEMMA ResumeInv ==
  ASSUME IInv, CarefulUse, Resume  PROVE RunInv'
<1> USE DEF IInv, TypeOK, Resume, StartRun
<1>1. ASSUME NEW t \in Tasks, checkpoint[t] = "none"
      PROVE  status[t] = "pending"
  <2>1. stage[t] \notin {"saving", "skipping"}
    BY DEF NoRun, Live
  <2>2. status[t] \notin {"success", "skipped"}
    BY <1>1, <2>1 DEF FinishedIsSaved
  <2> QED
    BY <2>2 DEF CarefulUse, TaskStatus
<1>2. RecordsAgree'
  BY <1>1 DEF RecordsAgree, EmptyScheduler
<1>3. FinishedIsSaved' /\ LoopFits' /\ CheckpointIsRestored'
  BY <1>1 DEF FinishedIsSaved, LoopFits, CheckpointIsRestored, Active
<1>4. DependenciesFirst' /\ SuccessMeansAllFinished'
  BY DEF DependenciesFirst, SuccessMeansAllFinished, Live
<1> QED
  BY <1>2, <1>3, <1>4 DEF RunInv

LEMMA QuietCallerInv ==
  ASSUME IInv, CarefulUse, RejectRun \/ ResetTasks \/ Restart  PROVE RunInv'
<1> USE DEF IInv, TypeOK, NoRun, Active, Ended, Live
<1>1. CASE RejectRun
  BY <1>1 DEF RejectRun, RunInv, RecordsAgree, FinishedIsSaved, LoopFits,
              CheckpointIsRestored, DependenciesFirst, SuccessMeansAllFinished
<1>2. CASE ResetTasks
  BY <1>2 DEF ResetTasks, CarefulUse, RunInv, RecordsAgree, FinishedIsSaved, LoopFits,
              CheckpointIsRestored, DependenciesFirst, SuccessMeansAllFinished
<1>3. CASE Restart
  BY <1>3 DEF Restart, RunInv, RecordsAgree, FinishedIsSaved, LoopFits,
              CheckpointIsRestored, DependenciesFirst, SuccessMeansAllFinished
<1> QED
  BY <1>1, <1>2, <1>3

\* The loop is left by an exception; the coroutines stay.
LEMMA LeaveInv ==
  ASSUME IInv, CancelRun \/ WakeToCancelled  PROVE RunInv'
  BY DEF CancelRun, WakeToCancelled, LoopWakes, IInv, RunInv, RecordsAgree, NoRun, FinishedIsSaved,
         LoopFits, CheckpointIsRestored, DependenciesFirst, SuccessMeansAllFinished, Active

\* In an acyclic graph, some PENDING task has no dependency that is PENDING.
\* If everything else has ended well, that task is ready.
LEMMA NothingReadyNothingLeft ==
  ASSUME IInv, loop \in {"starting", "waiting", "polling"},
         GetReadyTasks(sched, Tasks, dependsOn, status) = {},
         sched.running = {}, sched.failed = {}
  PROVE  \A t \in Tasks : status[t] \in {"success", "skipped"}
<1> DEFINE Left == {t \in Tasks : status[t] = "pending"}
<1> USE DEF IInv, TypeOK
<1>1. ~NoRun /\ BuildsDag(Tasks, dependsOn)
  BY DEF NoRun, Active, LoopFits
<1>2. \A t \in Tasks : status[t] \in {"pending", "success", "skipped"}
  BY <1>1 DEF RecordsAgree, TaskStatus
<1>3. \A t \in Tasks : t \in sched.completed \cup sched.skipped
                         <=> status[t] \in {"success", "skipped"}
  BY <1>1 DEF RecordsAgree
<1>4. ASSUME Left # {} PROVE FALSE
  <2>1. PICK t \in Left : dependsOn[t] \cap Left = {}
    BY <1>1, <1>4 DEF BuildsDag, Acyclic
  <2>2. dependsOn[t] \subseteq sched.completed \cup sched.skipped
    BY <1>1, <1>2, <1>3, <2>1 DEF BuildsDag, AllDependenciesKnown
  <2>3. t \in GetReadyTasks(sched, Tasks, dependsOn, status)
    BY <1>3, <2>1, <2>2 DEF GetReadyTasks, GetReadyNodes
  <2> QED
    BY <2>3
<1> QED
  BY <1>2, <1>4

LEMMA DispatchInv ==
  ASSUME IInv, NEW rest \in SUBSET Tasks, Dispatch(rest),
         loop \in {"starting", "waiting", "polling"}
  PROVE  RunInv'
<1> DEFINE ready == GetReadyTasks(sched, Tasks, dependsOn, status)
           leaves == rest \cup ready = {} /\ sched.running \cup ready = {}
<1> USE DEF IInv, TypeOK
<1>1. ~NoRun /\ BuildsDag(Tasks, dependsOn) /\ wfStatus = "running"
  BY DEF NoRun, Active, LoopFits
<1>2. /\ ready \subseteq Tasks
      /\ \A t \in ready : /\ status[t] = "pending"
                          /\ dependsOn[t] \subseteq sched.completed \cup sched.skipped
  BY ReadyAreTasks DEF GetReadyTasks, GetReadyNodes
<1>3. /\ sched' = [sched EXCEPT !.running = @ \cup ready]
      /\ status' = [t \in Tasks |-> IF t \in ready THEN "running" ELSE status[t]]
      /\ stage' = [t \in Tasks |-> IF t \in ready THEN "created" ELSE stage[t]]
      /\ wfStatus' = IF ~leaves THEN wfStatus
                     ELSE IF sched.failed # {} THEN "failed" ELSE "success"
      /\ loop' \in {"ending", "polling", "waiting"} /\ (loop' = "ending" <=> leaves)
      /\ UNCHANGED <<dependsOn, mode, results, checkpoint>>
  BY DEF Dispatch, MarkRunning, IsComplete, HasFailures, SchedulerType
<1>4. RecordsAgree'
  BY <1>1, <1>2, <1>3 DEF RecordsAgree, SchedulerType
<1>5. FinishedIsSaved'
  BY <1>1, <1>2, <1>3 DEF FinishedIsSaved
<1>6. LoopFits'
  BY <1>1, <1>3 DEF LoopFits, Active
<1>7. CheckpointIsRestored'
  BY <1>1, <1>3 DEF CheckpointIsRestored
<1>8. DependenciesFirst'
  <2>1. ASSUME NEW t \in ready, NEW d \in dependsOn[t]
        PROVE  results[d] \in {"success", "skipped"}
    <3>1. d \in Tasks
      BY <1>1, <1>2, <2>1 DEF BuildsDag, AllDependenciesKnown
    <3>2. d \in sched.completed \cup sched.skipped
      BY <1>2, <2>1
    <3> QED
      BY <1>1, <3>1, <3>2 DEF RecordsAgree
  <2> QED
    BY <1>2, <1>3, <2>1 DEF DependenciesFirst
<1>9. SuccessMeansAllFinished'
  <2> SUFFICES ASSUME wfStatus' = "success"
               PROVE  \A t \in Tasks : status'[t] \in {"success", "skipped"}
    BY DEF SuccessMeansAllFinished
  <2>1. leaves /\ sched.failed = {}
    BY <1>1, <1>3
  <2>2. ready = {} /\ sched.running = {}
    BY <2>1
  <2>3. \A t \in Tasks : status[t] \in {"success", "skipped"}
    BY <2>1, <2>2, NothingReadyNothingLeft
  <2> QED
    BY <1>3, <2>2, <2>3
<1> QED
  BY <1>4, <1>5, <1>6, <1>7, <1>8, <1>9 DEF RunInv

LEMMA EndRunInv ==
  ASSUME IInv, EndRun  PROVE RunInv'
  BY DEF EndRun, NoResult, IInv, TypeOK, RunInv, RecordsAgree, NoRun, FinishedIsSaved,
         LoopFits, CheckpointIsRestored, DependenciesFirst, SuccessMeansAllFinished, Active

\* A coroutine moves on, and no record of its task changes.
LEMMA MoveInv ==
  ASSUME IInv, CarefulUse, NEW t \in Tasks, Advance(t) \/ Invoke(t) \/ Retry(t)
  PROVE  RunInv'
<1> USE DEF IInv, TypeOK
<1>1. /\ UNCHANGED <<dependsOn, status, wfStatus, loop, mode, sched, results, checkpoint>>
      /\ stage[t] \in Live \ {"saving", "skipping"}
      /\ \E s : stage' = [stage EXCEPT ![t] = s]
  <2>1. CASE Advance(t)
    BY <2>1, AdvanceEffect DEF OnlyStageChanges, CarefulUse
  <2>2. CASE Invoke(t) \/ Retry(t)
    BY <2>2 DEF Invoke, Retry, MoveTo, Live
  <2> QED
    BY <2>1, <2>2
<1>2. ~NoRun
  BY <1>1 DEF NoRun
<1>3. \A u \in Tasks : stage'[u] \in Live => stage[u] \in Live
  BY <1>1
<1>4. RecordsAgree' /\ LoopFits' /\ CheckpointIsRestored' /\ SuccessMeansAllFinished'
  BY <1>1, <1>2 DEF RecordsAgree, LoopFits, CheckpointIsRestored, SuccessMeansAllFinished
<1>5. FinishedIsSaved'
  BY <1>1 DEF FinishedIsSaved
<1>6. DependenciesFirst'
  BY <1>1, <1>3 DEF DependenciesFirst
<1> QED
  BY <1>4, <1>5, <1>6 DEF RunInv

LEMMA SaveInv ==
  ASSUME EngineAssumption, IInv, NEW t \in Tasks, SaveResult(t) \/ SaveSkip(t)
  PROVE  RunInv'
<1> USE DEF IInv, TypeOK
<1>1. /\ UNCHANGED <<dependsOn, status, wfStatus, loop, mode, sched, results>>
      /\ checkpoint' = IF HasStore THEN [checkpoint EXCEPT ![t] = results[t]]
                                   ELSE checkpoint
      /\ stage[t] \in {"saving", "skipping"}
      /\ \E s : stage' = [stage EXCEPT ![t] = s]
  BY DEF SaveResult, SaveSkip, Save, MoveTo
<1>2. ~NoRun /\ results[t] # "none"
  BY <1>1 DEF NoRun, Live, StageFitsStatus
<1>3. \A u \in Tasks : stage'[u] \in Live => stage[u] \in Live
  BY <1>1 DEF Live
<1>4. RecordsAgree' /\ LoopFits' /\ CheckpointIsRestored' /\ SuccessMeansAllFinished'
  BY <1>1, <1>2 DEF RecordsAgree, LoopFits, CheckpointIsRestored, SuccessMeansAllFinished
<1>5. FinishedIsSaved'
  BY <1>1, <1>2 DEF FinishedIsSaved
<1>6. DependenciesFirst'
  BY <1>1, <1>3 DEF DependenciesFirst
<1> QED
  BY <1>4, <1>5, <1>6 DEF RunInv

\* A task ends.  It was RUNNING, so no other task's dependencies were complete
\* with it, and the workflow had not succeeded.
LEMMA ConclusionInv ==
  ASSUME IInv, CarefulUse, NEW t \in Tasks,
         NEW o \in {"skipped", "success", "failed"}, Conclusion(t, o)
  PROVE  RunInv'
<1> USE DEF IInv, TypeOK
<1>1. stage[t] \in Unconcluded /\ status[t] = "running" /\ ~NoRun
  BY ConclusionEffect DEF CarefulUse, StageFitsStatus, NoRun, Live, Unconcluded
<1>2. results[t] = "none"
  BY <1>1 DEF RecordsAgree
<1>3. /\ status' = [status EXCEPT ![t] = o]
      /\ results' = [results EXCEPT ![t] = o]
      /\ stage' = [stage EXCEPT ![t] = IF o = "skipped" THEN "skipping"
                                       ELSE IF o = "success" THEN "saving" ELSE "after"]
      /\ sched' = IF o = "skipped" THEN MarkSkipped(sched, t)
                  ELSE IF o = "success" THEN MarkCompleted(sched, t)
                  ELSE MarkFailed(sched, t)
      /\ UNCHANGED <<dependsOn, wfStatus, loop, mode, checkpoint>>
  BY ConclusionEffect
<1>4. RecordsAgree'
  BY <1>1, <1>3 DEF RecordsAgree, MarkSkipped, MarkCompleted, MarkFailed, SchedulerType
<1>5. FinishedIsSaved'
  BY <1>1, <1>3 DEF FinishedIsSaved, Unconcluded
<1>6. LoopFits' /\ CheckpointIsRestored'
  BY <1>1, <1>2, <1>3 DEF LoopFits, CheckpointIsRestored
<1>7. DependenciesFirst'
  <2>1. \A u \in Tasks : stage'[u] \in Live => stage[u] \in Live
    BY <1>1, <1>3 DEF Live, Unconcluded
  <2> QED
    BY <1>2, <1>3, <2>1 DEF DependenciesFirst
<1>8. SuccessMeansAllFinished'
  BY <1>1, <1>3 DEF SuccessMeansAllFinished
<1> QED
  BY <1>4, <1>5, <1>6, <1>7, <1>8 DEF RunInv

LEMMA NextInvariant ==
  ASSUME EngineAssumption, CarefulUse, IInv, [Next]_vars
  PROVE  IInv'
<1>1. Typed'
  <2>1. CASE UNCHANGED vars
    BY <2>1 DEF vars, IInv, Typed, TypeOK, StageFitsStatus
  <2> QED
    BY <2>1, IInvParts, CallerStepTyped, LoopStepTyped, TaskStepTyped DEF Next
<1>2. RunInv'
  <2>1. CASE UNCHANGED vars
    BY <2>1 DEF vars, IInv, RunInv, RecordsAgree, NoRun, FinishedIsSaved, LoopFits,
                CheckpointIsRestored, DependenciesFirst, SuccessMeansAllFinished
  <2>2. CASE CallerStep
    BY <2>2, ExecuteInv, ResumeInv, QuietCallerInv, LeaveInv DEF CallerStep
  <2>3. CASE BeginLoop \/ Poll
    BY <2>3, DispatchInv DEF BeginLoop, Poll
  <2>4. CASE Wake
    BY <2>4, DispatchInv DEF Wake, LoopWakes, IInv, TypeOK
  <2>5. CASE WakeToCancelled \/ EndRun
    BY <2>5, LeaveInv, EndRunInv
  <2>6. ASSUME NEW t \in Tasks, TaskStep(t) PROVE RunInv'
    BY <2>6, TaskStepCases, MoveInv, SaveInv, ConclusionInv
  <2> QED
    BY <2>1, <2>2, <2>3, <2>4, <2>5, <2>6 DEF Next, LoopStep
<1> QED
  BY <1>1, <1>2 DEF IInv, Typed, RunInv

THEOREM Invariant ==
  ASSUME CarefulUse  PROVE Spec => []IInv
<1>1. Init => IInv
  BY InitInvariant, EngineAssumption
<1>2. IInv /\ [Next]_vars => IInv'
  BY NextInvariant, EngineAssumption
<1> QED
  BY <1>1, <1>2, PTL DEF Spec

-----------------------------------------------------------------------------
(* What follows from it *)

\* A run that reports SUCCESS has finished every task: whatever the graph, the
\* conditions, the exceptions, the cancellations, the crashes and the resumes.
THEOREM SuccessIsComplete ==
  ASSUME CarefulUse  PROVE Spec => []SuccessMeansAllFinished
<1>1. IInv => SuccessMeansAllFinished
  BY DEF IInv
<1> QED
  BY <1>1, Invariant, PTL

\* A task's coroutine exists only after all its dependencies ended well.
THEOREM DependenciesComeFirst ==
  ASSUME CarefulUse  PROVE Spec => []DependenciesFirst
<1>1. IInv => DependenciesFirst
  BY DEF IInv
<1> QED
  BY <1>1, Invariant, PTL

\* The scheduler's sets and the tasks' statuses agree throughout a run.
THEOREM SchedulerAndTasksAgree ==
  ASSUME CarefulUse  PROVE Spec => []SchedulerAgreesWithTasks
<1>1. IInv => SchedulerAgreesWithTasks
  BY DEF IInv, RecordsAgree, NoRun, SchedulerAgreesWithTasks
<1> QED
  BY <1>1, Invariant, PTL

\* No function whose result is in the checkpoint is called by a resumed run.
THEOREM SavedTasksAreNotRerun ==
  ASSUME CarefulUse  PROVE Spec => ResumeNeverReruns
<1>1. IInv /\ [Next]_vars =>
        [\A t \in Tasks : mode = "resume" /\ checkpoint[t] # "none" /\ stage'[t] = "invoking"
                             => stage[t] = "invoking"]_vars
  <2> SUFFICES ASSUME IInv, Next, NEW t \in Tasks, mode = "resume",
                      checkpoint[t] # "none", stage'[t] = "invoking",
                      stage[t] # "invoking"
               PROVE  FALSE
    OBVIOUS
  <2> USE DEF IInv, TypeOK
  <2>1. stage[t] \in Unconcluded
    <3>1. CASE CallerStep
      BY <3>1 DEF CallerStep, Execute, Resume, StartRun, RejectRun, ResetTasks, Restart,
                  CancelRun
    <3>2. CASE LoopStep
      BY <3>2 DEF LoopStep, BeginLoop, Wake, WakeToCancelled, Poll, EndRun, Dispatch
    <3>3. ASSUME NEW u \in Tasks, TaskStep(u) PROVE stage[t] \in Unconcluded
      <4>1. CASE Invoke(u) \/ Retry(u)
        BY <4>1 DEF Invoke, Retry, MoveTo, Unconcluded
      <4>2. CASE Advance(u)
        BY <4>2, AdvanceEffect DEF Over
      <4>3. CASE SaveResult(u) \/ SaveSkip(u)
        BY <4>3 DEF SaveResult, SaveSkip, MoveTo
      <4>4. ASSUME NEW o \in {"skipped", "success", "failed"}, Conclusion(u, o)
            PROVE  stage[t] \in Unconcluded
        BY <4>4, ConclusionEffect
      <4> QED
        BY <3>3, <4>1, <4>2, <4>3, <4>4, TaskStepCases
    <3> QED
      BY <3>1, <3>2, <3>3 DEF Next
  <2>2. status[t] = "running" /\ ~NoRun
    BY <2>1 DEF StageFitsStatus, NoRun, Live, Unconcluded
  <2>3. results[t] = "none" /\ results[t] = checkpoint[t]
    BY <2>2 DEF RecordsAgree, CheckpointIsRestored
  <2> QED
    BY <2>3
<1> QED
  BY <1>1, Invariant, PTL DEF Spec, ResumeNeverReruns

-----------------------------------------------------------------------------
(***************************************************************************)
(* What a run leaves behind: results, inputs, attempts, checkpoints, the   *)
(* tasks that did not run.                                                 *)
(***************************************************************************)

(* The steps by their effects *)

\* A coroutine that has not ended moves on.
Moves(t, s) == stage' = [stage EXCEPT ![t] = s] /\ stage[t] \in Live

\* The steps of a task's coroutine by what they do to its attempts, its inputs,
\* its result and the checkpoint.
LEMMA CoroutineSteps ==
  ASSUME IInv, CarefulUse, NEW t \in Tasks, TaskStep(t)
  PROVE  /\ UNCHANGED <<dependsOn, wfStatus, loop, mode, pending, runs>>
         /\ \E s : Moves(t, s)
         /\ ~NoRun
         /\ \/ Advance(t)
            \/ Invoke(t)
            \/ Retry(t)
            \/ SaveResult(t) \/ SaveSkip(t)
            \/ \E o \in {"skipped", "success", "failed"} : Conclusion(t, o) /\ results[t] = "none"
<1> USE DEF IInv, TypeOK, Moves
<1>1. CASE Advance(t)
  BY <1>1, AdvanceEffect DEF OnlyStageChanges, NoRun
<1>2. CASE Invoke(t) \/ Retry(t)
  BY <1>2 DEF Invoke, Retry, MoveTo, Live, NoRun
<1>3. CASE SaveResult(t) \/ SaveSkip(t)
  BY <1>3 DEF SaveResult, SaveSkip, Save, MoveTo, Live, NoRun
<1>4. ASSUME NEW o \in {"skipped", "success", "failed"}, Conclusion(t, o)
      PROVE  /\ UNCHANGED <<dependsOn, wfStatus, loop, mode, pending, runs>>
             /\ \E s : Moves(t, s)
             /\ ~NoRun /\ results[t] = "none"
  <2>1. stage[t] \in Unconcluded /\ status[t] = "running" /\ ~NoRun
    BY <1>4, ConclusionEffect DEF CarefulUse, StageFitsStatus, NoRun, Live, Unconcluded
  <2> QED
    BY <1>4, <2>1, ConclusionEffect DEF RecordsAgree, Live, Unconcluded
<1> QED
  BY <1>1, <1>2, <1>3, <1>4, TaskStepCases

\* The steps that leave the task coroutines' own records alone.
LEMMA OtherSteps ==
  ASSUME IInv, CallerStep \/ LoopStep
  PROVE  /\ dependsOn' = dependsOn
         /\ \/ Execute \/ Resume \/ Restart
            \/ UNCHANGED <<results, attempt, inputs, mode>>
         /\ \A t \in Tasks : stage'[t] \in {stage[t], "idle", "created"}
  BY DEF IInv, TypeOK, CallerStep, Execute, Resume, StartRun, RejectRun, ResetTasks, Restart,
         CancelRun, LoopStep, BeginLoop, Wake, WakeToCancelled, Poll, EndRun, Dispatch

\* Only a failed attempt that leaves another one leads to a pause.
LEMMA PausesAreEarned ==
  ASSUME IInv, NEW t \in Tasks, Advance(t)
  PROVE  stage'[t] = "backoff" => stage[t] = "invoking" /\ attempt[t] < EffectiveRetries(t)
<1> USE DEF IInv, TypeOK, MoveTo
<1>1. CASE BackOff(t)
  BY <1>1 DEF BackOff, AttemptFails
<1>2. CASE StartTask(t) \/ ConditionRaises(t) \/ BeforeHookRaises(t) \/ FuncCancelled(t)
  BY <1>2 DEF StartTask, ConditionRaises, BeforeHookRaises, FuncCancelled
<1>3. CASE SaveSkipRaises(t) \/ AfterHooks(t)
  BY <1>3 DEF SaveSkipRaises, AfterHooks
<1> QED
  BY <1>1, <1>2, <1>3 DEF Advance

-----------------------------------------------------------------------------
(* Results *)

\* A result stays as it is until the run is over, whatever else the run meets.
THEOREM ResultsStay ==
  ASSUME CarefulUse  PROVE Spec => ResultsAreFinal
<1>1. IInv /\ [Next]_vars =>
        [\A t \in Tasks : loop \in Active /\ loop' # "idle" /\ results[t] # "none"
                             => results'[t] = results[t]]_vars
  <2> SUFFICES ASSUME IInv, Next, NEW t \in Tasks, loop \in Active, loop' # "idle",
                      results[t] # "none"
               PROVE  results'[t] = results[t]
    OBVIOUS
  <2>1. CASE CallerStep \/ LoopStep
    BY <2>1, OtherSteps DEF Execute, Resume, StartRun, NoRun, Restart
  <2>2. ASSUME NEW u \in Tasks, TaskStep(u) PROVE results'[t] = results[t]
    <3>1. CASE Advance(u)
      BY <3>1, AdvanceEffect DEF OnlyStageChanges
    <3>2. CASE Invoke(u) \/ Retry(u) \/ SaveResult(u) \/ SaveSkip(u)
      BY <3>2 DEF Invoke, Retry, SaveResult, SaveSkip, Save
    <3>3. ASSUME NEW o \in {"skipped", "success", "failed"}, Conclusion(u, o), results[u] = "none"
          PROVE  results'[t] = results[t]
      BY <3>3, ConclusionEffect DEF IInv, TypeOK
    <3> QED
      BY <2>2, <3>1, <3>2, <3>3, CoroutineSteps
  <2> QED
    BY <2>1, <2>2 DEF Next
<1> QED
  BY <1>1, Invariant, PTL DEF Spec, ResultsAreFinal
-----------------------------------------------------------------------------
(* Inputs *)

LEMMA InputsStep ==
  ASSUME IInv, CarefulUse, InputsArrive, [Next]_vars
  PROVE  InputsArrive'
<1> USE DEF IInv, TypeOK
<1> SUFFICES ASSUME NEW t \in Tasks, stage'[t] \in {"invoking", "backoff"}
             PROVE  InputMap[t] \cap dependsOn'[t] \subseteq inputs'[t]
  BY DEF InputsArrive
<1>1. stage[t] \in {"invoking", "backoff"} => InputMap[t] \cap dependsOn[t] \subseteq inputs[t]
  BY DEF InputsArrive
<1>2. CASE UNCHANGED vars
  BY <1>1, <1>2 DEF vars
<1>3. CASE CallerStep \/ LoopStep
  BY <1>1, <1>3, OtherSteps DEF Execute, Resume, StartRun, Restart
<1>4. ASSUME NEW u \in Tasks, TaskStep(u), u # t
      PROVE  InputMap[t] \cap dependsOn'[t] \subseteq inputs'[t]
  <2>1. stage'[t] = stage[t] /\ dependsOn' = dependsOn
    BY <1>4, CoroutineSteps DEF Moves
  <2>2. inputs'[t] = inputs[t]
    <3>1. CASE Invoke(u)
      BY <1>4, <3>1 DEF Invoke
    <3>2. CASE Advance(u)
      BY <3>2, AdvanceEffect DEF OnlyStageChanges
    <3>3. CASE Retry(u) \/ SaveResult(u) \/ SaveSkip(u)
      BY <3>3 DEF Retry, SaveResult, SaveSkip, Save
    <3>4. ASSUME NEW o \in {"skipped", "success", "failed"}, Conclusion(u, o)
          PROVE  inputs'[t] = inputs[t]
      BY <3>4, ConclusionEffect
    <3> QED
      BY <1>4, <3>1, <3>2, <3>3, <3>4, CoroutineSteps
  <2> QED
    BY <1>1, <2>1, <2>2
<1>5. CASE TaskStep(t)
  <2>1. CASE Advance(t)
    <3>1. stage'[t] = "backoff" /\ OnlyStageChanges
      BY <2>1, AdvanceEffect DEF Over
    <3> QED
      BY <1>1, <2>1, <3>1, PausesAreEarned DEF OnlyStageChanges
  <2>2. CASE Invoke(t)
    <3>1. \A d \in dependsOn[t] : results[d] # "none"
      BY <2>2 DEF Invoke, Live, DependenciesFirst
    <3>2. inputs'[t] = {u \in InputMap[t] : results[u] # "none"} /\ dependsOn' = dependsOn
      BY <2>2 DEF Invoke
    <3> QED
      BY <3>1, <3>2
  <2>3. CASE Retry(t)
    BY <1>1, <2>3 DEF Retry
  <2>4. CASE SaveResult(t) \/ SaveSkip(t)
    BY <2>4 DEF SaveResult, SaveSkip, MoveTo
  <2>5. ASSUME NEW o \in {"skipped", "success", "failed"}, Conclusion(t, o)
        PROVE  FALSE
    BY <2>5, ConclusionEffect
  <2> QED
    BY <1>5, <2>1, <2>2, <2>3, <2>4, <2>5, TaskStepCases
<1> QED
  BY <1>2, <1>3, <1>4, <1>5 DEF Next

\* Every function is called with the outputs its input_map asks of its
\* dependencies (core/engine.py:386-391), in resumed runs as well.
THEOREM InputsAreThere ==
  ASSUME CarefulUse  PROVE Spec => []InputsArrive
<1>1. Init => InputsArrive
  BY DEF Init, InputsArrive
<1>2. IInv /\ InputsArrive /\ [Next]_vars => InputsArrive'
  BY InputsStep
<1> QED
  BY <1>1, <1>2, Invariant, PTL DEF Spec

-----------------------------------------------------------------------------
(* Attempts *)

\* While a coroutine pauses, an attempt is left.
AttemptInv ==
  /\ AttemptsAreExhausted
  /\ \A t \in Tasks : stage[t] = "backoff" => attempt[t] < EffectiveRetries(t)

LEMMA RetriesAreCounted == \A t \in Tasks : EffectiveRetries(t) \in Nat
  BY EngineAssumption DEF EngineAssumption, EffectiveRetries

LEMMA AttemptStep ==
  ASSUME IInv, CarefulUse, AttemptInv, [Next]_vars
  PROVE  AttemptInv'
<1> DEFINE Counted(t) ==
      /\ attempt[t] <= EffectiveRetries(t)
      /\ results[t] = "failed" => attempt[t] = EffectiveRetries(t)
      /\ stage[t] = "backoff" => attempt[t] < EffectiveRetries(t)
<1> SUFFICES ASSUME NEW t \in Tasks PROVE Counted(t)'
  BY DEF AttemptInv, AttemptsAreExhausted, EffectiveRetries
<1> USE DEF IInv, TypeOK
<1>r. EffectiveRetries(t) \in Nat /\ EffectiveRetries(t)' = EffectiveRetries(t)
  BY RetriesAreCounted DEF EffectiveRetries
<1>1. Counted(t)
  BY DEF AttemptInv, AttemptsAreExhausted
<1>2. CASE UNCHANGED vars
  BY <1>1, <1>2, <1>r DEF vars
<1>3. CASE CallerStep \/ LoopStep
  <2>1. CASE Execute \/ Resume \/ Restart
    <3>1. attempt'[t] = 0 /\ results'[t] # "failed" /\ stage'[t] = "idle"
      BY <2>1 DEF Execute, Resume, StartRun, Restart, NoResult
    <3> QED
      BY <3>1, <1>r
  <2>2. CASE UNCHANGED <<results, attempt, inputs, mode>>
    BY <1>1, <1>3, <1>r, <2>2, OtherSteps
  <2> QED
    BY <1>3, <2>1, <2>2, OtherSteps
<1>4. ASSUME NEW u \in Tasks, TaskStep(u) PROVE Counted(t)'
  <2>0. u # t => stage'[t] = stage[t]
    BY <1>4, CoroutineSteps DEF Moves
  <2>1. CASE Advance(u)
    BY <1>1, <1>r, <2>0, <2>1, AdvanceEffect, PausesAreEarned DEF OnlyStageChanges
  <2>2. CASE Invoke(u) \/ SaveResult(u) \/ SaveSkip(u)
    <3>1. results' = results /\ attempt' = attempt /\ stage'[u] # "backoff"
      BY <2>2 DEF Invoke, SaveResult, SaveSkip, Save, MoveTo
    <3> QED
      BY <1>1, <1>r, <2>0, <3>1
  <2>3. CASE Retry(u)
    <3>1. results' = results /\ attempt' = [attempt EXCEPT ![u] = @ + 1]
          /\ stage[u] = "backoff" /\ stage'[u] = "invoking"
      BY <2>3 DEF Retry, MoveTo
    <3>2. results[u] = "none"
      BY <3>1, <1>4, CoroutineSteps DEF StageFitsStatus, RecordsAgree, Unconcluded
    <3> QED
      BY <1>1, <1>r, <2>0, <3>1, <3>2
  <2>4. ASSUME NEW o \in {"skipped", "success", "failed"}, Conclusion(u, o)
        PROVE  Counted(t)'
    <3>1. /\ attempt' = attempt /\ results' = [results EXCEPT ![u] = o]
          /\ stage'[u] # "backoff"
      BY <2>4, ConclusionEffect
    <3>2. o = "failed" => attempt[u] = EffectiveRetries(u)
      BY <2>4 DEF Conclusion, FuncFails, SaveResultRaises, CarefulUse
    <3> QED
      BY <1>1, <1>r, <2>0, <3>1, <3>2
  <2> QED
    BY <1>4, <2>1, <2>2, <2>3, <2>4, CoroutineSteps
<1> QED
  BY <1>2, <1>3, <1>4 DEF Next

\* A task is FAILED after exactly 1 + retries attempts (patterns/retry.py:48).
THEOREM AttemptsAreCounted ==
  ASSUME CarefulUse  PROVE Spec => []AttemptsAreExhausted
<1>1. Init => AttemptInv
  BY RetriesAreCounted DEF Init, AttemptInv, AttemptsAreExhausted, NoResult
<1>2. IInv /\ AttemptInv /\ [Next]_vars => AttemptInv'
  BY AttemptStep
<1>3. AttemptInv => AttemptsAreExhausted
  BY DEF AttemptInv
<1> QED
  BY <1>1, <1>2, <1>3, Invariant, PTL DEF Spec

-----------------------------------------------------------------------------
(* The checkpoint *)

\* As CheckpointMatchesRun, between runs as well; and from a run's start, what
\* the store holds has reached the results.
CheckpointInv ==
  /\ \A t \in Tasks :
       results[t] # "none" /\ checkpoint[t] # "none" => checkpoint[t] = results[t]
  /\ ~NoRun => \A t \in Tasks : checkpoint[t] # "none" => results[t] = checkpoint[t]

LEMMA CheckpointStep ==
  ASSUME IInv, CarefulUse, ~Reexecutes, CheckpointInv, [Next]_vars
  PROVE  CheckpointInv'
<1> USE DEF IInv, TypeOK, CheckpointInv
<1>1. CASE UNCHANGED vars
  BY <1>1 DEF vars, NoRun
<1>2. CASE Execute \/ Resume \/ Restart
  <2>1. CASE Execute \/ Resume
    BY <2>1 DEF Execute, Resume, StartRun, NoResult
  <2>2. CASE Restart
    BY <2>2 DEF Restart, NoResult, NoRun, Active, Live
  <2> QED
    BY <1>2, <2>1, <2>2
<1>3. CASE RejectRun \/ ResetTasks \/ CancelRun \/ WakeToCancelled
  BY <1>3 DEF RejectRun, ResetTasks, CancelRun, WakeToCancelled, LoopWakes, NoRun, Active, Ended
<1>4. CASE BeginLoop \/ Wake \/ Poll
  <2>1. loop \in Active /\ UNCHANGED <<results, checkpoint>>
    BY <1>4 DEF BeginLoop, Wake, LoopWakes, Poll, Dispatch, Active
  <2> QED
    BY <2>1 DEF NoRun
<1>5. CASE EndRun
  BY <1>5 DEF EndRun, NoRun, Active, NoResult
<1>6. ASSUME NEW u \in Tasks, TaskStep(u) PROVE CheckpointInv'
  <2>0. ~NoRun
    BY <1>6, CoroutineSteps
  <2>1. CASE Advance(u) \/ Invoke(u) \/ Retry(u)
    <3>1. UNCHANGED <<results, checkpoint>>
      BY <2>1, AdvanceEffect DEF Invoke, Retry, OnlyStageChanges
    <3> QED
      BY <2>0, <3>1
  <2>2. CASE SaveResult(u) \/ SaveSkip(u)
    <3>1. /\ results' = results
          /\ checkpoint' = IF HasStore THEN [checkpoint EXCEPT ![u] = results[u]]
                                       ELSE checkpoint
      BY <2>2 DEF SaveResult, SaveSkip, Save
    <3> QED
      BY <2>0, <3>1
  <2>3. ASSUME NEW o \in {"skipped", "success", "failed"}, Conclusion(u, o), results[u] = "none"
        PROVE  CheckpointInv'
    <3>1. checkpoint' = checkpoint /\ results' = [results EXCEPT ![u] = o]
      BY <2>3, ConclusionEffect
    <3>2. checkpoint[u] = "none"
      BY <2>0, <2>3
    <3> QED
      BY <2>0, <3>1, <3>2
  <2> QED
    BY <1>6, <2>1, <2>2, <2>3, CoroutineSteps
<1> QED
  BY <1>1, <1>2, <1>3, <1>4, <1>5, <1>6 DEF Next, CallerStep, LoopStep

\* The checkpoint never says of a task what the run does not say, unless execute
\* starts over an older checkpoint (core/engine.py:155-163, Reexecutes).
THEOREM CheckpointIsTrue ==
  ASSUME CarefulUse, ~Reexecutes  PROVE Spec => []CheckpointMatchesRun
<1>1. Init => CheckpointInv
  BY DEF Init, CheckpointInv, NoResult
<1>2. IInv /\ CheckpointInv /\ [Next]_vars => CheckpointInv'
  BY CheckpointStep
<1>3. CheckpointInv => CheckpointMatchesRun
  BY DEF CheckpointInv, CheckpointMatchesRun
<1> QED
  BY <1>1, <1>2, <1>3, Invariant, PTL DEF Spec

-----------------------------------------------------------------------------
(* What a failure stops *)

\* As long as the loop has not been left by an exception, every coroutine's
\* future is pending in it; so none is left when it ends.
FuturesFit ==
  /\ loop \in Active \cup {"returned"} => \A t \in Tasks : stage[t] \in Live => t \in pending
  /\ loop \in {"starting", "polling", "ending", "returned"} => pending = {}

ContainmentInv == FuturesFit /\ FailureIsContained

\* When nothing is ready and nothing runs, a task without a result waits for
\* one that failed or has no result either.
LEMMA LeavingIsContained ==
  ASSUME IInv, loop \in Active, GetReadyTasks(sched, Tasks, dependsOn, status) = {},
         sched.running = {}, NEW t \in Tasks, results[t] = "none"
  PROVE  \E d \in dependsOn[t] : results[d] \in {"failed", "none"}
<1> USE DEF IInv, TypeOK
<1>1. ~NoRun /\ BuildsDag(Tasks, dependsOn)
  BY DEF NoRun, LoopFits
<1>2. status[t] = "pending" /\ t \notin sched.running \cup sched.failed \cup sched.completed
                                             \cup sched.skipped
  BY <1>1 DEF RecordsAgree, TaskStatus
<1>3. PICK d \in dependsOn[t] : d \notin sched.completed \cup sched.skipped
  BY <1>2 DEF GetReadyTasks, GetReadyNodes
<1>4. d \in Tasks
  BY <1>1, <1>3 DEF BuildsDag, AllDependenciesKnown
<1>5. status[d] \in {"pending", "running", "failed"}
  BY <1>1, <1>3, <1>4 DEF RecordsAgree, TaskStatus
<1> QED
  BY <1>1, <1>3, <1>4, <1>5 DEF RecordsAgree

LEMMA DispatchContainment ==
  ASSUME IInv, FuturesFit, NEW rest \in SUBSET Tasks, Dispatch(rest),
         loop \in {"starting", "waiting", "polling"},
         \A t \in Tasks : stage[t] \in Live => t \in rest
  PROVE  ContainmentInv'
<1> DEFINE ready == GetReadyTasks(sched, Tasks, dependsOn, status)
           leaves == rest \cup ready = {} /\ sched.running \cup ready = {}
<1> USE DEF IInv, TypeOK
<1>1. ~NoRun /\ loop \in Active /\ wfStatus = "running" /\ ready \subseteq Tasks
  BY ReadyAreTasks DEF NoRun, Active, LoopFits
<1>2. /\ stage' = [t \in Tasks |-> IF t \in ready THEN "created" ELSE stage[t]]
      /\ pending' = rest \cup ready
      /\ wfStatus' = IF ~leaves THEN wfStatus
                     ELSE IF sched.failed # {} THEN "failed" ELSE "success"
      /\ loop' \in {"ending", "polling", "waiting"} /\ (loop' = "ending" <=> leaves)
      /\ (loop' \in {"ending", "polling"} => rest \cup ready = {})
      /\ UNCHANGED <<dependsOn, results>>
  BY DEF Dispatch, MarkRunning, IsComplete, HasFailures, SchedulerType
<1>3. FuturesFit'
  BY <1>1, <1>2 DEF FuturesFit
<1>4. FailureIsContained'
  <2> SUFFICES ASSUME leaves, sched.failed # {} PROVE FailureIsContained'
    BY <1>1, <1>2 DEF FailureIsContained
  <2>1. ready = {} /\ sched.running = {}
    OBVIOUS
  <2>2. PICK t \in Tasks : t \in sched.failed
    BY DEF SchedulerType
  <2>3. results[t] = "failed"
    BY <1>1, <2>2 DEF RecordsAgree
  <2>4. \A u \in Tasks : results[u] = "none" =>
          \E d \in dependsOn[u] : results[d] \in {"failed", "none"}
    BY <1>1, <2>1, LeavingIsContained
  <2> QED
    BY <1>2, <2>3, <2>4 DEF FailureIsContained
<1> QED
  BY <1>3, <1>4 DEF ContainmentInv

LEMMA ContainmentStep ==
  ASSUME IInv, CarefulUse, ContainmentInv, [Next]_vars
  PROVE  ContainmentInv'
<1> USE DEF IInv, TypeOK, ContainmentInv
<1>1. CASE UNCHANGED vars
  BY <1>1 DEF vars, FuturesFit, FailureIsContained
<1>2. CASE Execute \/ Resume \/ Restart
  BY <1>2 DEF Execute, Resume, StartRun, Restart, FuturesFit, FailureIsContained, Active, Live
<1>3. CASE RejectRun \/ ResetTasks \/ CancelRun \/ WakeToCancelled
  BY <1>3 DEF RejectRun, ResetTasks, CancelRun, WakeToCancelled, FuturesFit,
              FailureIsContained, Active
<1>4. CASE BeginLoop \/ Poll
  <2>1. loop \in {"starting", "polling"} /\ Dispatch({})
    BY <1>4 DEF BeginLoop, Poll
  <2>2. \A t \in Tasks : stage[t] \in Live => t \in {}
    BY <2>1 DEF FuturesFit, Active
  <2> QED
    BY <2>1, <2>2, DispatchContainment
<1>5. CASE Wake
  <2>1. loop = "waiting" /\ Dispatch(pending \ FinishedFutures)
    BY <1>5 DEF Wake, LoopWakes
  <2>2. \A t \in Tasks : stage[t] \in Live => t \in pending \ FinishedFutures
    BY <2>1 DEF FuturesFit, Active, FinishedFutures, Live, Over
  <2> QED
    BY <2>1, <2>2, DispatchContainment
<1>6. CASE EndRun
  BY <1>6 DEF EndRun, FuturesFit, FailureIsContained, Active
<1>7. ASSUME NEW u \in Tasks, TaskStep(u) PROVE ContainmentInv'
  <2>1. /\ UNCHANGED <<dependsOn, wfStatus, loop, pending>>
        /\ \E s : Moves(u, s)
    BY <1>7, CoroutineSteps
  <2>2. loop \notin {"ending", "returned"}
    BY <2>1 DEF FuturesFit, Active, Moves
  <2>3. FuturesFit'
    BY <2>1, <2>2 DEF FuturesFit, Moves, Active
  <2> QED
    BY <2>1, <2>2, <2>3 DEF FailureIsContained
<1> QED
  BY <1>1, <1>2, <1>3, <1>4, <1>5, <1>6, <1>7 DEF Next, CallerStep, LoopStep

\* A failed run has a failed task, and the tasks it leaves without a result are
\* just those that a failed one holds back.
THEOREM FailureStopsNothingElse ==
  ASSUME CarefulUse  PROVE Spec => []FailureIsContained
<1>1. Init => ContainmentInv
  BY DEF Init, ContainmentInv, FuturesFit, FailureIsContained, Active, Live
<1>2. IInv /\ ContainmentInv /\ [Next]_vars => ContainmentInv'
  BY ContainmentStep
<1>3. ContainmentInv => FailureIsContained
  BY DEF ContainmentInv
<1> QED
  BY <1>1, <1>2, <1>3, Invariant, PTL DEF Spec
=============================================================================
