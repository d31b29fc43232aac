---------------------------- MODULE ServiceProofs ----------------------------
(***************************************************************************)
(* Theorems about Service, for any number of workflows, requests and jobs, *)
(* whichever the stores are.                                               *)
(***************************************************************************)
EXTENDS Service, TLAPS

-----------------------------------------------------------------------------
(* The steps by their effects *)

JobType == [stage : JobStages, w : Workflows, cancelled : BOOLEAN, empty : BOOLEAN]
RequestType == [stage : RequestStages, w : Workflows, job : Jobs \cup {NoJob}]

\* Job j comes to a stage, cancelled or not; the other jobs stay what they are.
Becomes(j, s, c) ==
  /\ job' \in [Jobs -> JobType]
  /\ job'[j].stage = s /\ job'[j].w = job[j].w /\ job'[j].cancelled = c
  /\ \A i \in Jobs \ {j} : job'[i] = job[i]

\* Request h comes to a stage and is about w.
Turns(h, s, w) ==
  /\ req' \in [Requests -> RequestType]
  /\ req'[h].stage = s /\ req'[h].w = w
  /\ s # "idle" => req'[h].job = req[h].job
  /\ \A g \in Requests \ {h} : req'[g] = req[g]

LEMMA JobRecord ==
  ASSUME NEW r \in JobType
  PROVE  /\ \A s \in JobStages :
              LET n == [r EXCEPT !.stage = s]
              IN n \in JobType /\ n.stage = s /\ n.w = r.w /\ n.cancelled = r.cancelled
         /\ \A s \in JobStages, e \in BOOLEAN :
              LET n == [r EXCEPT !.stage = s, !.empty = e]
              IN n \in JobType /\ n.stage = s /\ n.w = r.w /\ n.cancelled = r.cancelled
         /\ \A c \in BOOLEAN :
              LET n == [r EXCEPT !.cancelled = c]
              IN n \in JobType /\ n.stage = r.stage /\ n.w = r.w /\ n.cancelled = c
         /\ LET n == Done(r)
            IN n \in JobType /\ n.stage = "done" /\ n.w = r.w /\ n.cancelled = FALSE
  BY DEF JobType, Done, JobStages

LEMMA JobChange ==
  ASSUME TypeOK, NEW j \in Jobs, NEW s, NEW c, NEW n \in JobType,
         n.stage = s, n.w = job[j].w, n.cancelled = c,
         job' = [job EXCEPT ![j] = n]
  PROVE  Becomes(j, s, c)
  BY DEF Becomes, TypeOK, JobType

LEMMA JobMoves ==
  ASSUME TypeOK, NEW j \in Jobs, NEW s \in JobStages
  PROVE  /\ job' = [job EXCEPT ![j].stage = s] => Becomes(j, s, job[j].cancelled)
         /\ \A e \in BOOLEAN : job' = [job EXCEPT ![j].stage = s, ![j].empty = e] =>
              Becomes(j, s, job[j].cancelled)
         /\ job' = [job EXCEPT ![j] = Done(@)] => Becomes(j, "done", FALSE)
<1>1. job[j] \in JobType
  BY DEF TypeOK, JobType
<1>2. ASSUME job' = [job EXCEPT ![j].stage = s] PROVE Becomes(j, s, job[j].cancelled)
  <2> DEFINE n == [job[j] EXCEPT !.stage = s]
  <2>1. job' = [job EXCEPT ![j] = n]
    BY <1>2
  <2>2. n \in JobType /\ n.stage = s /\ n.w = job[j].w /\ n.cancelled = job[j].cancelled
    BY <1>1, JobRecord
  <2> HIDE DEF n
  <2> QED
    BY <2>1, <2>2, JobChange
<1>3. ASSUME NEW e \in BOOLEAN, job' = [job EXCEPT ![j].stage = s, ![j].empty = e]
      PROVE Becomes(j, s, job[j].cancelled)
  <2> DEFINE n == [job[j] EXCEPT !.stage = s, !.empty = e]
  <2>1. job' = [job EXCEPT ![j] = n]
    BY <1>3 DEF TypeOK
  <2>2. n \in JobType /\ n.stage = s /\ n.w = job[j].w /\ n.cancelled = job[j].cancelled
    BY <1>1, <1>3 DEF JobType
  <2> HIDE DEF n
  <2> QED
    BY <2>1, <2>2, JobChange
<1>4. ASSUME job' = [job EXCEPT ![j] = Done(@)] PROVE Becomes(j, "done", FALSE)
  BY <1>1, <1>4, JobRecord, JobChange
<1> QED
  BY <1>2, <1>3, <1>4

LEMMA RequestMoves ==
  ASSUME TypeOK, NEW h \in Requests, NEW s \in RequestStages, NEW w \in Workflows
  PROVE  /\ req' = [req EXCEPT ![h].stage = s, ![h].job = IF s = "idle" THEN NoJob ELSE @] =>
              Turns(h, s, req[h].w)
         /\ req' = [req EXCEPT ![h].stage = s, ![h].w = w] => Turns(h, s, w)
<1>1. ASSUME NEW r \in RequestType
      PROVE  /\ LET n == [r EXCEPT !.stage = s, !.job = IF s = "idle" THEN NoJob ELSE r.job]
                IN /\ n \in RequestType /\ n.stage = s /\ n.w = r.w
                   /\ s # "idle" => n.job = r.job
             /\ LET n == [r EXCEPT !.stage = s, !.w = w]
                IN n \in RequestType /\ n.stage = s /\ n.w = w /\ n.job = r.job
  BY DEF RequestType
<1>2. req[h] \in RequestType /\ req \in [Requests -> RequestType]
  BY DEF TypeOK, RequestType
<1>3. ASSUME req' = [req EXCEPT ![h].stage = s, ![h].job = IF s = "idle" THEN NoJob ELSE @]
      PROVE  Turns(h, s, req[h].w)
  <2>1. req' = [req EXCEPT ![h] = [req[h] EXCEPT !.stage = s,
                                                 !.job = IF s = "idle" THEN NoJob ELSE req[h].job]]
    BY <1>2, <1>3
  <2> QED
    BY <1>1, <1>2, <2>1 DEF Turns
<1>4. ASSUME req' = [req EXCEPT ![h].stage = s, ![h].w = w] PROVE Turns(h, s, w)
  <2>1. req' = [req EXCEPT ![h] = [req[h] EXCEPT !.stage = s, !.w = w]]
    BY <1>2, <1>4
  <2> QED
    BY <1>1, <1>2, <2>1 DEF Turns
<1> QED
  BY <1>3, <1>4

LEMMA StatusChange ==
  ASSUME TypeOK, NEW w \in Workflows, NEW s \in WorkflowStatus, UpdateStatus(w, s)
  PROVE  /\ status' \in [Workflows -> WorkflowStatus \cup {"absent"}]
         /\ status'[w] \in {s, "absent"}
         /\ \A v \in Workflows \ {w} : status'[v] = status[v]
  BY DEF TypeOK, UpdateStatus

\* A job goes on from one stage to another, and may note that it is running.
GoesOn(j) ==
  /\ job[j].stage # "done" /\ ~job[j].cancelled
  /\ \E s \in JobStages \ {"done", "created"} : Becomes(j, s, FALSE)
  /\ running' = running /\ req' = req /\ ghosts' = ghosts
  /\ turn' \in {Nobody, j} /\ backend' = backend
  /\ status' = status \/ UpdateStatus(job[j].w, "running")

\* It ends by itself: registered no more, with an end the store knows or not, or
\* with the CancelledError that came out of the engine.
Ends(j) ==
  /\ job[j].stage \in {"executing", "finishing", "failing"} /\ ~job[j].cancelled
  /\ Becomes(j, "done", FALSE)
  /\ running' = [running EXCEPT ![job[j].w] = NoJob]
  /\ req' = req /\ turn' = Nobody /\ backend' = backend /\ crossed' = crossed
  /\ \/ /\ \E s \in {"success", "failed"} : UpdateStatus(job[j].w, s)
        /\ unsettled' = unsettled /\ abandoned' = abandoned
     \/ /\ status' = status
        /\ \/ unsettled' = unsettled \cup {job[j].w} /\ abandoned' = abandoned
           \/ unsettled' = unsettled /\ abandoned' = abandoned \cup {job[j].w}

\* It is cancelled: registered no more unless it had not begun.
IsCancelled(j) ==
  /\ job[j].stage # "done" /\ job[j].cancelled
  /\ Becomes(j, "done", FALSE)
  /\ running' = IF job[j].stage = "created" THEN running
                ELSE [running EXCEPT ![job[j].w] = NoJob]
  /\ req' = req /\ turn' = turn /\ backend' = backend /\ ghosts' = ghosts
  /\ status' = status \/ \E s \in {"running", "success", "failed"} : UpdateStatus(job[j].w, s)

LEMMA JobSteps ==
  ASSUME TypeOK, NEW j \in Jobs
  PROVE  /\ JobStarts(j) \/ JobGets(j) \/ JobMarks(j) \/ JobSaves(j) => GoesOn(j)
         /\ EngineRaises(j) \/ JobStoreFails(j) => GoesOn(j)
         /\ \A e \in BOOLEAN : EngineReturns(j, e) => GoesOn(j)
         /\ JobFinishes(j) \/ JobRecordsFailure(j) \/ JobRecordFails(j) => Ends(j)
         /\ EngineCancelled(j) => Ends(j)
         /\ JobCancelled(j) => IsCancelled(j)
<1>1. job[j].cancelled \in BOOLEAN
  BY DEF TypeOK
<1> DEFINE Middle == JobStages \ {"done", "created"}
<1>2. ASSUME NEW s \in Middle, ~job[j].cancelled,
             \/ job' = [job EXCEPT ![j].stage = s]
             \/ \E e \in BOOLEAN : job' = [job EXCEPT ![j].stage = s, ![j].empty = e]
      PROVE  \E r \in Middle : Becomes(j, r, FALSE)
  <2>1. Becomes(j, s, job[j].cancelled)
    BY <1>2, JobMoves
  <2>2. Becomes(j, s, FALSE)
    BY <1>1, <1>2, <2>1 DEF Becomes
  <2> QED
    BY <2>2
<1>3. ASSUME JobStarts(j) \/ JobGets(j) \/ JobMarks(j) \/ JobSaves(j)
             \/ EngineRaises(j) \/ JobStoreFails(j)
      PROVE  GoesOn(j)
  <2>1. \E s \in Middle : job' = [job EXCEPT ![j].stage = s]
    BY <1>3 DEF JobStarts, JobGets, JobMarks, JobSaves, EngineRaises, JobStoreFails, JobGoesTo,
                JobStages, JobStoreCalls
  <2>2. ~job[j].cancelled /\ job[j].stage # "done"
    BY <1>3 DEF JobStarts, JobGets, JobMarks, JobSaves, EngineRaises, JobStoreFails, JobRuns,
                JobStoreCalls
  <2>3. \E r \in Middle : Becomes(j, r, FALSE)
    BY <1>2, <2>1, <2>2
  <2> QED
    BY <1>3, <2>2, <2>3 DEF JobStarts, JobGets, JobMarks, JobSaves, EngineRaises, JobStoreFails,
       JobGoesTo, GoesOn, ghosts
<1>4. ASSUME NEW e \in BOOLEAN, EngineReturns(j, e)
      PROVE  GoesOn(j)
  <2>1. \E r \in Middle : Becomes(j, r, FALSE)
    BY <1>2, <1>4 DEF EngineReturns, JobRuns, JobStages, JobStoreCalls
  <2> QED
    BY <1>4, <2>1 DEF EngineReturns, JobRuns, GoesOn, ghosts
<1>5. JobFinishes(j) \/ JobRecordsFailure(j) \/ JobRecordFails(j) \/ EngineCancelled(j) => Ends(j)
  BY <1>1, JobMoves DEF JobFinishes, JobRecordsFailure, JobRecordFails, EngineCancelled, JobRuns,
                        JobEnds, Ends, FinalStatus, JobStages, ghosts
<1>6. JobCancelled(j) => IsCancelled(j)
  BY <1>1, JobMoves DEF JobCancelled, IsCancelled, Live, FinalStatus, JobStages, ghosts
<1> QED
  BY <1>2, <1>3, <1>4, <1>5, <1>6

\* The steps of requests, by what they do to the request and to jobs.
LEMMA RequestSteps ==
  ASSUME TypeOK, NEW h \in Requests, NEW w \in Workflows, NEW s \in RequestStages
  PROVE  /\ RequestGoesTo(h, s) => Turns(h, s, req[h].w) /\ turn' \in {Nobody, h}
         /\ Arrives(h, w, s) => Turns(h, s, w) /\ turn' \in {Nobody, h}
  BY RequestMoves DEF RequestGoesTo, Arrives

\* A new job takes the place of one that is forgotten.
LEMMA NewJob ==
  ASSUME TypeOK, NEW h \in Requests, NEW j \in Jobs, ExecuteStarts(h, j)
  PROVE  /\ job' \in [Jobs -> JobType]
         /\ job'[j].stage = "created" /\ job'[j].w = req[h].w /\ job'[j].cancelled = FALSE
         /\ \A i \in Jobs \ {j} : job'[i] = job[i]
         /\ Turns(h, "idle", req[h].w) /\ turn' \in {Nobody, h}
  BY RequestSteps DEF ExecuteStarts, TypeOK, JobType, JobStages, RequestStages

\* A request for w waits for the job it has cancelled.
LEMMA CancelWaits ==
  ASSUME TypeOK, ServiceAssumption, NEW h \in Requests, NEW w \in Workflows,
         CancelWorkflow(h, w)
  PROVE  /\ running[w] \in Jobs
         /\ req' \in [Requests -> RequestType]
         /\ req'[h].stage = "waiting" /\ req'[h].w = w /\ req'[h].job = running[w]
         /\ \A g \in Requests \ {h} : req'[g] = req[g]
         /\ Becomes(running[w], job[running[w]].stage,
                    job[running[w]].cancelled \/ Live(running[w]))
<1>1. running[w] \in Jobs
  BY DEF CancelWorkflow, TypeOK
<1>2. job[running[w]] \in JobType
  BY <1>1 DEF TypeOK, JobType
<1> DEFINE c == job[running[w]].cancelled \/ Live(running[w])
<1>3. c \in BOOLEAN
  OBVIOUS
<1>4. job' = [job EXCEPT ![running[w]].cancelled = c]
  BY DEF CancelWorkflow
<1> HIDE DEF c
<1> DEFINE n == [job[running[w]] EXCEPT !.cancelled = c]
<1>5. n \in JobType /\ n.stage = job[running[w]].stage /\ n.w = job[running[w]].w /\ n.cancelled = c
  BY <1>2, <1>3 DEF JobType
<1>6. job' = [job EXCEPT ![running[w]] = n]
  BY <1>4
<1> HIDE DEF n
<1>7. Becomes(running[w], job[running[w]].stage, c)
  BY <1>1, <1>5, <1>6, JobChange
<1>8. /\ req' \in [Requests -> RequestType]
      /\ req'[h].stage = "waiting" /\ req'[h].w = w /\ req'[h].job = running[w]
      /\ \A g \in Requests \ {h} : req'[g] = req[g]
  BY <1>1 DEF CancelWorkflow, TypeOK, RequestType, RequestStages
<1> QED
  BY <1>1, <1>7, <1>8 DEF c

-----------------------------------------------------------------------------
(* Types *)

LEMMA JobStepTyped ==
  ASSUME ServiceAssumption, TypeOK, NEW j \in Jobs, GoesOn(j) \/ Ends(j) \/ IsCancelled(j)
  PROVE  TypeOK'
<1>1. job[j].w \in Workflows
  BY DEF TypeOK
<1>2. job' \in [Jobs -> JobType] /\ req' = req /\ backend' = backend
  BY DEF GoesOn, Ends, IsCancelled, Becomes
<1>3. status' \in [Workflows -> WorkflowStatus \cup {"absent"}]
  BY <1>1 DEF TypeOK, GoesOn, Ends, IsCancelled, UpdateStatus, WorkflowStatus
<1>4. /\ running' \in [Workflows -> Jobs \cup {NoJob}]
      /\ unsettled' \subseteq Workflows /\ abandoned' \subseteq Workflows /\ crossed' \subseteq Workflows
  BY <1>1 DEF TypeOK, GoesOn, Ends, IsCancelled, ghosts
<1>5. turn' \in Jobs \cup Requests \cup {Nobody}
  BY DEF TypeOK, GoesOn, Ends, IsCancelled
<1> QED
  BY <1>2, <1>3, <1>4, <1>5 DEF TypeOK, JobType

\* What the steps of requests do to the rest.
LEMMA RequestStepTyped ==
  ASSUME ServiceAssumption, TypeOK, NEW h \in Requests
  PROVE  /\ CreateSaves(h) \/ RequestFails(h) \/ ExecuteRefused(h) => TypeOK'
         /\ CancelResumes(h) \/ CancelRecords(h) \/ CancelFails(h) => TypeOK'
         /\ \A j \in Jobs : ExecuteStarts(h, j) => TypeOK'
         /\ \A w \in Workflows :
              CreateWorkflow(h, w) \/ ExecuteWorkflow(h, w) \/ CancelWorkflow(h, w) => TypeOK'
<1>1. req[h].w \in Workflows /\ \A s \in RequestStages : RequestGoesTo(h, s) =>
        req' \in [Requests -> RequestType] /\ turn' \in Jobs \cup Requests \cup {Nobody}
  BY RequestSteps DEF TypeOK, Turns
<1>2. \A w \in Workflows, s \in RequestStages : Arrives(h, w, s) =>
        req' \in [Requests -> RequestType] /\ turn' \in Jobs \cup Requests \cup {Nobody}
  BY RequestSteps DEF TypeOK, Turns
<1>3. CreateSaves(h) \/ RequestFails(h) \/ ExecuteRefused(h) => TypeOK'
  BY <1>1 DEF CreateSaves, RequestFails, ExecuteRefused, TypeOK, WorkflowStatus, RequestStages,
              RequestType, ghosts
<1>4. CancelResumes(h) \/ CancelRecords(h) \/ CancelFails(h) => TypeOK'
  BY <1>1 DEF CancelResumes, CancelRecords, CancelFails, UpdateStatus, TypeOK, WorkflowStatus,
              RequestStages, RequestType, ghosts
<1>5. ASSUME NEW j \in Jobs, ExecuteStarts(h, j) PROVE TypeOK'
  <2>1. job' \in [Jobs -> JobType] /\ req' \in [Requests -> RequestType] /\ turn' \in {Nobody, h}
    BY <1>5, NewJob DEF Turns
  <2> QED
    BY <1>1, <1>5, <2>1 DEF ExecuteStarts, Begins, TypeOK, JobType, RequestType
<1>6. \A w \in Workflows : CreateWorkflow(h, w) \/ ExecuteWorkflow(h, w) => TypeOK'
  BY <1>2 DEF CreateWorkflow, ExecuteWorkflow, TypeOK, RequestStages, RequestType, ghosts
<1>7. ASSUME NEW w \in Workflows, CancelWorkflow(h, w) PROVE TypeOK'
  <2>1. job' \in [Jobs -> JobType] /\ req' \in [Requests -> RequestType]
    BY <1>7, CancelWaits DEF Becomes
  <2> QED
    BY <1>7, <2>1 DEF CancelWorkflow, TypeOK, JobType, RequestType, ghosts
<1> QED
  BY <1>3, <1>4, <1>5, <1>6, <1>7

LEMMA TypeStep == ServiceAssumption /\ TypeOK /\ [Next]_vars => TypeOK'
<1> SUFFICES ASSUME ServiceAssumption, TypeOK, [Next]_vars PROVE TypeOK'
  OBVIOUS
<1>1. Restart => TypeOK'
  <2> SUFFICES ASSUME Restart PROVE TypeOK'
    OBVIOUS
  <2>1. job' \in [Jobs -> JobType]
    <3>1. ASSUME NEW i \in Jobs PROVE Done(job[i]) \in JobType
      <4>1. job[i] \in JobType
        BY DEF TypeOK, JobType
      <4> QED
        BY <4>1, JobRecord
    <3> QED
      BY <3>1 DEF Restart
  <2>2. req' \in [Requests -> RequestType]
    <3>1. ASSUME NEW r \in RequestType
          PROVE  [r EXCEPT !.stage = "idle", !.job = NoJob] \in RequestType
      BY DEF RequestType, RequestStages
    <3> QED
      BY <3>1 DEF Restart, TypeOK, RequestType
  <2> QED
    BY <2>1, <2>2 DEF TypeOK, Restart, JobType, RequestType
<1>2. UNCHANGED vars => TypeOK'
  BY DEF TypeOK, vars, ghosts
<1>3. ASSUME NEW j \in Jobs, JobStep(j) \/ JobFailure(j) PROVE TypeOK'
  BY <1>3, JobSteps, JobStepTyped DEF JobStep, JobFailure
<1> QED
  BY <1>1, <1>2, <1>3, RequestStepTyped DEF Next, RequestStep, RequestFailure

-----------------------------------------------------------------------------
(* Jobs and requests agree *)

Coherent == LiveIsTracked /\ TrackedIsLive /\ CancelledIsAwaited /\ RecordingIsAlone

LEMMA JobStepCoherent ==
  ASSUME ServiceAssumption, TypeOK, Coherent, NEW j \in Jobs,
         GoesOn(j) \/ Ends(j) \/ IsCancelled(j)
  PROVE  Coherent'
<1> USE DEF Coherent, Live
<1>1. req' = req /\ \A i \in Jobs : job'[i].w = job[i].w
  BY DEF GoesOn, Ends, IsCancelled, Becomes
<1>2. /\ job[j].w \in Workflows /\ Live(j) /\ crossed' = crossed
      /\ job[j].w \notin crossed => running[job[j].w] = j
  BY DEF GoesOn, Ends, IsCancelled, TypeOK, LiveIsTracked, ghosts
<1>3. \A i \in Jobs : Live(i)' => Live(i) /\ job'[i].cancelled = job[i].cancelled
  BY DEF GoesOn, Ends, IsCancelled, Becomes, TypeOK
<1>4. \A w \in Workflows : running'[w] = running[w] \/ (w = job[j].w /\ running'[w] = NoJob /\ ~Live(j)')
  BY <1>2 DEF GoesOn, Ends, IsCancelled, Becomes, TypeOK
<1>5. LiveIsTracked'
  BY <1>1, <1>2, <1>3, <1>4 DEF LiveIsTracked, TypeOK
<1>6. TrackedIsLive'
  <2> SUFFICES ASSUME NEW w \in Workflows, running'[w] # NoJob
               PROVE  /\ job'[running'[w]].w = w
                      /\ w \notin crossed =>
                           Live(running[w])' \/ Cancelling(w)' \/ w \in unsettled'
    BY <1>1, <1>2, <1>4 DEF TrackedIsLive
  <2>1. running'[w] = running[w] /\ running[w] \in Jobs /\ job'[running[w]].w = w
    BY <1>1, <1>4 DEF TrackedIsLive, TypeOK
  <2>2. Cancelling(w)' <=> Cancelling(w)
    BY <1>1 DEF Cancelling, Handling
  <2>3. unsettled \subseteq unsettled'
    BY DEF GoesOn, Ends, IsCancelled, ghosts
  <2>4. CASE running[w] # j
    BY <2>1, <2>2, <2>3, <2>4 DEF TrackedIsLive, GoesOn, Ends, IsCancelled, Becomes
  <2>5. CASE running[w] = j /\ GoesOn(j)
    BY <2>1, <2>5 DEF GoesOn, Becomes
  <2>6. CASE running[w] = j /\ Ends(j)
    BY <1>1, <2>1, <2>6 DEF Ends, TypeOK
  <2>7. CASE running[w] = j /\ IsCancelled(j)
    <3>1. PICK h \in Requests : req[h].stage = "waiting" /\ req[h].job = j
      BY <1>2, <2>7 DEF IsCancelled, CancelledIsAwaited
    <3>2. req[h].w = w
      BY <1>1, <2>1, <2>7, <3>1 DEF RecordingIsAlone
    <3> QED
      BY <2>1, <2>2, <3>1, <3>2 DEF Cancelling, Handling
  <2> QED
    BY <2>4, <2>5, <2>6, <2>7
<1>7. CancelledIsAwaited'
  BY <1>1, <1>3 DEF CancelledIsAwaited
<1>8. RecordingIsAlone'
  BY <1>1, <1>2, <1>3 DEF RecordingIsAlone, TypeOK
<1> QED
  BY <1>5, <1>6, <1>7, <1>8

\* The steps of a request that no job, and no registration, is touched by.
LEMMA QuietRequestCoherent ==
  ASSUME ServiceAssumption, TypeOK, Coherent, NEW h \in Requests,
         \/ CreateSaves(h) \/ RequestFails(h) \/ ExecuteRefused(h)
         \/ \E w \in Workflows : CreateWorkflow(h, w) \/ ExecuteWorkflow(h, w)
  PROVE  Coherent'
<1>1. /\ job' = job /\ running' = running /\ ghosts' = ghosts
      /\ req[h].stage \in {"idle", "creating", "looking"}
      /\ \E w \in Workflows, s \in {"idle", "creating", "looking"} : Turns(h, s, w)
  <2>1. CASE CreateSaves(h) \/ RequestFails(h) \/ ExecuteRefused(h)
    <3>1. RequestGoesTo(h, "idle") /\ req[h].w \in Workflows
      BY <2>1 DEF CreateSaves, RequestFails, ExecuteRefused, TypeOK
    <3>2. Turns(h, "idle", req[h].w)
      BY <3>1, RequestSteps DEF RequestStages
    <3>3. /\ job' = job /\ running' = running /\ ghosts' = ghosts
          /\ req[h].stage \in {"idle", "creating", "looking"}
      BY <2>1 DEF CreateSaves, RequestFails, ExecuteRefused
    <3> QED
      BY <3>1, <3>2, <3>3
  <2>2. CASE \E w \in Workflows : CreateWorkflow(h, w) \/ ExecuteWorkflow(h, w)
    <3>1. PICK w \in Workflows : CreateWorkflow(h, w) \/ ExecuteWorkflow(h, w)
      BY <2>2
    <3>2. \A s \in {"creating", "looking"} : Arrives(h, w, s) =>
            Turns(h, s, w) /\ req[h].stage = "idle"
      BY RequestSteps, ZenonT(60) DEF RequestStages, Arrives
    <3>3. job' = job /\ running' = running /\ ghosts' = ghosts
      BY <3>1 DEF CreateWorkflow, ExecuteWorkflow
    <3>4. Arrives(h, w, "creating") \/ Arrives(h, w, "looking")
      BY <3>1 DEF CreateWorkflow, ExecuteWorkflow
    <3> QED
      BY <3>2, <3>3, <3>4
  <2> QED
    BY <2>1, <2>2
<1>2. /\ req'[h].stage \in {"idle", "creating", "looking"}
      /\ \A g \in Requests \ {h} : req'[g] = req[g]
  BY <1>1 DEF Turns
<1>3. \A w \in Workflows : Cancelling(w)' <=> Cancelling(w)
  BY <1>1, <1>2 DEF Cancelling, Handling
<1>4. LiveIsTracked' /\ TrackedIsLive'
  BY <1>1, <1>3 DEF Coherent, LiveIsTracked, TrackedIsLive, Live, ghosts
<1>5. CancelledIsAwaited'
  BY <1>1, <1>2 DEF Coherent, CancelledIsAwaited, Live
<1>6. RecordingIsAlone'
  BY <1>1, <1>2 DEF Coherent, RecordingIsAlone, Live, ghosts
<1> QED
  BY <1>4, <1>5, <1>6 DEF Coherent

\* A new job is started for a workflow that has none registered.  If it is not
\* crossed afterwards, nobody was cancelling it and no job of it was left.
LEMMA StartCoherent ==
  ASSUME ServiceAssumption, TypeOK, Coherent, NEW h \in Requests, NEW j \in Jobs,
         ExecuteStarts(h, j)
  PROVE  Coherent'
<1> DEFINE v == req[h].w
<1>1. /\ job'[j].stage = "created" /\ job'[j].w = v /\ job'[j].cancelled = FALSE
      /\ \A i \in Jobs \ {j} : job'[i] = job[i]
      /\ req'[h].stage = "idle" /\ \A g \in Requests \ {h} : req'[g] = req[g]
  BY NewJob DEF Turns
<1>2. /\ req[h].stage = "looking" /\ v \in Workflows /\ running[v] = NoJob
      /\ running' = [running EXCEPT ![v] = j]
      /\ unsettled' = unsettled \ {v}
      /\ ~Live(j) /\ \A w \in Workflows : running[w] # j
      /\ \A g \in Requests : req[g].job # j
  BY DEF ExecuteStarts, Forgotten, Begins, TypeOK
<1>3. /\ \A w \in Workflows \ {v} : w \in crossed' <=> w \in crossed
      /\ v \notin crossed' => ~Cancelling(v) /\ (Executing(v) => v \notin crossed)
  BY DEF ExecuteStarts, Begins
<1> HIDE DEF v
<1>4. v \notin crossed' => \A i \in Jobs : Live(i) => job[i].w # v
  BY <1>2, <1>3 DEF Coherent, LiveIsTracked, ServiceAssumption, Executing
<1>5. LiveIsTracked'
  BY <1>1, <1>2, <1>3, <1>4 DEF Coherent, LiveIsTracked, Live, TypeOK
<1>6. TrackedIsLive'
  <2> SUFFICES ASSUME NEW w \in Workflows, running'[w] # NoJob
               PROVE  /\ job'[running'[w]].w = w
                      /\ w \notin crossed' =>
                           Live(running[w])' \/ Cancelling(w)' \/ w \in unsettled'
    BY DEF TrackedIsLive
  <2>1. CASE w = v
    BY <1>1, <1>2, <2>1 DEF TypeOK, Live
  <2>2. CASE w # v
    <3>1. /\ running'[w] = running[w] /\ running[w] \in Jobs \ {j}
          /\ w \in unsettled => w \in unsettled'
          /\ job'[running[w]] = job[running[w]]
      BY <1>1, <1>2, <2>2 DEF TypeOK
    <3>2. Cancelling(w) => Cancelling(w)'
      BY <1>1, <1>2 DEF Cancelling, Handling
    <3> QED
      BY <1>3, <2>2, <3>1, <3>2 DEF Coherent, TrackedIsLive, Live
  <2> QED
    BY <2>1, <2>2
<1>7. CancelledIsAwaited'
  BY <1>1, <1>2 DEF Coherent, CancelledIsAwaited, Live
<1>8. RecordingIsAlone'
  <2> SUFFICES ASSUME NEW g \in Requests \ {h}, req[g].stage \in {"waiting", "recording"}
               PROVE  /\ req[g].job \in Jobs /\ job'[req[g].job].w = req[g].w
                      /\ req[g].stage = "recording" => ~Live(req[g].job)'
                      /\ req[g].w \notin crossed' =>
                           \A i \in Jobs : Live(i)' /\ job'[i].w = req[g].w => i = req[g].job
    BY <1>1 DEF RecordingIsAlone, Live
  <2>1. req[g].w = v => v \in crossed'
    BY <1>3 DEF Cancelling, Handling
  <2>2. req[g].job \in Jobs \ {j} /\ job'[req[g].job] = job[req[g].job]
    BY <1>1, <1>2 DEF Coherent, RecordingIsAlone
  <2>3. \A i \in Jobs : Live(i)' /\ job'[i].w = req[g].w /\ req[g].w # v =>
          Live(i) /\ job[i].w = req[g].w
    BY <1>1 DEF Live
  <2>4. req[g].w \in Workflows
    BY DEF TypeOK
  <2>5. /\ job[req[g].job].w = req[g].w
        /\ req[g].stage = "recording" => ~Live(req[g].job)
        /\ req[g].w \notin crossed =>
             \A i \in Jobs : Live(i) /\ job[i].w = req[g].w => i = req[g].job
    BY DEF Coherent, RecordingIsAlone
  <2>6. req[g].w \notin crossed' => req[g].w # v /\ req[g].w \notin crossed
    BY <1>3, <2>1, <2>4
  <2>7. req[g].stage = "recording" => ~Live(req[g].job)'
    BY <1>1, <2>2, <2>5 DEF Live
  <2> QED
    BY <2>2, <2>3, <2>5, <2>6, <2>7
<1> QED
  BY <1>5, <1>6, <1>7, <1>8 DEF Coherent

\* A job is cancelled by the request that then waits for it.
LEMMA CancelCoherent ==
  ASSUME ServiceAssumption, TypeOK, Coherent, NEW h \in Requests,
         NEW w \in Workflows, CancelWorkflow(h, w)
  PROVE  Coherent'
<1> DEFINE j == running[w]
<1>1. /\ j \in Jobs /\ running' = running /\ unsettled' = unsettled /\ crossed' = crossed
      /\ req[h].stage = "idle"
  BY CancelWaits DEF CancelWorkflow, ghosts
<1>2. /\ req'[h].stage = "waiting" /\ req'[h].w = w /\ req'[h].job = j
      /\ \A g \in Requests \ {h} : req'[g] = req[g]
  BY CancelWaits
<1>3. /\ \A i \in Jobs : job'[i].stage = job[i].stage /\ job'[i].w = job[i].w
      /\ \A i \in Jobs \ {j} : job'[i] = job[i]
  BY <1>1, CancelWaits DEF Becomes
<1> HIDE DEF j
<1>4. \A i \in Jobs : Live(i)' <=> Live(i)
  BY <1>3 DEF Live
<1>5. w \notin crossed => \A i \in Jobs : Live(i) /\ job[i].w = w => i = j
  BY DEF Coherent, LiveIsTracked, j
<1>6. job[j].w = w
  BY <1>1, ServiceAssumption DEF Coherent, TrackedIsLive, j
<1>7. LiveIsTracked'
  BY <1>1, <1>3, <1>4 DEF Coherent, LiveIsTracked
<1>8. TrackedIsLive'
  BY <1>1, <1>2, <1>3, <1>4 DEF Coherent, TrackedIsLive, Cancelling, Handling, TypeOK
<1>9. CancelledIsAwaited'
  BY <1>1, <1>2, <1>3, <1>4 DEF Coherent, CancelledIsAwaited
<1>10. RecordingIsAlone'
  BY <1>1, <1>2, <1>3, <1>4, <1>5, <1>6 DEF Coherent, RecordingIsAlone
<1> QED
  BY <1>7, <1>8, <1>9, <1>10 DEF Coherent

\* The job has ended and the cancellation is recorded, or cannot be.
LEMMA RecordCoherent ==
  ASSUME ServiceAssumption, TypeOK, Coherent, NEW h \in Requests,
         CancelResumes(h) \/ CancelRecords(h) \/ CancelFails(h)
  PROVE  Coherent'
<1>1. /\ job' = job /\ crossed' = crossed /\ \A g \in Requests \ {h} : req'[g] = req[g]
      /\ req'[h].stage = (IF req[h].stage = "waiting" THEN "recording" ELSE "idle")
      /\ req'[h].w = req[h].w /\ req[h].w \in Workflows
      /\ req[h].stage \in {"waiting", "recording"}
  BY RequestSteps DEF CancelResumes, CancelRecords, CancelFails, RequestStages, TypeOK, Turns, ghosts
<1>2. CASE CancelResumes(h)
  <2>1. /\ ~Live(req[h].job) /\ req[h].stage = "waiting"
        /\ running' = running /\ unsettled' = unsettled
        /\ req'[h].job = req[h].job
    BY <1>2, RequestSteps DEF CancelResumes, RequestStages, TypeOK, Turns, ghosts
  <2>2. \A w \in Workflows : Cancelling(w)' <=> Cancelling(w)
    BY <1>1, <2>1 DEF Cancelling, Handling
  <2>3. LiveIsTracked' /\ TrackedIsLive'
    BY <1>1, <2>1, <2>2 DEF Coherent, LiveIsTracked, TrackedIsLive, Live
  <2>4. CancelledIsAwaited'
    BY <1>1, <2>1 DEF Coherent, CancelledIsAwaited, Live
  <2>5. RecordingIsAlone'
    BY <1>1, <2>1 DEF Coherent, RecordingIsAlone, Live
  <2> QED
    BY <2>3, <2>4, <2>5 DEF Coherent
<1>3. CASE CancelRecords(h) \/ CancelFails(h)
  <2>1. /\ req[h].stage = "recording"
        /\ \/ running' = running /\ unsettled' = unsettled \cup {req[h].w}
           \/ /\ running' = [running EXCEPT ![req[h].w] = NoJob]
              /\ unsettled' = unsettled \ {req[h].w}
    BY <1>3 DEF CancelRecords, CancelFails
  <2>2. req[h].w \notin crossed => \A i \in Jobs : Live(i) => job[i].w # req[h].w
    BY <2>1 DEF Coherent, RecordingIsAlone
  <2>3. LiveIsTracked'
    BY <1>1, <2>1, <2>2 DEF Coherent, LiveIsTracked, Live, TypeOK
  <2>4. TrackedIsLive'
    BY <1>1, <2>1 DEF Coherent, TrackedIsLive, Live, Cancelling, Handling, TypeOK
  <2>5. CancelledIsAwaited'
    BY <1>1, <2>1 DEF Coherent, CancelledIsAwaited, Live
  <2>6. RecordingIsAlone'
    BY <1>1, <2>1 DEF Coherent, RecordingIsAlone, Live
  <2> QED
    BY <2>3, <2>4, <2>5, <2>6 DEF Coherent
<1> QED
  BY <1>2, <1>3

LEMMA RestartCoherent == TypeOK /\ Restart => Coherent'
<1> SUFFICES ASSUME TypeOK, Restart PROVE Coherent'
  OBVIOUS
<1>1. \A i \in Jobs : job'[i].stage = "done"
  BY DEF Restart, Done, TypeOK
<1>2. \A h \in Requests : req'[h].stage = "idle"
  BY DEF Restart, TypeOK
<1>3. \A w \in Workflows : running'[w] = NoJob
  BY DEF Restart
<1> QED
  BY <1>1, <1>2, <1>3 DEF Coherent, LiveIsTracked, TrackedIsLive, CancelledIsAwaited,
     RecordingIsAlone, Live

LEMMA CoherentStep ==
  ASSUME ServiceAssumption, TypeOK, Coherent, [Next]_vars
  PROVE  Coherent'
<1>1. CASE UNCHANGED vars
  BY <1>1 DEF vars, Coherent, LiveIsTracked, TrackedIsLive, CancelledIsAwaited, RecordingIsAlone,
              Live, Cancelling, Handling, ghosts
<1>2. ASSUME NEW j \in Jobs, JobStep(j) \/ JobFailure(j) PROVE Coherent'
  BY <1>2, JobSteps, JobStepCoherent DEF JobStep, JobFailure
<1>3. ASSUME NEW h \in Requests,
             \/ RequestStep(h) \/ RequestFailure(h)
             \/ \E w \in Workflows :
                  CreateWorkflow(h, w) \/ ExecuteWorkflow(h, w) \/ CancelWorkflow(h, w)
      PROVE  Coherent'
  BY <1>3, QuietRequestCoherent, StartCoherent, CancelCoherent, RecordCoherent
     DEF RequestStep, RequestFailure
<1> QED
  BY <1>1, <1>2, <1>3, RestartCoherent DEF Next

\* _running_workflows tells exactly which workflows are being executed or
\* cancelled, for any number of requests, through failing stores, cancellations
\* and restarts, except where an execution was started while a cancellation was
\* being handled (api/routes.py:263-309).
THEOREM Invariant == Spec => []ServiceInv
<1>1. Init => ServiceInv
  <2> SUFFICES ASSUME Init PROVE ServiceInv
    OBVIOUS
  <2>1. \A j \in Jobs : job[j] \in JobType /\ job[j].stage = "done"
    <3>1. \A w \in Workflows :
            LET r == [stage |-> "done", w |-> w, cancelled |-> FALSE, empty |-> FALSE]
            IN r \in JobType /\ r.stage = "done"
      BY DEF JobType, JobStages
    <3> QED
      BY <3>1 DEF Init
  <2>2. \A h \in Requests : req[h] \in RequestType /\ req[h].stage = "idle"
    BY <2>1 DEF Init, RequestType, RequestStages, JobType
  <2>3. TypeOK
    BY <2>1, <2>2 DEF Init, TypeOK, JobType, RequestType
  <2> QED
    BY <2>1, <2>2, <2>3 DEF Init, ServiceInv, LiveIsTracked, TrackedIsLive, CancelledIsAwaited,
       RecordingIsAlone, Live
<1>2. ServiceInv /\ [Next]_vars => ServiceInv'
  BY ServiceAssumption, TypeStep, CoherentStep DEF ServiceInv, Coherent
<1> QED
  BY <1>1, <1>2, PTL DEF Spec

\* When a workflow is marked CANCELLED the job the request has cancelled is over,
\* and every job of the workflow is unless one was started while the cancellation
\* was being handled (api/routes.py:296-309).
THEOREM CancelStops == Spec => CancelMeansStopped
<1>1. ServiceInv /\ [Next]_vars =>
        \A h \in Requests : CancelRecords(h) =>
          /\ ~Live(req[h].job)
          /\ Executing(req[h].w) => req[h].w \in crossed
  <2> SUFFICES ASSUME ServiceInv, NEW h \in Requests, req[h].stage = "recording"
               PROVE  ~Live(req[h].job) /\ (Executing(req[h].w) => req[h].w \in crossed)
    BY DEF CancelRecords
  <2> QED
    BY DEF ServiceInv, RecordingIsAlone, Executing
<1> QED
  BY <1>1, Invariant, PTL DEF Spec, CancelMeansStopped

LEMMA RunningStep ==
  ASSUME ServiceInv, RunningIsTrue, [Next]_vars
  PROVE  RunningIsTrue'
<1> DEFINE Excused(w) ==
  Executing(w) \/ Cancelling(w) \/ w \in unsettled \/ w \in abandoned
<1> USE DEF ServiceInv, Executing, Cancelling
<1>1. ASSUME NEW j \in Jobs, GoesOn(j) \/ Ends(j) \/ IsCancelled(j)
      PROVE  RunningIsTrue'
  <2> SUFFICES ASSUME NEW w \in Workflows, status'[w] = "running" PROVE Excused(w)'
    BY DEF RunningIsTrue
  <2>1. req' = req /\ unsettled \subseteq unsettled' /\ abandoned \subseteq abandoned'
    BY <1>1 DEF GoesOn, Ends, IsCancelled, ghosts
  <2>2. Cancelling(w) => Excused(w)'
    BY <2>1 DEF Handling
  <2>3. CASE w # job[j].w
    <3>1. status[w] = "running"
      BY <1>1, <2>3 DEF GoesOn, Ends, IsCancelled, UpdateStatus, TypeOK
    <3>2. Excused(w)
      BY <3>1 DEF RunningIsTrue
    <3> QED
      BY <1>1, <2>1, <2>2, <2>3, <3>2 DEF GoesOn, Ends, IsCancelled, Becomes, Live
  <2>4. CASE w = job[j].w /\ GoesOn(j)
    BY <2>4 DEF GoesOn, Becomes, Live
  <2>5. CASE w = job[j].w /\ Ends(j)
    BY <2>5 DEF Ends, UpdateStatus, TypeOK
  <2>6. CASE w = job[j].w /\ IsCancelled(j)
    <3>1. PICK h \in Requests : req[h].stage = "waiting" /\ req[h].job = j
      BY <2>6 DEF IsCancelled, CancelledIsAwaited, Live
    <3>2. req[h].w = w
      BY <2>6, <3>1 DEF RecordingIsAlone
    <3> QED
      BY <2>2, <3>1, <3>2 DEF Handling
  <2> QED
    BY <1>1, <2>3, <2>4, <2>5, <2>6
<1>2. ASSUME NEW h \in Requests,
             \/ CreateSaves(h) \/ RequestFails(h) \/ ExecuteRefused(h)
             \/ \E w \in Workflows : CreateWorkflow(h, w) \/ ExecuteWorkflow(h, w)
      PROVE  RunningIsTrue'
  <2>1. /\ job' = job /\ unsettled' = unsettled /\ abandoned' = abandoned
        /\ req[h].stage \notin {"waiting", "recording"}
        /\ \A g \in Requests \ {h} : req'[g] = req[g]
        /\ \A w \in Workflows : status'[w] = "running" => status[w] = "running"
    BY <1>2 DEF CreateSaves, RequestFails, ExecuteRefused, CreateWorkflow, ExecuteWorkflow,
       RequestGoesTo, Arrives, TypeOK, ghosts
  <2> QED
    BY <2>1 DEF RunningIsTrue, Handling, Live
<1>3. ASSUME NEW h \in Requests, NEW j \in Jobs, ExecuteStarts(h, j)
      PROVE  RunningIsTrue'
  <2>1. /\ job'[j].stage = "created" /\ job'[j].w = req[h].w
        /\ \A i \in Jobs \ {j} : job'[i] = job[i]
        /\ \A g \in Requests \ {h} : req'[g] = req[g]
    BY <1>3, NewJob DEF Turns
  <2>2. /\ ~Live(j) /\ req[h].stage = "looking"
        /\ status' = status
        /\ unsettled' = unsettled \ {req[h].w} /\ abandoned' = abandoned \ {req[h].w}
    BY <1>3 DEF ExecuteStarts, Forgotten, Begins
  <2> QED
    BY <2>1, <2>2 DEF RunningIsTrue, Handling, Live
<1>4. ASSUME NEW h \in Requests, NEW v \in Workflows, CancelWorkflow(h, v)
      PROVE  RunningIsTrue'
  <2>1. /\ \A i \in Jobs : job'[i].stage = job[i].stage /\ job'[i].w = job[i].w
        /\ \A g \in Requests \ {h} : req'[g] = req[g]
    BY <1>4, CancelWaits, ServiceAssumption DEF Becomes
  <2>2. /\ req[h].stage = "idle" /\ status' = status
        /\ unsettled' = unsettled /\ abandoned' = abandoned
    BY <1>4 DEF CancelWorkflow, ghosts
  <2> QED
    BY <2>1, <2>2 DEF RunningIsTrue, Handling, Live
<1>5. ASSUME NEW h \in Requests, CancelResumes(h)
      PROVE  RunningIsTrue'
  <2>1. /\ req'[h].stage = "recording" /\ req'[h].w = req[h].w
        /\ \A g \in Requests \ {h} : req'[g] = req[g]
    BY <1>5, RequestSteps DEF CancelResumes, RequestStages, TypeOK, Turns
  <2> QED
    BY <1>5, <2>1 DEF CancelResumes, RunningIsTrue, Handling, Live, ghosts
<1>6. ASSUME NEW h \in Requests, CancelRecords(h) \/ CancelFails(h)
      PROVE  RunningIsTrue'
  <2>1. /\ job' = job /\ \A g \in Requests \ {h} : req'[g] = req[g]
        /\ unsettled \ {req[h].w} \subseteq unsettled'
        /\ abandoned \ {req[h].w} \subseteq abandoned'
        /\ req[h].w \in unsettled' \/ status'[req[h].w] # "running"
        /\ \A w \in Workflows \ {req[h].w} : status'[w] = status[w]
    BY <1>6 DEF CancelRecords, CancelFails, RequestGoesTo, UpdateStatus, TypeOK
  <2> QED
    BY <2>1 DEF RunningIsTrue, Handling, Live
<1>7. CASE Restart
  BY <1>7 DEF Restart, RunningIsTrue
<1>8. CASE UNCHANGED vars
  BY <1>8 DEF vars, RunningIsTrue, Handling, Live, ghosts
<1>9. ASSUME NEW j \in Jobs, JobStep(j) \/ JobFailure(j) PROVE RunningIsTrue'
  BY <1>1, <1>9, JobSteps DEF JobStep, JobFailure
<1> QED
  BY <1>2, <1>3, <1>4, <1>5, <1>6, <1>7, <1>8, <1>9 DEF Next, RequestStep, RequestFailure

\* A workflow is shown RUNNING only while it is executed or being cancelled,
\* unless the store failed when its end was to be told, the process ended, or a
\* CancelledError came out of the engine (api/routes.py:213-244).
THEOREM RunningIsShown == Spec => []RunningIsTrue
<1>1. Init => RunningIsTrue
  BY DEF Init, RunningIsTrue
<1>2. ServiceInv /\ RunningIsTrue /\ [Next]_vars => RunningIsTrue'
  BY RunningStep
<1> QED
  BY <1>1, <1>2, Invariant, PTL DEF Spec
=============================================================================
