------------------------- MODULE JobPipelineProofs -------------------------
(***************************************************************************)
(* Proofs about JobPipeline, for any jobs, workers, capacities and bounds. *)
(***************************************************************************)
EXTENDS JobPipeline, TLAPS

-----------------------------------------------------------------------------
(* Facts about the operators the actions are built from.                   *)

\* A transaction keeps both tables in their types, touches only its job, and
\* in it only the attempt that is current afterwards.
LEMMA WriteEffect ==
  ASSUME job \in [Jobs -> JobRow], att \in [Jobs -> [Attempts -> AttemptRow]],
         NEW j \in Jobs, NEW row \in JobRow, NEW a \in AttemptRow, Write(j, row, a)
  PROVE  /\ job' \in [Jobs -> JobRow]
         /\ att' \in [Jobs -> [Attempts -> AttemptRow]]
         /\ job'[j] = row
         /\ att'[j][row.cur] = a
         /\ \A c \in Attempts : c # row.cur => att'[j][c] = att[j][c]
         /\ \A k \in Jobs : k # j => job'[k] = job[k] /\ att'[k] = att[k]
<1>1. row.cur \in Attempts
  BY DEF JobRow
<1>. QED
  BY <1>1 DEF Write

RowTypes == job \in [Jobs -> JobRow] /\ att \in [Jobs -> [Attempts -> AttemptRow]]

\* What a transaction does to the tables: job j is at st/sta with deferral count
\* d in attempt c, its other attempts and all other jobs are as before.
Edit(j, st, sta, d, c) ==
  /\ RowTypes'
  /\ job'[j].stage = st /\ job'[j].state = sta /\ job'[j].defer = d /\ job'[j].cur = c
  /\ att'[j][c].stage = st /\ att'[j][c].state = sta /\ att'[j][c].defer = d
  /\ \A b \in Attempts : b # c => att'[j][b] = att[j][b]
  /\ \A k \in Jobs : k # j => job'[k] = job[k] /\ att'[k] = att[k]

\* The current attempt of a job is a row.
LEMMA CurrentAttemptType ==
  ASSUME RowTypes, NEW j \in Jobs
  PROVE  job[j] \in JobRow /\ job[j].cur \in Attempts /\ CurrentAttempt(j) \in AttemptRow
<1>1. job[j] \in JobRow /\ job[j].cur \in Attempts
  BY DEF RowTypes, JobRow
<1>. QED
  BY <1>1 DEF RowTypes, CurrentAttempt

\* The sealed artifact that j's current attempt records after a step.
OpusAfter(j) == att'[j][job[j].cur].opus

\* A step leaves j's row with this run pointer and this retry time.
Sets(j, run, due) == job'[j].run = run /\ job'[j].due = due

\* A transaction that writes agreeing rows is an edit.
LEMMA WriteEdits ==
  ASSUME RowTypes, NEW j \in Jobs, NEW row \in JobRow, NEW a \in AttemptRow,
         a.stage = row.stage, a.state = row.state, a.defer = row.defer, Write(j, row, a)
  PROVE  /\ Edit(j, row.stage, row.state, row.defer, row.cur)
         /\ att'[j][row.cur].opus = a.opus
        /\ Sets(j, row.run, row.due)
  BY WriteEffect DEF RowTypes, Edit, Sets

\* Writing a stage and a state by job id is an edit of the current attempt.
LEMMA MarkEdits ==
  ASSUME RowTypes, RowsAgree, NEW j \in Jobs, NEW st \in Stages, NEW sta \in States,
         Mark(j, st, sta)
  PROVE  /\ Edit(j, st, sta, job[j].defer, job[j].cur)
         /\ OpusAfter(j) = CurrentAttempt(j).opus
         /\ Sets(j, job[j].run, job[j].due)
<1>. DEFINE row == [job[j] EXCEPT !.stage = st, !.state = sta]
            a   == [CurrentAttempt(j) EXCEPT !.stage = st, !.state = sta]
<1>1. job[j] \in JobRow /\ CurrentAttempt(j) \in AttemptRow /\ CurrentAttempt(j).defer = job[j].defer
  BY CurrentAttemptType DEF RowsAgree
<1>2. /\ row \in JobRow /\ row.stage = st /\ row.state = sta /\ row.defer = job[j].defer
      /\ row.cur = job[j].cur /\ row.run = job[j].run /\ row.due = job[j].due
  BY <1>1 DEF JobRow
<1>3. /\ a \in AttemptRow /\ a.stage = st /\ a.state = sta /\ a.defer = job[j].defer
      /\ a.opus = CurrentAttempt(j).opus
  BY <1>1 DEF AttemptRow
<1>4. Write(j, row, a)
  BY DEF Mark
<1>. HIDE DEF row, a
<1>. QED
  BY <1>2, <1>3, <1>4, WriteEdits DEF OpusAfter, Sets

\* UpdateRecordOutcome leaves stage, state, count and attempt alone.
LEMMA UpdateRecordOutcomeEdits ==
  ASSUME RowTypes, RowsAgree, NEW j \in Jobs, UpdateRecordOutcome(j)
  PROVE  /\ Edit(j, job[j].stage, job[j].state, job[j].defer, job[j].cur)
         /\ OpusAfter(j) = CurrentAttempt(j).opus
         /\ Sets(j, TRUE, job[j].due)
<1>. DEFINE row == [job[j] EXCEPT !.run = TRUE]
<1>1. /\ job[j] \in JobRow /\ CurrentAttempt(j) \in AttemptRow
      /\ CurrentAttempt(j).stage = job[j].stage /\ CurrentAttempt(j).state = job[j].state
      /\ CurrentAttempt(j).defer = job[j].defer
  BY CurrentAttemptType DEF RowsAgree
<1>2. /\ row \in JobRow /\ row.stage = job[j].stage /\ row.state = job[j].state
      /\ row.defer = job[j].defer /\ row.cur = job[j].cur /\ row.run = TRUE /\ row.due = job[j].due
  BY <1>1 DEF JobRow
<1>3. Write(j, row, CurrentAttempt(j))
  BY DEF UpdateRecordOutcome
<1>. HIDE DEF row
<1>. QED
  BY <1>1, <1>2, <1>3, WriteEdits DEF OpusAfter, Sets

\* enqueueBuildJob queues the build of the current attempt from scratch.
LEMMA enqueueBuildJobEdits ==
  ASSUME RowTypes, PipelineAssumption, NEW j \in Jobs, enqueueBuildJob(j)
  PROVE  /\ Edit(j, "build", "queued", 0, job[j].cur)
         /\ OpusAfter(j) = CurrentAttempt(j).opus
         /\ Sets(j, TRUE, TRUE)
<1>. DEFINE row == [job[j] EXCEPT !.stage = "build", !.state = "queued",
                                  !.run = TRUE, !.defer = 0, !.due = TRUE]
            a   == [CurrentAttempt(j) EXCEPT !.stage = "build", !.state = "queued", !.defer = 0]
<1>1. job[j] \in JobRow /\ CurrentAttempt(j) \in AttemptRow /\ 0 \in 0..DeferCap
  BY CurrentAttemptType DEF PipelineAssumption
<1>2. /\ row \in JobRow /\ row.stage = "build" /\ row.state = "queued"
      /\ row.defer = 0 /\ row.cur = job[j].cur /\ row.run = TRUE /\ row.due = TRUE
  BY <1>1 DEF JobRow, Stages, States
<1>3. /\ a \in AttemptRow /\ a.stage = "build" /\ a.state = "queued" /\ a.defer = 0
      /\ a.opus = CurrentAttempt(j).opus
  BY <1>1 DEF AttemptRow, Stages, States
<1>4. Write(j, row, a)
  BY DEF enqueueBuildJob
<1>. HIDE DEF row, a
<1>. QED
  BY <1>2, <1>3, <1>4, WriteEdits DEF OpusAfter, Sets

\* A deferral that finds its build running queues it again.
LEMMA MarkBuildDeferredEdits ==
  ASSUME RowTypes, RowsAgree, NEW t, t.job \in Jobs, NEW n \in 0..DeferCap, NEW due \in BOOLEAN,
         StillBuilding(t), MarkBuildDeferred(t, n, due)
  PROVE  /\ Edit(t.job, "build", "queued", n, job[t.job].cur)
         /\ OpusAfter(t.job) = CurrentAttempt(t.job).opus
         /\ Sets(t.job, job[t.job].run, due)
<1>. DEFINE j   == t.job
            row == [job[j] EXCEPT !.state = "queued", !.defer = n, !.due = due]
            a   == [CurrentAttempt(j) EXCEPT !.state = "queued", !.defer = n]
<1>1. /\ j \in Jobs
      /\ job[j] \in JobRow /\ CurrentAttempt(j) \in AttemptRow
      /\ job[j].stage = "build" /\ CurrentAttempt(j).stage = "build"
  BY CurrentAttemptType DEF StillBuilding, RowsAgree
<1>2. Write(j, row, a)
  BY DEF MarkBuildDeferred
<1>. HIDE DEF j
<1>3. /\ row \in JobRow /\ row.stage = "build" /\ row.state = "queued"
      /\ row.defer = n /\ row.cur = job[j].cur /\ row.run = job[j].run /\ row.due = due
  BY <1>1 DEF JobRow, States
<1>4. /\ a \in AttemptRow /\ a.stage = "build" /\ a.state = "queued" /\ a.defer = n
      /\ a.opus = CurrentAttempt(j).opus
  BY <1>1 DEF AttemptRow, States
<1>. HIDE DEF row, a
<1>5. /\ Edit(j, "build", "queued", n, job[j].cur) /\ OpusAfter(j) = CurrentAttempt(j).opus
      /\ Sets(j, job[j].run, due)
  BY <1>1, <1>2, <1>3, <1>4, WriteEdits DEF OpusAfter
<1>. QED
  BY <1>5 DEF j

\* A seal records its artifact and queues the publish of the current attempt.
LEMMA enqueuePublishAfterSealEdits ==
  ASSUME RowTypes, RowsAgree, NEW w \in Worker, task[w] \in Tasks("seal"),
         enqueuePublishAfterSeal(w)
  PROVE  /\ Edit(task[w].job, "publish", "queued", job[task[w].job].defer, job[task[w].job].cur)
         /\ OpusAfter(task[w].job) = task[w].arg /\ task[w].arg # 0
         /\ Sets(task[w].job, job[task[w].job].run, job[task[w].job].due)
<1>. DEFINE j   == task[w].job
            n   == task[w].arg
            row == [job[j] EXCEPT !.stage = "publish", !.state = "queued"]
            a   == [CurrentAttempt(j) EXCEPT !.stage = "publish", !.state = "queued", !.opus = n]
<1>1. j \in Jobs /\ n \in 0..MaxAttempts /\ n # 0
  BY DEF Tasks, Attempts
<1>2. Write(j, row, a)
  BY DEF enqueuePublishAfterSeal
<1>. HIDE DEF j, n
<1>3. job[j] \in JobRow /\ CurrentAttempt(j) \in AttemptRow /\ CurrentAttempt(j).defer = job[j].defer
  BY <1>1, CurrentAttemptType DEF RowsAgree
<1>4. /\ row \in JobRow /\ row.stage = "publish" /\ row.state = "queued"
      /\ row.defer = job[j].defer /\ row.cur = job[j].cur
      /\ row.run = job[j].run /\ row.due = job[j].due
  BY <1>3 DEF JobRow, Stages, States
<1>5. /\ a \in AttemptRow /\ a.stage = "publish" /\ a.state = "queued" /\ a.defer = job[j].defer
      /\ a.opus = n
  BY <1>1, <1>3 DEF AttemptRow, Stages, States
<1>. HIDE DEF row, a
<1>6. /\ Edit(j, "publish", "queued", job[j].defer, job[j].cur) /\ OpusAfter(j) = n
      /\ Sets(j, job[j].run, job[j].due)
  BY <1>1, <1>2, <1>4, <1>5, WriteEdits DEF OpusAfter
<1>. QED
  BY <1>1, <1>6 DEF j, n

\* A rerun opens the next attempt at build/queued.
LEMMA handleRerunJobEdits ==
  ASSUME RowTypes, PipelineAssumption, NEW j \in Jobs, handleRerunJob(j)
  PROVE  /\ job[j].cur + 1 \in Attempts /\ Edit(j, "build", "queued", 0, job[j].cur + 1)
         /\ Sets(j, TRUE, TRUE)
<1>. DEFINE n   == job[j].cur + 1
            row == [job[j] EXCEPT !.stage = "build", !.state = "queued", !.cur = n,
                                  !.defer = 0, !.due = TRUE]
            a   == [NoRow EXCEPT !.stage = "build", !.state = "queued"]
<1>1. job[j] \in JobRow /\ 0 \in 0..DeferCap /\ 0 \in 0..MaxAttempts
  BY CurrentAttemptType DEF PipelineAssumption
<1>2. n \in Attempts
  BY CurrentAttemptType, PipelineAssumption DEF handleRerunJob, Attempts, PipelineAssumption
<1>3. Write(j, row, a)
  BY DEF handleRerunJob
<1>. HIDE DEF n
<1>4. /\ row \in JobRow /\ row.stage = "build" /\ row.state = "queued"
      /\ row.defer = 0 /\ row.cur = n /\ row.run /\ row.due
  BY <1>1, <1>2 DEF handleRerunJob, Rerunnable, JobRow, Stages, States
<1>5. a \in AttemptRow /\ a.stage = "build" /\ a.state = "queued" /\ a.defer = 0
  BY <1>1 DEF AttemptRow, NoRow, Stages, States
<1>. HIDE DEF row, a
<1>6. Edit(j, "build", "queued", 0, n) /\ Sets(j, TRUE, TRUE)
  BY <1>3, <1>4, <1>5, WriteEdits
<1>. QED
  BY <1>2, <1>6 DEF n

-----------------------------------------------------------------------------
(* Types.                                                                  *)

ChannelTypes ==
  /\ DOMAIN chan = PipelineStages
  /\ \A s \in PipelineStages : chan[s] \in Seq(Tasks(s)) /\ Len(chan[s]) <= QueueCap

WorkerTypes ==
  /\ pc \in [Worker -> Controls]
  /\ DOMAIN task = Worker
  /\ \A w \in Worker : task[w] \in Tasks(Serves[w])
  /\ locked \subseteq Jobs
  /\ buildMu \subseteq Worker

ScanTypes == \A x \in scan : \E s \in PipelineStages : \E t \in Tasks(s) : x = <<s, t>>

\* What TypeOK says of everything that is not a table row.
ControlTypes ==
  /\ ChannelTypes
  /\ WorkerTypes
  /\ ScanTypes
  /\ recorder \in [Jobs -> {"none", "spawned", "recording", "promoted"}]
  /\ timers \in [BuildTasks -> Nat]
  /\ dispatched \in [PipelineStages -> SUBSET (Jobs \X Attempts)]
  /\ delivered \in [Jobs -> 0..MaxAttempts]
  /\ restarts \in Nat

\* The two halves of the type invariant.
LEMMA TypeHalves == TypeOK <=> RowTypes /\ ControlTypes
  BY DEF TypeOK, RowTypes, ControlTypes, ChannelTypes, WorkerTypes, ScanTypes

\* A non-blocking send keeps every channel within its capacity.
LEMMA OfferTypes ==
  ASSUME ChannelTypes, PipelineAssumption, NEW s \in PipelineStages, NEW t \in Tasks(s), Offer(s, t)
  PROVE  ChannelTypes'
<1>1. CASE Len(chan[s]) < QueueCap
  <2>1. chan' = [chan EXCEPT ![s] = Append(@, t)]
    BY <1>1 DEF Offer
  <2>2. chan'[s] \in Seq(Tasks(s)) /\ Len(chan'[s]) <= QueueCap
    <3>1. chan[s] \in Seq(Tasks(s)) /\ chan'[s] = Append(chan[s], t)
      BY <2>1 DEF ChannelTypes
    <3>2. Append(chan[s], t) \in Seq(Tasks(s)) /\ Len(Append(chan[s], t)) = Len(chan[s]) + 1
      BY <3>1
    <3>. QED
      BY <3>1, <3>2, <1>1 DEF PipelineAssumption
  <2>. QED
    BY <2>1, <2>2 DEF ChannelTypes
<1>2. CASE ~(Len(chan[s]) < QueueCap)
  BY <1>2 DEF Offer, ChannelTypes
<1>. QED
  BY <1>1, <1>2

\* The task of an idle worker is a task of every stage.
LEMMA NoTaskType ==
  ASSUME PipelineAssumption, NEW s \in PipelineStages
  PROVE  NoTask \in Tasks(s)
<1>1. (CHOOSE j \in Jobs : TRUE) \in Jobs
  BY DEF PipelineAssumption
<1>2. 1 \in Attempts /\ 1 \in 0..DeferCap /\ 1 \in 0..MaxAttempts
  BY DEF PipelineAssumption, Attempts
<1>. QED
  BY <1>1, <1>2 DEF NoTask, Tasks, PipelineStages

\* Returning from a job leaves the worker's variables in their types.
LEMMA WorkerEndsTypes ==
  ASSUME WorkerTypes, PipelineAssumption, NEW w \in Worker, WorkerEnds(w)
  PROVE  WorkerTypes'
<1>1. pc' \in [Worker -> Controls]
  BY DEF WorkerTypes, WorkerEnds, Controls
<1>2. DOMAIN task' = Worker /\ \A v \in Worker : task'[v] \in Tasks(Serves[v])
  BY NoTaskType DEF WorkerTypes, WorkerEnds, PipelineAssumption
<1>. QED
  BY <1>1, <1>2 DEF WorkerTypes, WorkerEnds

\* The tasks the dispatcher lists are tasks of the stage.
LEMMA ListQueuedTypes ==
  ASSUME RowTypes, PipelineAssumption, NEW s \in PipelineStages
  PROVE  ListQueued(s) \subseteq Tasks(s)
<1>1. ASSUME NEW j \in Jobs
      PROVE  ListedTask(s, j) \in Tasks(s)
  <2>1. /\ job[j].cur \in Attempts /\ job[j].defer \in 0..DeferCap
        /\ job[j].cur \in 0..MaxAttempts /\ CurrentAttempt(j).opus \in 0..MaxAttempts
    BY CurrentAttemptType DEF JobRow, AttemptRow, Attempts
  <2>. QED
    BY <2>1 DEF ListedTask, Tasks, PipelineStages
<1>. QED
  BY <1>1 DEF ListQueued

-----------------------------------------------------------------------------
(* The inductive invariant.                                                *)

\* A record goroutine that has not started yet waits on a queued recording.
SpawnedIsQueued ==
  \A j \in Jobs : recorder[j] = "spawned" => job[j].stage = "record" /\ job[j].state = "queued"

\* Only a stage that somebody executes is ever queued, and a job that was not
\* created has no state.
QueuedIsAStage ==
  \A j \in Jobs : /\ job[j].state = "queued" => job[j].stage \in {"record"} \cup PipelineStages
                  /\ job[j].stage = "none" => job[j].state = "none"

\* Only a build that waits for its retry time is not due, and a job reaches the
\* build stage only with its recording.
BuildsAreReady ==
  \A j \in Jobs : /\ ~job[j].due => job[j].stage = "build" /\ job[j].state = "queued"
                  /\ job[j].stage = "build" => job[j].run

\* Only the publish workers deliver.
PublishersDeliver ==
  \A w \in Worker : pc[w] \in {"delivered", "tail"} => Serves[w] = "publish"

Tables    == RowTypes /\ RowsAgree /\ SupersededSettled /\ QueuedIsAStage /\ BuildsAreReady
Ownership == ArtifactMutex /\ RunnerOwnsRow /\ SpawnedIsQueued /\ PublishersDeliver

IInv == Tables /\ ControlTypes /\ Ownership

-----------------------------------------------------------------------------
(* Types are preserved: the variables that hold no table rows.             *)

\* The record goroutine, reruns, retry times and restarts.
LEMMA JobStepTypes ==
  ASSUME ControlTypes, RowTypes, PipelineAssumption, NEW j \in Jobs,
         prepareRecordJob(j) \/ RecordStep(j) \/ RetryTimePasses(j) \/ handleRerunJob(j)
  PROVE  ControlTypes'
<1>. USE DEF ControlTypes
<1>0. /\ UNCHANGED <<pc, task, buildMu>> /\ locked' \subseteq Jobs => WorkerTypes'
      /\ UNCHANGED chan => ChannelTypes'
      /\ UNCHANGED scan => ScanTypes'
  BY DEF WorkerTypes, ChannelTypes, ScanTypes
<1>a. locked \subseteq Jobs
  BY DEF WorkerTypes
<1>b. "build" \in PipelineStages /\ \A n \in Attempts : [job |-> j, attempt |-> n, arg |-> 0] \in Tasks("build")
  BY DEF Tasks, PipelineStages, PipelineAssumption
<1>1. CASE prepareRecordJob(j)
  BY <1>0, <1>1, <1>a DEF prepareRecordJob
<1>2. CASE RecordStart(j)
  BY <1>0, <1>2, <1>a DEF RecordStart
<1>3. CASE RecordFail(j)
  BY <1>0, <1>3, <1>a DEF RecordFail, RecordEnds
<1>4. CASE UpdateRecordOutcome(j)
  BY <1>0, <1>4, <1>a DEF UpdateRecordOutcome
<1>5. CASE enqueueBuildJob(j)
  <2>1. 1 \in Attempts
    BY DEF Attempts, PipelineAssumption
  <2>2. ChannelTypes'
    BY <1>5, <1>b, <2>1, OfferTypes DEF enqueueBuildJob
  <2>. QED
    BY <1>0, <1>5, <1>a, <2>2 DEF enqueueBuildJob, RecordEnds
<1>6. CASE RecordStranded(j)
  BY <1>0, <1>6, <1>a DEF RecordStranded, RecordEnds
<1>7. CASE RetryTimePasses(j)
  BY <1>0, <1>7, <1>a DEF RetryTimePasses
<1>8. CASE handleRerunJob(j)
  <2>1. ChannelTypes'
    BY <1>8, <1>b, OfferTypes, handleRerunJobEdits DEF handleRerunJob
  <2>. QED
    BY <1>0, <1>8, <1>a, <2>1 DEF handleRerunJob
<1>. QED
  BY <1>1, <1>2, <1>3, <1>4, <1>5, <1>6, <1>7, <1>8 DEF RecordStep

\* Scheduling a deferred build counts one more goroutine for its task.
LEMMA DeferralTypes ==
  ASSUME timers \in [BuildTasks -> Nat], NEW t \in BuildTasks, NEW n \in 0..DeferCap, NEW due,
         MarkBuildDeferred(t, n, due)
  PROVE  timers' \in [BuildTasks -> Nat]
<1>1. [t EXCEPT !.arg = n] \in BuildTasks
  BY DEF BuildTasks, Tasks
<1>. QED
  BY <1>1 DEF MarkBuildDeferred, Spawn

\* The workers.
LEMMA WorkerStepTypes ==
  ASSUME ControlTypes, RowTypes, PipelineAssumption, NEW w \in Worker, WorkerStep(w)
  PROVE  ControlTypes'
<1>. USE DEF ControlTypes
<1>0. /\ UNCHANGED chan => ChannelTypes'
      /\ UNCHANGED scan => ScanTypes'
      /\ WorkerEnds(w) => WorkerTypes'
  BY WorkerEndsTypes DEF ChannelTypes, ScanTypes
<1>a. /\ Serves[w] \in PipelineStages /\ task[w] \in Tasks(Serves[w])
      /\ task[w].job \in Jobs /\ locked \subseteq Jobs /\ buildMu \subseteq Worker
  BY DEF PipelineAssumption, WorkerTypes, Tasks
<1>b. ASSUME NEW c \in Controls, pc' = [pc EXCEPT ![w] = c], UNCHANGED task,
             locked' \subseteq Jobs, buildMu' \subseteq Worker
      PROVE  WorkerTypes'
  BY <1>b DEF WorkerTypes
<1>1. CASE Dequeue(w)
  <2>. DEFINE s == Serves[w]
  <2>1. chan[s] \in Seq(Tasks(s)) /\ chan[s] # <<>> /\ Len(chan[s]) <= QueueCap
    BY <1>1, <1>a DEF ChannelTypes, Dequeue
  <2>2. Head(chan[s]) \in Tasks(s) /\ Tail(chan[s]) \in Seq(Tasks(s)) /\ Len(Tail(chan[s])) <= QueueCap
    BY <2>1 DEF PipelineAssumption
  <2>3. ChannelTypes'
    BY <1>1, <1>a, <2>2 DEF ChannelTypes, Dequeue
  <2>4. WorkerTypes'
    BY <1>1, <1>a, <2>2 DEF WorkerTypes, Dequeue, Controls
  <2>. QED
    BY <1>0, <1>1, <2>3, <2>4 DEF Dequeue
<1>2. CASE lockArtifacts(w)
  BY <1>0, <1>2, <1>a, <1>b DEF lockArtifacts, Controls
<1>3. CASE Claim(w)
  BY <1>0, <1>3, <1>a, <1>b DEF Claim, Controls
<1>4. CASE ClaimSkipped(w)
  BY <1>0, <1>4 DEF ClaimSkipped
<1>5. CASE StageStranded(w)
  BY <1>0, <1>5 DEF StageStranded
<1>6. CASE BuildYields(w)
  <2>1. task[w] \in BuildTasks /\ task[w].arg \in 0..DeferCap
    BY <1>6, <1>a DEF BuildYields, Running, BuildTasks, Tasks
  <2>2. timers' \in [BuildTasks -> Nat]
    BY <1>6, <2>1, DeferralTypes DEF BuildYields
  <2>. QED
    BY <1>0, <1>6, <2>2 DEF BuildYields
<1>7. CASE BuildDefers(w)
  <2>1. task[w] \in BuildTasks /\ task[w].arg + 1 \in 0..DeferCap
    BY <1>7, <1>a DEF BuildDefers, Running, BuildTasks, Tasks, PipelineAssumption
  <2>2. timers' \in [BuildTasks -> Nat]
    BY <1>7, <2>1, DeferralTypes DEF BuildDefers
  <2>. QED
    BY <1>0, <1>7, <2>2 DEF BuildDefers
<1>8. CASE BuildBlocks(w)
  BY <1>0, <1>8 DEF BuildBlocks
<1>9. CASE StageFails(w)
  BY <1>0, <1>9 DEF StageFails
<1>10. CASE enqueueSealJobNonBlocking(w)
  <2>1. "seal" \in PipelineStages /\ [task[w] EXCEPT !.arg = task[w].attempt] \in Tasks("seal")
    BY <1>10, <1>a DEF enqueueSealJobNonBlocking, Running, Tasks, PipelineStages, Attempts
  <2>2. ChannelTypes'
    BY <1>10, <2>1, OfferTypes DEF enqueueSealJobNonBlocking
  <2>. QED
    BY <1>0, <1>10, <2>2 DEF enqueueSealJobNonBlocking
<1>11. CASE enqueuePublishAfterSeal(w)
  <2>1. "publish" \in PipelineStages /\ task[w] \in Tasks("publish")
    BY <1>11, <1>a DEF enqueuePublishAfterSeal, Running, Tasks, PipelineStages, Attempts
  <2>2. ChannelTypes'
    BY <1>11, <2>1, OfferTypes DEF enqueuePublishAfterSeal
  <2>. QED
    BY <1>0, <1>11, <2>2 DEF enqueuePublishAfterSeal
<1>12. CASE Deliver(w)
  <2>1. task[w].arg \in 0..MaxAttempts
    BY <1>12, <1>a DEF Deliver, Running, Tasks
  <2>2. WorkerTypes'
    BY <1>12, <1>a, <1>b DEF Deliver, Controls
  <2>. QED
    BY <1>0, <1>12, <1>a, <2>1, <2>2 DEF Deliver
<1>13. CASE MarkPublishSucceeded(w)
  BY <1>0, <1>13, <1>a, <1>b DEF MarkPublishSucceeded, Controls
<1>14. CASE PublishTail(w)
  BY <1>0, <1>14 DEF PublishTail
<1>. QED
  BY <1>1, <1>2, <1>3, <1>4, <1>5, <1>6, <1>7, <1>8, <1>9, <1>10, <1>11, <1>12, <1>13, <1>14
  DEF WorkerStep

\* Deferred builds, the dispatcher and a restart.
LEMMA ProcessStepTypes ==
  ASSUME ControlTypes, RowTypes, PipelineAssumption,
         (\E t \in BuildTasks : DeferredBuildSends(t)) \/ DispatcherStep \/ Restart
  PROVE  ControlTypes'
<1>. USE DEF ControlTypes
<1>0. /\ UNCHANGED <<pc, task, buildMu, locked>> => WorkerTypes'
      /\ UNCHANGED scan => ScanTypes'
      /\ UNCHANGED chan => ChannelTypes'
  BY DEF WorkerTypes, ScanTypes, ChannelTypes
<1>1. ASSUME NEW t \in BuildTasks, DeferredBuildSends(t)
      PROVE  ControlTypes'
  <2>1. "build" \in PipelineStages /\ Offer("build", t)
    BY <1>1 DEF DeferredBuildSends, Offer, PipelineStages
  <2>2. ChannelTypes'
    BY <2>1, OfferTypes DEF BuildTasks
  <2>3. timers' \in [BuildTasks -> Nat]
    BY <1>1 DEF DeferredBuildSends
  <2>. QED
    BY <1>0, <1>1, <2>2, <2>3 DEF DeferredBuildSends
<1>2. ASSUME NEW s \in PipelineStages, DispatchList(s)
      PROVE  ControlTypes'
  <2>1. ScanTypes'
    BY <1>2, ListQueuedTypes DEF DispatchList, ScanTypes
  <2>. QED
    BY <1>0, <1>2, <2>1 DEF DispatchList
<1>3. ASSUME NEW s \in PipelineStages, NEW t \in Tasks(s), DispatchSend(s, t)
      PROVE  ControlTypes'
  <2>1. ScanTypes'
    BY <1>3 DEF DispatchSend, ScanTypes
  <2>2. ChannelTypes'
    BY <1>3, OfferTypes DEF DispatchSend
  <2>3. dispatched' \in [PipelineStages -> SUBSET (Jobs \X Attempts)]
    <3>1. requeueKey(t) \in Jobs \X Attempts
      BY DEF requeueKey, Tasks
    <3>. QED
      BY <1>3, <3>1 DEF DispatchSend
  <2>. QED
    BY <1>0, <1>3, <2>1, <2>2, <2>3 DEF DispatchSend
<1>4. CASE Restart
  <2>1. ChannelTypes'
    BY <1>4 DEF Restart, ChannelTypes, PipelineAssumption
  <2>2. WorkerTypes'
    BY <1>4, NoTaskType DEF Restart, WorkerTypes, Controls, PipelineAssumption
  <2>. QED
    BY <1>4, <2>1, <2>2 DEF Restart, ScanTypes
<1>. QED
  BY <1>1, <1>2, <1>3, <1>4 DEF DispatcherStep

\* An edit of job j leaves the other jobs' rows alone.
LEMMA EditIsLocal ==
  ASSUME NEW j, NEW st, NEW sta, NEW d, NEW c, Edit(j, st, sta, d, c)
  PROVE  /\ job'[j].stage = st /\ job'[j].state = sta
         /\ \A k \in Jobs : k # j => job'[k] = job[k]
  BY DEF Edit

-----------------------------------------------------------------------------
(* What a step may do to the tables.                                       *)

\* The moves of a job inside one attempt, by the row it is at.
Moves(j, st, sta) ==
  \/ st = job[j].stage /\ sta = job[j].state
  \/ job[j].stage = "none" /\ st = "record" /\ sta = "queued"
  \/ job[j].state = "queued" /\ st = job[j].stage /\ sta = "running"
  \/ /\ job[j].state = "running"
     /\ \/ job[j].stage = "record" /\ st = "build" /\ sta = "queued"
        \/ job[j].stage = "build" /\ st = "seal" /\ sta = "queued"
        \/ job[j].stage = "seal" /\ st = "publish" /\ sta = "queued"
        \/ job[j].stage = "build" /\ st = "build" /\ sta \in {"queued", "blocked"}
        \/ job[j].stage = "publish" /\ st = "done" /\ sta = "succeeded"
        \/ st = "done" /\ sta = "failed"

\* A step leaves stage, state, attempt and count alone, or moves one job inside
\* its attempt, or opens the next attempt of a settled job, or is the sweep.
Quiet ==
  /\ RowTypes'
  /\ att' = att
  /\ \A j \in Jobs : /\ job'[j].stage = job[j].stage /\ job'[j].state = job[j].state
                     /\ job'[j].cur = job[j].cur /\ job'[j].defer = job[j].defer
                     /\ job'[j].run = job[j].run /\ (job[j].due => job'[j].due)

\* After a step somebody waits to send the build of j at deferral count d.
TimedAfter(j, d) ==
  \E t \in BuildTasks : timers'[t] > 0 /\ t.job = j /\ t.attempt = job'[j].cur /\ t.arg = d

\* Only a running job that goes back to a queue, or on to the next one, changes
\* its count: the build's is set when the recording ends and never falls again.
KeepsCount(j, sta, d) ==
  \/ d = job[j].defer
  \/ job[j].state = "running" /\ sta = "queued" /\ (job[j].stage = "record" \/ d >= job[j].defer)

\* Only a seal that hands on to the publish records an artifact.
KeepsSeal(j, st) ==
  IF job[j].stage = "seal" /\ st = "publish" THEN OpusAfter(j) # 0
  ELSE OpusAfter(j) = CurrentAttempt(j).opus

\* The recording stays, and is there when the build starts; a build that goes back
\* to its queue is waited for, and only one with a higher count is not due.
KeepsRetry(j, st, sta, d) ==
  /\ job[j].run \/ (st = "build" /\ job[j].stage # "build") => job'[j].run
  /\ job[j].stage = "build" /\ job[j].state = "running" /\ st = "build" /\ sta = "queued" => TimedAfter(j, d)
  /\ ~job'[j].due => /\ job[j].stage = "build" /\ job[j].state = "running"
                     /\ st = "build" /\ sta = "queued" /\ d > job[j].defer

Keeps(j, st, sta, d) == KeepsCount(j, sta, d) /\ KeepsSeal(j, st) /\ KeepsRetry(j, st, sta, d)

MovesOne ==
  \E j \in Jobs, st \in Stages, sta \in States, d \in 0..DeferCap :
    Moves(j, st, sta) /\ Edit(j, st, sta, d, job[j].cur) /\ Keeps(j, st, sta, d)

OpensAttempt ==
  \E j \in Jobs : /\ job[j].state \in Settled
                  /\ job[j].cur + 1 \in Attempts
                  /\ Edit(j, "build", "queued", 0, job[j].cur + 1)
                  /\ Sets(j, TRUE, TRUE)

TableStep == Quiet \/ MovesOne \/ OpensAttempt \/ MarkIncompleteJobsInterrupted

\* Steps that write no row are quiet.
LEMMA UnchangedIsQuiet ==
  ASSUME RowTypes, UNCHANGED <<job, att>>
  PROVE  Quiet
  BY DEF Quiet, RowTypes

\* A permitted edit of the current attempt is a step of the tables.
LEMMA EditIsMove ==
  ASSUME RowTypes, NEW j \in Jobs, NEW st, NEW sta, NEW d,
         Edit(j, st, sta, d, job[j].cur), Moves(j, st, sta), Keeps(j, st, sta, d)
  PROVE  TableStep
<1>1. job'[j] \in JobRow
  BY DEF Edit, RowTypes
<1>2. st \in Stages /\ sta \in States /\ d \in 0..DeferCap
  BY <1>1 DEF Edit, JobRow
<1>. QED
  BY <1>2 DEF TableStep, MovesOne

\* A stage and a state written by job id to a row that is due, by any transaction
\* that records no artifact and queues no build, is such an edit.
LEMMA MarkIsMove ==
  ASSUME Tables, NEW j \in Jobs, NEW st \in Stages, NEW sta \in States, Mark(j, st, sta),
         Moves(j, st, sta), job[j].due, job[j].stage = "seal" => st # "publish",
         st = "build" => job[j].stage = "build" /\ sta # "queued"
  PROVE  TableStep
<1>1. /\ Edit(j, st, sta, job[j].defer, job[j].cur) /\ OpusAfter(j) = CurrentAttempt(j).opus
      /\ Sets(j, job[j].run, job[j].due)
  BY MarkEdits DEF Tables
<1>2. Keeps(j, st, sta, job[j].defer)
  BY <1>1 DEF Keeps, KeepsCount, KeepsSeal, KeepsRetry, Sets
<1>. QED
  BY <1>1, <1>2, EditIsMove DEF Tables

\* The record goroutine, retry times and reruns.
LEMMA JobTableStep ==
  ASSUME IInv, PipelineAssumption, NEW j \in Jobs,
         prepareRecordJob(j) \/ RecordStep(j) \/ RetryTimePasses(j) \/ handleRerunJob(j)
  PROVE  TableStep
<1>. USE DEF IInv, Tables
<1>a. /\ Recording(j) => job[j].stage = "record" /\ job[j].state = "running"
      /\ recorder[j] = "spawned" => job[j].stage = "record" /\ job[j].state = "queued"
  BY DEF Ownership, RunnerOwnsRow, SpawnedIsQueued
<1>b. job[j].stage # "build" => job[j].due
  BY DEF BuildsAreReady
<1>1. CASE prepareRecordJob(j)
  BY <1>1, <1>b, MarkIsMove DEF prepareRecordJob, Moves, Stages, States
<1>2. CASE RecordStart(j)
  <2>1. CASE UNCHANGED <<job, att>>
    BY <2>1, UnchangedIsQuiet DEF TableStep
  <2>2. CASE Mark(j, "record", "running")
    BY <1>2, <2>2, <1>a, <1>b, MarkIsMove DEF RecordStart, Moves, Stages, States
  <2>. QED
    BY <1>2, <2>1, <2>2 DEF RecordStart
<1>3. CASE RecordFail(j)
  BY <1>3, <1>a, <1>b, MarkIsMove DEF RecordFail, Recording, Moves, Stages, States
<1>4. CASE UpdateRecordOutcome(j)
  <2>1. /\ Edit(j, job[j].stage, job[j].state, job[j].defer, job[j].cur)
        /\ OpusAfter(j) = CurrentAttempt(j).opus
        /\ Sets(j, TRUE, job[j].due)
    BY <1>4, UpdateRecordOutcomeEdits
  <2>2. Moves(j, job[j].stage, job[j].state)
    BY DEF Moves
  <2>3. job[j].stage = "record"
    BY <1>4, <1>a DEF UpdateRecordOutcome, Recording
  <2>4. Keeps(j, job[j].stage, job[j].state, job[j].defer)
    BY <2>1, <2>3, <1>b DEF Keeps, KeepsCount, KeepsSeal, KeepsRetry, Sets
  <2>. QED
    BY <2>1, <2>2, <2>4, EditIsMove
<1>5. CASE enqueueBuildJob(j)
  <2>1. /\ Edit(j, "build", "queued", 0, job[j].cur) /\ OpusAfter(j) = CurrentAttempt(j).opus
        /\ Sets(j, TRUE, TRUE)
    BY <1>5, enqueueBuildJobEdits
  <2>2. job[j].stage = "record" /\ job[j].state = "running"
    BY <1>5, <1>a DEF enqueueBuildJob, Recording
  <2>3. Moves(j, "build", "queued") /\ Keeps(j, "build", "queued", 0)
    BY <2>1, <2>2 DEF Moves, Keeps, KeepsCount, KeepsSeal, KeepsRetry, Sets
  <2>. QED
    BY <2>1, <2>3, EditIsMove
<1>6. CASE RecordStranded(j)
  BY <1>6, UnchangedIsQuiet DEF RecordStranded, TableStep
<1>7. CASE RetryTimePasses(j)
  <2>1. job[j] \in JobRow
    BY DEF RowTypes
  <2>2. [job[j] EXCEPT !.due = TRUE] \in JobRow
    BY <2>1 DEF JobRow
  <2>3. RowTypes' /\ att' = att
    BY <1>7, <2>2 DEF RetryTimePasses, RowTypes
  <2>4. job'[j] = [job[j] EXCEPT !.due = TRUE] /\ \A k \in Jobs : k # j => job'[k] = job[k]
    BY <1>7 DEF RetryTimePasses, RowTypes
  <2>5. /\ job'[j].stage = job[j].stage /\ job'[j].state = job[j].state
        /\ job'[j].cur = job[j].cur /\ job'[j].defer = job[j].defer
        /\ job'[j].run = job[j].run /\ job'[j].due
    BY <2>1, <2>4 DEF JobRow
  <2>. QED
    BY <2>3, <2>4, <2>5 DEF Quiet, TableStep
<1>8. CASE handleRerunJob(j)
  <2>1. job[j].state \in Settled
    BY <1>8 DEF handleRerunJob, Rerunnable, Settled
  <2>. QED
    BY <1>8, <2>1, handleRerunJobEdits DEF OpensAttempt, TableStep
<1>. QED
  BY <1>1, <1>2, <1>3, <1>4, <1>5, <1>6, <1>7, <1>8 DEF RecordStep

\* The workers.
LEMMA WorkerTableStep ==
  ASSUME IInv, PipelineAssumption, NEW w \in Worker, WorkerStep(w)
  PROVE  TableStep
<1>. USE DEF IInv, Tables
<1>. DEFINE j == task[w].job
<1>a. j \in Jobs /\ Serves[w] \in PipelineStages /\ task[w] \in Tasks(Serves[w])
  BY DEF ControlTypes, WorkerTypes, Tasks, PipelineAssumption
<1>b. pc[w] \in {"run", "delivered"} => job[j].stage = Serves[w] /\ job[j].state = "running"
  BY DEF Ownership, RunnerOwnsRow
<1>c. UNCHANGED <<job, att>> => TableStep
  BY UnchangedIsQuiet DEF TableStep
<1>d. pc[w] \in {"run", "delivered"} => job[j].due
  BY <1>a, <1>b DEF BuildsAreReady
<1>e. \A st \in Stages, sta \in States :
        /\ Mark(j, st, sta) /\ Moves(j, st, sta) /\ job[j].due
        /\ job[j].stage = "seal" => st # "publish"
        /\ st = "build" => job[j].stage = "build" /\ sta # "queued"
        => TableStep
  BY <1>a, MarkIsMove
<1>1. CASE Dequeue(w) \/ lockArtifacts(w) \/ ClaimSkipped(w) \/ StageStranded(w) \/ Deliver(w) \/ PublishTail(w)
  BY <1>1, <1>c DEF Dequeue, lockArtifacts, ClaimSkipped, StageStranded, Deliver, PublishTail
<1>2. CASE Claim(w)
  <2>1. Moves(j, Serves[w], "running") /\ job[j].stage = Serves[w] /\ job[j].state = "queued"
    BY <1>2, <1>a DEF Claim, Claimable, BuildClaimable, SealClaimable, PublishClaimable,
                      PipelineStages, Moves
  <2>2. job[j].due
    BY <1>2, <2>1, <1>a DEF Claim, Claimable, BuildClaimable, BuildsAreReady
  <2>. QED
    BY <1>2, <1>a, <1>e, <2>1, <2>2 DEF Claim, Stages, States, PipelineStages
<1>3. ASSUME NEW n \in 0..DeferCap, NEW due \in BOOLEAN, Serves[w] = "build",
             MarkBuildDeferred(task[w], n, due) /\ n >= task[w].arg /\ (~due => n > task[w].arg)
      PROVE  TableStep
  <2>1. CASE StillBuilding(task[w])
    <3>1. /\ Edit(j, "build", "queued", n, job[j].cur) /\ OpusAfter(j) = CurrentAttempt(j).opus
          /\ Sets(j, job[j].run, due)
      BY <1>3, <1>a, <2>1, MarkBuildDeferredEdits
    <3>2. Moves(j, "build", "queued")
      BY <2>1 DEF StillBuilding, Moves
    <3>3. TimedAfter(j, n)
      <4>. DEFINE t == [task[w] EXCEPT !.arg = n]
      <4>1. t \in BuildTasks /\ t.job = j /\ t.attempt = task[w].attempt /\ t.arg = n
        BY <1>3, <1>a DEF BuildTasks, Tasks
      <4>2. timers' = [timers EXCEPT ![t] = @ + 1]
        BY <1>3, <2>1 DEF MarkBuildDeferred, Spawn
      <4>. HIDE DEF t
      <4>3. timers'[t] > 0
        BY <4>1, <4>2 DEF ControlTypes
      <4>4. job'[j].cur = task[w].attempt
        BY <2>1, <3>1 DEF StillBuilding, Edit
      <4>. QED BY <4>1, <4>3, <4>4 DEF TimedAfter
    <3>4. Keeps(j, "build", "queued", n)
      BY <1>3, <2>1, <3>1, <3>3 DEF StillBuilding, Keeps, KeepsCount, KeepsSeal, KeepsRetry, Sets
    <3>. QED
      BY <1>a, <3>1, <3>2, <3>4, EditIsMove
  <2>2. CASE ~StillBuilding(task[w])
    BY <1>3, <1>c, <2>2 DEF MarkBuildDeferred
  <2>. QED
    BY <2>1, <2>2
<1>4. CASE BuildYields(w)
  <2>1. task[w].arg \in 0..DeferCap /\ Serves[w] = "build"
    BY <1>4, <1>a DEF BuildYields, Running, Tasks
  <2>2. MarkBuildDeferred(task[w], task[w].arg, TRUE)
    BY <1>4 DEF BuildYields
  <2>3. task[w].arg >= task[w].arg
    BY <2>1
  <2>. QED
    BY <1>3, <2>1, <2>2, <2>3, Zenon
<1>5. CASE BuildDefers(w)
  <2>1. task[w].arg \in 0..DeferCap /\ task[w].arg + 1 \in 0..DeferCap /\ Serves[w] = "build"
    BY <1>5, <1>a DEF BuildDefers, Running, Tasks, PipelineAssumption
  <2>2. MarkBuildDeferred(task[w], task[w].arg + 1, FALSE)
    BY <1>5 DEF BuildDefers
  <2>3. task[w].arg + 1 >= task[w].arg /\ task[w].arg + 1 > task[w].arg
    BY <2>1
  <2>. QED
    BY <1>3, <2>1, <2>2, <2>3, Zenon
<1>6. CASE BuildBlocks(w)
  <2>1. CASE StillBuilding(task[w])
    <3>1. Mark(j, "build", "blocked") /\ Moves(j, "build", "blocked") /\ job[j].stage = "build"
      BY <1>6, <2>1 DEF BuildBlocks, StillBuilding, Moves
    <3>. QED
      BY <1>6, <1>d, <1>e, <3>1 DEF BuildBlocks, Running, Stages, States
  <2>2. CASE ~StillBuilding(task[w])
    BY <1>6, <1>c, <2>2 DEF BuildBlocks
  <2>. QED
    BY <2>1, <2>2
<1>7. CASE StageFails(w)
  BY <1>7, <1>b, <1>d, <1>e DEF StageFails, Moves, Stages, States
<1>8. CASE enqueueSealJobNonBlocking(w)
  BY <1>8, <1>b, <1>d, <1>e DEF enqueueSealJobNonBlocking, Running, Moves, Stages, States
<1>9. CASE enqueuePublishAfterSeal(w)
  <2>1. /\ Edit(j, "publish", "queued", job[j].defer, job[j].cur) /\ OpusAfter(j) # 0
        /\ Sets(j, job[j].run, job[j].due)
    BY <1>9, <1>a, enqueuePublishAfterSealEdits DEF enqueuePublishAfterSeal, Running
  <2>2. Moves(j, "publish", "queued") /\ Keeps(j, "publish", "queued", job[j].defer)
    BY <1>9, <1>b, <1>d, <2>1
    DEF enqueuePublishAfterSeal, Running, Moves, Keeps, KeepsCount, KeepsSeal, KeepsRetry, Sets
  <2>. QED
    BY <1>a, <2>1, <2>2, EditIsMove
<1>10. CASE MarkPublishSucceeded(w)
  <2>1. Serves[w] = "publish"
    BY <1>10 DEF MarkPublishSucceeded, Ownership, PublishersDeliver
  <2>. QED
    BY <1>10, <1>b, <1>d, <1>e, <2>1 DEF MarkPublishSucceeded, Moves, Stages, States
<1>. QED
  BY <1>1, <1>2, <1>4, <1>5, <1>6, <1>7, <1>8, <1>9, <1>10 DEF WorkerStep

\* Every step of the pipeline treats the tables in one of the four ways.
LEMMA NextIsTableStep ==
  ASSUME IInv, PipelineAssumption, [Next]_vars
  PROVE  TableStep
<1>1. CASE UNCHANGED vars
  BY <1>1, UnchangedIsQuiet DEF vars, TableStep, IInv, Tables
<1>2. CASE (\E t \in BuildTasks : DeferredBuildSends(t)) \/ DispatcherStep
  BY <1>2, UnchangedIsQuiet
  DEF DeferredBuildSends, DispatcherStep, DispatchList, DispatchSend, TableStep, IInv, Tables
<1>3. CASE Restart
  BY <1>3 DEF Restart, TableStep
<1>. QED
  BY <1>1, <1>2, <1>3, JobTableStep, WorkerTableStep DEF Next

-----------------------------------------------------------------------------
(* The tables stay consistent.                                             *)

\* The sweep interrupts the running and the unstarted row of a job, in both
\* tables alike, and finds no superseded attempt in flight.
LEMMA SweepEffect ==
  ASSUME Tables, MarkIncompleteJobsInterrupted
  PROVE  /\ RowTypes'
         /\ \A j \in Jobs :
              /\ job'[j].stage = job[j].stage /\ job'[j].cur = job[j].cur /\ job'[j].defer = job[j].defer
              /\ Sets(j, job[j].run, job[j].due)
              /\ job'[j].state = IF InFlight(job[j]) THEN "interrupted" ELSE job[j].state
              /\ CurrentAttempt(j)'.stage = CurrentAttempt(j).stage
              /\ CurrentAttempt(j)'.defer = CurrentAttempt(j).defer
              /\ CurrentAttempt(j)'.state = job'[j].state
              /\ CurrentAttempt(j)'.opus = CurrentAttempt(j).opus
              /\ \A a \in Attempts : a # job[j].cur => att'[j][a] = att[j][a]
<1>. USE DEF Tables
<1>1. ASSUME NEW j \in Jobs
      PROVE  /\ job'[j] \in JobRow
             /\ job'[j].stage = job[j].stage /\ job'[j].cur = job[j].cur /\ job'[j].defer = job[j].defer
             /\ Sets(j, job[j].run, job[j].due)
             /\ job'[j].state = IF InFlight(job[j]) THEN "interrupted" ELSE job[j].state
  <2>1. job[j] \in JobRow
    BY DEF RowTypes
  <2>2. job'[j] = IF InFlight(job[j]) THEN [job[j] EXCEPT !.state = "interrupted"] ELSE job[j]
    BY DEF MarkIncompleteJobsInterrupted
  <2>. QED
    BY <2>1, <2>2 DEF JobRow, States, Sets
<1>2. ASSUME NEW j \in Jobs, NEW a \in Attempts
      PROVE  /\ att'[j][a] \in AttemptRow
             /\ att'[j][a].stage = att[j][a].stage /\ att'[j][a].defer = att[j][a].defer
             /\ att'[j][a].opus = att[j][a].opus
             /\ att'[j][a].state = IF InFlight(att[j][a]) THEN "interrupted" ELSE att[j][a].state
             /\ ~InFlight(att[j][a]) => att'[j][a] = att[j][a]
  <2>1. att[j][a] \in AttemptRow
    BY DEF RowTypes
  <2>2. att'[j][a] = IF InFlight(att[j][a]) THEN [att[j][a] EXCEPT !.state = "interrupted"] ELSE att[j][a]
    BY DEF MarkIncompleteJobsInterrupted
  <2>. QED
    BY <2>1, <2>2 DEF AttemptRow, States
<1>3. ASSUME NEW j \in Jobs, NEW a \in Attempts, a # job[j].cur
      PROVE  att'[j][a] = att[j][a]
  <2>1. att[j][a].state \in Settled \/ att[j][a] = NoRow
    BY <1>3, CurrentAttemptType DEF SupersededSettled, Attempts
  <2>2. ~InFlight(att[j][a])
    BY <2>1 DEF InFlight, NoRow
  <2>. QED
    BY <1>2, <2>2
<1>4. ASSUME NEW j \in Jobs
      PROVE  /\ CurrentAttempt(j)'.stage = CurrentAttempt(j).stage
             /\ CurrentAttempt(j)'.defer = CurrentAttempt(j).defer
             /\ CurrentAttempt(j)'.state = job'[j].state
             /\ CurrentAttempt(j)'.opus = CurrentAttempt(j).opus
  <2>1. job[j].cur \in Attempts /\ job'[j].cur = job[j].cur
    BY <1>1, CurrentAttemptType
  <2>2. InFlight(att[j][job[j].cur]) = InFlight(job[j]) /\ att[j][job[j].cur].state = job[j].state
    BY DEF RowsAgree, CurrentAttempt, InFlight
  <2>. QED
    BY <1>1, <1>2, <2>1, <2>2 DEF CurrentAttempt
<1>5. RowTypes'
  <2>1. job' \in [Jobs -> JobRow]
    BY <1>1 DEF MarkIncompleteJobsInterrupted
  <2>2. att' \in [Jobs -> [Attempts -> AttemptRow]]
    BY <1>2 DEF MarkIncompleteJobsInterrupted
  <2>. QED
    BY <2>1, <2>2 DEF RowTypes
<1>. QED
  BY <1>1, <1>3, <1>4, <1>5

\* A step of the tables keeps them consistent.
LEMMA TablesKept ==
  ASSUME Tables, TableStep
  PROVE  Tables'
<1>. USE DEF Tables
<1>a. \A j \in Jobs : job[j].cur \in Attempts /\ job[j].cur \in Nat
  BY CurrentAttemptType DEF Attempts
<1>1. CASE Quiet
  BY <1>1, <1>a DEF Quiet, RowsAgree, SupersededSettled, QueuedIsAStage, BuildsAreReady, CurrentAttempt
<1>2. CASE MovesOne
  <2>1. PICK j \in Jobs, st \in Stages, sta \in States, d \in 0..DeferCap :
               Moves(j, st, sta) /\ Edit(j, st, sta, d, job[j].cur) /\ Keeps(j, st, sta, d)
    BY <1>2 DEF MovesOne
  <2>2. RowTypes'
    BY <2>1 DEF Edit
  <2>3. RowsAgree'
    BY <1>a, <2>1 DEF Edit, RowsAgree, CurrentAttempt
  <2>4. SupersededSettled'
    BY <1>a, <2>1 DEF Edit, SupersededSettled, Attempts
  <2>5. /\ sta = "queued" => st \in {"record"} \cup PipelineStages
        /\ st = "none" => sta = "none"
    BY <2>1 DEF Moves, QueuedIsAStage, PipelineStages
  <2>6. QueuedIsAStage'
    BY <2>1, <2>5 DEF Edit, QueuedIsAStage
  <2>7. BuildsAreReady'
    BY <2>1 DEF Edit, Keeps, KeepsRetry, BuildsAreReady
  <2>. QED
    BY <2>2, <2>3, <2>4, <2>6, <2>7
<1>3. CASE OpensAttempt
  <2>1. PICK j \in Jobs : /\ job[j].state \in Settled
                          /\ job[j].cur + 1 \in Attempts
                          /\ Edit(j, "build", "queued", 0, job[j].cur + 1)
                          /\ Sets(j, TRUE, TRUE)
    BY <1>3 DEF OpensAttempt
  <2>2. RowTypes'
    BY <2>1 DEF Edit
  <2>3. RowsAgree'
    BY <1>a, <2>1 DEF Edit, RowsAgree, CurrentAttempt
  <2>4. att[j][job[j].cur].state \in Settled
    BY <2>1 DEF RowsAgree, CurrentAttempt
  <2>5. SupersededSettled'
    BY <1>a, <2>1, <2>4 DEF Edit, SupersededSettled, Attempts
  <2>6. QueuedIsAStage'
    BY <2>1 DEF Edit, QueuedIsAStage, PipelineStages
  <2>7. BuildsAreReady'
    BY <2>1 DEF Edit, Sets, BuildsAreReady
  <2>. QED
    BY <2>2, <2>3, <2>5, <2>6, <2>7
<1>4. CASE MarkIncompleteJobsInterrupted
  <2>1. RowTypes' /\ RowsAgree'
    BY <1>4, SweepEffect DEF RowsAgree
  <2>2. SupersededSettled'
    BY <1>4, <1>a, SweepEffect DEF SupersededSettled, Attempts
  <2>3. QueuedIsAStage'
    BY <1>4, SweepEffect DEF QueuedIsAStage, InFlight
  <2>4. BuildsAreReady'
    BY <1>4, SweepEffect DEF BuildsAreReady, Sets, InFlight, PipelineStages
  <2>. QED
    BY <2>1, <2>2, <2>3, <2>4
<1>. QED
  BY <1>1, <1>2, <1>3, <1>4 DEF TableStep

\* No step of the tables touches a superseded attempt.
LEMMA HistoryKept ==
  ASSUME Tables, TableStep, NEW j \in Jobs, NEW a \in Attempts, a < job[j].cur
  PROVE  att'[j][a] = att[j][a]
<1>a. \A k \in Jobs : job[k].cur \in Attempts /\ job[k].cur \in Nat
  BY CurrentAttemptType DEF Attempts, Tables
<1>b. a \in Nat /\ a # job[j].cur /\ a # job[j].cur + 1
  BY <1>a DEF Attempts
<1>1. CASE Quiet
  BY <1>1 DEF Quiet
<1>2. CASE MovesOne
  BY <1>2, <1>b DEF MovesOne, Edit
<1>3. CASE OpensAttempt
  BY <1>3, <1>b DEF OpensAttempt, Edit
<1>4. CASE MarkIncompleteJobsInterrupted
  BY <1>4, <1>b, SweepEffect
<1>. QED
  BY <1>1, <1>2, <1>3, <1>4 DEF TableStep

\* A step of the tables reaches the publish stage only with a sealed artifact
\* recorded, success only through the publish stage, and forgets no artifact.
LEMMA SealKept ==
  ASSUME Tables, PublishHasSeal, TableStep
  PROVE  PublishHasSeal'
<1>. USE DEF Tables
<1>1. CASE Quiet
  BY <1>1 DEF Quiet, PublishHasSeal, CurrentAttempt
<1>2. CASE MovesOne
  <2>1. PICK j \in Jobs, st \in Stages, sta \in States, d \in 0..DeferCap :
               Moves(j, st, sta) /\ Edit(j, st, sta, d, job[j].cur) /\ Keeps(j, st, sta, d)
    BY <1>2 DEF MovesOne
  <2>2. ASSUME st = "publish" \/ sta = "succeeded"
        PROVE  OpusAfter(j) # 0
    BY <2>1, <2>2 DEF Moves, Keeps, KeepsSeal, PublishHasSeal
  <2>3. CurrentAttempt(j)'.opus = OpusAfter(j)
    BY <2>1 DEF Edit, CurrentAttempt, OpusAfter
  <2>4. \A k \in Jobs : k # j => job'[k] = job[k] /\ CurrentAttempt(k)' = CurrentAttempt(k)
    BY <2>1 DEF Edit, CurrentAttempt
  <2>. QED
    BY <2>1, <2>2, <2>3, <2>4, EditIsLocal DEF PublishHasSeal
<1>3. CASE OpensAttempt
  BY <1>3 DEF OpensAttempt, Edit, PublishHasSeal, CurrentAttempt
<1>4. CASE MarkIncompleteJobsInterrupted
  BY <1>4, SweepEffect DEF PublishHasSeal
<1>. QED
  BY <1>1, <1>2, <1>3, <1>4 DEF TableStep

-----------------------------------------------------------------------------
(* Ownership: who is past the artifact mutex, and what its row says.       *)

\* A step that moves no worker past the mutex or out of it, and changes rows of
\* jobs nobody executes or waits to record, keeps the ownership.
LEMMA BystandersKeepOwnership ==
  ASSUME Ownership, ControlTypes, UNCHANGED <<pc, task, recorder, locked>>,
         \A j \in Jobs : \/ job'[j].stage = job[j].stage /\ job'[j].state = job[j].state
                         \/ /\ recorder[j] = "none"
                            /\ \A w \in Worker : pc[w] \in {"run", "delivered"} => task[w].job # j
  PROVE  Ownership'
<1>a. \A w \in Worker : task[w].job \in Jobs
  BY DEF ControlTypes, WorkerTypes, Tasks
<1>1. ArtifactMutex'
  BY DEF Ownership, ArtifactMutex, Holding, Recording
<1>2. RunnerOwnsRow'
  BY <1>a DEF Ownership, RunnerOwnsRow, Recording
<1>3. SpawnedIsQueued' /\ PublishersDeliver'
  BY DEF Ownership, SpawnedIsQueued, PublishersDeliver
<1>. QED
  BY <1>1, <1>2, <1>3 DEF Ownership

\* The end of a recording, whatever it wrote to its own row.
LEMMA RecordEndsOwnership ==
  ASSUME Ownership, ControlTypes, NEW j \in Jobs, Recording(j), RecordEnds(j), UNCHANGED <<pc, task>>,
         \A k \in Jobs : k # j => job'[k] = job[k]
  PROVE  Ownership'
<1>a. \A w \in Worker : task[w].job \in Jobs /\ (Holding(w) => task[w].job # j)
  BY DEF ControlTypes, WorkerTypes, Tasks, Ownership, ArtifactMutex
<1>b. \A k \in Jobs : recorder'[k] = IF k = j THEN "none" ELSE recorder[k]
  BY DEF RecordEnds, ControlTypes
<1>1. ArtifactMutex'
  BY <1>a, <1>b DEF RecordEnds, Ownership, ArtifactMutex, Holding, Recording
<1>2. RunnerOwnsRow'
  BY <1>a, <1>b DEF Ownership, RunnerOwnsRow, Holding, Recording
<1>3. SpawnedIsQueued' /\ PublishersDeliver'
  BY <1>b DEF Ownership, SpawnedIsQueued, PublishersDeliver
<1>. QED
  BY <1>1, <1>2, <1>3 DEF Ownership

\* The end of a worker's job, whatever it wrote to the row it was executing.
LEMMA WorkerEndsOwnership ==
  ASSUME Ownership, ControlTypes, NEW w \in Worker, Holding(w), WorkerEnds(w), UNCHANGED recorder,
         \A k \in Jobs : k # task[w].job => job'[k] = job[k],
         job' = job \/ recorder[task[w].job] # "spawned"
  PROVE  Ownership'
<1>. DEFINE j == task[w].job
<1>a. \A v \in Worker : task[v].job \in Jobs /\ (Holding(v) /\ v # w => task[v].job # j)
  BY DEF ControlTypes, WorkerTypes, Tasks, Ownership, ArtifactMutex
<1>b. \A v \in Worker : /\ pc'[v] = IF v = w THEN "idle" ELSE pc[v]
                        /\ v # w => task'[v] = task[v]
  BY DEF WorkerEnds, ControlTypes, WorkerTypes
<1>c. ~Recording(j)
  BY DEF Ownership, ArtifactMutex
<1>d. \A v \in Worker : Holding(v)' => v # w /\ Holding(v) /\ task'[v] = task[v]
  BY <1>b DEF Holding
<1>1. ArtifactMutex'
  <2>1. \A k \in Jobs : Recording(k)' => Recording(k) /\ k # j
    BY <1>c DEF Recording
  <2>2. locked' = locked \ {j}
    BY DEF WorkerEnds
  <2>. QED
    BY <1>a, <1>d, <2>1, <2>2 DEF Ownership, ArtifactMutex, Recording
<1>2. RunnerOwnsRow'
  BY <1>a, <1>b, <1>c DEF Ownership, RunnerOwnsRow, Holding, Recording
<1>3. SpawnedIsQueued' /\ PublishersDeliver'
  BY <1>b DEF Ownership, SpawnedIsQueued, PublishersDeliver
<1>. QED
  BY <1>1, <1>2, <1>3 DEF Ownership

\* The record goroutine, retry times and reruns.
LEMMA JobOwnership ==
  ASSUME IInv, PipelineAssumption, NEW j \in Jobs,
         prepareRecordJob(j) \/ RecordStep(j) \/ RetryTimePasses(j) \/ handleRerunJob(j)
  PROVE  Ownership'
<1>. USE DEF IInv, Tables
<1>a. /\ \A w \in Worker : task[w].job \in Jobs
      /\ \A w \in Worker : Holding(w) => task[w].job \in locked
      /\ \A k \in Jobs : Recording(k) => k \in locked
      /\ \A w \in Worker : pc[w] \in {"run", "delivered"} => job[task[w].job].state = "running"
                                                             /\ job[task[w].job].stage \in PipelineStages
  BY DEF ControlTypes, WorkerTypes, Tasks, Ownership, ArtifactMutex, RunnerOwnsRow, PipelineAssumption
<1>b. \A w \in Worker : pc[w] \in {"run", "delivered"} => Holding(w)
  BY DEF Holding
<1>1. CASE prepareRecordJob(j)
  <2>1. Edit(j, "record", "queued", job[j].defer, job[j].cur)
    BY <1>1, MarkEdits DEF prepareRecordJob, Stages, States
  <2>2. \A k \in Jobs : recorder'[k] = IF k = j THEN "spawned" ELSE recorder[k]
    BY <1>1 DEF prepareRecordJob, ControlTypes
  <2>3. \A w \in Worker : pc[w] \in {"run", "delivered"} => task[w].job # j
    BY <1>1, <1>a DEF prepareRecordJob, PipelineStages
  <2>4. ArtifactMutex'
    BY <1>1, <1>a, <2>2 DEF prepareRecordJob, Ownership, ArtifactMutex, Holding, Recording
  <2>5. RunnerOwnsRow'
    BY <1>1, <1>a, <2>1, <2>2, <2>3, EditIsLocal
    DEF prepareRecordJob, Ownership, RunnerOwnsRow, Recording
  <2>6. SpawnedIsQueued' /\ PublishersDeliver'
    BY <1>1, <2>1, <2>2, EditIsLocal DEF prepareRecordJob, Ownership, SpawnedIsQueued, PublishersDeliver
  <2>. QED
    BY <2>4, <2>5, <2>6 DEF Ownership
<1>2. CASE RecordStart(j)
  <2>1. CASE Mark(j, "record", "running") /\ recorder' = [recorder EXCEPT ![j] = "recording"]
             /\ locked' = locked \cup {j}
    <3>1. Edit(j, "record", "running", job[j].defer, job[j].cur)
      BY <2>1, MarkEdits DEF Stages, States
    <3>2. \A k \in Jobs : recorder'[k] = IF k = j THEN "recording" ELSE recorder[k]
      BY <2>1 DEF ControlTypes
    <3>3. UNCHANGED <<pc, task>> /\ \A w \in Worker : Holding(w) => task[w].job # j
      BY <1>2, <1>a DEF RecordStart
    <3>4. ArtifactMutex'
      BY <1>a, <2>1, <3>2, <3>3 DEF Ownership, ArtifactMutex, Holding, Recording
    <3>5. RunnerOwnsRow'
      BY <1>a, <1>b, <3>1, <3>2, <3>3, EditIsLocal DEF Ownership, RunnerOwnsRow, Recording
    <3>6. SpawnedIsQueued' /\ PublishersDeliver'
      BY <3>1, <3>2, <3>3, EditIsLocal DEF Ownership, SpawnedIsQueued, PublishersDeliver
    <3>. QED
      BY <3>4, <3>5, <3>6 DEF Ownership
  <2>2. CASE UNCHANGED <<job, att, locked>> /\ recorder' = [recorder EXCEPT ![j] = "none"]
    <3>1. \A k \in Jobs : recorder'[k] = IF k = j THEN "none" ELSE recorder[k]
      BY <2>2 DEF ControlTypes
    <3>2. UNCHANGED <<pc, task, locked, job>>
      BY <1>2, <2>2 DEF RecordStart
    <3>3. ArtifactMutex'
      BY <1>a, <3>1, <3>2 DEF Ownership, ArtifactMutex, Holding, Recording
    <3>4. RunnerOwnsRow'
      BY <1>a, <3>1, <3>2 DEF Ownership, RunnerOwnsRow, Recording
    <3>5. SpawnedIsQueued' /\ PublishersDeliver'
      BY <3>1, <3>2 DEF Ownership, SpawnedIsQueued, PublishersDeliver
    <3>. QED
      BY <3>3, <3>4, <3>5 DEF Ownership
  <2>. QED
    BY <1>2, <2>1, <2>2 DEF RecordStart
<1>3. CASE RecordFail(j)
  <2>1. Edit(j, "done", "failed", job[j].defer, job[j].cur)
    BY <1>3, MarkEdits DEF RecordFail, Stages, States
  <2>. QED
    BY <1>3, <2>1, EditIsLocal, RecordEndsOwnership DEF RecordFail, Recording
<1>4. CASE UpdateRecordOutcome(j)
  <2>1. Edit(j, job[j].stage, job[j].state, job[j].defer, job[j].cur)
    BY <1>4, UpdateRecordOutcomeEdits
  <2>2. \A k \in Jobs : recorder'[k] = IF k = j THEN "promoted" ELSE recorder[k]
    BY <1>4 DEF UpdateRecordOutcome, ControlTypes
  <2>3. UNCHANGED <<pc, task, locked>> /\ recorder[j] = "recording"
    BY <1>4 DEF UpdateRecordOutcome
  <2>4. \A k \in Jobs : job'[k].stage = job[k].stage /\ job'[k].state = job[k].state
    BY <2>1, EditIsLocal
  <2>5. ArtifactMutex'
    BY <1>a, <2>2, <2>3 DEF Ownership, ArtifactMutex, Holding, Recording
  <2>6. RunnerOwnsRow'
    BY <1>a, <2>2, <2>3, <2>4 DEF Ownership, RunnerOwnsRow, Recording
  <2>7. SpawnedIsQueued' /\ PublishersDeliver'
    BY <2>2, <2>3, <2>4 DEF Ownership, SpawnedIsQueued, PublishersDeliver
  <2>. QED
    BY <2>5, <2>6, <2>7 DEF Ownership
<1>5. CASE enqueueBuildJob(j)
  BY <1>5, enqueueBuildJobEdits, EditIsLocal, RecordEndsOwnership DEF enqueueBuildJob, Recording
<1>6. CASE RecordStranded(j)
  BY <1>6, RecordEndsOwnership DEF RecordStranded, Recording
<1>7. CASE RetryTimePasses(j)
  <2>1. \A k \in Jobs : job'[k].stage = job[k].stage /\ job'[k].state = job[k].state
    BY <1>7 DEF RetryTimePasses, RowTypes, JobRow
  <2>. QED
    BY <1>7, <2>1, BystandersKeepOwnership DEF RetryTimePasses
<1>8. CASE handleRerunJob(j)
  <2>1. recorder[j] # "spawned"
    BY <1>8 DEF handleRerunJob, Rerunnable, Ownership, SpawnedIsQueued
  <2>2. recorder[j] = "none" /\ \A w \in Worker : pc[w] \in {"run", "delivered"} => task[w].job # j
    BY <1>8, <1>a, <1>b, <2>1 DEF handleRerunJob, Recording, ControlTypes
  <2>3. \A k \in Jobs : k # j => job'[k] = job[k]
    BY <1>8, handleRerunJobEdits, EditIsLocal
  <2>4. UNCHANGED <<pc, task, recorder, locked>>
    BY <1>8 DEF handleRerunJob
  <2>. QED
    BY <2>2, <2>3, <2>4, BystandersKeepOwnership
<1>. QED
  BY <1>1, <1>2, <1>3, <1>4, <1>5, <1>6, <1>7, <1>8 DEF RecordStep

\* The workers.
LEMMA WorkerOwnership ==
  ASSUME IInv, PipelineAssumption, NEW w \in Worker, WorkerStep(w)
  PROVE  Ownership'
<1>. USE DEF IInv, Tables
<1>. DEFINE j == task[w].job
<1>a. /\ j \in Jobs /\ Serves[w] \in PipelineStages /\ task[w] \in Tasks(Serves[w])
      /\ \A v \in Worker : task[v].job \in Jobs
  BY DEF ControlTypes, WorkerTypes, Tasks, PipelineAssumption
<1>b. pc[w] \in {"run", "delivered"} =>
        Holding(w) /\ recorder[j] # "spawned" /\ job[j].stage = Serves[w] /\ job[j].state = "running"
  BY <1>a DEF Ownership, RunnerOwnsRow, SpawnedIsQueued, Holding
<1>c. ASSUME pc[w] \in {"run", "delivered"}, WorkerEnds(w), UNCHANGED recorder,
             \A k \in Jobs : k # j => job'[k] = job[k]
      PROVE  Ownership'
  BY <1>b, <1>c, WorkerEndsOwnership
<1>d. ASSUME NEW st \in Stages, NEW sta \in States, Mark(j, st, sta)
      PROVE  /\ job'[j].stage = st /\ job'[j].state = sta
             /\ \A k \in Jobs : k # j => job'[k] = job[k]
  BY <1>a, <1>d, MarkEdits, EditIsLocal
<1>e. ASSUME NEW c \in Controls, pc' = [pc EXCEPT ![w] = c]
      PROVE  \A v \in Worker : pc'[v] = IF v = w THEN c ELSE pc[v]
  BY <1>e DEF ControlTypes, WorkerTypes
<1>1. CASE Dequeue(w)
  <2>1. \A v \in Worker : /\ pc'[v] = IF v = w THEN "lock" ELSE pc[v]
                          /\ v # w => task'[v] = task[v]
    BY <1>1, <1>e DEF Dequeue, Controls, ControlTypes, WorkerTypes
  <2>2. UNCHANGED <<job, recorder, locked>>
    BY <1>1 DEF Dequeue
  <2>3. ArtifactMutex'
    BY <2>1, <2>2 DEF Ownership, ArtifactMutex, Holding, Recording
  <2>4. RunnerOwnsRow'
    BY <2>1, <2>2 DEF Ownership, RunnerOwnsRow, Recording
  <2>5. SpawnedIsQueued' /\ PublishersDeliver'
    BY <2>1, <2>2 DEF Ownership, SpawnedIsQueued, PublishersDeliver
  <2>. QED
    BY <2>3, <2>4, <2>5 DEF Ownership
<1>2. CASE lockArtifacts(w)
  <2>1. \A v \in Worker : pc'[v] = IF v = w THEN "admit" ELSE pc[v]
    BY <1>2, <1>e DEF lockArtifacts, Controls
  <2>2. UNCHANGED <<job, recorder, task>> /\ locked' = locked \cup {j} /\ j \notin locked
    BY <1>2 DEF lockArtifacts
  <2>3. ArtifactMutex'
    BY <1>a, <2>1, <2>2 DEF Ownership, ArtifactMutex, Holding, Recording
  <2>4. RunnerOwnsRow'
    BY <2>1, <2>2 DEF Ownership, RunnerOwnsRow, Recording
  <2>5. SpawnedIsQueued' /\ PublishersDeliver'
    BY <2>1, <2>2 DEF Ownership, SpawnedIsQueued, PublishersDeliver
  <2>. QED
    BY <2>3, <2>4, <2>5 DEF Ownership
<1>3. CASE Claim(w)
  <2>1. \A v \in Worker : pc'[v] = IF v = w THEN "run" ELSE pc[v]
    BY <1>3, <1>e DEF Claim, Controls
  <2>2. UNCHANGED <<recorder, task, locked>>
    BY <1>3 DEF Claim
  <2>3. Holding(w) /\ \A v \in Worker : Holding(v)' <=> Holding(v)
    BY <1>3, <2>1 DEF Claim, Admitted, Holding
  <2>4. /\ job'[j].stage = Serves[w] /\ job'[j].state = "running"
        /\ \A k \in Jobs : k # j => job'[k] = job[k]
    BY <1>3, <1>a, <1>d DEF Claim, PipelineStages, Stages, States
  <2>5. job[j].stage \in PipelineStages
    BY <1>3, <1>a DEF Claim, Claimable, BuildClaimable, SealClaimable, PublishClaimable, PipelineStages
  <2>6. ~Recording(j) /\ recorder[j] # "spawned"
    BY <2>3, <2>5, <1>a DEF Ownership, ArtifactMutex, SpawnedIsQueued, PipelineStages
  <2>7. ArtifactMutex'
    BY <2>2, <2>3 DEF Ownership, ArtifactMutex, Recording
  <2>8. RunnerOwnsRow'
    <3>1. \A v \in Worker : v # w /\ Holding(v) => task[v].job # j
      BY <2>3 DEF Ownership, ArtifactMutex
    <3>. QED
      BY <1>a, <2>1, <2>2, <2>4, <2>6, <3>1 DEF Ownership, RunnerOwnsRow, Recording, Holding
  <2>9. SpawnedIsQueued' /\ PublishersDeliver'
    BY <2>1, <2>2, <2>4, <2>6 DEF Ownership, SpawnedIsQueued, PublishersDeliver
  <2>. QED
    BY <2>7, <2>8, <2>9 DEF Ownership
<1>4. CASE ClaimSkipped(w) \/ StageStranded(w) \/ PublishTail(w)
  <2>1. Holding(w) /\ WorkerEnds(w) /\ UNCHANGED <<job, recorder>>
    BY <1>4 DEF ClaimSkipped, StageStranded, PublishTail, Admitted, Holding
  <2>. QED
    BY <2>1, WorkerEndsOwnership
<1>5. ASSUME NEW n \in 0..DeferCap, NEW due \in BOOLEAN, MarkBuildDeferred(task[w], n, due)
      PROVE  \A k \in Jobs : k # j => job'[k] = job[k]
  <2>1. CASE StillBuilding(task[w])
    BY <1>a, <1>5, <2>1, MarkBuildDeferredEdits, EditIsLocal
  <2>2. CASE ~StillBuilding(task[w])
    BY <1>5, <2>2 DEF MarkBuildDeferred
  <2>. QED
    BY <2>1, <2>2
<1>6. CASE BuildYields(w)
  <2>1. task[w].arg \in 0..DeferCap
    BY <1>6, <1>a DEF BuildYields, Running, Tasks
  <2>. QED
    BY <1>5, <1>6, <1>c, <2>1 DEF BuildYields, Running
<1>7. CASE BuildDefers(w)
  <2>1. task[w].arg + 1 \in 0..DeferCap
    BY <1>7, <1>a DEF BuildDefers, Running, Tasks, PipelineAssumption
  <2>. QED
    BY <1>5, <1>7, <1>c, <2>1 DEF BuildDefers, Running
<1>8. CASE BuildBlocks(w)
  <2>1. \A k \in Jobs : k # j => job'[k] = job[k]
    BY <1>8, <1>d DEF BuildBlocks, Stages, States
  <2>. QED
    BY <1>8, <1>c, <2>1 DEF BuildBlocks, Running
<1>9. CASE StageFails(w)
  BY <1>9, <1>c, <1>d DEF StageFails, Stages, States
<1>10. CASE enqueueSealJobNonBlocking(w)
  BY <1>10, <1>c, <1>d DEF enqueueSealJobNonBlocking, Running, Stages, States
<1>11. CASE enqueuePublishAfterSeal(w)
  <2>1. \A k \in Jobs : k # j => job'[k] = job[k]
    BY <1>11, <1>a, enqueuePublishAfterSealEdits, EditIsLocal DEF enqueuePublishAfterSeal, Running
  <2>. QED
    BY <1>11, <1>c, <2>1 DEF enqueuePublishAfterSeal, Running
<1>12. CASE Deliver(w)
  <2>1. \A v \in Worker : pc'[v] = IF v = w THEN "delivered" ELSE pc[v]
    BY <1>12, <1>e DEF Deliver, Controls
  <2>2. UNCHANGED <<job, recorder, task, locked>> /\ pc[w] = "run" /\ Serves[w] = "publish"
    BY <1>12 DEF Deliver, Running
  <2>3. ArtifactMutex'
    BY <2>1, <2>2 DEF Ownership, ArtifactMutex, Holding, Recording
  <2>4. RunnerOwnsRow'
    BY <2>1, <2>2 DEF Ownership, RunnerOwnsRow, Recording
  <2>5. SpawnedIsQueued' /\ PublishersDeliver'
    BY <2>1, <2>2 DEF Ownership, SpawnedIsQueued, PublishersDeliver
  <2>. QED
    BY <2>3, <2>4, <2>5 DEF Ownership
<1>13. CASE MarkPublishSucceeded(w)
  <2>1. \A v \in Worker : pc'[v] = IF v = w THEN "tail" ELSE pc[v]
    BY <1>13, <1>e DEF MarkPublishSucceeded, Controls
  <2>2. UNCHANGED <<recorder, task, locked>> /\ pc[w] = "delivered"
    BY <1>13 DEF MarkPublishSucceeded
  <2>3. \A k \in Jobs : k # j => job'[k] = job[k]
    BY <1>13, <1>d DEF MarkPublishSucceeded, Stages, States
  <2>4. ArtifactMutex'
    BY <2>1, <2>2 DEF Ownership, ArtifactMutex, Holding, Recording
  <2>5. RunnerOwnsRow'
    <3>1. ~Recording(j) /\ \A v \in Worker : v # w /\ Holding(v) => task[v].job # j
      BY <1>b, <2>2 DEF Ownership, ArtifactMutex
    <3>. QED
      BY <1>a, <2>1, <2>2, <2>3, <3>1 DEF Ownership, RunnerOwnsRow, Recording, Holding
  <2>6. SpawnedIsQueued' /\ PublishersDeliver'
    BY <1>b, <2>1, <2>2, <2>3 DEF Ownership, SpawnedIsQueued, PublishersDeliver
  <2>. QED
    BY <2>4, <2>5, <2>6 DEF Ownership
<1>. QED
  BY <1>1, <1>2, <1>3, <1>4, <1>6, <1>7, <1>8, <1>9, <1>10, <1>11, <1>12, <1>13 DEF WorkerStep

\* Every step keeps the ownership.
LEMMA OwnershipKept ==
  ASSUME IInv, PipelineAssumption, [Next]_vars
  PROVE  Ownership'
<1>1. CASE UNCHANGED vars
  BY <1>1, BystandersKeepOwnership DEF vars, IInv
<1>2. CASE (\E t \in BuildTasks : DeferredBuildSends(t)) \/ DispatcherStep
  BY <1>2, BystandersKeepOwnership
  DEF DeferredBuildSends, DispatcherStep, DispatchList, DispatchSend, IInv
<1>3. CASE Restart
  <2>1. (\A w \in Worker : pc'[w] = "idle") /\ (\A j \in Jobs : recorder'[j] = "none")
    BY <1>3 DEF Restart
  <2>2. ArtifactMutex' /\ RunnerOwnsRow'
    BY <2>1 DEF ArtifactMutex, RunnerOwnsRow, Holding, Recording
  <2>3. SpawnedIsQueued' /\ PublishersDeliver'
    BY <2>1 DEF SpawnedIsQueued, PublishersDeliver
  <2>. QED
    BY <2>2, <2>3 DEF Ownership
<1>. QED
  BY <1>1, <1>2, <1>3, JobOwnership, WorkerOwnership DEF Next

-----------------------------------------------------------------------------
(* A build in progress and its row.                                        *)

\* A worker that executes a stage after a step executed it before, on the same
\* task, or has just claimed it.
LEMMA RunningWasClaimed ==
  ASSUME ControlTypes, [Next]_vars, NEW w \in Worker, pc'[w] = "run"
  PROVE  (pc[w] = "run" /\ task'[w] = task[w]) \/ Claim(w)
<1>a. pc \in [Worker -> Controls] /\ DOMAIN task = Worker
  BY DEF ControlTypes, WorkerTypes
<1>1. CASE UNCHANGED <<pc, task>>
  BY <1>1
<1>2. CASE Restart
  BY <1>2 DEF Restart
<1>3. ASSUME NEW v \in Worker, WorkerStep(v), v # w
      PROVE  pc[w] = "run" /\ task'[w] = task[w]
  BY <1>3, <1>a DEF WorkerStep, Dequeue, lockArtifacts, Claim, ClaimSkipped, StageStranded, BuildYields,
     BuildDefers, BuildBlocks, StageFails, enqueueSealJobNonBlocking, enqueuePublishAfterSeal, Deliver,
     MarkPublishSucceeded, PublishTail, WorkerEnds
<1>4. CASE WorkerStep(w)
  BY <1>4, <1>a DEF WorkerStep, Dequeue, lockArtifacts, ClaimSkipped, StageStranded, BuildYields,
     BuildDefers, BuildBlocks, StageFails, enqueueSealJobNonBlocking, enqueuePublishAfterSeal, Deliver,
     MarkPublishSucceeded, PublishTail, WorkerEnds
<1>5. CASE \/ \E j \in Jobs : prepareRecordJob(j) \/ RecordStep(j) \/ RetryTimePasses(j) \/ handleRerunJob(j)
           \/ (\E t \in BuildTasks : DeferredBuildSends(t)) \/ DispatcherStep \/ UNCHANGED vars
  <2>1. UNCHANGED <<pc, task>>
    BY <1>5 DEF prepareRecordJob, RecordStep, RecordStart, RecordFail, UpdateRecordOutcome, enqueueBuildJob,
       RecordStranded, RetryTimePasses, handleRerunJob, DeferredBuildSends, DispatcherStep, DispatchList,
       DispatchSend, vars
  <2>. QED BY <2>1, <1>1
<1>. QED BY <1>2, <1>3, <1>4, <1>5 DEF Next

\* A row that stays running stays in its attempt at its deferral count.
LEMMA RunningKept ==
  ASSUME Tables, TableStep, NEW j \in Jobs, job[j].state = "running", job'[j].state = "running"
  PROVE  job'[j].cur = job[j].cur /\ job'[j].defer = job[j].defer
<1>1. CASE Quiet
  BY <1>1 DEF Quiet
<1>2. CASE MovesOne
  <2>1. PICK k \in Jobs, st \in Stages, sta \in States, d \in 0..DeferCap :
               Moves(k, st, sta) /\ Edit(k, st, sta, d, job[k].cur) /\ Keeps(k, st, sta, d)
    BY <1>2 DEF MovesOne
  <2>2. CASE k = j
    BY <2>1, <2>2 DEF Edit, Keeps, KeepsCount
  <2>3. CASE k # j
    BY <2>1, <2>3 DEF Edit
  <2>. QED BY <2>2, <2>3
<1>3. CASE OpensAttempt
  BY <1>3 DEF OpensAttempt, Edit, Settled
<1>4. CASE MarkIncompleteJobsInterrupted
  BY <1>4, SweepEffect
<1>. QED
  BY <1>1, <1>2, <1>3, <1>4 DEF TableStep

\* A build keeps building the attempt it claimed.
LEMMA BuildKept ==
  ASSUME IInv, BuildRunsItsOwnAttempt, PipelineAssumption, [Next]_vars
  PROVE  BuildRunsItsOwnAttempt'
<1>. SUFFICES ASSUME NEW w \in Worker, pc'[w] = "run", Serves[w] = "build"
     PROVE  job'[task'[w].job].cur = task'[w].attempt /\ job'[task'[w].job].defer = task'[w].arg
  BY DEF BuildRunsItsOwnAttempt, Running
<1>1. CASE pc[w] = "run" /\ task'[w] = task[w]
  <2>1. task[w].job \in Jobs /\ job[task[w].job].state = "running" /\ Tables /\ TableStep
    BY <1>1, NextIsTableStep DEF IInv, Ownership, RunnerOwnsRow, ControlTypes, WorkerTypes, Tasks
  <2>2. job'[task[w].job].state = "running"
    <3>1. RunnerOwnsRow'
      BY OwnershipKept DEF Ownership
    <3>. QED BY <1>1, <3>1 DEF RunnerOwnsRow
  <2>3. job[task[w].job].cur = task[w].attempt /\ job[task[w].job].defer = task[w].arg
    BY <1>1 DEF BuildRunsItsOwnAttempt, Running
  <2>. QED BY <1>1, <2>1, <2>2, <2>3, RunningKept
<1>2. CASE Claim(w)
  <2>1. BuildClaimable(task[w]) /\ Mark(task[w].job, "build", "running") /\ task' = task
    BY <1>2 DEF Claim, Claimable
  <2>2. task[w].job \in Jobs
    BY DEF IInv, ControlTypes, WorkerTypes, Tasks
  <2>3. Edit(task[w].job, "build", "running", job[task[w].job].defer, job[task[w].job].cur)
    BY <2>1, <2>2, MarkEdits DEF IInv, Tables, Stages, States
  <2>. QED BY <2>1, <2>3 DEF BuildClaimable, Edit
<1>. QED BY <1>1, <1>2, RunningWasClaimed DEF IInv

-----------------------------------------------------------------------------
(* The theorems.                                                           *)

\* The initial states satisfy the inductive invariant.
LEMMA InitIInv ==
  ASSUME PipelineAssumption, Init
  PROVE  IInv
<1>1. RowTypes
  BY DEF Init, PipelineAssumption, RowTypes, JobRow, AttemptRow, NoRow, Attempts, Stages, States
<1>2. RowsAgree /\ SupersededSettled /\ QueuedIsAStage /\ BuildsAreReady
  <2>1. 1 \in Attempts
    BY DEF PipelineAssumption, Attempts
  <2>. QED
    BY <2>1 DEF Init, RowsAgree, SupersededSettled, QueuedIsAStage, BuildsAreReady, CurrentAttempt, NoRow, Attempts
<1>3. ChannelTypes
  BY DEF Init, ChannelTypes, PipelineAssumption
<1>4. WorkerTypes
  BY NoTaskType DEF Init, WorkerTypes, Controls, PipelineAssumption
<1>5. ControlTypes
  BY <1>3, <1>4 DEF Init, ControlTypes, ScanTypes, PipelineAssumption
<1>6. Ownership
  BY DEF Init, Ownership, ArtifactMutex, RunnerOwnsRow, SpawnedIsQueued, PublishersDeliver,
         Holding, Recording
<1>. QED
  BY <1>1, <1>2, <1>5, <1>6 DEF IInv, Tables

\* Every step of the pipeline preserves the inductive invariant.
LEMMA NextIInv ==
  ASSUME IInv, PipelineAssumption, [Next]_vars
  PROVE  IInv'
<1>1. Tables'
  BY NextIsTableStep, TablesKept DEF IInv
<1>2. ControlTypes'
  <2>1. CASE UNCHANGED vars
    BY <2>1 DEF vars, IInv, ControlTypes, ChannelTypes, WorkerTypes, ScanTypes
  <2>. QED
    BY <2>1, JobStepTypes, WorkerStepTypes, ProcessStepTypes DEF Next, IInv, Tables
<1>3. Ownership'
  BY OwnershipKept
<1>. QED
  BY <1>1, <1>2, <1>3 DEF IInv

\* The inductive invariant holds throughout.
THEOREM Invariance == Spec => []IInv
<1>1. Init => IInv
  BY InitIInv, PipelineAssumption
<1>2. IInv /\ [Next]_vars => IInv'
  BY NextIInv, PipelineAssumption
<1>. QED
  BY <1>1, <1>2, PTL DEF Spec

\* Types hold throughout: rows, tasks and control points stay in their sets and
\* no channel exceeds its capacity, however many workers and jobs there are.
THEOREM TypeCorrect == Spec => []TypeOK
<1>1. IInv => TypeOK
  BY TypeHalves DEF IInv, Tables
<1>. QED
  BY <1>1, Invariance, PTL

\* Every transaction, rerun and sweep leaves the jobs row and its current
\* attempt's row in agreement.
THEOREM RowsAlwaysAgree == Spec => []RowsAgree
<1>1. IInv => RowsAgree
  BY DEF IInv, Tables
<1>. QED
  BY <1>1, Invariance, PTL

\* A superseded attempt is at rest and an unopened one has no row.
THEOREM SupersededAlwaysSettled == Spec => []SupersededSettled
<1>1. IInv => SupersededSettled
  BY DEF IInv, Tables
<1>. QED
  BY <1>1, Invariance, PTL

\* At most one worker or record goroutine is past a job's artifact mutex.
THEOREM MutualExclusion == Spec => []ArtifactMutex
<1>1. IInv => ArtifactMutex
  BY DEF IInv, Ownership
<1>. QED
  BY <1>1, Invariance, PTL

\* Whoever executes a stage finds its row running at that stage, so the outcome
\* it writes by job id is the outcome of the row it claimed.
THEOREM RunnersOwnRows == Spec => []RunnerOwnsRow
<1>1. IInv => RunnerOwnsRow
  BY DEF IInv, Ownership
<1>. QED
  BY <1>1, Invariance, PTL

\* Whatever is redelivered, rerun, swept or fails: a job at publish, and one that
\* succeeded, has a sealed artifact recorded on its current attempt
\* (MarkSealSucceeded writes it in the transaction that queues the publish).
THEOREM SealAlwaysRecorded == Spec => []PublishHasSeal
<1>1. Init => PublishHasSeal
  BY DEF Init, PublishHasSeal
<1>2. IInv /\ PublishHasSeal /\ [Next]_vars => PublishHasSeal'
  BY NextIsTableStep, SealKept, PipelineAssumption DEF IInv
<1>. QED
  BY <1>1, <1>2, Invariance, PTL DEF Spec

\* A build in progress builds the current attempt at the deferral count of its
\* task, however late the task was delivered: the conditional writes that defer
\* or block it find the row (ClaimBuildRunning, MarkBuildDeferred).
THEOREM BuildAlwaysRunsItsOwnAttempt == Spec => []BuildRunsItsOwnAttempt
<1>1. Init => BuildRunsItsOwnAttempt
  BY DEF Init, BuildRunsItsOwnAttempt, Running
<1>2. IInv /\ BuildRunsItsOwnAttempt /\ [Next]_vars => BuildRunsItsOwnAttempt'
  BY BuildKept, PipelineAssumption
<1>. QED
  BY <1>1, <1>2, Invariance, PTL DEF Spec

\* No step rewrites a superseded attempt.
THEOREM HistoryIsFrozen == Spec => SupersededFrozen
<1>1. IInv /\ [Next]_vars =>
        [\A j \in Jobs, a \in Attempts : a < job[j].cur => att'[j][a] = att[j][a]]_vars
  BY NextIsTableStep, HistoryKept, PipelineAssumption DEF IInv
<1>. QED
  BY <1>1, Invariance, PTL DEF Spec, SupersededFrozen

\* A settled job is moved only by the transaction that opens its next attempt.
THEOREM RestIsFinal == Spec => RestEndsOnlyByNewAttempt
<1>1. ASSUME IInv, [Next]_vars, NEW j \in Jobs, job[j].state \in Settled,
             <<job'[j].stage, job'[j].state>> # <<job[j].stage, job[j].state>>
      PROVE  job'[j].cur = job[j].cur + 1 /\ job'[j].stage = "build" /\ job'[j].state = "queued"
  <2>1. Tables /\ TableStep
    BY <1>1, NextIsTableStep, PipelineAssumption DEF IInv
  <2>2. CASE Quiet
    BY <1>1, <2>2 DEF Quiet
  <2>3. CASE MovesOne
    <3>1. \A st, sta : Moves(j, st, sta) => st = job[j].stage /\ sta = job[j].state
      BY <1>1, <2>1 DEF Moves, Tables, QueuedIsAStage, Settled
    <3>. QED
      BY <1>1, <2>3, <3>1 DEF MovesOne, Edit
  <2>4. CASE OpensAttempt
    BY <1>1, <2>4 DEF OpensAttempt, Edit
  <2>5. CASE MarkIncompleteJobsInterrupted
    BY <1>1, <2>1, <2>5, SweepEffect DEF InFlight
  <2>. QED
    BY <2>1, <2>2, <2>3, <2>4, <2>5 DEF TableStep
<1>2. IInv /\ [Next]_vars =>
        [\A j \in Jobs :
           job[j].state \in Settled /\ <<job'[j].stage, job'[j].state>> # <<job[j].stage, job[j].state>>
           => /\ job'[j].cur = job[j].cur + 1
              /\ job'[j].stage = "build" /\ job'[j].state = "queued"]_vars
  BY <1>1
<1>. QED
  BY <1>2, Invariance, PTL DEF Spec, RestEndsOnlyByNewAttempt

-----------------------------------------------------------------------------
(* Refinement: the pipeline implements JobLifecycle.                       *)

View == [j \in Jobs |-> [stage |-> job[j].stage, state |-> job[j].state, cur |-> job[j].cur]]

\* A job whose stage, state and attempt change alone changes the view alone.
LEMMA ViewOfOneJob ==
  ASSUME NEW j \in Jobs, NEW st, NEW sta, NEW d, NEW c, Edit(j, st, sta, d, c)
  PROVE  View' = [View EXCEPT ![j] = [stage |-> st, state |-> sta, cur |-> c]]
  BY DEF Edit, View

\* The sweep is the abstract interrupt.
LEMMA SweepIsInterrupt ==
  ASSUME Tables, MarkIncompleteJobsInterrupted
  PROVE  View' = [j \in Jobs |-> IF Lifecycle!Orphaned(View[j])
                                 THEN [View[j] EXCEPT !.state = "interrupted"] ELSE View[j]]
<1>1. ASSUME NEW j \in Jobs
      PROVE  View'[j] = IF Lifecycle!Orphaned(View[j])
                        THEN [View[j] EXCEPT !.state = "interrupted"] ELSE View[j]
  <2>1. InFlight(job[j]) <=> Lifecycle!Orphaned(View[j])
    <3>1. job[j].state \in States /\ job[j].stage \in Stages
      BY DEF Tables, RowTypes, JobRow
    <3>2. job[j].state = "queued" => job[j].stage \in {"record"} \cup PipelineStages
      BY DEF Tables, QueuedIsAStage
    <3>. QED
      BY <3>1, <3>2 DEF InFlight, Lifecycle!Orphaned, View, Settled, States, PipelineStages
  <2>2. /\ job'[j].stage = job[j].stage /\ job'[j].cur = job[j].cur
        /\ job'[j].state = IF InFlight(job[j]) THEN "interrupted" ELSE job[j].state
    BY SweepEffect
  <2>. QED
    BY <2>1, <2>2 DEF View
<1>. QED
  BY <1>1 DEF View

\* Every step of the tables is a step of the lifecycle or leaves the view alone.
LEMMA TableStepIsLifecycleStep ==
  ASSUME Tables, PipelineAssumption, TableStep
  PROVE  Lifecycle!Next \/ View' = View
<1>1. CASE Quiet
  BY <1>1 DEF Quiet, View
<1>2. CASE MovesOne
  <2>1. PICK j \in Jobs, st \in Stages, sta \in States, d \in 0..DeferCap :
               Moves(j, st, sta) /\ Edit(j, st, sta, d, job[j].cur) /\ Keeps(j, st, sta, d)
    BY <1>2 DEF MovesOne
  <2>2. View[j].stage = job[j].stage /\ View[j].state = job[j].state
    BY DEF View
  <2>3. View' = [View EXCEPT ![j] = [@ EXCEPT !.stage = st, !.state = sta]]
    <3>1. View' = [View EXCEPT ![j] = [stage |-> st, state |-> sta, cur |-> job[j].cur]]
      BY <2>1, ViewOfOneJob
    <3>. QED
      BY <3>1 DEF View
  <2>4. Lifecycle!Moves(j, st, sta)
    BY <2>3 DEF Lifecycle!Moves, View
  <2>5. CASE st = job[j].stage /\ sta = job[j].state
    <3>1. \A k \in Jobs : /\ job'[k].stage = job[k].stage /\ job'[k].state = job[k].state
                          /\ job'[k].cur = job[k].cur
      BY <2>1, <2>5 DEF Edit
    <3>. QED
      BY <3>1 DEF View
  <2>6. CASE ~(st = job[j].stage /\ sta = job[j].state)
    <3>1. \/ Lifecycle!Create(j) \/ Lifecycle!Start(j) \/ Lifecycle!Advance(j) \/ Lifecycle!Requeue(j)
          \/ Lifecycle!Block(j) \/ Lifecycle!Fail(j) \/ Lifecycle!Succeed(j)
      BY <2>1, <2>2, <2>4, <2>6
      DEF Moves, View, Lifecycle!Create, Lifecycle!Start, Lifecycle!Advance, Lifecycle!Requeue,
          Lifecycle!Block, Lifecycle!Fail, Lifecycle!Succeed, Lifecycle!Hands
    <3>. QED
      BY <3>1 DEF Lifecycle!Next
  <2>. QED
    BY <2>5, <2>6
<1>3. CASE OpensAttempt
  <2>1. PICK j \in Jobs : /\ job[j].state \in Settled
                          /\ job[j].cur + 1 \in Attempts
                          /\ Edit(j, "build", "queued", 0, job[j].cur + 1)
    BY <1>3 DEF OpensAttempt
  <2>2. job[j].cur \in Attempts
    BY CurrentAttemptType DEF Tables
  <2>3. View' = [View EXCEPT ![j] = [stage |-> "build", state |-> "queued", cur |-> job[j].cur + 1]]
    BY <2>1, ViewOfOneJob
  <2>4. Lifecycle!Retry(j)
    <3>1. View[j].state \in Settled /\ View[j].cur = job[j].cur /\ job[j].cur < MaxAttempts
      BY <2>1, <2>2 DEF View, Attempts, PipelineAssumption
    <3>2. View' = [View EXCEPT ![j] = [stage |-> "build", state |-> "queued", cur |-> @.cur + 1]]
      BY <2>3, <3>1
    <3>. QED
      BY <3>1, <3>2 DEF Lifecycle!Retry, View, Settled
  <2>. QED
    BY <2>4 DEF Lifecycle!Next
<1>4. CASE MarkIncompleteJobsInterrupted
  <2>1. Lifecycle!Interrupt
    BY <1>4, SweepIsInterrupt DEF Lifecycle!Interrupt, View
  <2>. QED
    BY <2>1 DEF Lifecycle!Next
<1>. QED
  BY <1>1, <1>2, <1>3, <1>4 DEF TableStep

\* The pipeline, with its workers, tasks, deferrals, dispatcher, store failures
\* and restarts, shows every job moving along the lifecycle.
THEOREM Refinement == Spec => ImplementsLifecycle
<1>1. Init => Lifecycle!Init
  BY DEF Init, Lifecycle!Init
<1>2. IInv /\ [Next]_vars => [Lifecycle!Next]_View
  BY NextIsTableStep, TableStepIsLifecycleStep, PipelineAssumption DEF IInv
<1>. QED
  BY <1>1, <1>2, Invariance, PTL DEF Spec, ImplementsLifecycle, Lifecycle!Spec, View
=============================================================================
