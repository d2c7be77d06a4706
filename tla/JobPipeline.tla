---------------------------- MODULE JobPipeline ----------------------------
(***************************************************************************)
(* The operator's durable job pipeline: the `jobs` row and the             *)
(* `job_attempts` rows of every job, the record goroutine, the build, seal *)
(* and publish workers with their bounded channels, the requeue            *)
(* dispatcher, deferred builds, reruns, and the restart sweep.             *)
(*                                                                         *)
(* The database is the only state that survives a restart; everything else *)
(* (channels, timers, the dispatcher's memory, workers, locks) does not.   *)
(***************************************************************************)
EXTENDS Naturals, Sequences, FiniteSets

CONSTANTS
  Jobs,          \* job ids
  Worker,        \* queue consumers: MaxBuildWorkers build ones, one seal, one publish
  Serves,        \* [Worker -> stage] whose queue a worker consumes
  Disposing,     \* jobs admitted with delete-after-processing
  MaxDeferrals,  \* buildResourceDeferralLimit
  QueueCap,      \* capacity of each channel
  StoreFaults,   \* whether a store write may return an error
  MaxAttempts,   \* bound: attempts of one job
  DeferCap,      \* bound: deferral count of a build waiting for its model
  MaxTimers,     \* bound: equal deferred-build goroutines alive at once
  MaxRestarts    \* bound: operator restarts

PipelineStages == {"build", "seal", "publish"}
Attempts       == 1..MaxAttempts

ASSUME PipelineAssumption ==
  /\ Jobs # {}
  /\ Serves \in [Worker -> PipelineStages]
  /\ Disposing \subseteq Jobs
  /\ MaxDeferrals \in Nat
  /\ QueueCap \in Nat \ {0}
  /\ StoreFaults \in BOOLEAN
  /\ MaxAttempts \in Nat \ {0}
  /\ DeferCap \in Nat /\ DeferCap > MaxDeferrals
  /\ MaxTimers \in Nat
  /\ MaxRestarts \in Nat

VARIABLES
  job,        \* [Jobs -> jobs row]
  att,        \* [Jobs -> [Attempts -> job_attempts row]]
  recorder,   \* the record goroutine of each job
  locked,     \* jobs whose artifact mutex is held (lockArtifacts)
  buildMu,    \* buildExecutionMu: the build workers holding it
  chan,       \* the worker channels, one per stage
  timers,     \* scheduleDeferredBuild goroutines, counted by task
  dispatched, \* the dispatcher's memory of (job, attempt) keys, one set per stage
  scan,       \* tasks the dispatcher listed and has still to offer
  pc, task,   \* control point and current task of each worker
  delivered,  \* which attempt's artifact the publish destination holds; 0: none
  restarts    \* restarts so far

db   == <<job, att, delivered>>
vars == <<job, att, recorder, locked, buildMu, chan, timers, dispatched, scan,
          pc, task, delivered, restarts>>

-----------------------------------------------------------------------------
(* Rows and tasks.                                                         *)

Stages == {"none", "record", "build", "seal", "publish", "done"}
States == {"none", "queued", "running", "interrupted", "blocked", "failed", "succeeded"}

\* run: artifact_run_path is set.  defer: build_deferral_count.
\* due: build_retry_not_before is NULL or has passed.
JobRow == [stage : Stages, state : States, cur : Attempts, run : BOOLEAN,
           defer : 0..DeferCap, due : BOOLEAN]

\* opus: the attempt whose meeting the recorded artifact_opus_path was packed
\* from; 0 while the seal has recorded nothing.
AttemptRow == [stage : Stages, state : States, defer : 0..DeferCap,
               opus : 0..MaxAttempts]

NoRow == [stage |-> "none", state |-> "none", defer |-> 0, opus |-> 0]

\* arg is what else the task carries: a build task its deferral count, a seal
\* task the attempt whose meeting it packs, a publish task the sealed artifact.
Tasks(s) == [job : Jobs, attempt : Attempts,
             arg : CASE s = "build"   -> 0..DeferCap
                     [] s = "seal"    -> Attempts
                     [] s = "publish" -> 0..MaxAttempts]
BuildTasks == Tasks("build")

NoTask == [job |-> CHOOSE j \in Jobs : TRUE, attempt |-> 1, arg |-> 1]

requeueKey(t) == <<t.job, t.attempt>>

\* States that no goroutine of the operator leaves by itself.
Settled == {"interrupted", "blocked", "failed", "succeeded"}

CurrentAttempt(j) == att[j][job[j].cur]

\* Every store transaction of the pipeline writes the jobs row and the row of
\* the attempt that is then current.
Write(j, row, attempt) ==
  /\ job' = [job EXCEPT ![j] = row]
  /\ att' = [att EXCEPT ![j] = [@ EXCEPT ![row.cur] = attempt]]

\* Mutant of Mark: the attempt row is forgotten.
MarkJobOnly(j, st, sta) ==
  /\ job' = [job EXCEPT ![j].stage = st, ![j].state = sta]
  /\ UNCHANGED att

\* The Mark... transactions write by job id: stage and state of both rows.
Mark(j, st, sta) ==
  Write(j, [job[j] EXCEPT !.stage = st, !.state = sta],
           [CurrentAttempt(j) EXCEPT !.stage = st, !.state = sta])

\* Mutant of Offer: the capacity is not looked at.
OfferUnchecked(s, t) == chan' = [chan EXCEPT ![s] = Append(@, t)]

\* The non-blocking send of a hand-off: a full channel drops the task.
Offer(s, t) ==
  chan' = IF Len(chan[s]) < QueueCap THEN [chan EXCEPT ![s] = Append(@, t)] ELSE chan

-----------------------------------------------------------------------------
(* Record stage.                                                           *)

prepareRecordJob(j) ==
  /\ job[j].stage = "none"
  /\ Mark(j, "record", "queued")
  /\ recorder' = [recorder EXCEPT ![j] = "spawned"]
  /\ UNCHANGED <<locked, buildMu, chan, timers, dispatched, scan, pc, task, delivered, restarts>>

\* runRecordJob up to MarkRecordRunning; if that write fails the goroutine ends.
RecordStart(j) ==
  /\ recorder[j] = "spawned"
  /\ j \notin locked
  /\ \/ /\ Mark(j, "record", "running")
        /\ recorder' = [recorder EXCEPT ![j] = "recording"]
        /\ locked' = locked \cup {j}
     \/ /\ StoreFaults
        /\ recorder' = [recorder EXCEPT ![j] = "none"]
        /\ UNCHANGED <<job, att, locked>>
  /\ UNCHANGED <<buildMu, chan, timers, dispatched, scan, pc, task, delivered, restarts>>

RecordEnds(j) ==
  /\ recorder' = [recorder EXCEPT ![j] = "none"]
  /\ locked' = locked \ {j}

\* The recorder failed, its bundle could not be promoted, or (when the store
\* may fail) the outcome or the build hand-off could not be written.
RecordFail(j) ==
  /\ \/ recorder[j] = "recording"
     \/ StoreFaults /\ recorder[j] = "promoted"
  /\ Mark(j, "done", "failed")
  /\ RecordEnds(j)
  /\ UNCHANGED <<buildMu, chan, timers, dispatched, scan, pc, task, delivered, restarts>>

\* promoteRunBundle and UpdateRecordOutcome: the run pointer is durable while
\* the row still says record/running.
UpdateRecordOutcome(j) ==
  /\ recorder[j] = "recording"
  /\ Write(j, [job[j] EXCEPT !.run = TRUE], CurrentAttempt(j))
  /\ recorder' = [recorder EXCEPT ![j] = "promoted"]
  /\ UNCHANGED <<locked, buildMu, chan, timers, dispatched, scan, pc, task, delivered, restarts>>

enqueueBuildJob(j) ==
  /\ recorder[j] = "promoted"
  /\ Write(j, [job[j] EXCEPT !.stage = "build", !.state = "queued",
                             !.run = TRUE, !.defer = 0, !.due = TRUE],
              [CurrentAttempt(j) EXCEPT !.stage = "build", !.state = "queued", !.defer = 0])
  /\ Offer("build", [job |-> j, attempt |-> 1, arg |-> 0])
  /\ RecordEnds(j)
  /\ UNCHANGED <<buildMu, timers, dispatched, scan, pc, task, delivered, restarts>>

\* The write that ends the record stage fails: the row stays record/running.
RecordStranded(j) ==
  /\ StoreFaults
  /\ recorder[j] \in {"recording", "promoted"}
  /\ RecordEnds(j)
  /\ UNCHANGED <<job, att, buildMu, chan, timers, dispatched, scan, pc, task, delivered, restarts>>

-----------------------------------------------------------------------------
(* Workers: take a task, take the job's artifact mutex, claim the row.     *)

Dequeue(w) ==
  LET s == Serves[w] IN
  /\ pc[w] = "idle"
  /\ chan[s] # <<>>
  /\ task' = [task EXCEPT ![w] = Head(chan[s])]
  /\ chan' = [chan EXCEPT ![s] = Tail(@)]
  /\ pc' = [pc EXCEPT ![w] = "lock"]
  /\ UNCHANGED <<job, att, recorder, locked, buildMu, timers, dispatched, scan, delivered, restarts>>

\* Mutant of lockArtifacts: it does not wait for the holder.
LockIgnoresHolder(w) ==
  /\ pc[w] = "lock"
  /\ locked' = locked \cup {task[w].job}
  /\ pc' = [pc EXCEPT ![w] = "admit"]
  /\ UNCHANGED <<job, att, recorder, buildMu, chan, timers, dispatched, scan, task, delivered, restarts>>

lockArtifacts(w) ==
  /\ pc[w] = "lock"
  /\ task[w].job \notin locked
  /\ locked' = locked \cup {task[w].job}
  /\ pc' = [pc EXCEPT ![w] = "admit"]
  /\ UNCHANGED <<job, att, recorder, buildMu, chan, timers, dispatched, scan, task, delivered, restarts>>

\* Return from run...Job: the deferred unlocks run. A worker keeps no task
\* between two jobs.
WorkerEnds(w) ==
  /\ pc' = [pc EXCEPT ![w] = "idle"]
  /\ task' = [task EXCEPT ![w] = NoTask]
  /\ locked' = locked \ {task[w].job}
  /\ buildMu' = buildMu \ {w}

\* Mutant of BuildClaimable: any task of the job claims its queued build.
BuildClaimableByJob(t) ==
  job[t.job].stage = "build" /\ job[t.job].state = "queued" /\ job[t.job].run /\ job[t.job].due

\* The WHERE clauses of ClaimBuildRunning, on the jobs row and on the attempt.
BuildClaimable(t) ==
  /\ job[t.job].stage = "build" /\ job[t.job].state = "queued"
  /\ job[t.job].cur = t.attempt
  /\ job[t.job].run
  /\ job[t.job].defer = t.arg
  /\ job[t.job].due
  /\ att[t.job][t.attempt].stage = "build" /\ att[t.job][t.attempt].state = "queued"
  /\ att[t.job][t.attempt].defer = t.arg

\* The WHERE clause of ClaimSealRunning.
SealClaimable(t) == job[t.job].stage = "seal" /\ job[t.job].state = "queued"

\* The WHERE clause of MarkPublishRunning.
PublishClaimable(t) == job[t.job].stage = "publish" /\ job[t.job].state = "queued"

Claimable(s, t) == CASE s = "build"   -> BuildClaimable(t)
                     [] s = "seal"    -> SealClaimable(t)
                     [] s = "publish" -> PublishClaimable(t)

\* Admission is only delayed by the recording policy, so it is not a guard. A
\* build waits for buildExecutionMu first.
Admitted(w) == pc[w] = "admit" /\ (Serves[w] = "build" => buildMu = {})

Claim(w) ==
  /\ Admitted(w)
  /\ Claimable(Serves[w], task[w])
  /\ Mark(task[w].job, Serves[w], "running")
  /\ pc' = [pc EXCEPT ![w] = "run"]
  /\ buildMu' = IF Serves[w] = "build" THEN buildMu \cup {w} ELSE buildMu
  /\ UNCHANGED <<recorder, locked, chan, timers, dispatched, scan, task, delivered, restarts>>

\* Not claimable, or the claim's transaction failed: the task is dropped.
ClaimSkipped(w) ==
  /\ Admitted(w)
  /\ StoreFaults \/ ~Claimable(Serves[w], task[w])
  /\ WorkerEnds(w)
  /\ UNCHANGED <<job, att, recorder, chan, timers, dispatched, scan, delivered, restarts>>

Running(w, s) == pc[w] = "run" /\ Serves[w] = s

\* The write that ends a stage fails: the row stays running, nobody owns it.
StageStranded(w) ==
  /\ StoreFaults
  /\ pc[w] \in {"run", "delivered"}
  /\ WorkerEnds(w)
  /\ UNCHANGED <<job, att, recorder, chan, timers, dispatched, scan, delivered, restarts>>

-----------------------------------------------------------------------------
(* Build outcomes.                                                         *)

\* The conditional writes of MarkBuildDeferred and MarkBuildBlocked.
StillBuilding(t) ==
  /\ job[t.job].stage = "build" /\ job[t.job].state = "running"
  /\ job[t.job].cur = t.attempt
  /\ job[t.job].defer = t.arg

\* Mutant of Spawn: nobody waits for the deferred build.
SpawnNobody(t) == UNCHANGED timers

\* scheduleDeferredBuild
Spawn(t) == timers' = [timers EXCEPT ![t] = @ + 1]

MarkBuildDeferred(t, n, due) ==
  IF StillBuilding(t)
  THEN /\ Write(t.job, [job[t.job] EXCEPT !.state = "queued", !.defer = n, !.due = due],
                       [CurrentAttempt(t.job) EXCEPT !.state = "queued", !.defer = n])
       /\ Spawn([t EXCEPT !.arg = n])
  ELSE UNCHANGED <<job, att, timers>>

\* A recording took priority: the build is cancelled and goes back to the
\* queue without using up a deferral.
BuildYields(w) ==
  LET t == task[w] IN
  /\ Running(w, "build")
  /\ timers[t] < MaxTimers
  /\ MarkBuildDeferred(t, t.arg, TRUE)
  /\ WorkerEnds(w)
  /\ UNCHANGED <<recorder, chan, dispatched, scan, delivered, restarts>>

\* resourceUnavailableError below the ceiling, or past it for a disposing job
\* that waits for its speech model.
BuildDefers(w) ==
  LET t == task[w] IN
  /\ Running(w, "build")
  /\ t.arg < MaxDeferrals \/ t.job \in Disposing
  /\ t.arg < DeferCap
  /\ timers[[t EXCEPT !.arg = @ + 1]] < MaxTimers
  /\ MarkBuildDeferred(t, t.arg + 1, FALSE)
  /\ WorkerEnds(w)
  /\ UNCHANGED <<recorder, chan, dispatched, scan, delivered, restarts>>

\* A permanent resource condition, or the retry ceiling.
BuildBlocks(w) ==
  LET t == task[w] IN
  /\ Running(w, "build")
  /\ t.job \notin Disposing
  /\ IF StillBuilding(t) THEN Mark(t.job, "build", "blocked") ELSE UNCHANGED <<job, att>>
  /\ WorkerEnds(w)
  /\ UNCHANGED <<recorder, chan, timers, dispatched, scan, delivered, restarts>>

\* A stage that fails ends the job at done/failed: MarkBuildFailed,
\* MarkSealFailed and MarkPublishFailed write by job id.
StageFails(w) ==
  /\ pc[w] = "run"
  /\ Mark(task[w].job, "done", "failed")
  /\ WorkerEnds(w)
  /\ UNCHANGED <<recorder, chan, timers, dispatched, scan, delivered, restarts>>

enqueueSealJobNonBlocking(w) ==
  LET t == task[w] IN
  /\ Running(w, "build")
  /\ Mark(t.job, "seal", "queued")
  /\ Offer("seal", [t EXCEPT !.arg = t.attempt])
  /\ WorkerEnds(w)
  /\ UNCHANGED <<recorder, timers, dispatched, scan, delivered, restarts>>

\* The timer of a deferred build runs out. While the row waits on that very
\* deferral the goroutine cannot send before the row is due; then the blocking
\* send waits for room in the channel.
DeferredBuildSends(t) ==
  /\ timers[t] > 0
  /\ ~(/\ job[t.job].stage = "build" /\ job[t.job].cur = t.attempt
       /\ job[t.job].defer = t.arg /\ ~job[t.job].due)
  /\ Len(chan["build"]) < QueueCap
  /\ chan' = [chan EXCEPT !["build"] = Append(@, t)]
  /\ timers' = [timers EXCEPT ![t] = @ - 1]
  /\ UNCHANGED <<job, att, recorder, locked, buildMu, dispatched, scan, pc, task, delivered, restarts>>

RetryTimePasses(j) ==
  /\ ~job[j].due
  /\ job' = [job EXCEPT ![j] = [@ EXCEPT !.due = TRUE]]
  /\ UNCHANGED <<att, recorder, locked, buildMu, chan, timers, dispatched, scan, pc, task, delivered, restarts>>

-----------------------------------------------------------------------------
(* Seal and publish outcomes.                                              *)

\* Mutant of enqueuePublishAfterSeal: the artifact is not recorded.
SealRecordsNothing(w) ==
  /\ Running(w, "seal")
  /\ Mark(task[w].job, "publish", "queued")
  /\ Offer("publish", task[w])
  /\ WorkerEnds(w)
  /\ UNCHANGED <<recorder, timers, dispatched, scan, delivered, restarts>>

\* Mutant of enqueuePublishAfterSeal: the attempt named by the task is written.
SealWritesTaskAttempt(w) ==
  LET t == task[w]  j == t.job IN
  /\ Running(w, "seal")
  /\ job' = [job EXCEPT ![j].stage = "publish", ![j].state = "queued"]
  /\ att' = [att EXCEPT ![j][t.attempt].stage = "publish",
                        ![j][t.attempt].state = "queued",
                        ![j][t.attempt].opus = t.arg]
  /\ Offer("publish", t)
  /\ WorkerEnds(w)
  /\ UNCHANGED <<recorder, timers, dispatched, scan, delivered, restarts>>

\* MarkSealSucceeded records the artifact on the current attempt and queues the
\* publish in one transaction.
enqueuePublishAfterSeal(w) ==
  LET t == task[w]  j == t.job IN
  /\ Running(w, "seal")
  /\ Write(j, [job[j] EXCEPT !.stage = "publish", !.state = "queued"],
              [CurrentAttempt(j) EXCEPT !.stage = "publish", !.state = "queued", !.opus = t.arg])
  /\ Offer("publish", t)
  /\ WorkerEnds(w)
  /\ UNCHANGED <<recorder, timers, dispatched, scan, delivered, restarts>>

\* verifySealedPublishInput accepted the task's artifact and the sink took it.
Deliver(w) ==
  /\ Running(w, "publish")
  /\ task[w].arg # 0
  /\ delivered' = [delivered EXCEPT ![task[w].job] = task[w].arg]
  /\ pc' = [pc EXCEPT ![w] = "delivered"]
  /\ UNCHANGED <<job, att, recorder, locked, buildMu, chan, timers, dispatched, scan, task, restarts>>

MarkPublishSucceeded(w) ==
  /\ pc[w] = "delivered"
  /\ Mark(task[w].job, "done", "succeeded")
  /\ pc' = [pc EXCEPT ![w] = "tail"]
  /\ UNCHANGED <<recorder, locked, buildMu, chan, timers, dispatched, scan, task, delivered, restarts>>

\* Notification, indexing, staging removal and archive promotion, still under
\* the job's artifact mutex.
PublishTail(w) ==
  /\ pc[w] = "tail"
  /\ WorkerEnds(w)
  /\ UNCHANGED <<job, att, recorder, chan, timers, dispatched, scan, delivered, restarts>>

-----------------------------------------------------------------------------
(* Requeue dispatcher.                                                     *)

\* The task ListQueued...Tasks builds from a queued row of stage s.
ListedTask(s, j) ==
  [job |-> j, attempt |-> job[j].cur,
   arg |-> CASE s = "build"   -> job[j].defer
             [] s = "seal"    -> job[j].cur
             [] s = "publish" -> CurrentAttempt(j).opus]

ListQueued(s) ==
  {ListedTask(s, j) : j \in {k \in Jobs : /\ job[k].stage = s /\ job[k].state = "queued"
                                          /\ s = "build" => job[k].run /\ job[k].due}}

\* A pass lists the rows once and offers the tasks one by one afterwards. Only
\* the dispatcher reads its memory, so forgetting the rows that are no longer
\* queued (pruneDispatched) and skipping the tasks already sent happen here.
DispatchList(s) ==
  LET listed == ListQueued(s)
      kept   == dispatched[s] \cap {requeueKey(t) : t \in listed}
  IN
  /\ scan = {}
  /\ dispatched' = [dispatched EXCEPT ![s] = kept]
  /\ scan' = {<<s, t>> : t \in {u \in listed : requeueKey(u) \notin kept}}
  /\ UNCHANGED <<job, att, recorder, locked, buildMu, chan, timers, pc, task, delivered, restarts>>

\* Mutant of DispatchSend: a task counts as dispatched even when it was dropped.
DispatchSendMarksAlways(s, t) ==
  /\ <<s, t>> \in scan
  /\ scan' = scan \ {<<s, t>>}
  /\ Offer(s, t)
  /\ dispatched' = [dispatched EXCEPT ![s] = @ \cup {requeueKey(t)}]
  /\ UNCHANGED <<job, att, recorder, locked, buildMu, timers, pc, task, delivered, restarts>>

DispatchSend(s, t) ==
  /\ <<s, t>> \in scan
  /\ scan' = scan \ {<<s, t>>}
  /\ Offer(s, t)
  /\ dispatched' = IF Len(chan[s]) < QueueCap
                   THEN [dispatched EXCEPT ![s] = @ \cup {requeueKey(t)}]
                   ELSE dispatched
  /\ UNCHANGED <<job, att, recorder, locked, buildMu, timers, pc, task, delivered, restarts>>

-----------------------------------------------------------------------------
(* Reruns and restarts.                                                    *)

\* handleRerunJob's gate on the row it read, and queueAttemptTx under the
\* job's artifact mutex; then the handler offers the build task.
Rerunnable(j) ==
  /\ \/ job[j].stage = "done" /\ job[j].state \in {"failed", "succeeded"}
     \/ job[j].stage = "build" /\ job[j].state = "blocked"
     \/ job[j].state = "interrupted"
  /\ job[j].run
  /\ j \notin Disposing

handleRerunJob(j) ==
  LET n == job[j].cur + 1 IN
  /\ j \notin locked
  /\ Rerunnable(j)
  /\ n <= MaxAttempts
  /\ Write(j, [job[j] EXCEPT !.stage = "build", !.state = "queued", !.cur = n,
                             !.defer = 0, !.due = TRUE],
              [NoRow EXCEPT !.stage = "build", !.state = "queued"])
  /\ Offer("build", [job |-> j, attempt |-> n, arg |-> 0])
  /\ UNCHANGED <<recorder, locked, buildMu, timers, dispatched, scan, pc, task, delivered, restarts>>

\* Mutant of InFlight: only recordings are swept.
InFlightRecordOnly(row) == row.stage = "record" /\ row.state \notin Settled

\* Mutant of InFlight: rows queued for a worker are swept too.
InFlightAll(row) == row.state \notin Settled \cup {"none"}

\* The rows the startup sweep stamps.
InFlight(row) ==
  /\ row.state \notin Settled \cup {"none"}
  /\ ~(row.state = "queued" /\ row.stage \in PipelineStages)

MarkIncompleteJobsInterrupted ==
  /\ job' = [j \in Jobs |-> IF InFlight(job[j])
                            THEN [job[j] EXCEPT !.state = "interrupted"] ELSE job[j]]
  /\ att' = [j \in Jobs |-> [a \in Attempts |->
                IF InFlight(att[j][a])
                THEN [att[j][a] EXCEPT !.state = "interrupted"] ELSE att[j][a]]]

\* Mutant of Restart: the sweep runs while the workers work.
RestartSweepsLate ==
  /\ restarts < MaxRestarts
  /\ restarts' = restarts + 1
  /\ MarkIncompleteJobsInterrupted
  /\ UNCHANGED <<recorder, locked, buildMu, chan, timers, dispatched, scan, pc, task, delivered>>

\* A new process: the sweep runs before the workers start, and only the
\* database and the publish destination are carried over.
Restart ==
  /\ restarts < MaxRestarts
  /\ restarts' = restarts + 1
  /\ MarkIncompleteJobsInterrupted
  /\ recorder' = [j \in Jobs |-> "none"]
  /\ locked' = {}
  /\ buildMu' = {}
  /\ chan' = [s \in PipelineStages |-> <<>>]
  /\ timers' = [t \in BuildTasks |-> 0]
  /\ dispatched' = [s \in PipelineStages |-> {}]
  /\ scan' = {}
  /\ pc' = [w \in Worker |-> "idle"]
  /\ task' = [w \in Worker |-> NoTask]
  /\ UNCHANGED delivered

-----------------------------------------------------------------------------
Init ==
  /\ job = [j \in Jobs |-> [stage |-> "none", state |-> "none", cur |-> 1,
                            run |-> FALSE, defer |-> 0, due |-> TRUE]]
  /\ att = [j \in Jobs |-> [a \in Attempts |-> NoRow]]
  /\ delivered = [j \in Jobs |-> 0]
  /\ restarts = 0
  /\ recorder = [j \in Jobs |-> "none"]
  /\ locked = {}
  /\ buildMu = {}
  /\ chan = [s \in PipelineStages |-> <<>>]
  /\ timers = [t \in BuildTasks |-> 0]
  /\ dispatched = [s \in PipelineStages |-> {}]
  /\ scan = {}
  /\ pc = [w \in Worker |-> "idle"]
  /\ task = [w \in Worker |-> NoTask]

RecordStep(j) ==
  \/ RecordStart(j) \/ RecordFail(j) \/ UpdateRecordOutcome(j)
  \/ enqueueBuildJob(j) \/ RecordStranded(j)

WorkerStep(w) ==
  \/ Dequeue(w) \/ lockArtifacts(w) \/ Claim(w) \/ ClaimSkipped(w) \/ StageStranded(w)
  \/ BuildYields(w) \/ BuildDefers(w) \/ BuildBlocks(w) \/ StageFails(w)
  \/ enqueueSealJobNonBlocking(w) \/ enqueuePublishAfterSeal(w)
  \/ Deliver(w) \/ MarkPublishSucceeded(w) \/ PublishTail(w)

DispatcherStep ==
  \/ \E s \in PipelineStages : DispatchList(s)
  \/ \E s \in PipelineStages : \E t \in Tasks(s) : DispatchSend(s, t)

Next ==
  \/ \E j \in Jobs : prepareRecordJob(j) \/ RecordStep(j) \/ RetryTimePasses(j) \/ handleRerunJob(j)
  \/ \E w \in Worker : WorkerStep(w)
  \/ \E t \in BuildTasks : DeferredBuildSends(t)
  \/ DispatcherStep
  \/ Restart

Spec == Init /\ [][Next]_vars

-----------------------------------------------------------------------------
(* Fairness.  Goroutines that can run do run; waiting for a mutex is fair   *)
(* (sync.Mutex hands itself to a starved waiter); a build that is retried   *)
(* for ever eventually ends.  Nothing is assumed of users, restarts or the  *)
(* store.                                                                   *)

\* What worker w does next, except for how a build it has started ends.
Advances(w) ==
  \/ Dequeue(w) \/ lockArtifacts(w) \/ Claim(w) \/ ClaimSkipped(w)
  \/ enqueuePublishAfterSeal(w) \/ Deliver(w) \/ (Serves[w] # "build" /\ StageFails(w))
  \/ MarkPublishSucceeded(w) \/ PublishTail(w)

BuildEnds(j) ==
  \E w \in Worker : task[w].job = j /\ (enqueueSealJobNonBlocking(w) \/ BuildBlocks(w)
                                        \/ (Serves[w] = "build" /\ StageFails(w)))

Fairness ==
  /\ \A j \in Jobs : WF_vars(RecordStep(j)) /\ WF_vars(RetryTimePasses(j)) /\ SF_vars(BuildEnds(j))
  /\ \A w \in Worker : SF_vars(Advances(w))
  /\ \A s \in PipelineStages : SF_vars(DispatchList(s))
  /\ WF_vars(\E s \in PipelineStages : \E t \in Tasks(s) : DispatchSend(s, t))
  /\ SF_vars(\E t \in BuildTasks : DeferredBuildSends(t))

FairSpec == Spec /\ Fairness

-----------------------------------------------------------------------------
(* Properties.                                                             *)

Controls == {"idle", "lock", "admit", "run", "delivered", "tail"}

\* Rows, tasks and control points stay in their types, a channel never holds
\* more than its capacity and the dispatcher offers tasks of known stages.
TypeOK ==
  /\ job \in [Jobs -> JobRow]
  /\ att \in [Jobs -> [Attempts -> AttemptRow]]
  /\ recorder \in [Jobs -> {"none", "spawned", "recording", "promoted"}]
  /\ locked \subseteq Jobs
  /\ buildMu \subseteq Worker
  /\ DOMAIN chan = PipelineStages
  /\ \A s \in PipelineStages : chan[s] \in Seq(Tasks(s)) /\ Len(chan[s]) <= QueueCap
  /\ timers \in [BuildTasks -> Nat]
  /\ dispatched \in [PipelineStages -> SUBSET (Jobs \X Attempts)]
  /\ \A x \in scan : \E s \in PipelineStages : \E t \in Tasks(s) : x = <<s, t>>
  /\ pc \in [Worker -> Controls]
  /\ DOMAIN task = Worker
  /\ \A w \in Worker : task[w] \in Tasks(Serves[w])
  /\ delivered \in [Jobs -> 0..MaxAttempts]
  /\ restarts \in Nat

\* The jobs row mirrors its current attempt's row: stage, state and deferral
\* count, through hand-offs, deferrals, reruns and the startup sweep, which
\* stamps the two tables by separate statements.
RowsAgree ==
  \A j \in Jobs : LET a == CurrentAttempt(j) IN
    a.stage = job[j].stage /\ a.state = job[j].state /\ a.defer = job[j].defer

\* An attempt that a rerun has superseded is at rest, and one not opened yet
\* has no row.
SupersededSettled ==
  \A j \in Jobs, a \in Attempts :
    /\ a < job[j].cur => att[j][a].state \in Settled
    /\ a > job[j].cur => att[j][a] = NoRow

Holding(w)   == pc[w] \in {"admit", "run", "delivered", "tail"}
Recording(j) == recorder[j] \in {"recording", "promoted"}

\* The per-job gate: everyone past lockArtifacts has the job locked, and of the
\* workers of all stages and the record goroutine at most one is past it.
ArtifactMutex ==
  /\ \A w \in Worker : Holding(w) => task[w].job \in locked /\ ~Recording(task[w].job)
  /\ \A j \in Jobs : Recording(j) => j \in locked
  /\ \A v, w \in Worker : Holding(v) /\ Holding(w) /\ task[v].job = task[w].job => v = w

\* While a worker executes a stage, or a goroutine a recording, the row says
\* that this stage is running: the outcome they will write by job id alone
\* lands on the row they claimed.
RunnerOwnsRow ==
  /\ \A w \in Worker : pc[w] \in {"run", "delivered"} =>
       job[task[w].job].stage = Serves[w] /\ job[task[w].job].state = "running"
  /\ \A j \in Jobs : Recording(j) =>
       job[j].stage = "record" /\ job[j].state = "running"

\* A build in progress builds the current attempt at the deferral count of its
\* task, so the conditional writes that defer or block it always find the row.
BuildRunsItsOwnAttempt ==
  \A w \in Worker : Running(w, "build") =>
    job[task[w].job].cur = task[w].attempt /\ job[task[w].job].defer = task[w].arg

Runners(j) == {w \in Worker : pc[w] \in {"run", "delivered"} /\ task[w].job = j}

\* Unless the store fails, a row that says running is being run by exactly one
\* worker or by its record goroutine; no job runs for nobody or twice.
RunningHasOneRunner ==
  ~StoreFaults =>
    \A j \in Jobs : job[j].state = "running" =>
      Cardinality(Runners(j)) + (IF Recording(j) THEN 1 ELSE 0) = 1

\* A job at publish or published has a sealed artifact recorded on its current
\* attempt, so a redelivered publish task always names one.
PublishHasSeal ==
  \A j \in Jobs : job[j].stage = "publish" \/ job[j].state = "succeeded" =>
    CurrentAttempt(j).opus # 0

\* Who can still bring stage s of job j to a worker.
Carries(s, j, t) ==
  /\ t.job = j /\ t.attempt = job[j].cur
  /\ s = "build" => t.arg = job[j].defer

Carried(s, j) ==
  \/ \E i \in DOMAIN chan[s] : Carries(s, j, chan[s][i])
  \/ \E w \in Worker : Serves[w] = s /\ pc[w] \in {"lock", "admit"} /\ Carries(s, j, task[w])
  \/ s = "build" /\ \E t \in BuildTasks : timers[t] > 0 /\ Carries(s, j, t)

\* The dispatcher forgets a task only when its row leaves the queue, so a row
\* it believes dispatched must still be on its way to a worker: otherwise the
\* row would wait until the next restart.
DispatchedIsCarried ==
  ~StoreFaults =>
    \A s \in PipelineStages, j \in Jobs :
      (/\ job[j].stage = s /\ job[j].state = "queued"
       /\ <<j, job[j].cur>> \in dispatched[s]) => Carried(s, j)

\* While the store works, a running row has exactly one executor, and a row the
\* dispatcher remembers as sent is carried by somebody.
WorkIsCarried == RunningHasOneRunner /\ DispatchedIsCarried

\* A superseded attempt's row is history: no worker, late task, rerun or sweep
\* rewrites it.
SupersededFrozen ==
  [][\A j \in Jobs, a \in Attempts : a < job[j].cur => att'[j][a] = att[j][a]]_vars

\* A settled job is moved only by opening the next attempt, at build/queued.
RestEndsOnlyByNewAttempt ==
  [][\A j \in Jobs :
       job[j].state \in Settled /\ <<job'[j].stage, job'[j].state>> # <<job[j].stage, job[j].state>>
       => /\ job'[j].cur = job[j].cur + 1
          /\ job'[j].stage = "build" /\ job'[j].state = "queued"]_vars

\* The API's view of every job follows the lifecycle.
Lifecycle == INSTANCE JobLifecycle WITH
  row <- [j \in Jobs |-> [stage |-> job[j].stage, state |-> job[j].state, cur |-> job[j].cur]]

ImplementsLifecycle == Lifecycle!Spec

\* While the store works, every accepted job comes to rest: no task is lost by
\* a full channel, a deferral, a restart or the dispatcher's memory.
Settles == \A j \in Jobs : job[j].stage # "none" ~> job[j].state \in Settled

\* "sealing must produce the artifact of *this* attempt" (seal_store.go): the
\* artifact an attempt records was packed from its own meeting.
SealsItsOwnMeeting ==
  \A j \in Jobs, a \in Attempts : att[j][a].opus \in {0, a}
=============================================================================
