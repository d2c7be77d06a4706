---------------------------- MODULE CarryProofs ----------------------------
(***************************************************************************)
(* No job is lost between the tables and the queues: a row the dispatcher  *)
(* believes sent is on its way to a worker, and a running row is being run *)
(* by exactly one worker or record goroutine.                              *)
(***************************************************************************)
EXTENDS JobPipelineProofs, FiniteSetTheorems

-----------------------------------------------------------------------------
(* Where a task can be.                                                    *)

InChan(s, t)  == \E i \in DOMAIN chan[s] : chan[s][i] = t
Waiting(s, t) == \E w \in Worker : Serves[w] = s /\ pc[w] \in {"lock", "admit"} /\ task[w] = t
Held(s, t)    == \E w \in Worker : Serves[w] = s /\ pc[w] # "idle" /\ task[w] = t
Moving(s, t)  == InChan(s, t) \/ Held(s, t) \/ <<s, t>> \in scan
Timed(s, t)   == s = "build" /\ timers[t] > 0

\* The stages of a job whose current attempt has come as far as stage s.
AtOrAfter(s) == CASE s = "build"   -> {"build", "seal", "publish", "done"}
                  [] s = "seal"    -> {"seal", "publish", "done"}
                  [] s = "publish" -> {"publish", "done"}

\* Attempt a of job j has been handed to stage s.
Reached(s, j, a) == a < job[j].cur \/ (a = job[j].cur /\ job[j].stage \in AtOrAfter(s))

-----------------------------------------------------------------------------
(* Channels.                                                               *)

\* A send that finds room.
LEMMA AppendInChan ==
  ASSUME ChannelTypes, NEW s \in PipelineStages, NEW t \in Tasks(s),
         chan' = [chan EXCEPT ![s] = Append(@, t)]
  PROVE  /\ \A r \in PipelineStages : \A u : InChan(r, u)' <=> InChan(r, u) \/ (r = s /\ u = t)
         /\ InChan(s, t)'
<1>1. chan[s] \in Seq(Tasks(s)) /\ chan'[s] = Append(chan[s], t)
  BY DEF ChannelTypes
<1>2. \A r \in PipelineStages : r # s => chan'[r] = chan[r]
  BY DEF ChannelTypes
<1>3. DOMAIN chan'[s] = 1..(Len(chan[s]) + 1) /\ DOMAIN chan[s] = 1..Len(chan[s]) /\ Len(chan[s]) \in Nat
  BY <1>1
<1>4. (\A i \in 1..Len(chan[s]) : chan'[s][i] = chan[s][i]) /\ chan'[s][Len(chan[s]) + 1] = t
  BY <1>1
<1>5. \A u : InChan(s, u)' <=> InChan(s, u) \/ u = t
  <2>1. ASSUME NEW u, InChan(s, u)'
        PROVE  InChan(s, u) \/ u = t
    <3>1. PICK i \in DOMAIN chan'[s] : chan'[s][i] = u
      BY <2>1 DEF InChan
    <3>2. i \in 1..Len(chan[s]) \/ i = Len(chan[s]) + 1
      BY <3>1, <1>3
    <3>. QED
      BY <3>1, <3>2, <1>3, <1>4 DEF InChan
  <2>2. ASSUME NEW u, InChan(s, u)
        PROVE  InChan(s, u)'
    <3>1. PICK i \in DOMAIN chan[s] : chan[s][i] = u
      BY <2>2 DEF InChan
    <3>2. i \in DOMAIN chan'[s]
      BY <3>1, <1>3
    <3>. QED
      BY <3>1, <3>2, <1>3, <1>4 DEF InChan
  <2>3. InChan(s, t)'
    <3>1. Len(chan[s]) + 1 \in DOMAIN chan'[s]
      BY <1>3
    <3>. QED
      BY <3>1, <1>4 DEF InChan
  <2>. QED
    BY <2>1, <2>2, <2>3
<1>6. \A r \in PipelineStages : \A u : r # s => (InChan(r, u)' <=> InChan(r, u))
  BY <1>2 DEF InChan
<1>. QED
  BY <1>5, <1>6

\* A non-blocking send adds at most its task and drops no other.
LEMMA OfferInChan ==
  ASSUME ChannelTypes, NEW s \in PipelineStages, NEW t \in Tasks(s), Offer(s, t)
  PROVE  /\ \A r \in PipelineStages : \A u : InChan(r, u) => InChan(r, u)'
         /\ \A r \in PipelineStages : \A u : InChan(r, u)' => InChan(r, u) \/ (r = s /\ u = t)
         /\ Len(chan[s]) < QueueCap => InChan(s, t)'
<1>1. CASE Len(chan[s]) < QueueCap
  BY <1>1, AppendInChan DEF Offer
<1>2. CASE ~(Len(chan[s]) < QueueCap)
  BY <1>2 DEF Offer, InChan
<1>. QED
  BY <1>1, <1>2

\* A worker takes the first task of its channel.
LEMMA DequeueInChan ==
  ASSUME ChannelTypes, WorkerTypes, PipelineAssumption, NEW w \in Worker, Dequeue(w)
  PROVE  /\ InChan(Serves[w], task'[w])
         /\ \A r \in PipelineStages : \A u : InChan(r, u)' => InChan(r, u)
         /\ \A r \in PipelineStages : \A u : InChan(r, u) => InChan(r, u)' \/ (r = Serves[w] /\ u = task'[w])
<1>. DEFINE s == Serves[w]
<1>1. s \in PipelineStages /\ chan[s] \in Seq(Tasks(s)) /\ chan[s] # <<>>
  BY DEF ChannelTypes, Dequeue, PipelineAssumption
<1>2. chan'[s] = Tail(chan[s]) /\ task'[w] = Head(chan[s])
  BY <1>1 DEF Dequeue, ChannelTypes, WorkerTypes
<1>3. \A r \in PipelineStages : r # s => chan'[r] = chan[r]
  BY <1>1 DEF Dequeue, ChannelTypes
<1>. HIDE DEF s
<1>4. /\ DOMAIN chan[s] = 1..Len(chan[s]) /\ Len(chan[s]) \in Nat /\ Len(chan[s]) > 0
      /\ DOMAIN chan'[s] = 1..(Len(chan[s]) - 1)
  BY <1>1, <1>2
<1>5. task'[w] = chan[s][1] /\ \A i \in 1..(Len(chan[s]) - 1) : chan'[s][i] = chan[s][i + 1]
  BY <1>1, <1>2
<1>6. InChan(s, task'[w])
  <2>1. 1 \in DOMAIN chan[s]
    BY <1>4
  <2>. QED
    BY <2>1, <1>5 DEF InChan
<1>7. ASSUME NEW u, InChan(s, u)'
      PROVE  InChan(s, u)
  <2>1. PICK i \in DOMAIN chan'[s] : chan'[s][i] = u
    BY <1>7 DEF InChan
  <2>2. i + 1 \in DOMAIN chan[s] /\ chan[s][i + 1] = u
    BY <2>1, <1>4, <1>5
  <2>. QED
    BY <2>2 DEF InChan
<1>8. ASSUME NEW u, InChan(s, u)
      PROVE  InChan(s, u)' \/ u = task'[w]
  <2>1. PICK i \in DOMAIN chan[s] : chan[s][i] = u
    BY <1>8 DEF InChan
  <2>2. CASE i = 1
    BY <2>1, <2>2, <1>5
  <2>3. CASE i # 1
    <3>1. i - 1 \in DOMAIN chan'[s] /\ (i - 1) + 1 = i
      BY <2>1, <2>3, <1>4
    <3>2. chan'[s][i - 1] = u
      BY <2>1, <3>1, <1>4, <1>5
    <3>. QED
      BY <3>1, <3>2 DEF InChan
  <2>. QED
    BY <2>2, <2>3
<1>9. \A r \in PipelineStages : \A u : r # s => (InChan(r, u)' <=> InChan(r, u))
  BY <1>3 DEF InChan
<1>. QED
  BY <1>6, <1>7, <1>8, <1>9 DEF s

-----------------------------------------------------------------------------
(* Workers.                                                                *)

\* A worker takes a task, moves past a point of its job, or returns.
WorkerMoves(w) ==
  \/ Dequeue(w)
  \/ lockArtifacts(w)
  \/ Claim(w)
  \/ pc[w] \in {"run", "delivered"} /\ UNCHANGED task /\ pc' \in {[pc EXCEPT ![w] = c] : c \in {"delivered", "tail"}}
  \/ pc[w] # "idle" /\ WorkerEnds(w) /\ (ClaimSkipped(w) \/ pc[w] \in {"run", "delivered", "tail"})

\* Every step moves at most one worker, or starts them all afresh.
LEMMA PcStep ==
  ASSUME ControlTypes, [Next]_vars
  PROVE  UNCHANGED <<pc, task>> \/ Restart \/ \E w \in Worker : WorkerMoves(w)
<1>1. ASSUME NEW w \in Worker, WorkerStep(w)
      PROVE  WorkerMoves(w)
  <2>1. CASE Dequeue(w) \/ lockArtifacts(w) \/ Claim(w)
    BY <2>1 DEF WorkerMoves
  <2>2. CASE ClaimSkipped(w)
    BY <2>2 DEF WorkerMoves, ClaimSkipped, Admitted
  <2>3. CASE Deliver(w) \/ MarkPublishSucceeded(w)
    BY <2>3 DEF Deliver, MarkPublishSucceeded, Running, WorkerMoves
  <2>4. CASE \/ StageStranded(w) \/ BuildYields(w) \/ BuildDefers(w) \/ BuildBlocks(w) \/ StageFails(w)
             \/ enqueueSealJobNonBlocking(w) \/ enqueuePublishAfterSeal(w) \/ PublishTail(w)
    <3>1. WorkerEnds(w) /\ pc[w] \in {"run", "delivered", "tail"}
      BY <2>4 DEF StageStranded, BuildYields, BuildDefers, BuildBlocks, StageFails,
                  enqueueSealJobNonBlocking, enqueuePublishAfterSeal, PublishTail, Running
    <3>. QED BY <3>1 DEF WorkerMoves
  <2>. QED
    BY <1>1, <2>1, <2>2, <2>3, <2>4 DEF WorkerStep
<1>2. CASE \/ \E j \in Jobs : prepareRecordJob(j) \/ RecordStep(j) \/ RetryTimePasses(j) \/ handleRerunJob(j)
           \/ (\E t \in BuildTasks : DeferredBuildSends(t)) \/ DispatcherStep \/ UNCHANGED vars
  BY <1>2 DEF prepareRecordJob, RecordStep, RecordStart, RecordFail, UpdateRecordOutcome, enqueueBuildJob,
     RecordStranded, RetryTimePasses, handleRerunJob, DeferredBuildSends, DispatcherStep, DispatchList,
     DispatchSend, vars
<1>. QED
  BY <1>1, <1>2 DEF Next

\* A worker holds only tasks it held or took from its channel.
LEMMA HeldSource ==
  ASSUME ControlTypes, PipelineAssumption, [Next]_vars, NEW s \in PipelineStages, NEW t, Held(s, t)'
  PROVE  Held(s, t) \/ InChan(s, t)
<1>. USE DEF ControlTypes
<1>1. PICK v \in Worker : Serves[v] = s /\ pc'[v] # "idle" /\ task'[v] = t
  BY DEF Held
<1>2. CASE UNCHANGED <<pc, task>>
  BY <1>1, <1>2 DEF Held
<1>3. CASE Restart
  BY <1>1, <1>3 DEF Restart
<1>4. ASSUME NEW w \in Worker, WorkerMoves(w)
      PROVE  Held(s, t) \/ InChan(s, t)
  <2>1. CASE v # w
    <3>1. pc'[v] = pc[v] /\ task'[v] = task[v]
      BY <1>4, <2>1 DEF WorkerMoves, Dequeue, lockArtifacts, Claim, WorkerEnds, WorkerTypes
    <3>. QED BY <1>1, <3>1 DEF Held
  <2>2. CASE v = w /\ Dequeue(w)
    BY <1>1, <2>2, DequeueInChan
  <2>3. CASE v = w /\ ~Dequeue(w)
    <3>1. pc[v] # "idle" /\ task'[v] = task[v]
      BY <1>1, <1>4, <2>3 DEF WorkerMoves, lockArtifacts, Claim, Admitted, WorkerEnds, WorkerTypes
    <3>. QED BY <1>1, <3>1 DEF Held
  <2>. QED BY <2>1, <2>2, <2>3
<1>. QED
  BY <1>2, <1>3, <1>4, PcStep

\* A task that waits with a worker leaves it by the claim alone.
LEMMA WaitingSink ==
  ASSUME ControlTypes, PipelineAssumption, [Next]_vars, ~Restart,
         NEW s \in PipelineStages, NEW t, Waiting(s, t)
  PROVE  \/ Waiting(s, t)'
         \/ \E w \in Worker : Serves[w] = s /\ task[w] = t /\ (Claim(w) \/ ClaimSkipped(w))
<1>. USE DEF ControlTypes
<1>1. PICK v \in Worker : Serves[v] = s /\ pc[v] \in {"lock", "admit"} /\ task[v] = t
  BY DEF Waiting
<1>2. CASE UNCHANGED <<pc, task>>
  BY <1>1, <1>2 DEF Waiting
<1>3. ASSUME NEW w \in Worker, WorkerMoves(w), v # w
      PROVE  Waiting(s, t)'
  <2>1. pc'[v] = pc[v] /\ task'[v] = task[v]
    BY <1>3 DEF WorkerMoves, Dequeue, lockArtifacts, Claim, WorkerEnds, WorkerTypes
  <2>. QED BY <1>1, <2>1 DEF Waiting
<1>4. CASE lockArtifacts(v)
  <2>1. pc'[v] = "admit" /\ task'[v] = task[v]
    BY <1>4 DEF lockArtifacts, WorkerTypes
  <2>. QED BY <1>1, <2>1 DEF Waiting
<1>5. CASE WorkerMoves(v) /\ ~lockArtifacts(v)
  BY <1>1, <1>5 DEF WorkerMoves, Dequeue
<1>. QED
  BY <1>2, <1>3, <1>4, <1>5, PcStep

\* A worker that takes a task waits with it.
LEMMA DequeueWaits ==
  ASSUME WorkerTypes, NEW w \in Worker, Dequeue(w), NEW t, t = task'[w]
  PROVE  Waiting(Serves[w], t)'
<1>1. pc'[w] = "lock"
  BY DEF Dequeue, WorkerTypes
<1>. QED
  BY <1>1 DEF Waiting

-----------------------------------------------------------------------------
(* Where tasks come from.                                                  *)

\* Every task that is anywhere belongs to a stage its attempt has come to.
Arrivals ==
  \A s \in PipelineStages : \A t \in Tasks(s) :
    Moving(s, t) \/ Timed(s, t) => Reached(s, t.job, t.attempt)

\* A task that a step puts into a queue: its attempt has come to the stage, and a
\* build is ready to start and asks for no higher count than its row.
Fresh(s, t) ==
  /\ Reached(s, t.job, t.attempt)'
  /\ s = "build" => job'[t.job].due /\ t.arg <= job'[t.job].defer

\* The sends of a step, by the channels they use.
ChanStep ==
  \/ UNCHANGED chan
  \/ Restart
  \/ \E w \in Worker : Dequeue(w)
  \/ \E t \in BuildTasks : DeferredBuildSends(t)
  \/ \E s \in PipelineStages : \E t \in Tasks(s) :
       Offer(s, t) /\ (Fresh(s, t) \/ DispatchSend(s, t))

LEMMA SendsAreFresh ==
  ASSUME IInv, Arrivals, PipelineAssumption, [Next]_vars
  PROVE  ChanStep
<1>. USE DEF IInv, Tables, ControlTypes
<1>a. /\ "build" \in PipelineStages /\ "seal" \in PipelineStages /\ "publish" \in PipelineStages
      /\ 0 \in 0..DeferCap /\ 1 \in Attempts
  BY DEF PipelineStages, PipelineAssumption, Attempts
<1>b. \A j \in Jobs : job[j].cur \in Attempts /\ job[j].cur \in Nat /\ job[j].cur >= 1
  BY CurrentAttemptType DEF Attempts
<1>c. \A w \in Worker : Serves[w] \in PipelineStages /\ task[w] \in Tasks(Serves[w]) /\ task[w].job \in Jobs
                       /\ task[w].attempt \in Attempts
  BY DEF WorkerTypes, PipelineAssumption, Tasks
<1>1. ASSUME NEW j \in Jobs, enqueueBuildJob(j)
      PROVE  ChanStep
  <2>. DEFINE t == [job |-> j, attempt |-> 1, arg |-> 0]
  <2>1. t \in Tasks("build") /\ t.job = j /\ t.attempt = 1 /\ t.arg = 0
    BY <1>a DEF Tasks
  <2>2. Offer("build", t)
    BY <1>1 DEF enqueueBuildJob
  <2>3. Edit(j, "build", "queued", 0, job[j].cur) /\ Sets(j, TRUE, TRUE)
    BY <1>1, enqueueBuildJobEdits
  <2>. HIDE DEF t
  <2>4. Fresh("build", t)
    BY <2>1, <2>3, <1>b DEF Edit, Sets, Fresh, Reached, AtOrAfter
  <2>. QED
    BY <1>a, <2>1, <2>2, <2>4 DEF ChanStep
<1>2. ASSUME NEW j \in Jobs, handleRerunJob(j)
      PROVE  ChanStep
  <2>1. job[j].cur + 1 \in Attempts /\ Edit(j, "build", "queued", 0, job[j].cur + 1) /\ Sets(j, TRUE, TRUE)
    BY <1>2, handleRerunJobEdits
  <2>2. PICK t \in Tasks("build") : t = [job |-> j, attempt |-> job[j].cur + 1, arg |-> 0]
    BY <1>a, <2>1 DEF Tasks
  <2>3. Offer("build", t)
    BY <1>2, <2>2 DEF handleRerunJob
  <2>4. Fresh("build", t)
    BY <2>1, <2>2 DEF Edit, Sets, Fresh, Reached, AtOrAfter
  <2>. QED
    BY <1>a, <2>3, <2>4 DEF ChanStep
<1>3. ASSUME NEW w \in Worker, enqueueSealJobNonBlocking(w)
      PROVE  ChanStep
  <2>1. PICK t \in Tasks("seal") : t = [task[w] EXCEPT !.arg = task[w].attempt]
    BY <1>3, <1>c DEF Tasks, enqueueSealJobNonBlocking, Running
  <2>2. t.job = task[w].job /\ t.attempt = task[w].attempt
    BY <1>3, <1>c, <2>1 DEF Tasks, enqueueSealJobNonBlocking, Running
  <2>3. Offer("seal", t)
    BY <1>3, <2>1 DEF enqueueSealJobNonBlocking
  <2>4. Edit(t.job, "seal", "queued", job[t.job].defer, job[t.job].cur)
    BY <1>3, <1>c, <2>2, MarkEdits DEF enqueueSealJobNonBlocking, Stages, States
  <2>5. Reached("build", t.job, t.attempt)
    BY <1>3, <1>a, <1>c, <2>2 DEF Arrivals, Moving, Held, enqueueSealJobNonBlocking, Running
  <2>6. Fresh("seal", t)
    BY <2>4, <2>5 DEF Edit, Fresh, Reached, AtOrAfter
  <2>. QED
    BY <1>a, <2>3, <2>6 DEF ChanStep
<1>4. ASSUME NEW w \in Worker, enqueuePublishAfterSeal(w)
      PROVE  ChanStep
  <2>1. task[w] \in Tasks("seal") /\ task[w] \in Tasks("publish")
    BY <1>4, <1>c DEF Tasks, enqueuePublishAfterSeal, Running, Attempts
  <2>2. Offer("publish", task[w])
    BY <1>4 DEF enqueuePublishAfterSeal
  <2>3. Edit(task[w].job, "publish", "queued", job[task[w].job].defer, job[task[w].job].cur)
    BY <1>4, <2>1, enqueuePublishAfterSealEdits
  <2>4. Reached("seal", task[w].job, task[w].attempt)
    BY <1>4, <1>a, <2>1 DEF Arrivals, Moving, Held, enqueuePublishAfterSeal, Running
  <2>5. ASSUME NEW t, t = task[w]
        PROVE  Fresh("publish", t)
    BY <2>3, <2>4, <2>5 DEF Edit, Fresh, Reached, AtOrAfter
  <2>. QED
    BY <1>a, <2>1, <2>2, <2>5 DEF ChanStep
<1>5. CASE \E w \in Worker : WorkerStep(w)
  BY <1>3, <1>4, <1>5
  DEF ChanStep, WorkerStep, lockArtifacts, Claim, ClaimSkipped, StageStranded, BuildYields, BuildDefers,
      BuildBlocks, StageFails, Deliver, MarkPublishSucceeded, PublishTail
<1>6. CASE \E j \in Jobs : prepareRecordJob(j) \/ RecordStep(j) \/ RetryTimePasses(j) \/ handleRerunJob(j)
  BY <1>1, <1>2, <1>6
  DEF ChanStep, prepareRecordJob, RecordStep, RecordStart, RecordFail, UpdateRecordOutcome, RecordStranded,
      RetryTimePasses
<1>7. CASE DispatcherStep
  BY <1>7 DEF ChanStep, DispatcherStep, DispatchList, DispatchSend
<1>. QED
  BY <1>5, <1>6, <1>7 DEF ChanStep, Next, vars

\* The dispatcher holds only tasks it just listed or held before.
LEMMA ScanSource ==
  ASSUME [Next]_vars, NEW s \in PipelineStages, NEW t, <<s, t>> \in scan'
  PROVE  <<s, t>> \in scan \/ (UNCHANGED job /\ t \in ListQueued(s))
<1>1. CASE DispatcherStep
  <2>1. ASSUME NEW r \in PipelineStages, DispatchList(r)
        PROVE  UNCHANGED job /\ t \in ListQueued(s)
    <3>1. UNCHANGED job /\ \E u \in ListQueued(r) : <<s, t>> = <<r, u>>
      BY <2>1 DEF DispatchList
    <3>. QED BY <3>1
  <2>2. ASSUME NEW r \in PipelineStages, NEW u \in Tasks(r), DispatchSend(r, u)
        PROVE  <<s, t>> \in scan
    BY <2>2 DEF DispatchSend
  <2>. QED BY <1>1, <2>1, <2>2 DEF DispatcherStep
<1>2. CASE Restart
  BY <1>2 DEF Restart
<1>3. CASE UNCHANGED scan
  BY <1>3
<1>4. CASE \E w \in Worker : WorkerStep(w)
  BY <1>3, <1>4
  DEF WorkerStep, Dequeue, lockArtifacts, Claim, ClaimSkipped, StageStranded, BuildYields, BuildDefers,
      BuildBlocks, StageFails, enqueueSealJobNonBlocking, enqueuePublishAfterSeal, Deliver,
      MarkPublishSucceeded, PublishTail
<1>5. CASE \/ \E j \in Jobs : prepareRecordJob(j) \/ RecordStep(j) \/ RetryTimePasses(j) \/ handleRerunJob(j)
           \/ \E u \in BuildTasks : DeferredBuildSends(u)
           \/ UNCHANGED vars
  BY <1>3, <1>5
  DEF prepareRecordJob, RecordStep, RecordStart, RecordFail, UpdateRecordOutcome, enqueueBuildJob,
      RecordStranded, RetryTimePasses, handleRerunJob, DeferredBuildSends, vars
<1>. QED
  BY <1>1, <1>2, <1>4, <1>5 DEF Next

\* What the dispatcher lists is the current attempt of a queued row.
LEMMA ListedIsCurrent ==
  ASSUME NEW s \in PipelineStages, NEW t \in ListQueued(s)
  PROVE  /\ t.job \in Jobs /\ t.attempt = job[t.job].cur
         /\ job[t.job].stage = s /\ job[t.job].state = "queued"
         /\ s = "build" => job[t.job].due /\ t.arg = job[t.job].defer
  BY DEF ListQueued, ListedTask

\* It remembers a key only when it sent the task.
LEMMA DispatchedSource ==
  ASSUME ControlTypes, [Next]_vars, NEW s \in PipelineStages, NEW k, k \in dispatched'[s]
  PROVE  \/ k \in dispatched[s]
         \/ \E t \in Tasks(s) : <<s, t>> \in scan /\ k = requeueKey(t) /\ UNCHANGED job /\ InChan(s, t)'
<1>. USE DEF ControlTypes
<1>1. CASE \E r \in PipelineStages : DispatchList(r)
  BY <1>1 DEF DispatchList
<1>2. ASSUME NEW r \in PipelineStages, NEW t \in Tasks(r), DispatchSend(r, t)
      PROVE  \/ k \in dispatched[s]
             \/ \E u \in Tasks(s) : <<s, u>> \in scan /\ k = requeueKey(u) /\ UNCHANGED job /\ InChan(s, u)'
  <2>1. CASE Len(chan[r]) < QueueCap /\ r = s
    <3>1. k \in dispatched[s] \cup {requeueKey(t)}
      BY <1>2, <2>1 DEF DispatchSend
    <3>2. InChan(s, t)' /\ <<s, t>> \in scan /\ UNCHANGED job
      BY <1>2, <2>1, OfferInChan DEF DispatchSend
    <3>. QED BY <1>2, <2>1, <3>1, <3>2
  <2>2. CASE ~(Len(chan[r]) < QueueCap /\ r = s)
    BY <1>2, <2>2 DEF DispatchSend
  <2>. QED BY <2>1, <2>2
<1>3. CASE Restart
  BY <1>3 DEF Restart
<1>4. CASE UNCHANGED dispatched
  BY <1>4
<1>5. CASE \E w \in Worker : WorkerStep(w)
  BY <1>4, <1>5
  DEF WorkerStep, Dequeue, lockArtifacts, Claim, ClaimSkipped, StageStranded, BuildYields, BuildDefers,
      BuildBlocks, StageFails, enqueueSealJobNonBlocking, enqueuePublishAfterSeal, Deliver,
      MarkPublishSucceeded, PublishTail
<1>6. CASE \/ \E j \in Jobs : prepareRecordJob(j) \/ RecordStep(j) \/ RetryTimePasses(j) \/ handleRerunJob(j)
           \/ \E u \in BuildTasks : DeferredBuildSends(u)
           \/ UNCHANGED vars
  BY <1>4, <1>6
  DEF prepareRecordJob, RecordStep, RecordStart, RecordFail, UpdateRecordOutcome, enqueueBuildJob,
      RecordStranded, RetryTimePasses, handleRerunJob, DeferredBuildSends, vars
<1>. QED
  BY <1>1, <1>2, <1>3, <1>5, <1>6 DEF Next, DispatcherStep

\* Who waits to send a build waited before, or for the build just deferred.
LEMMA TimerSource ==
  ASSUME IInv, PipelineAssumption, [Next]_vars, NEW t \in BuildTasks, timers'[t] > 0
  PROVE  timers[t] > 0 \/ (Reached("build", t.job, t.attempt)' /\ t.arg <= job'[t.job].defer)
<1>. USE DEF IInv, Tables, ControlTypes
<1>a. timers \in [BuildTasks -> Nat]
  OBVIOUS
<1>1. ASSUME NEW w \in Worker, Serves[w] = "build", NEW n \in 0..DeferCap, NEW due \in BOOLEAN,
             MarkBuildDeferred(task[w], n, due)
      PROVE  timers[t] > 0 \/ (Reached("build", t.job, t.attempt)' /\ t.arg <= job'[t.job].defer)
  <2>1. task[w] \in BuildTasks /\ task[w].job \in Jobs
    BY <1>1 DEF WorkerTypes, BuildTasks, Tasks
  <2>2. CASE StillBuilding(task[w])
    <3>1. timers' = [timers EXCEPT ![[task[w] EXCEPT !.arg = n]] = @ + 1]
      BY <1>1, <2>2 DEF MarkBuildDeferred, Spawn
    <3>2. CASE t # [task[w] EXCEPT !.arg = n]
      BY <1>a, <3>1, <3>2
    <3>3. CASE t = [task[w] EXCEPT !.arg = n]
      <4>1. t.job = task[w].job /\ t.attempt = task[w].attempt /\ t.arg = n
        BY <2>1, <3>3 DEF BuildTasks, Tasks
      <4>2. Edit(t.job, "build", "queued", n, job[t.job].cur)
        BY <1>1, <2>1, <2>2, <4>1, MarkBuildDeferredEdits
      <4>3. job[t.job].cur = t.attempt
        BY <2>2, <4>1 DEF StillBuilding
      <4>4. job'[t.job].cur = t.attempt /\ job'[t.job].stage = "build" /\ job'[t.job].defer = n
        BY <4>2, <4>3 DEF Edit
      <4>. QED
        BY <4>1, <4>4 DEF Reached, AtOrAfter
    <3>. QED BY <3>2, <3>3
  <2>3. CASE ~StillBuilding(task[w])
    BY <1>1, <2>3 DEF MarkBuildDeferred
  <2>. QED BY <2>2, <2>3
<1>2. ASSUME NEW w \in Worker, BuildYields(w)
      PROVE  timers[t] > 0 \/ (Reached("build", t.job, t.attempt)' /\ t.arg <= job'[t.job].defer)
  <2>1. task[w].arg \in 0..DeferCap /\ Serves[w] = "build" /\ MarkBuildDeferred(task[w], task[w].arg, TRUE)
    BY <1>2 DEF BuildYields, Running, WorkerTypes, Tasks
  <2>. QED BY <1>1, <2>1
<1>3. ASSUME NEW w \in Worker, BuildDefers(w)
      PROVE  timers[t] > 0 \/ (Reached("build", t.job, t.attempt)' /\ t.arg <= job'[t.job].defer)
  <2>1. task[w].arg \in 0..DeferCap /\ Serves[w] = "build"
    BY <1>3 DEF BuildDefers, Running, WorkerTypes, Tasks
  <2>2. task[w].arg < DeferCap /\ MarkBuildDeferred(task[w], task[w].arg + 1, FALSE)
    BY <1>3 DEF BuildDefers
  <2>3. task[w].arg + 1 \in 0..DeferCap
    BY <2>1, <2>2 DEF PipelineAssumption
  <2>. QED BY <1>1, <2>1, <2>2, <2>3, Zenon
<1>4. ASSUME NEW u \in BuildTasks, DeferredBuildSends(u)
      PROVE  timers[t] > 0
  <2>1. timers' = [timers EXCEPT ![u] = @ - 1]
    BY <1>4 DEF DeferredBuildSends
  <2>. QED BY <1>a, <2>1
<1>5. CASE Restart
  BY <1>5 DEF Restart
<1>6. CASE UNCHANGED timers
  BY <1>6
<1>7. CASE \E w \in Worker : WorkerStep(w)
  BY <1>2, <1>3, <1>6, <1>7
  DEF WorkerStep, Dequeue, lockArtifacts, Claim, ClaimSkipped, StageStranded,
      BuildBlocks, StageFails, enqueueSealJobNonBlocking, enqueuePublishAfterSeal, Deliver,
      MarkPublishSucceeded, PublishTail
<1>8. CASE \/ \E j \in Jobs : prepareRecordJob(j) \/ RecordStep(j) \/ RetryTimePasses(j) \/ handleRerunJob(j)
           \/ DispatcherStep \/ UNCHANGED vars
  BY <1>6, <1>8
  DEF prepareRecordJob, RecordStep, RecordStart, RecordFail, UpdateRecordOutcome, enqueueBuildJob,
      RecordStranded, RetryTimePasses, handleRerunJob, DispatcherStep, DispatchList, DispatchSend, vars
<1>. QED
  BY <1>4, <1>5, <1>7, <1>8 DEF Next

\* A deferred build goes nowhere but into the channel.
LEMMA TimerSink ==
  ASSUME ControlTypes, [Next]_vars, ~Restart, NEW t \in BuildTasks, timers[t] > 0
  PROVE  timers'[t] > 0 \/ InChan("build", t)'
<1>. USE DEF ControlTypes
<1>1. ASSUME NEW w \in Worker, Serves[w] = "build", NEW n, NEW due, MarkBuildDeferred(task[w], n, due)
      PROVE  timers'[t] > 0
  <2>1. timers' = timers \/ timers' = [timers EXCEPT ![[task[w] EXCEPT !.arg = n]] = @ + 1]
    BY <1>1 DEF MarkBuildDeferred, Spawn
  <2>. QED BY <2>1
<1>2. ASSUME NEW w \in Worker, BuildYields(w) \/ BuildDefers(w)
      PROVE  timers'[t] > 0
  BY <1>1, <1>2 DEF BuildYields, BuildDefers, Running
<1>3. ASSUME NEW u \in BuildTasks, DeferredBuildSends(u)
      PROVE  timers'[t] > 0 \/ InChan("build", t)'
  <2>1. timers' = [timers EXCEPT ![u] = @ - 1] /\ chan' = [chan EXCEPT !["build"] = Append(@, u)]
    BY <1>3 DEF DeferredBuildSends
  <2>2. CASE u = t
    BY <2>1, <2>2, AppendInChan DEF BuildTasks, PipelineStages
  <2>3. CASE u # t
    BY <2>1, <2>3
  <2>. QED BY <2>2, <2>3
<1>4. CASE UNCHANGED timers
  BY <1>4
<1>5. CASE \E w \in Worker : WorkerStep(w)
  BY <1>2, <1>4, <1>5
  DEF WorkerStep, Dequeue, lockArtifacts, Claim, ClaimSkipped, StageStranded,
      BuildBlocks, StageFails, enqueueSealJobNonBlocking, enqueuePublishAfterSeal, Deliver,
      MarkPublishSucceeded, PublishTail
<1>6. CASE \/ \E j \in Jobs : prepareRecordJob(j) \/ RecordStep(j) \/ RetryTimePasses(j) \/ handleRerunJob(j)
           \/ DispatcherStep \/ UNCHANGED vars
  BY <1>4, <1>6
  DEF prepareRecordJob, RecordStep, RecordStart, RecordFail, UpdateRecordOutcome, enqueueBuildJob,
      RecordStranded, RetryTimePasses, handleRerunJob, DispatcherStep, DispatchList, DispatchSend, vars
<1>. QED
  BY <1>3, <1>5, <1>6 DEF Next

\* A task that is anywhere was somewhere before, or has just been sent.
LEMMA MovingSource ==
  ASSUME IInv, Arrivals, PipelineAssumption, [Next]_vars,
         NEW s \in PipelineStages, NEW t \in Tasks(s), Moving(s, t)'
  PROVE  Moving(s, t) \/ Fresh(s, t) \/ (s = "build" /\ DeferredBuildSends(t))
<1>. USE DEF IInv, Tables, ControlTypes
<1>1. CASE InChan(s, t)'
  <2>1. CASE UNCHANGED chan
    BY <1>1, <2>1 DEF InChan, Moving
  <2>2. CASE Restart
    <3>1. chan'[s] = <<>>
      BY <2>2 DEF Restart
    <3>. QED BY <1>1, <3>1 DEF InChan
  <2>3. CASE \E w \in Worker : Dequeue(w)
    BY <1>1, <2>3, DequeueInChan DEF Moving
  <2>4. ASSUME NEW u \in BuildTasks, DeferredBuildSends(u)
        PROVE  Moving(s, t) \/ (s = "build" /\ DeferredBuildSends(t))
    <3>a. "build" \in PipelineStages /\ u \in Tasks("build")
      BY DEF BuildTasks, PipelineStages
    <3>1. InChan(s, t) \/ (s = "build" /\ t = u)
      BY <1>1, <2>4, <3>a, AppendInChan DEF DeferredBuildSends
    <3>. QED BY <2>4, <3>1 DEF Moving
  <2>5. ASSUME NEW r \in PipelineStages, NEW u \in Tasks(r), Offer(r, u), Fresh(r, u) \/ DispatchSend(r, u)
        PROVE  Moving(s, t) \/ Fresh(s, t)
    <3>1. InChan(s, t) \/ (s = r /\ t = u)
      BY <1>1, <2>5, OfferInChan
    <3>. QED BY <2>5, <3>1 DEF Moving, DispatchSend
  <2>. QED BY <2>1, <2>2, <2>3, <2>4, <2>5, SendsAreFresh DEF ChanStep
<1>2. CASE Held(s, t)'
  BY <1>2, HeldSource DEF Moving
<1>3. CASE <<s, t>> \in scan'
  <2>1. CASE <<s, t>> \in scan
    BY <2>1 DEF Moving
  <2>2. CASE UNCHANGED job /\ t \in ListQueued(s)
    <3>1. /\ t.job \in Jobs /\ t.attempt = job'[t.job].cur /\ job'[t.job].stage = s
          /\ s = "build" => job'[t.job].due /\ t.arg = job'[t.job].defer
      BY <2>2, ListedIsCurrent
    <3>2. job[t.job].defer \in 0..DeferCap /\ job'[t.job].defer = job[t.job].defer
      BY <2>2, <3>1 DEF RowTypes, JobRow
    <3>3. job'[t.job].defer <= job'[t.job].defer
      BY <3>2 DEF PipelineAssumption
    <3>4. s \in AtOrAfter(s)
      BY DEF AtOrAfter, PipelineStages
    <3>. QED BY <3>1, <3>3, <3>4 DEF Fresh, Reached
  <2>. QED BY <1>3, <2>1, <2>2, ScanSource
<1>. QED
  BY <1>1, <1>2, <1>3 DEF Moving

-----------------------------------------------------------------------------
(* Rows never fall behind their tasks.                                     *)

\* No step of the tables takes an attempt back to an earlier stage.
LEMMA ReachedKept ==
  ASSUME Tables, TableStep, NEW s \in PipelineStages, NEW j \in Jobs, NEW a \in Attempts, Reached(s, j, a)
  PROVE  Reached(s, j, a)'
<1>. USE DEF Tables
<1>a. job[j].cur \in Nat /\ a \in Nat
  BY CurrentAttemptType DEF Attempts
<1>1. CASE Quiet
  BY <1>1 DEF Quiet, Reached
<1>2. CASE MovesOne
  <2>1. PICK k \in Jobs, st \in Stages, sta \in States, d \in 0..DeferCap :
               Moves(k, st, sta) /\ Edit(k, st, sta, d, job[k].cur) /\ Keeps(k, st, sta, d)
    BY <1>2 DEF MovesOne
  <2>2. CASE k = j
    <3>1. job[j].stage \in AtOrAfter(s) => st \in AtOrAfter(s)
      BY <2>1, <2>2 DEF Moves, AtOrAfter, PipelineStages
    <3>. QED BY <2>1, <2>2, <3>1 DEF Edit, Reached
  <2>3. CASE k # j
    BY <2>1, <2>3 DEF Edit, Reached
  <2>. QED BY <2>2, <2>3
<1>3. CASE OpensAttempt
  BY <1>3, <1>a DEF OpensAttempt, Edit, Reached
<1>4. CASE MarkIncompleteJobsInterrupted
  BY <1>4, SweepEffect DEF Reached
<1>. QED
  BY <1>1, <1>2, <1>3, <1>4 DEF TableStep

\* Nor does it lower the count of a build, or put off a build without raising it.
LEMMA CountKept ==
  ASSUME Tables, TableStep, PipelineAssumption, NEW j \in Jobs,
         job'[j].cur = job[j].cur, job[j].stage \in AtOrAfter("build")
  PROVE  job[j].defer <= job'[j].defer /\ (job'[j].due \/ job[j].defer < job'[j].defer \/ ~job[j].due)
<1>. USE DEF Tables
<1>a. job[j].defer \in Nat /\ job[j].cur \in Nat
  BY CurrentAttemptType DEF JobRow, Attempts
<1>1. CASE Quiet
  BY <1>1, <1>a DEF Quiet
<1>2. CASE MovesOne
  <2>1. PICK k \in Jobs, st \in Stages, sta \in States, d \in 0..DeferCap :
               Moves(k, st, sta) /\ Edit(k, st, sta, d, job[k].cur) /\ Keeps(k, st, sta, d)
    BY <1>2 DEF MovesOne
  <2>2. CASE k = j
    <3>1. job'[j].defer = d /\ job[j].stage # "record"
      BY <2>1, <2>2 DEF Edit, AtOrAfter
    <3>2. job[j].defer <= d
      BY <2>1, <2>2, <3>1, <1>a DEF Keeps, KeepsCount
    <3>3. job'[j].due \/ job[j].defer < d
      BY <2>1, <2>2, <1>a DEF Keeps, KeepsRetry
    <3>. QED BY <3>1, <3>2, <3>3
  <2>3. CASE k # j
    BY <2>1, <2>3, <1>a DEF Edit
  <2>. QED BY <2>2, <2>3
<1>3. CASE OpensAttempt
  BY <1>3, <1>a DEF OpensAttempt, Edit
<1>4. CASE MarkIncompleteJobsInterrupted
  BY <1>4, <1>a, SweepEffect DEF Sets
<1>. QED
  BY <1>1, <1>2, <1>3, <1>4 DEF TableStep

\* Attempts only follow each other.
LEMMA CurKept ==
  ASSUME Tables, TableStep, NEW j \in Jobs
  PROVE  job[j].cur <= job'[j].cur
<1>. USE DEF Tables
<1>a. job[j].cur \in Nat
  BY CurrentAttemptType DEF Attempts
<1>1. CASE Quiet
  BY <1>1, <1>a DEF Quiet
<1>2. CASE MovesOne
  <2>1. PICK k \in Jobs, st \in Stages, sta \in States, d \in 0..DeferCap :
               Moves(k, st, sta) /\ Edit(k, st, sta, d, job[k].cur) /\ Keeps(k, st, sta, d)
    BY <1>2 DEF MovesOne
  <2>2. job'[j].cur = job[j].cur
    BY <2>1 DEF Edit
  <2>. QED BY <2>2, <1>a
<1>3. CASE OpensAttempt
  <2>1. job'[j].cur = job[j].cur \/ job'[j].cur = job[j].cur + 1
    BY <1>3 DEF OpensAttempt, Edit
  <2>. QED BY <2>1, <1>a
<1>4. CASE MarkIncompleteJobsInterrupted
  BY <1>4, <1>a, SweepEffect
<1>. QED
  BY <1>1, <1>2, <1>3, <1>4 DEF TableStep

\* Every key the dispatcher remembers is of an attempt that came to the stage.
Remembrance ==
  \A s \in PipelineStages, j \in Jobs, a \in Attempts : <<j, a>> \in dispatched[s] => Reached(s, j, a)

\* A build task of the current attempt asks for no higher count than the row has,
\* and where it asks for the very count it left its timer, so the row is due.
Readiness ==
  \A t \in BuildTasks : t.attempt = job[t.job].cur =>
    /\ Moving("build", t) \/ timers[t] > 0 => t.arg <= job[t.job].defer
    /\ Moving("build", t) /\ t.arg = job[t.job].defer => job[t.job].due

Bookkeeping == Arrivals /\ Remembrance /\ Readiness

LEMMA ArrivalsKept ==
  ASSUME IInv, Arrivals, PipelineAssumption, [Next]_vars
  PROVE  Arrivals'
<1>. SUFFICES ASSUME NEW s \in PipelineStages, NEW t \in Tasks(s), Moving(s, t)' \/ Timed(s, t)'
     PROVE  Reached(s, t.job, t.attempt)'
  BY DEF Arrivals
<1>a. t.job \in Jobs /\ t.attempt \in Attempts /\ Tables /\ TableStep
  BY NextIsTableStep DEF Tasks, IInv
<1>1. CASE Reached(s, t.job, t.attempt)
  BY <1>1, <1>a, ReachedKept
<1>2. CASE Moving(s, t) \/ Timed(s, t)
  BY <1>1, <1>2 DEF Arrivals
<1>3. CASE Moving(s, t)'
  BY <1>2, <1>3, MovingSource DEF Fresh, DeferredBuildSends, Timed
<1>4. CASE Timed(s, t)'
  BY <1>2, <1>4, TimerSource DEF Timed, BuildTasks
<1>. QED
  BY <1>3, <1>4

LEMMA RemembranceKept ==
  ASSUME IInv, Arrivals, Remembrance, PipelineAssumption, [Next]_vars
  PROVE  Remembrance'
<1>. SUFFICES ASSUME NEW s \in PipelineStages, NEW j \in Jobs, NEW a \in Attempts, <<j, a>> \in dispatched'[s]
     PROVE  Reached(s, j, a)'
  BY DEF Remembrance
<1>1. Reached(s, j, a)
  <2>1. CASE <<j, a>> \in dispatched[s]
    BY <2>1 DEF Remembrance
  <2>2. ASSUME NEW t \in Tasks(s), <<s, t>> \in scan, <<j, a>> = requeueKey(t)
        PROVE  Reached(s, j, a)
    BY <2>2 DEF Arrivals, Moving, requeueKey
  <2>. QED BY <2>1, <2>2, DispatchedSource DEF IInv
<1>. QED
  BY <1>1, ReachedKept, NextIsTableStep DEF IInv

LEMMA ReadinessKept ==
  ASSUME IInv, Bookkeeping, PipelineAssumption, [Next]_vars
  PROVE  Readiness'
<1>. USE DEF Bookkeeping, IInv
<1>. SUFFICES ASSUME NEW t \in BuildTasks, t.attempt = job'[t.job].cur
     PROVE  /\ Moving("build", t)' \/ timers'[t] > 0 => t.arg <= job'[t.job].defer
            /\ Moving("build", t)' /\ t.arg = job'[t.job].defer => job'[t.job].due
  BY DEF Readiness
<1>a. /\ t.job \in Jobs /\ t.attempt \in Attempts /\ t \in Tasks("build") /\ "build" \in PipelineStages
      /\ t.arg \in Nat
  BY DEF BuildTasks, Tasks, PipelineStages
<1>b. Tables /\ TableStep
  BY NextIsTableStep
<1>c. job[t.job].defer \in Nat /\ job'[t.job].defer \in Nat /\ job[t.job].cur \in Nat /\ t.attempt \in Nat
  <2>1. RowTypes /\ RowTypes'
    BY <1>b, TablesKept DEF Tables
  <2>. QED BY <1>a, <2>1 DEF RowTypes, JobRow, Attempts
<1>1. CASE Moving("build", t) \/ timers[t] > 0
  <2>1. Reached("build", t.job, t.attempt)
    BY <1>1, <1>a DEF Arrivals, Timed
  <2>2. t.attempt = job[t.job].cur /\ job[t.job].stage \in AtOrAfter("build")
    <3>1. job[t.job].cur <= job'[t.job].cur
      BY <1>a, <1>b, CurKept
    <3>. QED BY <2>1, <3>1, <1>c DEF Reached
  <2>3. /\ job[t.job].defer <= job'[t.job].defer
        /\ job'[t.job].due \/ job[t.job].defer < job'[t.job].defer \/ ~job[t.job].due
    BY <2>2, <1>a, <1>b, CountKept
  <2>4. t.arg <= job[t.job].defer
    BY <1>1, <2>2 DEF Readiness
  <2>5. t.arg <= job'[t.job].defer
    BY <2>3, <2>4, <1>a, <1>c
  <2>6. ASSUME Moving("build", t), t.arg = job'[t.job].defer
        PROVE  job'[t.job].due
    <3>1. t.arg = job[t.job].defer /\ ~(job[t.job].defer < job'[t.job].defer)
      BY <2>3, <2>4, <2>6, <1>a, <1>c
    <3>2. job[t.job].due
      BY <2>2, <2>6, <3>1 DEF Readiness
    <3>. QED BY <2>3, <3>1, <3>2
  <2>7. ASSUME Moving("build", t)', ~Moving("build", t), t.arg = job'[t.job].defer
        PROVE  job'[t.job].due
    <3>1. CASE Fresh("build", t)
      BY <3>1 DEF Fresh
    <3>2. CASE DeferredBuildSends(t)
      <4>1. UNCHANGED job
        BY <3>2 DEF DeferredBuildSends
      <4>2. ~(job[t.job].stage = "build" /\ job[t.job].cur = t.attempt
              /\ job[t.job].defer = t.arg /\ ~job[t.job].due)
        BY <3>2 DEF DeferredBuildSends
      <4>3. job[t.job].due
        BY <4>1, <4>2, <2>2, <2>7, <1>a DEF Tables, BuildsAreReady
      <4>. QED BY <4>1, <4>3
    <3>. QED BY <2>7, <3>1, <3>2, <1>a, MovingSource
  <2>. QED BY <2>5, <2>6, <2>7
<1>2. CASE ~(Moving("build", t) \/ timers[t] > 0)
  <2>1. ASSUME Moving("build", t)'
        PROVE  t.arg <= job'[t.job].defer /\ job'[t.job].due
    BY <1>2, <1>a, <2>1, MovingSource DEF Fresh, DeferredBuildSends
  <2>2. ASSUME timers'[t] > 0
        PROVE  t.arg <= job'[t.job].defer
    BY <1>2, <2>2, TimerSource
  <2>. QED BY <2>1, <2>2
<1>. QED BY <1>1, <1>2

-----------------------------------------------------------------------------
(* Who carries a queued row.                                               *)

\* The dispatcher believes the row of j sent to stage s, or is about to: it holds
\* a listing of the current attempt that the row has outgrown since.
Remembered(s, j) ==
  \/ <<j, job[j].cur>> \in dispatched[s]
  \/ s = "build" /\ \E t \in BuildTasks : /\ <<s, t>> \in scan
                                         /\ t.job = j /\ t.attempt = job[j].cur /\ t.arg # job[j].defer

\* DispatchedIsCarried, for the outgrown listings too.
QueueIsCarried ==
  ~StoreFaults => \A s \in PipelineStages, j \in Jobs :
    job[j].stage = s /\ job[j].state = "queued" /\ Remembered(s, j) => Carried(s, j)

\* A row is carried by whatever task of it is in the channel, with a worker that
\* has not claimed it, or on a timer.
LEMMA CarriedBy ==
  ASSUME NEW s, NEW j
  PROVE  Carried(s, j) <=> \E t : Carries(s, j, t) /\ (InChan(s, t) \/ Waiting(s, t) \/ (t \in BuildTasks /\ Timed(s, t)))
  BY DEF Carried, InChan, Waiting, Timed

\* While the row stays queued and the store works, its carrier is not lost.
LEMMA CarrierKept ==
  ASSUME IInv, Bookkeeping, PipelineAssumption, [Next]_vars, ~Restart, ~StoreFaults,
         NEW s \in PipelineStages, NEW j \in Jobs, Carried(s, j),
         job[j].stage = s, job[j].state = "queued", job'[j].state = "queued",
         job'[j].cur = job[j].cur, job'[j].defer = job[j].defer
  PROVE  Carried(s, j)'
<1>. USE DEF IInv, ControlTypes
<1>1. PICK t : Carries(s, j, t) /\ (InChan(s, t) \/ Waiting(s, t) \/ (t \in BuildTasks /\ Timed(s, t)))
  BY CarriedBy
<1>2. Carries(s, j, t)'
  BY <1>1 DEF Carries
<1>3. ASSUME InChan(s, t)' \/ Waiting(s, t)' \/ (t \in BuildTasks /\ Timed(s, t)')
      PROVE  Carried(s, j)'
  BY <1>2, <1>3 DEF Carried, InChan, Waiting, Timed
<1>4. CASE t \in BuildTasks /\ Timed(s, t)
  BY <1>3, <1>4, TimerSink DEF Timed
<1>5. CASE Waiting(s, t)
  <2>1. ASSUME NEW w \in Worker, Serves[w] = s, task[w] = t, Claim(w)
        PROVE  FALSE
    <3>1. Mark(j, s, "running")
      BY <1>1, <2>1 DEF Claim, Carries
    <3>2. s \in Stages /\ "running" \in States
      BY DEF Stages, States, PipelineStages
    <3>3. job'[j].state = "running"
      BY <3>1, <3>2, MarkEdits DEF Tables, Edit
    <3>. QED BY <3>3
  <2>2. ASSUME NEW w \in Worker, Serves[w] = s, task[w] = t, ClaimSkipped(w)
        PROVE  FALSE
    <3>1. ~Claimable(s, t) /\ pc[w] # "idle" /\ t \in Tasks(s)
      BY <2>2 DEF ClaimSkipped, Admitted, WorkerTypes
    <3>2. t.job = j
      BY <1>1 DEF Carries
    <3>3. s = "build"
      BY <3>1, <3>2 DEF Claimable, SealClaimable, PublishClaimable, PipelineStages
    <3>4. Moving("build", t)
      BY <2>2, <3>1, <3>3 DEF Moving, Held
    <3>5. t.attempt = job[j].cur /\ t.arg = job[j].defer /\ t \in BuildTasks
      BY <1>1, <3>1, <3>3 DEF Carries, BuildTasks
    <3>6. job[j].due /\ job[j].run
      BY <3>2, <3>3, <3>4, <3>5 DEF Bookkeeping, Readiness, Tables, BuildsAreReady
    <3>7. att[j][job[j].cur].stage = "build" /\ att[j][job[j].cur].state = "queued"
          /\ att[j][job[j].cur].defer = job[j].defer
      BY <3>3 DEF Tables, RowsAgree, CurrentAttempt
    <3>8. BuildClaimable(t)
      BY <3>2, <3>3, <3>5, <3>6, <3>7 DEF BuildClaimable
    <3>. QED BY <3>1, <3>3, <3>8 DEF Claimable
  <2>. QED BY <1>3, <1>5, <2>1, <2>2, WaitingSink
<1>6. CASE InChan(s, t)
  <2>1. CASE UNCHANGED chan
    BY <1>3, <1>6, <2>1 DEF InChan
  <2>2. ASSUME NEW w \in Worker, Dequeue(w)
        PROVE  Carried(s, j)'
    <3>1. InChan(s, t)' \/ (s = Serves[w] /\ t = task'[w])
      BY <1>6, <2>2, DequeueInChan
    <3>. QED BY <1>3, <2>2, <3>1, DequeueWaits
  <2>3. ASSUME NEW u \in BuildTasks, DeferredBuildSends(u)
        PROVE  InChan(s, t)'
    BY <1>6, <2>3, AppendInChan DEF DeferredBuildSends, BuildTasks, PipelineStages
  <2>4. ASSUME NEW r \in PipelineStages, NEW u \in Tasks(r), Offer(r, u)
        PROVE  InChan(s, t)'
    BY <1>6, <2>4, OfferInChan
  <2>. QED BY <1>3, <2>1, <2>2, <2>3, <2>4, SendsAreFresh DEF ChanStep, Bookkeeping
<1>. QED
  BY <1>1, <1>4, <1>5, <1>6

\* What the dispatcher remembers of a row it remembered before, or just sent.
LEMMA RememberedSource ==
  ASSUME IInv, Bookkeeping, PipelineAssumption, [Next]_vars,
         NEW s \in PipelineStages, NEW j \in Jobs, Remembered(s, j)'
  PROVE  \/ Reached(s, j, job'[j].cur)
         \/ UNCHANGED job
<1>1. CASE <<j, job'[j].cur>> \in dispatched'[s]
  <2>1. job'[j].cur \in Attempts
    BY NextIsTableStep, TablesKept, CurrentAttemptType DEF IInv, Tables, RowTypes, JobRow
  <2>2. CASE <<j, job'[j].cur>> \in dispatched[s]
    BY <2>1, <2>2 DEF Bookkeeping, Remembrance
  <2>. QED BY <1>1, <2>2, DispatchedSource DEF IInv
<1>2. ASSUME NEW t \in BuildTasks, s = "build", <<s, t>> \in scan', t.job = j, t.attempt = job'[j].cur
      PROVE  Reached(s, j, job'[j].cur) \/ UNCHANGED job
  <2>1. CASE <<s, t>> \in scan
    BY <1>2, <2>1 DEF Bookkeeping, Arrivals, Moving, BuildTasks
  <2>. QED BY <1>2, <2>1, ScanSource
<1>. QED
  BY <1>1, <1>2 DEF Remembered

\* A row that stays in its queue and is remembered was remembered, or was just sent.
LEMMA StillRemembered ==
  ASSUME IInv, PipelineAssumption, [Next]_vars,
         NEW s \in PipelineStages, NEW j \in Jobs, Remembered(s, j)',
         job'[j].cur = job[j].cur, job'[j].defer = job[j].defer
  PROVE  Remembered(s, j) \/ Carried(s, j)'
<1>1. CASE <<j, job[j].cur>> \in dispatched'[s]
  <2>1. CASE <<j, job[j].cur>> \in dispatched[s]
    BY <2>1 DEF Remembered
  <2>2. ASSUME NEW t \in Tasks(s), <<s, t>> \in scan, <<j, job[j].cur>> = requeueKey(t), InChan(s, t)'
        PROVE  Remembered(s, j) \/ Carried(s, j)'
    <3>1. t.job = j /\ t.attempt = job[j].cur
      BY <2>2 DEF requeueKey
    <3>2. CASE s = "build" /\ t.arg # job[j].defer
      BY <2>2, <3>1, <3>2 DEF Remembered, BuildTasks
    <3>3. CASE ~(s = "build" /\ t.arg # job[j].defer)
      BY <2>2, <3>1, <3>3 DEF Carried, Carries, InChan
    <3>. QED BY <3>2, <3>3
  <2>. QED BY <1>1, <2>1, <2>2, DispatchedSource DEF IInv
<1>2. ASSUME NEW t \in BuildTasks, s = "build", <<s, t>> \in scan', t.job = j, t.attempt = job[j].cur,
             t.arg # job[j].defer
      PROVE  Remembered(s, j)
  <2>1. CASE <<s, t>> \in scan
    BY <1>2, <2>1 DEF Remembered
  <2>2. CASE UNCHANGED job /\ t \in ListQueued(s)
    BY <1>2, <2>2, ListedIsCurrent
  <2>. QED BY <1>2, <2>1, <2>2, ScanSource
<1>. QED
  BY <1>1, <1>2 DEF Remembered

\* A row enters a queue without a memory of it, or with the deferral that carries it.
LEMMA QueueEntered ==
  ASSUME IInv, Bookkeeping, TableStep, PipelineAssumption,
         NEW s \in PipelineStages, NEW j \in Jobs, job'[j].stage = s, job'[j].state = "queued"
  PROVE  \/ /\ job[j].stage = s /\ job[j].state = "queued"
            /\ job'[j].cur = job[j].cur /\ job'[j].defer = job[j].defer
         \/ ~Reached(s, j, job'[j].cur) /\ job' # job
         \/ Carried(s, j)'
<1>. USE DEF IInv, Tables
<1>a. job[j].cur \in Nat
  BY CurrentAttemptType DEF Attempts
<1>1. CASE Quiet
  BY <1>1 DEF Quiet
<1>2. CASE MovesOne
  <2>1. PICK k \in Jobs, st \in Stages, sta \in States, d \in 0..DeferCap :
               Moves(k, st, sta) /\ Edit(k, st, sta, d, job[k].cur) /\ Keeps(k, st, sta, d)
    BY <1>2 DEF MovesOne
  <2>2. CASE k # j
    BY <2>1, <2>2 DEF Edit
  <2>3. CASE k = j
    <3>1. job'[j].cur = job[j].cur /\ job'[j].defer = d /\ st = s /\ sta = "queued"
      BY <2>1, <2>3 DEF Edit
    <3>2. CASE job[j].state = "queued"
      BY <2>1, <2>3, <3>1, <3>2 DEF Moves, Keeps, KeepsCount, PipelineStages
    <3>3. CASE job[j].state # "queued" /\ job[j].stage # s
      <4>1. job[j].stage \notin AtOrAfter(s)
        BY <2>1, <2>3, <3>1, <3>3 DEF Moves, AtOrAfter, PipelineStages
      <4>. QED BY <3>1, <3>3, <4>1, <1>a DEF Reached
    <3>4. CASE job[j].state # "queued" /\ job[j].stage = s
      <4>1. s = "build" /\ TimedAfter(j, d)
        BY <2>1, <2>3, <3>1, <3>4 DEF Moves, Keeps, KeepsRetry, PipelineStages
      <4>. QED BY <3>1, <4>1 DEF TimedAfter, Carried, Carries
    <3>. QED BY <3>2, <3>3, <3>4
  <2>. QED BY <2>2, <2>3
<1>3. CASE OpensAttempt
  <2>1. PICK k \in Jobs : /\ job[k].state \in Settled
                          /\ Edit(k, "build", "queued", 0, job[k].cur + 1)
    BY <1>3 DEF OpensAttempt
  <2>2. CASE k # j
    BY <2>1, <2>2 DEF Edit
  <2>3. CASE k = j
    BY <2>1, <2>3, <1>a DEF Edit, Reached
  <2>. QED BY <2>2, <2>3
<1>4. CASE MarkIncompleteJobsInterrupted
  BY <1>4, SweepEffect
<1>. QED
  BY <1>1, <1>2, <1>3, <1>4 DEF TableStep

LEMMA QueueIsCarriedKept ==
  ASSUME IInv, Bookkeeping, QueueIsCarried, PipelineAssumption, [Next]_vars
  PROVE  QueueIsCarried'
<1>. SUFFICES ASSUME ~StoreFaults, NEW s \in PipelineStages, NEW j \in Jobs,
                     job'[j].stage = s, job'[j].state = "queued", Remembered(s, j)'
     PROVE  Carried(s, j)'
  BY DEF QueueIsCarried
<1>1. CASE Restart
  <2>1. dispatched'[s] = {} /\ scan' = {}
    BY <1>1 DEF Restart
  <2>. QED BY <2>1 DEF Remembered
<1>2. CASE /\ ~Restart
           /\ job[j].stage = s /\ job[j].state = "queued"
           /\ job'[j].cur = job[j].cur /\ job'[j].defer = job[j].defer
  <2>1. Remembered(s, j) \/ Carried(s, j)'
    BY <1>2, StillRemembered
  <2>2. CASE Remembered(s, j)
    BY <1>2, <2>2, CarrierKept DEF QueueIsCarried
  <2>. QED BY <2>1, <2>2
<1>3. CASE ~Reached(s, j, job'[j].cur) /\ job' # job
  BY <1>3, RememberedSource
<1>. QED
  BY <1>1, <1>2, <1>3, QueueEntered, NextIsTableStep

-----------------------------------------------------------------------------
(* Who runs a running row.                                                 *)

Runs(w, j) == pc[w] \in {"run", "delivered"} /\ task[w].job = j

RunningIsRun ==
  ~StoreFaults => \A j \in Jobs : job[j].state = "running" => Recording(j) \/ \E w \in Worker : Runs(w, j)

\* A worker that stops executing a row has written an outcome to it.
LEMMA RunnerKept ==
  ASSUME IInv, BuildRunsItsOwnAttempt, PipelineAssumption, [Next]_vars, ~Restart, ~StoreFaults,
         NEW j \in Jobs, NEW v \in Worker, Runs(v, j)
  PROVE  Runs(v, j)' \/ job'[j].state # "running"
<1>. USE DEF IInv, ControlTypes
<1>1. CASE UNCHANGED <<pc, task>>
  BY <1>1 DEF Runs
<1>2. ASSUME NEW w \in Worker, WorkerMoves(w), v # w
      PROVE  Runs(v, j)'
  <2>1. pc'[v] = pc[v] /\ task'[v] = task[v]
    BY <1>2 DEF WorkerMoves, Dequeue, lockArtifacts, Claim, WorkerEnds, WorkerTypes
  <2>. QED BY <2>1 DEF Runs
<1>3. ASSUME WorkerStep(v)
      PROVE  Runs(v, j)' \/ job'[j].state # "running"
  <2>a. /\ pc[v] \in {"run", "delivered"} /\ task[v].job = j /\ task[v] \in Tasks(Serves[v])
        /\ job[j].stage = Serves[v] /\ job[j].state = "running"
    BY DEF Runs, WorkerTypes, Ownership, RunnerOwnsRow
  <2>b. \A st \in Stages, sta \in States : Mark(j, st, sta) /\ sta # "running" => job'[j].state # "running"
    BY MarkEdits DEF Tables, Edit
  <2>c. pc[v] = "run" /\ Serves[v] = "build" => StillBuilding(task[v])
    BY <2>a DEF BuildRunsItsOwnAttempt, Running, StillBuilding
  <2>1. CASE Dequeue(v) \/ lockArtifacts(v) \/ Claim(v) \/ ClaimSkipped(v) \/ StageStranded(v) \/ PublishTail(v)
    BY <2>1, <2>a DEF Dequeue, lockArtifacts, Claim, ClaimSkipped, Admitted, StageStranded, PublishTail
  <2>2. ASSUME NEW n \in 0..DeferCap, NEW due \in BOOLEAN, MarkBuildDeferred(task[v], n, due), Running(v, "build")
        PROVE  job'[j].state # "running"
    <3>1. Edit(task[v].job, "build", "queued", n, job[task[v].job].cur)
      BY <2>2, <2>a, <2>c, MarkBuildDeferredEdits DEF Running, Tables
    <3>. QED BY <3>1, <2>a DEF Edit
  <2>3. CASE BuildYields(v)
    <3>1. MarkBuildDeferred(task[v], task[v].arg, TRUE) /\ Running(v, "build")
      BY <2>3 DEF BuildYields
    <3>2. task[v].arg \in 0..DeferCap
      BY <2>a, <3>1 DEF Running, Tasks
    <3>. QED BY <2>2, <3>1, <3>2
  <2>4. CASE BuildDefers(v)
    <3>1. MarkBuildDeferred(task[v], task[v].arg + 1, FALSE) /\ Running(v, "build") /\ task[v].arg < DeferCap
      BY <2>4 DEF BuildDefers
    <3>2. task[v].arg \in 0..DeferCap
      BY <2>a, <3>1 DEF Running, Tasks
    <3>3. task[v].arg + 1 \in 0..DeferCap
      BY <3>1, <3>2 DEF PipelineAssumption
    <3>. QED BY <2>2, <3>1, <3>3
  <2>5. CASE BuildBlocks(v)
    <3>1. Mark(j, "build", "blocked")
      BY <2>5, <2>a, <2>c DEF BuildBlocks, Running
    <3>. QED BY <2>b, <3>1 DEF Stages, States
  <2>6. CASE StageFails(v) \/ enqueueSealJobNonBlocking(v) \/ MarkPublishSucceeded(v)
    BY <2>6, <2>a, <2>b DEF StageFails, enqueueSealJobNonBlocking, MarkPublishSucceeded, Stages, States
  <2>7. CASE enqueuePublishAfterSeal(v)
    <3>1. Serves[v] = "seal"
      BY <2>7 DEF enqueuePublishAfterSeal, Running
    <3>2. Edit(task[v].job, "publish", "queued", job[task[v].job].defer, job[task[v].job].cur)
      BY <2>7, <2>a, <3>1, enqueuePublishAfterSealEdits DEF Tables
    <3>. QED BY <3>2, <2>a DEF Edit
  <2>8. CASE Deliver(v)
    BY <2>8, <2>a DEF Deliver, Runs, WorkerTypes
  <2>. QED
    BY <1>3, <2>1, <2>3, <2>4, <2>5, <2>6, <2>7, <2>8 DEF WorkerStep
<1>4. CASE \/ \E k \in Jobs : prepareRecordJob(k) \/ RecordStep(k) \/ RetryTimePasses(k) \/ handleRerunJob(k)
           \/ (\E t \in BuildTasks : DeferredBuildSends(t)) \/ DispatcherStep \/ UNCHANGED vars
  <2>1. UNCHANGED <<pc, task>>
    BY <1>4
    DEF prepareRecordJob, RecordStep, RecordStart, RecordFail, UpdateRecordOutcome, enqueueBuildJob,
        RecordStranded, RetryTimePasses, handleRerunJob, DeferredBuildSends, DispatcherStep, DispatchList,
        DispatchSend, vars
  <2>. QED BY <1>1, <2>1
<1>5. ASSUME NEW w \in Worker, WorkerStep(w), w # v
      PROVE  Runs(v, j)'
  <2>1. pc'[v] = pc[v] /\ task'[v] = task[v]
    BY <1>5
    DEF WorkerStep, Dequeue, lockArtifacts, Claim, ClaimSkipped, StageStranded, BuildYields, BuildDefers,
        BuildBlocks, StageFails, enqueueSealJobNonBlocking, enqueuePublishAfterSeal, Deliver,
        MarkPublishSucceeded, PublishTail, WorkerEnds, WorkerTypes
  <2>. QED BY <2>1 DEF Runs
<1>. QED
  BY <1>3, <1>4, <1>5 DEF Next

\* So has a record goroutine that ends.
LEMMA RecordingKept ==
  ASSUME IInv, PipelineAssumption, [Next]_vars, ~Restart, ~StoreFaults, NEW j \in Jobs, Recording(j)
  PROVE  Recording(j)' \/ job'[j].state # "running"
<1>. USE DEF IInv, ControlTypes
<1>a. recorder \in [Jobs -> {"none", "spawned", "recording", "promoted"}]
  OBVIOUS
<1>1. CASE UNCHANGED recorder
  BY <1>1 DEF Recording
<1>2. ASSUME NEW k \in Jobs, RecordStep(k), k # j
      PROVE  Recording(j)'
  <2>1. recorder'[j] = recorder[j]
    BY <1>2, <1>a DEF RecordStep, RecordStart, RecordFail, UpdateRecordOutcome, enqueueBuildJob,
                      RecordStranded, RecordEnds
  <2>. QED BY <2>1 DEF Recording
<1>3. CASE RecordFail(j)
  BY <1>3, MarkEdits DEF RecordFail, Tables, Edit, Stages, States
<1>4. CASE enqueueBuildJob(j)
  BY <1>4, enqueueBuildJobEdits DEF Tables, Edit
<1>5. CASE UpdateRecordOutcome(j)
  BY <1>5, <1>a DEF UpdateRecordOutcome, Recording
<1>6. CASE RecordStart(j) \/ RecordStranded(j)
  BY <1>6, <1>a DEF RecordStart, RecordStranded, Recording
<1>7. ASSUME NEW k \in Jobs, prepareRecordJob(k)
      PROVE  Recording(j)'
  BY <1>7, <1>a DEF prepareRecordJob, Recording, Ownership, RunnerOwnsRow
<1>8. CASE \/ \E k \in Jobs : RetryTimePasses(k) \/ handleRerunJob(k)
           \/ (\E t \in BuildTasks : DeferredBuildSends(t)) \/ DispatcherStep \/ UNCHANGED vars
           \/ \E w \in Worker : WorkerStep(w)
  <2>1. UNCHANGED recorder
    BY <1>8
    DEF RetryTimePasses, handleRerunJob, DeferredBuildSends, DispatcherStep, DispatchList, DispatchSend, vars,
        WorkerStep, Dequeue, lockArtifacts, Claim, ClaimSkipped, StageStranded, BuildYields, BuildDefers,
        BuildBlocks, StageFails, enqueueSealJobNonBlocking, enqueuePublishAfterSeal, Deliver,
        MarkPublishSucceeded, PublishTail
  <2>. QED BY <1>1, <2>1
<1>. QED
  BY <1>2, <1>3, <1>4, <1>5, <1>6, <1>7, <1>8 DEF Next, RecordStep

\* A row starts to run by the write of whoever then runs it.
LEMMA RunStarts ==
  ASSUME IInv, PipelineAssumption, [Next]_vars, NEW j \in Jobs,
         job[j].state # "running", job'[j].state = "running"
  PROVE  Recording(j)' \/ \E w \in Worker : Runs(w, j)'
<1>. USE DEF IInv, ControlTypes
<1>a. \A k \in Jobs, st \in Stages, sta \in States : Mark(k, st, sta) /\ sta # "running" => FALSE
  BY MarkEdits DEF Tables, Edit
<1>b. job' # job
  OBVIOUS
<1>c. \A k \in Jobs : \A st, d, c, sta : Edit(k, st, sta, d, c) /\ sta # "running" => FALSE
  BY DEF Edit
<1>1. ASSUME NEW k \in Jobs, RecordStart(k)
      PROVE  Recording(j)'
  <2>1. Mark(k, "record", "running") /\ recorder' = [recorder EXCEPT ![k] = "recording"]
    BY <1>1, <1>b DEF RecordStart
  <2>2. "record" \in Stages /\ "running" \in States
    BY DEF Stages, States
  <2>3. k = j
    BY <2>1, <2>2, MarkEdits DEF Tables, Edit
  <2>. QED BY <2>1, <2>3 DEF Recording
<1>2. ASSUME NEW k \in Jobs, UpdateRecordOutcome(k)
      PROVE  FALSE
  BY <1>2, UpdateRecordOutcomeEdits DEF Tables, Edit
<1>3. ASSUME NEW k \in Jobs, prepareRecordJob(k) \/ RecordFail(k) \/ enqueueBuildJob(k) \/ RecordStranded(k)
                             \/ handleRerunJob(k)
      PROVE  FALSE
  BY <1>3, <1>a, <1>b, <1>c, enqueueBuildJobEdits, handleRerunJobEdits
  DEF prepareRecordJob, RecordFail, RecordStranded, Stages, States, Tables
<1>4. ASSUME NEW k \in Jobs, RetryTimePasses(k)
      PROVE  FALSE
  <2>1. job'[j] = job[j] \/ job'[j] = [job[j] EXCEPT !.due = TRUE]
    BY <1>4 DEF RetryTimePasses, Tables, RowTypes
  <2>2. job[j] \in JobRow
    BY DEF Tables, RowTypes
  <2>. QED BY <2>1, <2>2 DEF JobRow
<1>5. ASSUME NEW w \in Worker, WorkerStep(w)
      PROVE  Runs(w, j)'
  <2>a. task[w] \in Tasks(Serves[w]) /\ task[w].job \in Jobs /\ Serves[w] \in Stages
    BY DEF WorkerTypes, Tasks, PipelineAssumption, PipelineStages, Stages
  <2>1. CASE Claim(w)
    <3>1. Mark(task[w].job, Serves[w], "running") /\ pc'[w] = "run" /\ task' = task
      BY <2>1 DEF Claim, WorkerTypes
    <3>a. "running" \in States
      BY DEF States
    <3>2. task[w].job = j
      BY <3>1, <2>a, <3>a, MarkEdits DEF Tables, Edit
    <3>. QED BY <3>1, <3>2 DEF Runs
  <2>2. ASSUME NEW n \in 0..DeferCap, NEW due \in BOOLEAN, MarkBuildDeferred(task[w], n, due)
        PROVE  FALSE
    <3>1. StillBuilding(task[w])
      BY <2>2, <1>b DEF MarkBuildDeferred
    <3>. QED BY <2>2, <2>a, <3>1, <1>c, MarkBuildDeferredEdits DEF Tables
  <2>3. CASE BuildYields(w)
    <3>1. MarkBuildDeferred(task[w], task[w].arg, TRUE)
      BY <2>3 DEF BuildYields
    <3>2. task[w].arg \in 0..DeferCap
      BY <2>a, <2>3 DEF BuildYields, Running, Tasks
    <3>. QED BY <2>2, <3>1, <3>2
  <2>4. CASE BuildDefers(w)
    <3>1. MarkBuildDeferred(task[w], task[w].arg + 1, FALSE) /\ Running(w, "build") /\ task[w].arg < DeferCap
      BY <2>4 DEF BuildDefers
    <3>2. task[w].arg \in 0..DeferCap
      BY <2>a, <3>1 DEF Running, Tasks
    <3>3. task[w].arg + 1 \in 0..DeferCap
      BY <3>1, <3>2 DEF PipelineAssumption
    <3>. QED BY <2>2, <3>1, <3>3
  <2>5. CASE \/ BuildBlocks(w) \/ StageFails(w) \/ enqueueSealJobNonBlocking(w) \/ MarkPublishSucceeded(w)
    BY <2>5, <2>a, <1>a, <1>b
    DEF BuildBlocks, StageFails, enqueueSealJobNonBlocking, MarkPublishSucceeded, Stages, States
  <2>6. CASE enqueuePublishAfterSeal(w)
    <3>1. Serves[w] = "seal"
      BY <2>6 DEF enqueuePublishAfterSeal, Running
    <3>. QED BY <2>6, <2>a, <3>1, <1>c, enqueuePublishAfterSealEdits DEF Tables
  <2>7. CASE \/ Dequeue(w) \/ lockArtifacts(w) \/ ClaimSkipped(w) \/ StageStranded(w) \/ Deliver(w) \/ PublishTail(w)
    BY <2>7, <1>b DEF Dequeue, lockArtifacts, ClaimSkipped, StageStranded, Deliver, PublishTail
  <2>. QED
    BY <1>5, <2>1, <2>3, <2>4, <2>5, <2>6, <2>7 DEF WorkerStep
<1>6. CASE (\E t \in BuildTasks : DeferredBuildSends(t)) \/ DispatcherStep \/ UNCHANGED vars
  BY <1>6, <1>b DEF DeferredBuildSends, DispatcherStep, DispatchList, DispatchSend, vars
<1>7. CASE Restart
  BY <1>7, SweepEffect DEF Restart
<1>. QED
  BY <1>1, <1>2, <1>3, <1>4, <1>5, <1>6, <1>7 DEF Next, RecordStep

\* No row is running in a new process.
LEMMA SweepStopsRunning ==
  ASSUME Tables, MarkIncompleteJobsInterrupted, NEW j \in Jobs
  PROVE  job'[j].state # "running"
  BY SweepEffect DEF InFlight, Settled, PipelineStages

LEMMA RunningIsRunKept ==
  ASSUME IInv, BuildRunsItsOwnAttempt, RunningIsRun, PipelineAssumption, [Next]_vars
  PROVE  RunningIsRun'
<1>. SUFFICES ASSUME ~StoreFaults, NEW j \in Jobs, job'[j].state = "running"
     PROVE  Recording(j)' \/ \E w \in Worker : Runs(w, j)'
  BY DEF RunningIsRun
<1>1. ~Restart
  BY SweepStopsRunning DEF Restart, IInv
<1>2. CASE job[j].state = "running"
  BY <1>1, <1>2, RunnerKept, RecordingKept DEF RunningIsRun
<1>. QED
  BY <1>2, RunStarts

\* The artifact mutex leaves a running row one executor at most.
LEMMA OneRunner ==
  ASSUME ArtifactMutex, RunningIsRun
  PROVE  RunningHasOneRunner
<1>. SUFFICES ASSUME ~StoreFaults, NEW j \in Jobs, job[j].state = "running"
     PROVE  Cardinality(Runners(j)) + (IF Recording(j) THEN 1 ELSE 0) = 1
  BY DEF RunningHasOneRunner
<1>1. \A w \in Worker : w \in Runners(j) <=> Runs(w, j)
  BY DEF Runners, Runs
<1>2. \A w \in Runners(j) : w \in Worker /\ Holding(w) /\ task[w].job = j
  BY DEF Runners, Holding
<1>3. CASE Recording(j)
  <2>1. Runners(j) = {}
    BY <1>2, <1>3 DEF ArtifactMutex
  <2>2. Cardinality(Runners(j)) = 0
    BY <2>1, FS_EmptySet
  <2>. QED BY <1>3, <2>2
<1>4. CASE ~Recording(j)
  <2>1. PICK w \in Worker : Runs(w, j)
    BY <1>4 DEF RunningIsRun
  <2>2. Runners(j) = {w}
    BY <1>1, <1>2, <2>1 DEF ArtifactMutex
  <2>3. Cardinality(Runners(j)) = 1
    BY <2>2, FS_Singleton
  <2>. QED BY <1>4, <2>3
<1>. QED BY <1>3, <1>4

-----------------------------------------------------------------------------
(* The theorem.                                                            *)

CarryInv == Bookkeeping /\ QueueIsCarried /\ RunningIsRun

LEMMA InitCarryInv ==
  ASSUME Init, PipelineAssumption
  PROVE  CarryInv
<1>1. \A s \in PipelineStages : \A t : ~InChan(s, t) /\ ~Held(s, t) /\ <<s, t>> \notin scan
  BY DEF Init, InChan, Held, PipelineAssumption
<1>2. \A t \in BuildTasks : ~(timers[t] > 0)
  BY DEF Init
<1>3. Arrivals
  BY <1>1, <1>2 DEF Arrivals, Moving, Timed, BuildTasks
<1>4. Remembrance
  BY DEF Init, Remembrance
<1>5. Readiness
  BY <1>1, <1>2 DEF Readiness, Moving, PipelineStages
<1>6. QueueIsCarried /\ RunningIsRun
  BY DEF Init, QueueIsCarried, RunningIsRun
<1>. QED
  BY <1>3, <1>4, <1>5, <1>6 DEF CarryInv, Bookkeeping

\* While the store works, a running row has exactly one executor, and every queued
\* row that the dispatcher remembers as sent is in a channel, with a worker that
\* has not claimed it, or on a timer: a full channel, a deferral, a listing that
\* the row has outgrown, a rerun or a restart leaves no row waiting for nobody
\* (requeueDispatcher, scheduleDeferredBuild, ClaimBuildRunning).
THEOREM WorkIsAlwaysCarried == Spec => []WorkIsCarried
<1>1. Init => CarryInv
  BY InitCarryInv, PipelineAssumption
<1>2. IInv /\ BuildRunsItsOwnAttempt /\ CarryInv /\ [Next]_vars => CarryInv'
  BY ArrivalsKept, RemembranceKept, ReadinessKept, QueueIsCarriedKept, RunningIsRunKept, PipelineAssumption
  DEF CarryInv, Bookkeeping
<1>3. IInv /\ CarryInv => WorkIsCarried
  <2>1. CarryInv => DispatchedIsCarried
    BY DEF CarryInv, QueueIsCarried, Remembered, DispatchedIsCarried
  <2>. QED
    BY <2>1, OneRunner DEF IInv, Ownership, CarryInv, WorkIsCarried
<1>. QED
  BY <1>1, <1>2, <1>3, Invariance, BuildAlwaysRunsItsOwnAttempt, PTL DEF Spec
=============================================================================
