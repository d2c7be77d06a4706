----------------------------- MODULE RecordStop -----------------------------
(***************************************************************************)
(* Stopping one recording: the record goroutine, the recorder subprocess,  *)
(* any number of concurrent stop requests, the enforcement goroutines that *)
(* hard-kill a recorder that does not end, and operator shutdown.          *)
(* All of this state is per job, so one recording stands for each of them. *)
(***************************************************************************)
EXTENDS Naturals, FiniteSets

CONSTANTS
  Stopper,      \* stop requests (handleStopJob calls)
  StoreFaults   \* whether a store write may fail

\* What is assumed of the constants.
ASSUME StopAssumption == IsFiniteSet(Stopper) /\ StoreFaults \in BOOLEAN

VARIABLES
  stage,      \* control point of runRecordJob
  store,      \* the jobs row: "queued", record/"running", or "left" that state
  reg,        \* recordJobs holds an entry for the job
  attached,   \* recordProcessState.process is set
  signalled,  \* the latch of claimStopSignal
  stopInProgress,
  done,       \* recordProcessState.done is closed
  proc,       \* the subprocess: "none", "live", "acked" (finalizing), "gone"
  termed,     \* the subprocess was sent SIGTERM, by anybody
  sent,       \* SIGTERMs sent on behalf of stop requests
  talkFailed, \* the talk-started callback failed
  enforcers,  \* enforceRecordStop goroutines
  watch,      \* stopRecordProcessOnShutdown: "none", "armed", "fired"
  shutdown,   \* rt.ctx is cancelled
  hpc,        \* control point of each stop request
  answer      \* its answer: 0 none yet, 202, 409, 500; 410 stands for the 409
              \* "no record registration"

stopVars == <<stage, store, reg, attached, signalled, stopInProgress, done, proc, termed,
          sent, talkFailed, enforcers, watch, shutdown, hpc, answer>>

flags == <<attached, signalled, stopInProgress, done>>
procs == <<proc, termed, sent, talkFailed>>
stops == <<hpc, answer>>

-----------------------------------------------------------------------------
(* The record goroutine.                                                   *)

registerRecordJob ==
  /\ stage = "start"
  /\ reg' = TRUE
  /\ stage' = "registered"
  /\ UNCHANGED <<store, flags, procs, enforcers, watch, shutdown, stops>>

MarkRecordRunning ==
  /\ stage = "registered"
  /\ \/ store' = "running" /\ stage' = "marked"
     \/ StoreFaults /\ stage' = "left" /\ UNCHANGED store
  /\ UNCHANGED <<reg, flags, procs, enforcers, watch, shutdown, stops>>

\* executeRecordCLI fails before the subprocess exists.
RecordNotSpawned ==
  /\ stage = "marked"
  /\ stage' = "returned"
  /\ UNCHANGED <<store, reg, flags, procs, enforcers, watch, shutdown, stops>>

CmdStart ==
  /\ stage = "marked"
  /\ proc' = "live"
  /\ stage' = "started"
  /\ UNCHANGED <<store, reg, flags, termed, sent, talkFailed, enforcers, watch, shutdown, stops>>

\* claimStopSignalLocked would hand out the process.
SignalFree == attached /\ ~signalled /\ ~done

\* Mutant of attachRecordProcess: a stop accepted before the spawn is forgotten.
AttachIgnoresPending ==
  /\ stage = "started"
  /\ attached' = TRUE
  /\ stage' = "waiting"
  /\ watch' = "armed"
  /\ UNCHANGED <<store, reg, signalled, stopInProgress, done, procs, enforcers, shutdown, stops>>

\* The critical section of attachRecordProcess: publish the process and, if a
\* stop is already in progress, claim its signal.
attachRecordProcess ==
  LET pending == stopInProgress /\ ~signalled /\ ~done IN
  /\ stage = "started"
  /\ attached' = TRUE
  /\ signalled' = (signalled \/ pending)
  /\ stage' = IF pending THEN "pending" ELSE "waiting"
  /\ watch' = IF pending THEN watch ELSE "armed"
  /\ UNCHANGED <<store, reg, stopInProgress, done, procs, enforcers, shutdown, stops>>

\* The rest of it: the SIGTERM owed since before the spawn.
DeliverPendingStop ==
  /\ stage = "pending"
  /\ termed' = TRUE
  /\ sent' = sent + 1
  /\ enforcers' = enforcers + 1
  /\ stage' = "waiting"
  /\ watch' = "armed"
  /\ UNCHANGED <<store, reg, flags, proc, talkFailed, shutdown, stops>>

\* The recorder went live and the talk-started callback failed: it is sent a
\* SIGTERM outside the latch and nobody enforces it.
TalkStartedFails ==
  /\ stage = "waiting"
  /\ ~talkFailed
  /\ talkFailed' = TRUE
  /\ termed' = (termed \/ proc # "gone")
  /\ UNCHANGED <<stage, store, reg, flags, proc, sent, enforcers, watch, shutdown, stops>>

\* cmd.Wait returned; the deferred markRecordProcessExited closes done.
RecordReturns ==
  /\ stage = "waiting"
  /\ proc = "gone"
  /\ done' = TRUE
  /\ stage' = "returned"
  /\ UNCHANGED <<store, reg, attached, signalled, stopInProgress, procs, enforcers, watch, shutdown, stops>>

\* MarkRecordFailed or the build hand-off moves the row on; if that write
\* fails the row stays record/running.
LeaveRecordRunning ==
  /\ stage = "returned"
  /\ stage' = "left"
  /\ \/ store' = "left"
     \/ StoreFaults /\ UNCHANGED store
  /\ UNCHANGED <<reg, flags, procs, enforcers, watch, shutdown, stops>>

unregisterRecordJob ==
  /\ stage = "left"
  /\ reg' = FALSE
  /\ done' = TRUE
  /\ stage' = "ended"
  /\ UNCHANGED <<store, attached, signalled, stopInProgress, procs, enforcers, watch, shutdown, stops>>

-----------------------------------------------------------------------------
(* The recorder subprocess: it may end by itself (the call ended), end      *)
(* after SIGTERM with or without acknowledging it, or never end.            *)

RecorderAcks ==
  /\ proc = "live" /\ termed
  /\ proc' = "acked"
  /\ UNCHANGED <<stage, store, reg, flags, termed, sent, talkFailed, enforcers, watch, shutdown, stops>>

RecorderExits ==
  /\ proc \in {"live", "acked"}
  /\ proc' = "gone"
  /\ UNCHANGED <<stage, store, reg, flags, termed, sent, talkFailed, enforcers, watch, shutdown, stops>>

-----------------------------------------------------------------------------
(* Stop requests.                                                          *)

\* handleStopJob reads the row and refuses a job that is not record/running.
StopGate(h) ==
  /\ hpc[h] = "new"
  /\ \/ /\ store = "running"
        /\ hpc' = [hpc EXCEPT ![h] = "gated"]
        /\ UNCHANGED answer
     \/ /\ store # "running"
        /\ hpc' = [hpc EXCEPT ![h] = "answered"]
        /\ answer' = [answer EXCEPT ![h] = 409]
  /\ UNCHANGED <<stage, store, reg, flags, procs, enforcers, watch, shutdown>>

\* stopInProgress is swapped to TRUE; only the first request goes on.
beginRecordStop(h) ==
  /\ hpc[h] = "gated"
  /\ stopInProgress' = (stopInProgress \/ reg)
  /\ \/ /\ reg /\ ~stopInProgress
        /\ hpc' = [hpc EXCEPT ![h] = "begun"]
        /\ UNCHANGED answer
     \/ /\ ~(reg /\ ~stopInProgress)
        /\ hpc' = [hpc EXCEPT ![h] = "answered"]
        /\ answer' = [answer EXCEPT ![h] = IF reg THEN 202 ELSE 410]
  /\ UNCHANGED <<stage, store, reg, attached, signalled, done, procs, enforcers, watch, shutdown>>

claimStopSignal(h) ==
  /\ hpc[h] = "begun"
  /\ signalled' = (signalled \/ SignalFree)
  /\ hpc' = [hpc EXCEPT ![h] = IF SignalFree THEN "claimed" ELSE "unclaimed"]
  /\ UNCHANGED <<stage, store, reg, attached, stopInProgress, done, procs, enforcers, watch, shutdown, answer>>

SendStopSignal(h) ==
  /\ hpc[h] = "claimed"
  /\ termed' = (termed \/ proc # "gone")
  /\ sent' = sent + 1
  /\ hpc' = [hpc EXCEPT ![h] = "signalled"]
  /\ UNCHANGED <<stage, store, reg, flags, proc, talkFailed, enforcers, watch, shutdown, answer>>

\* Mutant of MarkRecordStopRequested: nobody enforces the stop.
MarkWithoutEnforcement(h) ==
  /\ hpc[h] \in {"signalled", "unclaimed"}
  /\ answer' = [answer EXCEPT ![h] = 202]
  /\ hpc' = [hpc EXCEPT ![h] = "answered"]
  /\ UNCHANGED <<stage, store, reg, flags, procs, enforcers, watch, shutdown>>

\* The stop is recorded, then enforced by whoever claimed the signal. When the
\* write fails (it runs under the request's context) the handler returns before
\* it starts the enforcement.
MarkRecordStopRequested(h) ==
  /\ hpc[h] \in {"signalled", "unclaimed"}
  /\ \/ /\ answer' = [answer EXCEPT ![h] = 202]
        /\ enforcers' = IF hpc[h] = "signalled" THEN enforcers + 1 ELSE enforcers
     \/ /\ StoreFaults
        /\ answer' = [answer EXCEPT ![h] = 500]
        /\ UNCHANGED enforcers
  /\ hpc' = [hpc EXCEPT ![h] = "answered"]
  /\ UNCHANGED <<stage, store, reg, flags, procs, watch, shutdown>>

-----------------------------------------------------------------------------
(* Enforcement and shutdown.                                               *)

\* An enforcer returns when the stage's subprocess is reported gone.
EnforceEnds ==
  /\ enforcers > 0
  /\ done
  /\ enforcers' = enforcers - 1
  /\ UNCHANGED <<stage, store, reg, flags, procs, watch, shutdown, stops>>

\* One of its timers ran out: no acknowledgement and no output for the ack
\* grace, or the finalize grace is over.
hardKillRecordProcess ==
  /\ enforcers > 0
  /\ proc' = "gone"
  /\ enforcers' = enforcers - 1
  /\ UNCHANGED <<stage, store, reg, flags, termed, sent, talkFailed, watch, shutdown, stops>>

Shutdown ==
  /\ ~shutdown
  /\ shutdown' = TRUE
  /\ UNCHANGED <<stage, store, reg, flags, procs, enforcers, watch, stops>>

stopRecordProcessOnShutdown ==
  /\ watch = "armed"
  /\ \/ /\ shutdown
        /\ termed' = (termed \/ proc # "gone")
        /\ enforcers' = enforcers + 1
     \/ /\ done
        /\ UNCHANGED <<termed, enforcers>>
  /\ watch' = "fired"
  /\ UNCHANGED <<stage, store, reg, flags, proc, sent, talkFailed, shutdown, stops>>

-----------------------------------------------------------------------------
StopInit ==
  /\ stage = "start" /\ store = "queued" /\ reg = FALSE
  /\ attached = FALSE /\ signalled = FALSE /\ stopInProgress = FALSE /\ done = FALSE
  /\ proc = "none" /\ termed = FALSE /\ sent = 0 /\ talkFailed = FALSE
  /\ enforcers = 0 /\ watch = "none" /\ shutdown = FALSE
  /\ hpc = [h \in Stopper |-> "new"]
  /\ answer = [h \in Stopper |-> 0]

RecordGoroutine ==
  \/ registerRecordJob \/ MarkRecordRunning \/ RecordNotSpawned \/ CmdStart
  \/ attachRecordProcess \/ DeliverPendingStop \/ RecordReturns
  \/ LeaveRecordRunning \/ unregisterRecordJob

StopHandler(h) ==
  \/ beginRecordStop(h) \/ claimStopSignal(h) \/ SendStopSignal(h) \/ MarkRecordStopRequested(h)

Enforcer == EnforceEnds \/ hardKillRecordProcess

StopNext ==
  \/ RecordGoroutine \/ TalkStartedFails
  \/ RecorderAcks \/ RecorderExits
  \/ \E h \in Stopper : StopGate(h) \/ StopHandler(h)
  \/ Enforcer \/ Shutdown \/ stopRecordProcessOnShutdown

StopSpec == StopInit /\ [][StopNext]_stopVars

\* Goroutines that can run do run, and the enforcement timers run out.
\* Nothing is assumed of the recorder, of who asks for a stop, or when.
StopFairSpec ==
  /\ StopSpec
  /\ WF_stopVars(RecordGoroutine)
  /\ \A h \in Stopper : WF_stopVars(StopHandler(h))
  /\ WF_stopVars(Enforcer)
  /\ WF_stopVars(stopRecordProcessOnShutdown)

-----------------------------------------------------------------------------
(* Properties.                                                             *)

\* Every variable has its type; at most one enforcer per claim and one for
\* the shutdown exist.
StopTypeOK ==
  /\ stage \in {"start", "registered", "marked", "started", "pending", "waiting",
                "returned", "left", "ended"}
  /\ store \in {"queued", "running", "left"}
  /\ {reg, attached, signalled, stopInProgress, done, termed, talkFailed, shutdown} \subseteq BOOLEAN
  /\ proc \in {"none", "live", "acked", "gone"}
  /\ sent \in Nat
  /\ enforcers \in 0..2
  /\ watch \in {"none", "armed", "fired"}
  /\ hpc \in [Stopper -> {"new", "gated", "begun", "claimed", "unclaimed", "signalled", "answered"}]
  /\ answer \in [Stopper -> {0, 202, 409, 410, 500}]

\* Until the record goroutine is over, the store publishes record/running only
\* while there is a registration, so a stop the API would accept finds an entry
\* to act on; after a failed last write only a dead stage's row stays behind.
BracketHolds == store = "running" /\ stage # "ended" => reg

\* "exactly once across every caller" (claimStopSignal): among all stop requests
\* and the delivery on spawn, the recorder is sent at most one SIGTERM.
StopSignalledOnce == sent <= 1

\* A stop that was accepted is never lost to the spawn: once the process is
\* published, a stop in progress has its signal claimed by somebody, is about
\* to claim it, or comes after the recorder ended.
StopNotLost ==
  stopInProgress /\ attached /\ ~done /\ (\A h \in Stopper : hpc[h] # "begun") => signalled

\* A stop finds its registration, is signalled once and is not lost to the
\* spawn, with every variable in its type.
StopIsSafe == StopTypeOK /\ BracketHolds /\ StopSignalledOnce /\ StopNotLost

\* "a stop ... waits a bounded grace period, falls back to hard kill" (README):
\* a recording whose stop was answered 202 ends, whatever the recorder does.
AcceptedStopEnds == \A h \in Stopper : answer[h] = 202 ~> stage = "ended"

\* A recording whose stop was answered 202 ends, whatever the recorder does,
\* unless the write that records the stop failed for one of the requests: that
\* handler signals, answers 500 and starts no enforcement.
RecordedStopEnds ==
  \A h \in Stopper : answer[h] = 202 ~> stage = "ended" \/ \E g \in Stopper : answer[g] = 500

\* "per-process stop enforcement guarantees the recorder is gone": after an
\* operator shutdown the record stage ends, whatever the recorder does.
ShutdownEnds == shutdown ~> stage = "ended"
=============================================================================
