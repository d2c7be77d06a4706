----------------------------- MODULE TalkBackend -----------------------------
(***************************************************************************)
(* The recording backend of Nextcloud Talk (spreed) for one room. spreed   *)
(* asks for a start or a stop; the operator reserves the room in memory,   *)
(* binds the job it made to it, and later reports started, stopped or      *)
(* failed. A callback names only the room, so one about an old recording   *)
(* ends whatever spreed shows for the room at that moment.                 *)
(*                                                                         *)
(* A callback is a POST: it may arrive and be acknowledged, arrive and     *)
(* have its answer lost, fail on the way, or be refused. An operator that  *)
(* restarts forgets the room and its jobs and keeps the rows. A start that *)
(* the configuration cannot serve makes no job and takes no room: it is    *)
(* left out, with its own failed callback.                                 *)
(***************************************************************************)
EXTENDS Naturals, FiniteSets

CONSTANTS
  MaxRecordings,   \* bound: recordings asked for in the room
  MaxTries,        \* calls of one callback, the first one included
  MaxTalkRestarts  \* bound: restarts of the operator

ASSUME TalkAssumption == MaxRecordings \in Nat

RecordJob == 1..MaxRecordings
Free == 0
Pending == MaxRecordings + 1     \* reserved, the job not made yet

VARIABLES
  room,       \* talkRooms of this room: Free, Pending or the job bound to it
  talkJobs,   \* the jobs bound in memory
  jobRow,     \* [RecordJob -> [state, binding, stopped, named]], the durable rows
  pc,         \* [RecordJob -> where the record worker is]
  tries,      \* [RecordJob -> calls made of the callback in hand]
  notifier,   \* jobs the startup notifier still has to report
  checked,    \* the notifier looked for a live recording and is about to call
  talkRestarts,
  told,       \* [RecordJob -> callbacks about the job that arrived]
  excused,    \* [RecordJob -> why spreed will not be told, if it will not]
  window,     \* ghost: between the notifier's look at the room and its call
  known,      \* ghost: the room was taken before the notifier last looked
  clobbered   \* ghost: a callback about one recording met another's room

ghosts == <<window, known>>
talkVars ==
  <<room, talkJobs, jobRow, pc, tries, notifier, checked, talkRestarts, told, excused, ghosts,
     clobbered>>

Ended == {"record_failed", "promoted", "stopped_call", "stopped_mark", "handoff", "leave"}
Alive == {"bound", "starting", "recording", "live_call", "live", "start_failed"} \cup Ended

TalkInit ==
  /\ room = Free
  /\ talkJobs = {}
  /\ jobRow = [j \in RecordJob |-> [state |-> "none", binding |-> FALSE, stopped |-> FALSE, named |-> FALSE]]
  /\ pc = [j \in RecordJob |-> "none"]
  /\ tries = [j \in RecordJob |-> 0]
  /\ notifier = {}
  /\ checked = FALSE
  /\ talkRestarts = 0
  /\ told = [j \in RecordJob |-> {}]
  /\ excused = [j \in RecordJob |-> "no"]
  /\ window = FALSE
  /\ known = FALSE
  /\ clobbered = FALSE

Goto(j, l) == pc' = [pc EXCEPT ![j] = l]
Excuse(j, why) == excused' = [excused EXCEPT ![j] = why]

-----------------------------------------------------------------------------
(* Calls to spreed. *)

\* What a POST comes to: arrived and acknowledged, its answer lost, lost on the
\* way or answered by a 5xx, refused by a 4xx.
Outcome == {"ok", "unanswered", "lost", "refused"}
Arrived(o) == o \in {"ok", "unanswered"}
isRetryableTalkError(o) == o \in {"unanswered", "lost"}

\* spreed takes a callback about j for the room.
Receive(j, kind, o) ==
  told' = IF Arrived(o) THEN [told EXCEPT ![j] = @ \cup {kind}] ELSE told

\* The room is another recording's when the callback about j arrives.
Clobber(j, o) == clobbered' = (clobbered \/ (Arrived(o) /\ room \notin {Free, j}))

-----------------------------------------------------------------------------
(* Requests of spreed. *)

\* The reservation is taken before a job exists: a start for a room that has
\* one is answered as done.
reserveTalkRoom ==
  /\ room = Free
  /\ \E j \in RecordJob : pc[j] = "none"
  /\ room' = Pending
  /\ known' = ~window /\ UNCHANGED window
  /\ UNCHANGED <<talkJobs, jobRow, pc, tries, notifier, checked, talkRestarts, told, excused, clobbered>>

\* prepareRecordJob refuses (no slot, draining, the store failed).
releaseTalkRoom ==
  /\ room = Pending
  /\ room' = Free
  /\ UNCHANGED <<ghosts, talkJobs, jobRow, pc, tries, notifier, checked, talkRestarts, told, excused, clobbered>>

\* The job's row exists and the room is bound to it.
bindTalkRoomJob ==
  /\ room = Pending
  /\ \E j \in RecordJob :
       /\ pc[j] = "none" /\ \A i \in 1..(j - 1) : pc[i] # "none"
       /\ room' = j
       /\ talkJobs' = talkJobs \cup {j}
       /\ jobRow' = [jobRow EXCEPT ![j].state = "queued"]
       /\ Goto(j, "bound")
  /\ UNCHANGED <<ghosts, tries, notifier, checked, talkRestarts, told, excused, clobbered>>

\* The binding is saved on the row, at best effort, and the record worker starts.
SetJobTalkBinding(j) ==
  /\ pc[j] = "bound"
  /\ \E saved \in BOOLEAN : jobRow' = [jobRow EXCEPT ![j].binding = saved]
  /\ Goto(j, "starting")
  /\ UNCHANGED <<ghosts, room, talkJobs, tries, notifier, checked, talkRestarts, told, excused, clobbered>>

\* The room's name is fetched beside the recording and saved only while the
\* job is bound in memory: the binding is written whole, so this also repairs
\* a binding that could not be saved at the start.
storeTalkRoomInfo(j) ==
  /\ j \in talkJobs /\ ~jobRow[j].named /\ pc[j] # "bound"
  /\ jobRow' = [jobRow EXCEPT ![j].binding = TRUE, ![j].named = TRUE]
  /\ UNCHANGED <<ghosts, room, talkJobs, pc, tries, notifier, checked, talkRestarts, told, excused, clobbered>>

-----------------------------------------------------------------------------
(* The record worker. *)

\* A row that cannot be marked ends the worker at once, and spreed hears nothing.
MarkRecordRunning(j) ==
  /\ pc[j] = "starting"
  /\ \/ /\ jobRow' = [jobRow EXCEPT ![j].state = "running"]
        /\ Goto(j, "recording")
        /\ UNCHANGED excused
     \/ /\ Goto(j, "leave")
        /\ Excuse(j, "not marked")
        /\ UNCHANGED jobRow
  /\ UNCHANGED <<ghosts, room, talkJobs, tries, notifier, checked, talkRestarts, told, clobbered>>

\* The recorder reports that it is live, or ends before it does.
RecorderLive(j) ==
  /\ pc[j] = "recording"
  /\ Goto(j, "live_call")
  /\ UNCHANGED <<ghosts, room, talkJobs, jobRow, tries, notifier, checked, talkRestarts, told, excused, clobbered>>

\* One call, never repeated: spreed's refusal or silence stops the recorder.
notifyTalkStarted(j) ==
  /\ pc[j] = "live_call"
  /\ \E o \in Outcome :
       /\ Receive(j, "started", o)
       /\ Goto(j, IF o = "ok" THEN "live" ELSE "start_failed")
  /\ UNCHANGED <<ghosts, room, talkJobs, jobRow, tries, notifier, checked, talkRestarts, excused, clobbered>>

\* The recorder is gone: with an error, with a bundle that is promoted and its
\* outcome saved, or with one of those two failing, which marks the job failed
\* and tells spreed nothing.
RecorderExits(j) ==
  /\ \/ /\ pc[j] \in {"recording", "live", "start_failed"}
        /\ Goto(j, "record_failed")
        /\ UNCHANGED <<jobRow, excused>>
     \/ /\ pc[j] \in {"recording", "live"}
        /\ \/ /\ Goto(j, "stopped_call")
              /\ UNCHANGED <<jobRow, excused>>
           \/ /\ jobRow' = [jobRow EXCEPT ![j].state = "failed"]
              /\ Goto(j, "leave")
              /\ Excuse(j, "not promoted")
  /\ UNCHANGED <<ghosts, room, talkJobs, tries, notifier, checked, talkRestarts, told, clobbered>>

\* A failed recording is reported once, then the row is marked.
notifyTalkFailed(j) ==
  /\ pc[j] = "record_failed"
  /\ \E o \in Outcome :
       /\ IF j \in talkJobs THEN Receive(j, "failed", o) /\ Clobber(j, o) ELSE UNCHANGED <<told, clobbered>>
       /\ IF Arrived(o) THEN UNCHANGED excused ELSE Excuse(j, "call failed")
  /\ jobRow' = [jobRow EXCEPT ![j].state = "failed"]
  /\ Goto(j, "leave")
  /\ UNCHANGED <<ghosts, room, talkJobs, tries, notifier, checked, talkRestarts>>

\* reportTalkRecordingStopped: repeated while the error is worth it.
notifyTalkStopped(j) ==
  /\ pc[j] = "stopped_call"
  /\ \E o \in Outcome :
       /\ Receive(j, "stopped", o) /\ Clobber(j, o)
       /\ \/ o = "ok" /\ Goto(j, "stopped_mark") /\ UNCHANGED <<tries, excused>>
          \/ /\ isRetryableTalkError(o) /\ tries[j] + 1 < MaxTries
             /\ tries' = [tries EXCEPT ![j] = @ + 1]
             /\ UNCHANGED <<pc, excused>>
          \/ /\ o # "ok" /\ (isRetryableTalkError(o) => tries[j] + 1 >= MaxTries)
             /\ Goto(j, "handoff")
             /\ Excuse(j, "call failed")
             /\ UNCHANGED tries
  /\ UNCHANGED <<ghosts, room, talkJobs, jobRow, notifier, checked, talkRestarts>>

\* talk_stopped_at, saved only once spreed acknowledged.
MarkTalkStopped(j) ==
  /\ pc[j] = "stopped_mark"
  /\ \E saved \in BOOLEAN : jobRow' = [jobRow EXCEPT ![j].stopped = saved]
  /\ Goto(j, "handoff")
  /\ UNCHANGED <<ghosts, room, talkJobs, tries, notifier, checked, talkRestarts, told, excused, clobbered>>

\* The build is queued (or marked failed): the row leaves the record stage.
enqueueBuildJob(j) ==
  /\ pc[j] = "handoff"
  /\ jobRow' = [jobRow EXCEPT ![j].state = "build"]
  /\ Goto(j, "leave")
  /\ UNCHANGED <<ghosts, room, talkJobs, tries, notifier, checked, talkRestarts, told, excused, clobbered>>

\* Mutant of clearTalkRoomJobByID: the room is freed on the way out of a good recording only.
ClearAfterSuccess(j) ==
  /\ pc[j] = "leave"
  /\ room' = IF j \in talkJobs /\ jobRow[j].state = "build" THEN Free ELSE room
  /\ talkJobs' = talkJobs \ {j}
  /\ Goto(j, "done")
  /\ UNCHANGED <<ghosts, jobRow, tries, notifier, checked, talkRestarts, told, excused, clobbered>>

\* Deferred to the worker's end, whatever way it ends.
clearTalkRoomJobByID(j) ==
  /\ pc[j] = "leave"
  /\ room' = IF j \in talkJobs THEN Free ELSE room
  /\ talkJobs' = talkJobs \ {j}
  /\ Goto(j, "done")
  /\ UNCHANGED <<ghosts, jobRow, tries, notifier, checked, talkRestarts, told, excused, clobbered>>

-----------------------------------------------------------------------------
(* Restart. *)

\* Memory is gone. The jobs that waited or ran become interrupted, and those
\* that were bound and not marked as stopped are reported, oldest first. What
\* an earlier startup had not reported yet is dropped.
ListInterruptedTalkRecordJobs(j) ==
  jobRow[j].state \in {"queued", "running"} /\ jobRow[j].binding /\ ~jobRow[j].stopped

RestartBackend ==
  /\ talkRestarts < MaxTalkRestarts
  /\ talkRestarts' = talkRestarts + 1
  /\ room' = Free
  /\ talkJobs' = {}
  /\ jobRow' = [j \in RecordJob |-> [jobRow[j] EXCEPT
       !.state = IF @ \in {"queued", "running"} THEN "interrupted" ELSE @]]
  /\ pc' = [j \in RecordJob |-> IF pc[j] \in Alive THEN "done" ELSE pc[j]]
  /\ tries' = [j \in RecordJob |-> 0]
  /\ notifier' = {j \in RecordJob : ListInterruptedTalkRecordJobs(j)}
  /\ checked' = FALSE
  /\ excused' = [j \in RecordJob |->
       IF \/ j \in notifier
          \/ jobRow[j].state \in {"queued", "running"} /\ ~jobRow[j].binding
       THEN "restarted" ELSE excused[j]]
  /\ window' = FALSE
  /\ known' = FALSE
  /\ UNCHANGED <<told, clobbered>>

\* Job numbers are ages: the oldest that is still to be reported.
IsNext(j) == j \in notifier /\ \A k \in notifier : j <= k

\* talkRoomLiveWithOtherJob, looked at again before every call.
CheckLive ==
  /\ ~checked
  /\ \E j \in RecordJob :
       /\ IsNext(j)
       /\ IF room # Free
          THEN Excuse(j, "room is live") /\ notifier' = notifier \ {j} /\ UNCHANGED checked
          ELSE checked' = TRUE /\ UNCHANGED <<notifier, excused>>
  /\ known' = (room # Free)
  /\ window' = TRUE
  /\ UNCHANGED <<room, talkJobs, jobRow, pc, tries, talkRestarts, told, clobbered>>

\* Mutant of NotifyInterruptedTalkRecordings: the room is looked at once, before the first call.
NotifyLookingOnce ==
  /\ checked
  /\ \E j \in RecordJob, o \in Outcome :
       /\ IsNext(j)
       /\ Receive(j, "failed", o)
       /\ IF known THEN Clobber(j, o) ELSE UNCHANGED clobbered
       /\ \/ /\ isRetryableTalkError(o) /\ tries[j] + 1 < MaxTries
             /\ tries' = [tries EXCEPT ![j] = @ + 1]
             /\ UNCHANGED <<notifier, excused>>
          \/ /\ isRetryableTalkError(o) => tries[j] + 1 >= MaxTries
             /\ notifier' = notifier \ {j}
             /\ IF o = "ok" THEN UNCHANGED excused ELSE Excuse(j, "call failed")
             /\ UNCHANGED tries
  /\ checked' = (notifier' = notifier)
  /\ known' = (room # Free)
  /\ window' = FALSE
  /\ UNCHANGED <<room, talkJobs, jobRow, pc, talkRestarts>>

\* The failed callback about an interrupted recording. A recording that began
\* after the look is not spared; the ghost forgives it.
NotifyInterruptedTalkRecordings ==
  /\ checked
  /\ \E j \in RecordJob, o \in Outcome :
       /\ IsNext(j)
       /\ Receive(j, "failed", o)
       /\ IF known THEN Clobber(j, o) ELSE UNCHANGED clobbered
       /\ \/ /\ isRetryableTalkError(o) /\ tries[j] + 1 < MaxTries
             /\ tries' = [tries EXCEPT ![j] = @ + 1]
             /\ UNCHANGED <<notifier, excused>>
          \/ /\ isRetryableTalkError(o) => tries[j] + 1 >= MaxTries
             /\ notifier' = notifier \ {j}
             /\ IF o = "ok" THEN UNCHANGED excused ELSE Excuse(j, "call failed")
             /\ UNCHANGED tries
  /\ checked' = FALSE
  /\ known' = (room # Free)
  /\ window' = FALSE
  /\ UNCHANGED <<room, talkJobs, jobRow, pc, talkRestarts>>

-----------------------------------------------------------------------------
Worker(j) ==
  \/ MarkRecordRunning(j) \/ RecorderLive(j) \/ notifyTalkStarted(j) \/ RecorderExits(j)
  \/ notifyTalkFailed(j) \/ notifyTalkStopped(j) \/ MarkTalkStopped(j) \/ enqueueBuildJob(j)
  \/ clearTalkRoomJobByID(j)

Notifier == CheckLive \/ NotifyInterruptedTalkRecordings

TalkNext ==
  \/ reserveTalkRoom \/ releaseTalkRoom \/ bindTalkRoomJob
  \/ \E j \in RecordJob : SetJobTalkBinding(j) \/ storeTalkRoomInfo(j) \/ Worker(j)
  \/ Notifier
  \/ RestartBackend

\* A worker whose recorder is gone and the notifier run until they are done; how
\* long a recorder records is nobody's promise.
TalkFairness ==
  /\ \A j \in RecordJob :
       WF_talkVars(notifyTalkFailed(j) \/ notifyTalkStopped(j) \/ MarkTalkStopped(j)
               \/ enqueueBuildJob(j) \/ clearTalkRoomJobByID(j))
  /\ WF_talkVars(Notifier)

TalkSpec == TalkInit /\ [][TalkNext]_talkVars /\ TalkFairness

-----------------------------------------------------------------------------
\* A callback about one recording never meets another one's room, unless that
\* one began between the notifier's look at the room and its call; and a room
\* whose job is marked as stopped was not told that it failed
\* (talkRoomLiveWithOtherJob, talk_stopped_at).
CallbacksAreHonest ==
  /\ ~clobbered
  /\ \A j \in RecordJob : jobRow[j].stopped => "failed" \notin told[j]

\* A recording that ended, or that a restart interrupted, frees its room, and
\* spreed is told that it stopped or failed; the excuses are the calls that
\* failed for good, a room already live again, a row that could not be marked
\* as running, a bundle that could not be promoted, a binding never saved, and a second restart.
RoomsAreTold ==
  \A j \in RecordJob :
    (pc[j] \in Ended \/ jobRow[j].state = "interrupted")
      ~> (room # j /\ (told[j] \cap {"stopped", "failed"} # {} \/ excused[j] # "no"))

=============================================================================
