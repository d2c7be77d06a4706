---------------------------- MODULE SpeechModels ----------------------------
(***************************************************************************)
(* The operator's speech model after an upgrade that retired the one its   *)
(* settings name: the worker that moves the pin and installs the           *)
(* replacement, the requests that cancel and retry the install, and a      *)
(* build that is admitted with the replacement, with the retired files     *)
(* standing in for it, or not at all. Administrators run `cassini models`  *)
(* beside it and save Settings. One device, one retired and one current    *)
(* model; a third one that is always ready is what Settings may select     *)
(* instead. How files get into the cache is ModelStore's. Left out: the    *)
(* last of a build's retries, which publishes the audio without waiting,   *)
(* and an operator that may not download.                                  *)
(***************************************************************************)
EXTENDS Naturals

CONSTANT MaxEvents  \* bound: builds, requests, saves of Settings, commands and restarts

VARIABLES
  pin, enabled,      \* settings: the active model, and whether to transcribe
  chosen,            \* history: the model the administrator selected last
  row,               \* the install job's state; "busy": any of its phases
  step, seen, due,   \* the model worker; the settings it read; checkErr
  live,              \* the running job's context is not cancelled
  gate,              \* buildExecutionMu
  files, checked,    \* the replacement: installed, and readiness receipt
  old, oldChecked,   \* the retired model: installed, and readiness receipt
  oldFailed,         \* standInCheckFailed
  build,             \* the build worker
  handling,          \* a handler between its read of the jobs and modelMu
  command,           \* `cassini models install` by an administrator
  overtaken,         \* history: a build queued the job again under a run that was cancelled
  deleted,           \* history: files were deleted by hand
  events             \* those that happened

settings == <<pin, enabled, chosen>>
workerVars == <<row, step, seen, due, live>>
cache == <<files, checked, old, oldChecked>>
history == <<overtaken, deleted>>
modelsVars == <<settings, workerVars, gate, cache, oldFailed, build, handling, command, history,
                events>>

Finished == {"ready", "failed", "cancelled"}
InRun == {"install", "gate", "probe", "passed", "failed", "ready", "over"}
NoRequest == [op |-> "none", state |-> "none"]
NoBuild == [pc |-> "idle", retired |-> FALSE, dispose |-> FALSE, files |-> FALSE, checked |-> FALSE,
            old |-> FALSE, oldChecked |-> FALSE, cause |-> "none", admitted |-> "none"]
Idle == [pin |-> "old", enabled |-> FALSE, ready |-> FALSE]

\* The upgrade found the retired model installed and selected.
ModelsInit ==
  /\ pin = "old" /\ chosen = "old" /\ enabled \in BOOLEAN
  /\ row = "none" /\ step = "check" /\ seen = Idle /\ due = FALSE /\ live = FALSE
  /\ gate = "free"
  /\ files = FALSE /\ checked = FALSE /\ old = TRUE /\ oldChecked \in BOOLEAN
  /\ oldFailed = FALSE /\ build = NoBuild /\ handling = NoRequest
  /\ command = "idle" /\ overtaken = FALSE
  /\ deleted = FALSE /\ events = 0

Event == events < MaxEvents /\ events' = events + 1

enqueueModel == IF row = "none" THEN "queued" ELSE row

\* With requeue, a finished job is run again.
Ensured(requeue) == IF requeue /\ row \in Finished THEN "queued" ELSE enqueueModel

\* Every write of the worker leaves a cancelled row alone.
updateModelJob(state) == row' = IF row = "cancelled" THEN row ELSE state

-----------------------------------------------------------------------------
(* The model worker: the check at startup.                                 *)

MigrationReads ==
  /\ step = "check"
  /\ seen' = IF pin # "old" THEN Idle
             ELSE [pin |-> pin, enabled |-> enabled, ready |-> files /\ checked]
  /\ step' = CASE pin # "old" -> "recover" [] enabled -> "ensure" [] OTHER -> "save"
  /\ UNCHANGED <<settings, row, due, live, gate, cache, oldFailed, build, handling, command,
                 history, events>>

ensureModelInstall ==
  /\ step = "ensure"
  /\ row' = IF seen.ready THEN row ELSE Ensured(TRUE)
  /\ step' = "save"
  /\ UNCHANGED <<settings, seen, due, live, gate, cache, oldFailed, build, handling, command,
                 history, events>>

\* The pin moves only on settings that still select the retired model, and were
\* not switched on without an install.
migrateRetiredSpeechModel ==
  /\ step = "save"
  /\ IF pin = seen.pin /\ (enabled => seen.enabled)
     THEN pin' = "new" /\ step' = "recover" /\ UNCHANGED due
     ELSE step' = "idle" /\ due' = TRUE /\ UNCHANGED pin
  /\ seen' = Idle
  /\ UNCHANGED <<enabled, chosen, row, live, gate, cache, oldFailed, build, handling,
                 command, history, events>>

recoverActiveSpeechModel ==
  /\ step = "recover"
  /\ row' = IF enabled /\ pin = "new" /\ ~(files /\ checked) THEN Ensured(TRUE) ELSE row
  /\ step' = "idle" /\ due' = FALSE
  /\ UNCHANGED <<settings, seen, live, gate, cache, oldFailed, build, handling, command, overtaken,
                 deleted, events>>

\* The inventory cannot be read, or a write fails: jobs go on, and the check is
\* made again later.
CheckFails ==
  /\ step \in {"check", "ensure", "save", "recover"} /\ ~due
  /\ step' = "idle" /\ due' = TRUE /\ seen' = Idle
  /\ UNCHANGED <<settings, row, live, gate, cache, oldFailed, build, handling, command, history,
                 events>>

CheckAgain ==
  /\ step = "idle" /\ due
  /\ step' = "check"
  /\ UNCHANGED <<settings, row, seen, due, live, gate, cache, oldFailed, build, handling, command,
                 history, events>>

-----------------------------------------------------------------------------
(* The model worker: a job.                                                *)

PickJob ==
  /\ step = "idle" /\ row = "queued"
  /\ step' = "picked"
  /\ UNCHANGED <<settings, row, seen, due, live, gate, cache, oldFailed, build, handling, command,
                 history, events>>

\* The row is looked at again under modelMu, and the run becomes cancellable.
runModelJob ==
  /\ step = "picked"
  /\ step' = IF row = "queued" THEN "install" ELSE "idle"
  /\ live' = (row = "queued")
  /\ UNCHANGED <<settings, row, seen, due, gate, cache, oldFailed, build, handling, command,
                 history, events>>

\* A line of progress, read from the pipe possibly after the cancellation.
modelCommandProgress ==
  /\ step \in {"install", "probe"}
  /\ updateModelJob("busy")
  /\ UNCHANGED <<settings, step, seen, due, live, gate, cache, oldFailed, build, handling,
                 command, history, events>>

\* The child of a cancelled run is killed, before or after it finished.
InstallEnds ==
  /\ step = "install"
  /\ \/ files' = TRUE /\ step' = (IF live THEN "gate" ELSE "over")
     \/ UNCHANGED files /\ step' = (IF live THEN "failed" ELSE "over")
  /\ UNCHANGED <<settings, row, seen, due, live, gate, checked, old, oldChecked, oldFailed, build,
                 handling, command, history, events>>

TakeGate ==
  /\ step = "gate"
  /\ \/ live /\ gate = "free" /\ gate' = "job" /\ step' = "probe" /\ updateModelJob("busy")
     \/ ~live /\ step' = "over" /\ UNCHANGED <<gate, row>>
  /\ UNCHANGED <<settings, seen, due, live, cache, oldFailed, build, handling, command, overtaken,
                 deleted, events>>

\* models probe: the receipt, and then the retired files are removed.
ModelProbe ==
  /\ step = "probe"
  /\ \/ files /\ checked' = TRUE /\ old' \in (IF live THEN {FALSE} ELSE {FALSE, old})
        /\ step' = (IF live THEN "passed" ELSE "over")
     \/ UNCHANGED <<checked, old>> /\ step' = (IF live THEN "failed" ELSE "over")
  /\ gate' = "free"
  /\ UNCHANGED <<settings, row, seen, due, live, files, oldChecked, oldFailed, build, handling,
                 command, history, events>>

\* ctx is looked at once more, and the result is written.
RunReturns ==
  /\ \/ step \in {"passed", "failed"} /\ live /\ step' = (IF step = "passed" THEN "ready" ELSE "idle")
        /\ IF step = "failed" THEN updateModelJob("failed") ELSE UNCHANGED row
     \/ step \in {"passed", "failed"} /\ ~live /\ step' = "over" /\ UNCHANGED row
     \/ step = "ready" /\ updateModelJob("ready") /\ step' = "idle"
     \/ step = "over" /\ step' = "idle" /\ UNCHANGED row
  /\ live' = (live /\ step' # "idle")
  /\ UNCHANGED <<settings, seen, due, gate, cache, oldFailed, build, handling, command, history,
                 events>>

-----------------------------------------------------------------------------
(* Requests.                                                               *)

RequestReads ==
  /\ handling = NoRequest /\ row # "none"
  /\ Event
  /\ \E op \in {"cancel", "retry"} : handling' = [op |-> op, state |-> row]
  /\ UNCHANGED <<settings, workerVars, gate, cache, oldFailed, build, command, history>>

cancelModelJob ==
  /\ handling.op = "cancel"
  /\ handling' = NoRequest
  /\ \/ handling.state \in Finished /\ UNCHANGED <<row, live>>
     \/ handling.state \notin Finished /\ row' = "cancelled" /\ live' = FALSE
  /\ UNCHANGED <<settings, step, seen, due, gate, cache, oldFailed, build, command, history,
                 events>>

\* Mutant of retryModelJob: also while the cancelled run is still ending.
RetryAtOnce ==
  /\ handling.op = "retry"
  /\ handling' = NoRequest
  /\ row' = IF handling.state \in Finished THEN "queued" ELSE row
  /\ UNCHANGED <<settings, step, seen, due, live, gate, cache, oldFailed, build, command, overtaken,
                 deleted, events>>

retryModelJob ==
  /\ handling.op = "retry"
  /\ handling' = NoRequest
  /\ row' = IF handling.state \in Finished /\ step \notin InRun THEN "queued" ELSE row
  /\ UNCHANGED <<settings, step, seen, due, live, gate, cache, oldFailed, build, command, overtaken,
                 deleted, events>>

installModel ==
  /\ row = "none" /\ Event
  /\ row' = enqueueModel
  /\ UNCHANGED <<settings, step, seen, due, live, gate, cache, oldFailed, build, handling,
                 command, history>>

\* A selection that transcribes must name a model that is ready.
handlePutSettings ==
  /\ Event
  /\ pin' \in {pin, "new", "other"} /\ enabled' \in BOOLEAN
  /\ chosen' = IF pin' = pin THEN chosen ELSE pin'
  /\ enabled' /\ (~enabled \/ pin' # pin) => pin' = "other" \/ (pin' = "new" /\ files /\ checked)
  /\ UNCHANGED <<workerVars, gate, cache, oldFailed, build, handling, command, history>>

-----------------------------------------------------------------------------
(* A build's admission.                                                    *)

\* A disposing job has the settings it was admitted with, others the current ones.
BuildStarts ==
  /\ build = NoBuild /\ gate = "free"
  /\ Event
  /\ \E dispose, retired \in BOOLEAN :
       /\ dispose \/ (enabled /\ pin # "other" /\ retired = (pin = "old"))
       /\ build' = [NoBuild EXCEPT !.pc = "list", !.retired = retired, !.dispose = dispose]
  /\ gate' = "build"
  /\ UNCHANGED <<settings, workerVars, cache, oldFailed, handling, command, history>>

\* models list reads the current models, then the retired ones.
ListCurrent ==
  /\ build.pc = "list"
  /\ build' = [build EXCEPT !.pc = "listOld", !.files = files, !.checked = checked]
  /\ UNCHANGED <<settings, workerVars, gate, cache, oldFailed, handling, command, history, events>>

ListRetired ==
  /\ build.pc = "listOld"
  /\ build' = [build EXCEPT !.pc = "admit", !.old = old, !.oldChecked = oldChecked]
  /\ UNCHANGED <<settings, workerVars, gate, cache, oldFailed, handling, command, history, events>>

StandIn(b, cause) == [b EXCEPT !.pc = "standIn", !.cause = cause]
Admit(model) == [NoBuild EXCEPT !.pc = "admitted", !.admitted = model]
Wait == [NoBuild EXCEPT !.pc = "wait"]

Missing(b) ==
  IF b.retired \/ b.dispose THEN [b EXCEPT !.pc = "await"] ELSE StandIn(b, "final")
Selected(b) ==
  IF b.checked THEN Admit("new") ELSE [b EXCEPT !.pc = "check"]

\* A job that finished since the inventory was read makes it read again.
admitTranscription ==
  /\ build.pc = "admit"
  /\ LET again == [build EXCEPT !.files = files, !.checked = files /\ checked,
                                !.old = old, !.oldChecked = oldChecked]
     IN build' = CASE build.files -> Selected(build)
                   [] ~build.files /\ row \in {"queued", "busy"} -> StandIn(build, "wait")
                   [] ~build.files /\ row = "ready" ->
                        (IF files THEN Selected(again) ELSE Missing(again))
                   [] OTHER -> Missing(build)
  /\ UNCHANGED <<settings, workerVars, gate, cache, oldFailed, handling, command, history, events>>

\* A failed or cancelled install is left alone; a finished one whose files are
\* gone is run again, by a second call that looks at the row anew.
awaitModelInstall ==
  /\ \/ /\ build.pc = "await"
        /\ row' = Ensured(FALSE)
        /\ build' = IF row = "ready" THEN [build EXCEPT !.pc = "awaitAgain"]
                                     ELSE StandIn(build, "wait")
        /\ UNCHANGED overtaken
     \/ /\ build.pc = "awaitAgain"
        /\ row' = Ensured(TRUE)
        /\ overtaken' = (overtaken \/ (row \in Finished /\ step \in InRun))
        /\ build' = StandIn(build, "wait")
  /\ UNCHANGED <<settings, step, seen, due, live, gate, cache, oldFailed, handling, command,
                 deleted, events>>

\* The selected model's own check, under the gate: no memory, passed, failed.
BuildChecks ==
  /\ build.pc = "check"
  /\ \/ build' = Wait /\ UNCHANGED <<checked, old>>
     \/ files /\ checked' = TRUE /\ old' = FALSE /\ build' = Admit("new")
     \/ build' = StandIn(build, "final") /\ UNCHANGED <<checked, old>>
  /\ UNCHANGED <<settings, workerVars, gate, files, oldChecked, oldFailed, handling, command, overtaken,
                 deleted, events>>

\* Nobody stands in: the selected model may have become ready meanwhile.
NoStandIn(b, memory) ==
  CASE files /\ checked -> Admit("new")
    [] ~(files /\ checked) /\ (memory \/ b.cause = "wait") -> Wait
    [] OTHER -> [b EXCEPT !.pc = IF b.dispose THEN "failed" ELSE "audio"]

admitStandIn ==
  /\ build.pc = "standIn"
  /\ \/ /\ build.old /\ ~oldFailed /\ build.oldChecked
        /\ build' = Admit("old") /\ UNCHANGED <<oldChecked, oldFailed>>
     \/ /\ build.old /\ ~oldFailed /\ ~build.oldChecked
        /\ \/ old /\ oldChecked' = TRUE /\ build' = Admit("old") /\ UNCHANGED oldFailed
           \/ oldFailed' = TRUE /\ build' = NoStandIn(build, FALSE) /\ UNCHANGED oldChecked
           \/ build' = NoStandIn(build, TRUE) /\ UNCHANGED <<oldChecked, oldFailed>>
     \/ /\ ~(build.old /\ ~oldFailed)
        /\ build' = NoStandIn(build, FALSE) /\ UNCHANGED <<oldChecked, oldFailed>>
  /\ UNCHANGED <<settings, workerVars, gate, files, checked, old, handling, command, history,
                 events>>

\* Mutant of Transcribe: the model admission named, or no transcript.
TranscribeAsAdmitted ==
  /\ build.pc = "admitted"
  /\ build' = [build EXCEPT !.pc = IF build.admitted = "old" => old THEN "transcribing" ELSE "audio"]
  /\ UNCHANGED <<settings, workerVars, gate, cache, oldFailed, handling, command, history, events>>

\* The child takes the inference lock; a stand-in that is gone by then leaves its
\* place to the model that replaced it.
Transcribe ==
  /\ build.pc = "admitted"
  /\ build' = [build EXCEPT !.pc =
                 IF (IF build.admitted = "old" THEN old \/ (files /\ checked) ELSE files)
                 THEN "transcribing" ELSE "audio"]
  /\ UNCHANGED <<settings, workerVars, gate, cache, oldFailed, handling, command, history, events>>

EndBuild ==
  /\ build.pc \in {"transcribing", "audio", "failed", "wait"}
  /\ build' = NoBuild /\ gate' = "free"
  /\ UNCHANGED <<settings, workerVars, cache, oldFailed, handling, command, history, events>>

-----------------------------------------------------------------------------
(* The administrator's command line, and restarts.                         *)

InferenceLockFree == build.pc # "transcribing"

CommandInstalls ==
  /\ command = "idle" /\ Event
  /\ files' = TRUE /\ command' = "probe"
  /\ UNCHANGED <<settings, workerVars, gate, checked, old, oldChecked, oldFailed, build, handling,
                 history>>

ProbeInstalledModel ==
  /\ command = "probe" /\ InferenceLockFree
  /\ \/ files /\ checked' = TRUE /\ command' = "remove"
     \/ UNCHANGED checked /\ command' = "idle"
  /\ UNCHANGED <<settings, workerVars, gate, files, old, oldChecked, oldFailed, build, handling,
                 history, events>>

RemoveReplacedModels ==
  /\ command = "remove" /\ InferenceLockFree
  /\ old' = FALSE /\ command' = "idle"
  /\ UNCHANGED <<settings, workerVars, gate, files, checked, oldChecked, oldFailed, build, handling,
                 history, events>>

DeleteByHand ==
  /\ files /\ build = NoBuild /\ command = "idle" /\ Event
  /\ files' = FALSE /\ checked' = FALSE /\ deleted' = TRUE
  /\ UNCHANGED <<settings, workerVars, gate, old, oldChecked, oldFailed, build, handling, command,
                 overtaken>>

\* Unfinished jobs are queued again. A restart with a new runtime invalidates both
\* receipts, and ends the commands of the old one.
startModelWorker ==
  /\ Event
  /\ row' = IF row \in Finished \cup {"none"} THEN row ELSE "queued"
  /\ step' = "check" /\ seen' = Idle /\ due' = FALSE /\ live' = FALSE
  /\ gate' = "free" /\ build' = NoBuild /\ handling' = NoRequest
  /\ oldFailed' = FALSE /\ overtaken' = FALSE
  /\ \E same \in BOOLEAN :
       /\ checked' = (same /\ checked) /\ oldChecked' = (same /\ oldChecked)
       /\ command' = IF same THEN command ELSE "idle"
  /\ UNCHANGED <<settings, files, old, deleted>>

ModelWorker ==
  \/ MigrationReads \/ ensureModelInstall \/ migrateRetiredSpeechModel
  \/ recoverActiveSpeechModel \/ CheckAgain \/ PickJob \/ runModelJob
  \/ InstallEnds \/ TakeGate \/ ModelProbe \/ RunReturns
Builder ==
  \/ ListCurrent \/ ListRetired \/ admitTranscription \/ awaitModelInstall \/ BuildChecks
  \/ admitStandIn \/ Transcribe \/ EndBuild

ModelsNext ==
  \/ ModelWorker \/ CheckFails \/ modelCommandProgress
  \/ RequestReads \/ cancelModelJob \/ retryModelJob \/ installModel \/ handlePutSettings
  \/ BuildStarts \/ Builder
  \/ CommandInstalls \/ ProbeInstalledModel \/ RemoveReplacedModels \/ DeleteByHand
  \/ startModelWorker

ModelsSpec == ModelsInit /\ [][ModelsNext]_modelsVars

-----------------------------------------------------------------------------
\* A build that was admitted is transcribed, by the stand-in or by what removed
\* it; a missing model never costs a build that must wait for it its transcript
\* or its source; the retired files go only once the replacement is there; and
\* the pin is the administrator's choice, or the replacement of the retired one
\* with an install on its way.
SpeechModelIsKept ==
  /\ build.pc = "audio" => build.admitted = "none"
  /\ build.pc \in {"audio", "failed"} /\ (build.retired \/ build.dispose) => build.files
  /\ ~old => files \/ deleted
  /\ pin = chosen \/ (pin = "new" /\ chosen = "old")
  /\ pin = "new" /\ enabled => files \/ row # "none" \/ deleted

\* A job that shows a phase of its install has a run that will say how it ended,
\* so cancelling and retrying never strand it; unless a build queued it again
\* under a run that was being cancelled (awaitModelInstall).
InstallIsRun == row = "busy" => step \in InRun \/ overtaken
=============================================================================
