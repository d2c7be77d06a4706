--------------------------- MODULE ImportMeetings ---------------------------
(***************************************************************************)
(* Meetings a user imports from files: the upload into a staging folder of *)
(* his own Nextcloud files, the import rows, the single worker that        *)
(* fetches, validates, delivers, shares and indexes one staged file at a   *)
(* time, the owner's cancel, retry and remove, and the sweep that empties  *)
(* the staging folder (import_service.go, import_staging.go,               *)
(* import_jobs_store.go, import_meetings.go).  One user: the jobs of two   *)
(* users share only the worker.  Jobs are numbered in order of creation.   *)
(***************************************************************************)
EXTENDS Naturals, FiniteSets

CONSTANTS
    MaxJob,        \* bound: the files the user imports are 1..MaxJob
    MaxRetries,    \* bound: accepted retries
    MaxRestarts,   \* bound: restarts of the operator
    MaxSweeps      \* bound: sweeps of the folder and removals by the owner

VARIABLES
    row,       \* job -> its import_jobs row: state, staging_state, cleared_at
    file,      \* job -> its bytes in the staging folder: "none", "part", "whole"
    archive,   \* job -> what of the meeting the archive holds
    worker,    \* runningID, the phase of performImport, and cancelRun's effect
    folder,    \* the holder of the user's lock, and the paths it will delete
    asked,     \* retries between their running() check and their UPDATE
    cancels,   \* cancels under way: <<job, "asked">>, then <<job, "written">>
    discarded, \* ghost: jobs whose copy the owner or the sweep threw away
    cutShort,  \* ghost: jobs whose run a late request reached, or whose last write failed
    used       \* how much of each bound is spent

importVars == <<row, file, archive, worker, folder, asked, cancels, discarded, cutShort, used>>

Job == 1..MaxJob
NoJob == 0

Working == {"fetching", "validating", "delivering", "sharing", "indexing"}
importUsesStaging(r) == r.state \in Working \cup {"uploading", "queued"}
importStateTerminal(s) == s \in {"upload_failed", "done", "failed", "canceled"}
Idle == [job |-> NoJob, pc |-> "idle", cancelled |-> FALSE]
Unlocked == [by |-> "nobody", doomed |-> {}, gone |-> {}]
Undelivered == {}
Complete == {"file", "age", "share"}

ImportInit ==
    /\ row = [j \in Job |-> [state |-> "none", staging |-> "", cleared |-> FALSE]]
    /\ file = [j \in Job |-> "none"]
    /\ archive = [j \in Job |-> Undelivered]
    /\ worker = Idle
    /\ folder = Unlocked
    /\ asked = {} /\ cancels = {}
    /\ discarded = {} /\ cutShort = {}
    /\ used = [retries |-> 0, restarts |-> 0, sweeps |-> 0]

-----------------------------------------------------------------------------
(* The store's guarded updates. *)

\* A canceled row is never moved; the write may fail, which no caller heeds but
\* the last one.
SetImportJobState(j, s) ==
    row' \in IF row[j].state = "canceled" THEN {row} ELSE {row, [row EXCEPT ![j].state = s]}

\* The UPDATE that queues a staged, failed or canceled import again.
RetryImportJob(j) ==
    row' = IF /\ row[j].state \in {"failed", "canceled", "staged"}
              /\ row[j].staging # "removed"
              /\ ~row[j].cleared
           THEN [row EXCEPT ![j].state = "queued"] ELSE row

-----------------------------------------------------------------------------
(* The upload.  create, stagingAction, reconcileUploads and                *)
(* clearUserStaging run under the user's lock; a cancel, a retry and the   *)
(* worker do not take it.                                                  *)

LockFree == folder.by = "nobody"

\* create with prepare: the row is registered before a byte is uploaded; the
\* next job's path is unused (HasImportJobForPath).
register(j) ==
    /\ LockFree
    /\ row[j].state = "none" /\ \A k \in 1..(j - 1) : row[k].state # "none"
    /\ row' = [row EXCEPT ![j].state = "uploading", ![j].staging = "pending"]
    /\ UNCHANGED <<file, archive, worker, folder, asked, cancels, discarded, cutShort, used>>

\* The browser's upload, which outlives what the operator thinks of it.
BytesArrive(j) ==
    /\ row[j].state \in {"uploading", "upload_failed"}
    /\ file[j] # "whole"
    /\ file' = [file EXCEPT ![j] = IF @ = "none" THEN "part" ELSE "whole"]
    /\ UNCHANGED <<row, archive, worker, folder, asked, cancels, discarded, cutShort, used>>

\* "staged", "upload-failed", or a lease that ran out: the size decides.  When
\* the folder cannot be read, the two requests leave the row as it is and
\* reconcileUploads settles it as failed, whole or not.
inspectUpload(j) ==
    /\ LockFree
    /\ row[j].state = "uploading"
    /\ \/ file[j] = "whole" /\ row' = [row EXCEPT ![j].state = "staged", ![j].staging = "present"]
       \/ row' = [row EXCEPT ![j].state = "upload_failed"]
    /\ UNCHANGED <<file, archive, worker, folder, asked, cancels, discarded, cutShort, used>>

\* create without prepare: the registered upload at this path is queued.
submit(j) ==
    /\ LockFree
    /\ row[j].state = "staged"
    /\ RetryImportJob(j)
    /\ UNCHANGED <<file, archive, worker, folder, asked, cancels, discarded, cutShort, used>>

-----------------------------------------------------------------------------
(* The owner's cancel and retry. *)

\* The handler looks at the row, cancels it, and then cancels the context of the
\* run it finds: nothing is held from one to the next.
cancel(j) ==
    /\ row[j].state \notin {"none", "uploading"} /\ ~importStateTerminal(row[j].state)
    /\ cancels' = cancels \cup {<<j, "asked">>}
    /\ UNCHANGED <<row, file, archive, worker, folder, asked, discarded, cutShort, used>>

\* A store that refuses ends the request.
CancelImportJob(j) ==
    /\ <<j, "asked">> \in cancels
    /\ \/ /\ row' = IF row[j].state \in {"done", "failed", "canceled"} THEN row
                    ELSE [row EXCEPT ![j].state = "canceled"]
          /\ cancels' = (cancels \ {<<j, "asked">>}) \cup {<<j, "written">>}
       \/ row' = row /\ cancels' = cancels \ {<<j, "asked">>}
    /\ UNCHANGED <<file, archive, worker, folder, asked, discarded, cutShort, used>>

\* The run may be a later one, of a row that a retry queued in between.
cancelRun(j) ==
    /\ <<j, "written">> \in cancels
    /\ cancels' = cancels \ {<<j, "written">>}
    /\ worker' = IF worker.job = j THEN [worker EXCEPT !.cancelled = TRUE] ELSE worker
    /\ cutShort' = IF worker.job = j /\ row[j].state # "canceled" THEN cutShort \cup {j} ELSE cutShort
    /\ UNCHANGED <<row, file, archive, folder, asked, discarded, used>>

\* A retry is refused while the cancelled run is still finishing.
retry(j) ==
    /\ used.retries < MaxRetries
    /\ row[j].state \in {"failed", "canceled", "staged"}
    /\ ~row[j].cleared /\ row[j].staging = "present"
    /\ worker.job # j
    /\ asked' = asked \cup {j}
    /\ used' = [used EXCEPT !.retries = @ + 1]
    /\ UNCHANGED <<row, file, archive, worker, folder, cancels, discarded, cutShort>>

RetryApplies(j) ==
    /\ j \in asked
    /\ asked' = asked \ {j}
    /\ RetryImportJob(j)
    /\ cutShort' = IF row'[j] # row[j] /\ worker.job = j THEN cutShort \cup {j} ELSE cutShort
    /\ UNCHANGED <<file, archive, worker, folder, cancels, discarded, used>>

-----------------------------------------------------------------------------
(* Emptying the staging folder: the inactive paths are read, then deleted  *)
(* one by one, and each row is marked after its file is gone.              *)

\* Its row still claims a copy, or the folder's listing shows one.
Listed(j) == row[j].staging \notin {"", "removed"} \/ file[j] # "none"
Inactive(j) == ~(~row[j].cleared /\ importUsesStaging(row[j])) /\ worker.job # j

\* The nightly sweep, or the "Clear staged files" button.
clearUserStaging ==
    /\ LockFree
    /\ used.sweeps < MaxSweeps
    /\ folder' = [by |-> "sweep", gone |-> {},
                  doomed |-> {j \in Job : Inactive(j) /\ Listed(j)}]
    /\ folder'.doomed # {}
    /\ used' = [used EXCEPT !.sweeps = @ + 1]
    /\ UNCHANGED <<row, file, archive, worker, asked, cancels, discarded, cutShort>>

\* "remove": one inactive row's copy, after which the row is hidden.
remove(j) ==
    /\ LockFree
    /\ used.sweeps < MaxSweeps
    /\ row[j].state # "none" /\ ~row[j].cleared
    /\ ~importUsesStaging(row[j]) /\ worker.job # j
    /\ folder' = [by |-> "owner", doomed |-> {j}, gone |-> {}]
    /\ used' = [used EXCEPT !.sweeps = @ + 1]
    /\ UNCHANGED <<row, file, archive, worker, asked, cancels, discarded, cutShort>>

\* The lock is given back after the last path.
PathSettled(j) ==
    folder' = IF folder.doomed = {j} THEN Unlocked
              ELSE [folder EXCEPT !.doomed = @ \ {j}, !.gone = @ \ {j}]

DeleteCopy(j) ==
    /\ j \in folder.doomed \ folder.gone
    /\ file' = [file EXCEPT ![j] = "none"]
    /\ discarded' = discarded \cup {j}
    /\ folder' = [folder EXCEPT !.gone = @ \cup {j}]
    /\ UNCHANGED <<row, archive, worker, asked, cancels, cutShort, used>>

\* MarkImportStagingRemoved, and ClearImportJob when the owner asked.
MarkRemoved(j) ==
    /\ j \in folder.gone
    /\ row' = [row EXCEPT ![j].staging = "removed",
                          ![j].cleared = @ \/ (folder.by = "owner" /\ row[j].state # "done")]
    /\ PathSettled(j)
    /\ UNCHANGED <<file, archive, worker, asked, cancels, discarded, cutShort, used>>

\* WebDAV refuses the deletion: the row keeps what it says.
DeleteCopyFails(j) ==
    /\ j \in folder.doomed \ folder.gone
    /\ PathSettled(j)
    /\ UNCHANGED <<row, file, archive, worker, asked, cancels, discarded, cutShort, used>>

-----------------------------------------------------------------------------
(* The worker. *)

\* nextQueuedImport, re-read under the service's mutex, which runningID and
\* cancelRun are set under.
runImportJob(j) ==
    /\ worker = Idle
    /\ row[j].state = "queued" /\ \A k \in 1..(j - 1) : row[k].state # "queued"
    /\ worker' = [job |-> j, pc |-> "fetching", cancelled |-> FALSE]
    /\ SetImportJobState(j, "fetching")
    /\ cutShort' = cutShort \ {j}
    /\ UNCHANGED <<file, archive, folder, asked, cancels, discarded, used>>

At(pc) == worker.pc = pc

\* The download: a copy that is gone fails the import.
performImport ==
    /\ At("fetching")
    /\ IF file[worker.job] = "whole"
       THEN /\ worker' = [worker EXCEPT !.pc = "validating"]
            /\ SetImportJobState(worker.job, "validating")
       ELSE worker' = [worker EXCEPT !.pc = "error"] /\ UNCHANGED row
    /\ UNCHANGED <<file, archive, folder, asked, cancels, discarded, cutShort, used>>

\* One phase of the importer: it changes the archive, then reports the next.
Phase(pc, gains, next) ==
    /\ At(pc)
    /\ archive' = [archive EXCEPT ![worker.job] = @ \cup gains]
    /\ worker' = [worker EXCEPT !.pc = next]
    /\ IF next \in Working THEN SetImportJobState(worker.job, next) ELSE UNCHANGED row
    /\ UNCHANGED <<file, folder, asked, cancels, discarded, cutShort, used>>

validate == Phase("validating", {}, "delivering")
\* The upload is skipped when the archive holds the same bytes already, and the
\* lifecycle is adopted only behind a file ID.
deliver == Phase("delivering", {"file"}, "adopting")
adopt == Phase("adopting", {"age"}, "sharing")
share == Phase("sharing", {"share"}, "indexing")
index == Phase("indexing", {}, "ok")

\* Any call of a phase fails, a cancelled context above all.
ImportFails ==
    /\ worker.pc \in Working \cup {"adopting"}
    /\ worker' = [worker EXCEPT !.pc = "error"]
    /\ UNCHANGED <<row, file, archive, folder, asked, cancels, discarded, cutShort, used>>

\* A cancelled run writes nothing more.
LeaveCanceled ==
    /\ worker.pc \in {"error", "ok"} /\ worker.cancelled
    /\ worker' = Idle
    /\ UNCHANGED <<row, file, archive, folder, asked, cancels, discarded, cutShort, used>>

\* The row still says what it said before the worker's last write.
LastWrite(s) ==
    /\ SetImportJobState(worker.job, s)
    /\ cutShort' = IF row' = row THEN cutShort \cup {worker.job} ELSE cutShort

\* Mutant of FailImport: the copy is dropped whether or not the import succeeded.
FailAndDrop ==
    /\ At("error") /\ ~worker.cancelled
    /\ LastWrite("failed")
    /\ file' = [file EXCEPT ![worker.job] = "none"]
    /\ worker' = Idle
    /\ UNCHANGED <<archive, folder, asked, cancels, discarded, used>>

FailImport ==
    /\ At("error") /\ ~worker.cancelled
    /\ LastWrite("failed")
    /\ worker' = Idle
    /\ UNCHANGED <<file, archive, folder, asked, cancels, discarded, used>>

\* The last look at the context; a cancel after it comes too late.
Proceed ==
    /\ At("ok") /\ ~worker.cancelled
    /\ worker' = [worker EXCEPT !.pc = "outcome"]
    /\ UNCHANGED <<row, file, archive, folder, asked, cancels, discarded, cutShort, used>>

\* A store that refuses ends the run where it stands: the staged copy stays.
SetImportJobOutcome ==
    /\ At("outcome")
    /\ LastWrite("done")
    /\ \/ /\ row' # row \/ row[worker.job].state = "canceled"
          /\ worker' = [worker EXCEPT !.pc = "spent"]
       \/ row' = row /\ worker' = Idle
    /\ UNCHANGED <<file, archive, folder, asked, cancels, discarded, used>>

\* The staged copy is spent; a failure to delete it changes nothing else.
DropStagedCopy ==
    /\ At("spent")
    /\ \/ /\ file' = [file EXCEPT ![worker.job] = "none"]
          /\ worker' = [worker EXCEPT !.pc = "dropped"]
       \/ worker' = Idle /\ UNCHANGED file
    /\ UNCHANGED <<row, archive, folder, asked, cancels, discarded, cutShort, used>>

MarkSpent ==
    /\ At("dropped")
    /\ row' \in {row, [row EXCEPT ![worker.job].staging = "removed"]}
    /\ worker' = Idle
    /\ UNCHANGED <<file, archive, folder, asked, cancels, discarded, cutShort, used>>

\* What a stop or a crash takes with it.
AllStops ==
    /\ worker' = Idle /\ folder' = Unlocked
    /\ asked' = {} /\ cancels' = {}
    /\ UNCHANGED <<file, archive, discarded>>


\* The operator stops or dies and comes back: the worker's first act queues
\* every interrupted import again.  When the store refuses, the worker goes on
\* without them until the next start.
RequeueUnfinishedImports ==
    /\ used.restarts < MaxRestarts
    /\ used' = [used EXCEPT !.restarts = @ + 1]
    /\ \/ /\ row' = [j \in Job |-> IF row[j].state \in Working
                                   THEN [row[j] EXCEPT !.state = "queued"] ELSE row[j]]
          /\ cutShort' = {}
       \/ row' = row /\ cutShort' = {j \in Job : row[j].state \in Working}
    /\ AllStops

Work ==
    \/ \E j \in Job : runImportJob(j)
    \/ performImport \/ validate \/ deliver \/ adopt \/ share \/ index
    \/ ImportFails \/ LeaveCanceled \/ FailImport
    \/ Proceed \/ SetImportJobOutcome \/ DropStagedCopy \/ MarkSpent

ImportNext ==
    \/ Work
    \/ \E j \in Job :
        \/ register(j) \/ BytesArrive(j) \/ inspectUpload(j) \/ submit(j)
        \/ cancel(j) \/ CancelImportJob(j) \/ cancelRun(j)
        \/ retry(j) \/ RetryApplies(j)
        \/ remove(j) \/ DeleteCopy(j) \/ MarkRemoved(j) \/ DeleteCopyFails(j)
    \/ clearUserStaging
    \/ RequeueUnfinishedImports

\* The worker is a goroutine that looks for work every second.
ImportSpec == ImportInit /\ [][ImportNext]_importVars /\ WF_importVars(Work)

-----------------------------------------------------------------------------

\* A confirmed upload is never lost: unless its owner or a sweep of the folder
\* threw the copy away, the staged file is there or the meeting is in the
\* archive, with its retention age, shared with its importer - whatever is
\* cancelled, retried, failed or interrupted by a restart on the way
\* (import_service.go:487).
ImportNeverLost ==
    \A j \in Job :
        row[j].staging \in {"present", "removed"} /\ j \notin discarded =>
            file[j] = "whole" \/ archive[j] = Complete

=============================================================================
