--------------------------- MODULE ServicesProofs ---------------------------
(***************************************************************************)
(* Proofs about the services beside the pipeline: imports                  *)
(* (ImportMeetings), insights (InsightRuns), and what the operator does to *)
(* Nextcloud of its own accord, the retirement of published meetings       *)
(* (RemoteRetention) and the callbacks to Talk about a room (TalkBackend). *)
(***************************************************************************)
EXTENDS ImportMeetings, InsightRuns, RemoteRetention, TalkBackend, TLAPS

-----------------------------------------------------------------------------
(***************************************************************************)
(* ImportMeetings, for any number of files, retries, restarts, sweeps and  *)
(* removals.                                                               *)
(***************************************************************************)

(* The inductive invariant.                                                *)

State == Working \cup {"none", "uploading", "upload_failed", "staged", "queued", "canceled", "failed", "done"}
Staging == {"", "pending", "present", "removed"}
ImportRow == [state : State, staging : Staging, cleared : BOOLEAN]
Busy == Working \cup {"adopting", "error", "ok", "outcome", "spent", "dropped"}

\* The rows, the staged bytes, the archive and the worker are what they are.
ImportTypes ==
  /\ row \in [Job -> ImportRow]
  /\ file \in [Job -> {"none", "part", "whole"}]
  /\ archive \in [Job -> SUBSET Complete]
  /\ worker = Idle \/ worker \in [job : Job, pc : Busy, cancelled : BOOLEAN]
  /\ folder \in [by : {"nobody", "sweep", "owner"}, doomed : SUBSET Job, gone : SUBSET Job]

\* A path the holder of the lock emptied is one thrown away.
GoneWereDiscarded == folder.gone \subseteq discarded

\* What the archive holds by the time the worker is past a phase.
Delivered(place) ==
  IF place = "adopting" THEN {"file"}
  ELSE IF place = "sharing" THEN {"file", "age"}
  ELSE IF place \in {"indexing", "ok", "outcome", "spent", "dropped"} THEN Complete
  ELSE {}

\* The worker's phase tells what it delivered.
PhaseIsDelivered == worker # Idle => Delivered(worker.pc) \subseteq archive[worker.job]

ImportInv == ImportTypes /\ GoneWereDiscarded /\ PhaseIsDelivered /\ ImportNeverLost

LEMMA ImportInvInit == ImportInit => ImportInv
<1>. SUFFICES ASSUME ImportInit PROVE ImportInv
  OBVIOUS
<1>1. ImportTypes
  BY DEF ImportInit, ImportTypes, ImportRow, State, Staging, Undelivered, Idle, Unlocked
<1>2. GoneWereDiscarded
  BY DEF ImportInit, GoneWereDiscarded, Unlocked
<1>3. PhaseIsDelivered
  BY DEF ImportInit, PhaseIsDelivered
<1>4. ImportNeverLost
  BY DEF ImportInit, ImportNeverLost
<1>. QED
  BY <1>1, <1>2, <1>3, <1>4 DEF ImportInv

-----------------------------------------------------------------------------
(* The store's updates leave what a row says of its copy alone.            *)

\* What updating a row's state does.
LEMMA StateUpdate ==
  ASSUME NEW rows \in [Job -> ImportRow], NEW j \in Job, NEW s \in State
  PROVE  /\ [rows EXCEPT ![j].state = s] \in [Job -> ImportRow]
         /\ \A k \in Job : [rows EXCEPT ![j].state = s][k].staging = rows[k].staging
BY DEF ImportRow

\* What updating a whole row does.
LEMMA RowUpdate ==
  ASSUME NEW rows \in [Job -> ImportRow], NEW j \in Job, NEW r \in ImportRow
  PROVE  /\ [rows EXCEPT ![j] = r] \in [Job -> ImportRow]
         /\ \A k \in Job : [rows EXCEPT ![j] = r][k].staging = IF k = j THEN r.staging ELSE rows[k].staging
OBVIOUS

\* A state's update moves only the state.
LEMMA StateMoves ==
  ASSUME ImportTypes, NEW j \in Job, NEW s \in State, SetImportJobState(j, s)
  PROVE  row' \in [Job -> ImportRow] /\ \A k \in Job : row'[k].staging = row[k].staging
<1>1. row \in [Job -> ImportRow]
  BY DEF ImportTypes
<1>2. CASE row' = row
  BY <1>1, <1>2
<1>3. CASE row' = [row EXCEPT ![j].state = s]
  <2>1. /\ [row EXCEPT ![j].state = s] \in [Job -> ImportRow]
        /\ \A k \in Job : [row EXCEPT ![j].state = s][k].staging = row[k].staging
    BY <1>1, StateUpdate
  <2>. QED BY <1>3, <2>1
<1>. QED
  BY <1>2, <1>3 DEF SetImportJobState

\* Nor does a retry move more.
LEMMA RetryMoves ==
  ASSUME ImportTypes, NEW j \in Job, RetryImportJob(j)
  PROVE  row' \in [Job -> ImportRow] /\ \A k \in Job : row'[k].staging = row[k].staging
BY DEF ImportTypes, RetryImportJob, ImportRow, State

\* A step that only moves states and copies that are not whole loses nothing.
LEMMA NothingLost ==
  ASSUME ImportInv,
         \A k \in Job : row'[k].staging = row[k].staging,
         \A k \in Job : file[k] = "whole" => file'[k] = "whole",
         \A k \in Job : archive[k] = Complete => archive'[k] = Complete,
         discarded \subseteq discarded'
  PROVE  ImportNeverLost'
BY DEF ImportInv, ImportNeverLost

\* Steps of requests: only rows' states move, and who asked.
LEMMA RequestStep ==
  ASSUME ImportInv, row' \in [Job -> ImportRow], \A k \in Job : row'[k].staging = row[k].staging,
         UNCHANGED <<file, archive, worker, folder, discarded>>
  PROVE  ImportInv'
<1>1. ImportTypes'
  BY DEF ImportInv, ImportTypes
<1>2. GoneWereDiscarded' /\ PhaseIsDelivered'
  BY DEF ImportInv, GoneWereDiscarded, PhaseIsDelivered
<1>3. ImportNeverLost'
  BY NothingLost
<1>. QED
  BY <1>1, <1>2, <1>3 DEF ImportInv

-----------------------------------------------------------------------------
(* The upload, the owner and the staging folder.                            *)

\* A row is registered before its bytes, and confirmed when they are whole.
LEMMA UploadStep ==
  ASSUME ImportInv, NEW j \in Job, register(j) \/ BytesArrive(j) \/ inspectUpload(j) \/ submit(j)
  PROVE  ImportInv'
<1>. USE DEF ImportInv
<1>1. CASE register(j)
  <2>1. /\ row' = [row EXCEPT ![j].state = "uploading", ![j].staging = "pending"]
        /\ UNCHANGED <<file, archive, worker, folder, discarded>>
    BY <1>1 DEF register
  <2>0. /\ row' \in [Job -> ImportRow]
        /\ \A k \in Job : row'[k].staging = IF k = j THEN "pending" ELSE row[k].staging
    <3>1. row \in [Job -> ImportRow] /\ "uploading" \in State /\ "pending" \in Staging /\ TRUE \in BOOLEAN
      BY DEF ImportTypes, State, Staging
    <3>2. PICK r \in ImportRow : r.staging = "pending" /\ row' = [row EXCEPT ![j] = r]
      <4>. DEFINE r == [row[j] EXCEPT !.state = "uploading", !.staging = "pending"]
      <4>1. r \in ImportRow /\ r.staging = "pending"
        BY <3>1 DEF ImportRow
      <4>2. row' = [row EXCEPT ![j] = r]
        BY <2>1
      <4>. QED BY <4>1, <4>2
    <3>. QED BY <3>1, <3>2, RowUpdate
  <2>2. ImportTypes' /\ GoneWereDiscarded' /\ PhaseIsDelivered'
    BY <2>0, <2>1 DEF ImportTypes, GoneWereDiscarded, PhaseIsDelivered
  <2>3. ImportNeverLost'
    BY <2>0, <2>1 DEF ImportNeverLost
  <2>. QED BY <2>2, <2>3
<1>2. CASE BytesArrive(j)
  <2>1. /\ file[j] # "whole" /\ file' = [file EXCEPT ![j] = IF @ = "none" THEN "part" ELSE "whole"]
        /\ UNCHANGED <<row, archive, worker, folder, discarded>>
    BY <1>2 DEF BytesArrive
  <2>2. ImportTypes' /\ GoneWereDiscarded' /\ PhaseIsDelivered'
    BY <2>1 DEF ImportTypes, GoneWereDiscarded, PhaseIsDelivered
  <2>3. ImportNeverLost'
    BY <2>1, NothingLost DEF ImportTypes
  <2>. QED BY <2>2, <2>3
<1>3. CASE inspectUpload(j)
  <2>1. /\ \/ file[j] = "whole" /\ row' = [row EXCEPT ![j].state = "staged", ![j].staging = "present"]
           \/ row' = [row EXCEPT ![j].state = "upload_failed"]
        /\ UNCHANGED <<file, archive, worker, folder, discarded>>
    BY <1>3 DEF inspectUpload
  <2>0. /\ row' \in [Job -> ImportRow]
        /\ \A k \in Job : row'[k].staging # row[k].staging => file[k] = "whole"
    <3>1. row \in [Job -> ImportRow] /\ "staged" \in State /\ "upload_failed" \in State
      BY DEF ImportTypes, State
    <3>2. CASE file[j] = "whole" /\ row' = [row EXCEPT ![j].state = "staged", ![j].staging = "present"]
      <4>1. "present" \in Staging /\ TRUE \in BOOLEAN
        BY DEF Staging
      <4>2. PICK r \in ImportRow : row' = [row EXCEPT ![j] = r]
        <5>. DEFINE r == [row[j] EXCEPT !.state = "staged", !.staging = "present"]
        <5>1. r \in ImportRow
          BY <3>1, <4>1 DEF ImportRow
        <5>2. row' = [row EXCEPT ![j] = r]
          BY <3>2
        <5>. QED BY <5>1, <5>2
      <4>3. /\ [row EXCEPT ![j] = r] \in [Job -> ImportRow]
            /\ \A k \in Job : k # j => [row EXCEPT ![j] = r][k] = row[k]
        BY <3>1
      <4>4. file[j] = "whole"
        BY <3>2
      <4>. HIDE <3>2
      <4>. QED BY <4>2, <4>3, <4>4
    <3>3. CASE row' = [row EXCEPT ![j].state = "upload_failed"]
      BY <3>1, <3>3, StateUpdate
    <3>. QED BY <2>1, <3>2, <3>3
  <2>2. ImportTypes' /\ GoneWereDiscarded' /\ PhaseIsDelivered'
    BY <2>0, <2>1 DEF ImportTypes, GoneWereDiscarded, PhaseIsDelivered
  <2>3. ImportNeverLost'
    BY <2>0, <2>1 DEF ImportNeverLost
  <2>. QED BY <2>2, <2>3
<1>4. CASE submit(j)
  BY <1>4, RetryMoves, RequestStep DEF submit
<1>. QED
  BY <1>1, <1>2, <1>3, <1>4

\* A cancel moves the row and then marks the run; a retry queues the row again.
LEMMA OwnerStep ==
  ASSUME ImportInv, NEW j \in Job,
         cancel(j) \/ CancelImportJob(j) \/ cancelRun(j) \/ retry(j) \/ RetryApplies(j)
  PROVE  ImportInv'
<1>. USE DEF ImportInv
<1>1. CASE cancel(j)
  BY <1>1, RequestStep DEF cancel, ImportTypes
<1>2. CASE CancelImportJob(j)
  <2>1. row' \in [Job -> ImportRow] /\ \A k \in Job : row'[k].staging = row[k].staging
    <3>1. row \in [Job -> ImportRow] /\ "canceled" \in State
      BY DEF ImportTypes, State
    <3>2. CASE row' = row
      BY <3>1, <3>2
    <3>3. CASE row' = [row EXCEPT ![j].state = "canceled"]
      BY <3>1, <3>3, StateUpdate
    <3>. QED BY <1>2, <3>2, <3>3 DEF CancelImportJob
  <2>. QED BY <1>2, <2>1, RequestStep DEF CancelImportJob
<1>3. CASE cancelRun(j)
  <2>1. /\ worker' = IF worker.job = j THEN [worker EXCEPT !.cancelled = TRUE] ELSE worker
        /\ UNCHANGED <<row, file, archive, folder, discarded>>
    BY <1>3 DEF cancelRun
  <2>2. worker # Idle => /\ worker' \in [job : Job, pc : Busy, cancelled : BOOLEAN]
                         /\ worker'.job = worker.job /\ worker'.pc = worker.pc
    BY <2>1 DEF ImportTypes
  <2>3. worker = Idle => worker' = Idle
    BY <2>1 DEF Idle, Job, NoJob
  <2>4. ImportTypes'
    BY <2>1, <2>2, <2>3 DEF ImportTypes
  <2>5. GoneWereDiscarded' /\ PhaseIsDelivered'
    BY <2>1, <2>2, <2>3 DEF GoneWereDiscarded, PhaseIsDelivered
  <2>6. ImportNeverLost'
    BY <2>1, NothingLost
  <2>. QED BY <2>4, <2>5, <2>6
<1>4. CASE retry(j)
  BY <1>4, RequestStep DEF retry, ImportTypes
<1>5. CASE RetryApplies(j)
  BY <1>5, RetryMoves, RequestStep DEF RetryApplies
<1>. QED
  BY <1>1, <1>2, <1>3, <1>4, <1>5

\* The folder's holder throws a copy away before it says so in the row.
LEMMA FolderStep ==
  ASSUME ImportInv, NEW j \in Job, remove(j) \/ DeleteCopy(j) \/ MarkRemoved(j) \/ DeleteCopyFails(j)
  PROVE  ImportInv'
<1>. USE DEF ImportInv
<1>1. CASE remove(j)
  <2>1. /\ folder' = [by |-> "owner", doomed |-> {j}, gone |-> {}]
        /\ UNCHANGED <<row, file, archive, worker, discarded>>
    BY <1>1 DEF remove
  <2>2. ImportTypes' /\ GoneWereDiscarded' /\ PhaseIsDelivered'
    BY <2>1 DEF ImportTypes, GoneWereDiscarded, PhaseIsDelivered
  <2>. QED BY <2>1, <2>2, NothingLost
<1>2. CASE DeleteCopy(j)
  <2>1. /\ file' = [file EXCEPT ![j] = "none"] /\ discarded' = discarded \cup {j}
        /\ folder' = [folder EXCEPT !.gone = @ \cup {j}]
        /\ UNCHANGED <<row, archive, worker>>
    BY <1>2 DEF DeleteCopy
  <2>2. ImportTypes' /\ GoneWereDiscarded' /\ PhaseIsDelivered'
    BY <2>1 DEF ImportTypes, GoneWereDiscarded, PhaseIsDelivered
  <2>3. ImportNeverLost'
    BY <2>1 DEF ImportTypes, ImportNeverLost
  <2>. QED BY <2>2, <2>3
<1>3. CASE MarkRemoved(j) \/ DeleteCopyFails(j)
  <2>1. PathSettled(j) /\ UNCHANGED <<file, archive, worker, discarded>>
    BY <1>3 DEF MarkRemoved, DeleteCopyFails
  <2>2. /\ folder' \in [by : {"nobody", "sweep", "owner"}, doomed : SUBSET Job, gone : SUBSET Job]
        /\ folder'.gone \subseteq folder.gone
    BY <2>1 DEF PathSettled, Unlocked, ImportTypes
  <2>3. row' \in [Job -> ImportRow] /\ \A k \in Job : row'[k].staging # row[k].staging => k \in discarded
    <3>1. row \in [Job -> ImportRow]
      BY DEF ImportTypes
    <3>2. CASE MarkRemoved(j)
      <4>1. j \in discarded
        BY <3>2 DEF MarkRemoved, GoneWereDiscarded
      <4>2. PICK r \in ImportRow : row' = [row EXCEPT ![j] = r]
        <5>. DEFINE c == row[j].cleared \/ (folder.by = "owner" /\ row[j].state # "done")
                    r == [row[j] EXCEPT !.staging = "removed", !.cleared = c]
        <5>1. c \in BOOLEAN
          OBVIOUS
        <5>. HIDE DEF c
        <5>2. r \in ImportRow
          BY <3>1, <5>1 DEF ImportRow, Staging
        <5>3. row' = [row EXCEPT ![j] = r]
          BY <3>2 DEF MarkRemoved, c
        <5>. QED BY <5>2, <5>3
      <4>. QED BY <3>1, <4>1, <4>2, RowUpdate
    <3>3. CASE DeleteCopyFails(j)
      BY <3>1, <3>3 DEF DeleteCopyFails
    <3>. QED BY <1>3, <3>2, <3>3
  <2>4. ImportTypes' /\ GoneWereDiscarded' /\ PhaseIsDelivered'
    BY <2>1, <2>2, <2>3 DEF ImportTypes, GoneWereDiscarded, PhaseIsDelivered
  <2>5. ImportNeverLost'
    BY <2>1, <2>3 DEF ImportNeverLost
  <2>. QED BY <2>4, <2>5
<1>. QED
  BY <1>1, <1>2, <1>3

\* The sweep takes the lock and lists what it will delete.
LEMMA ImportSweepStep == ASSUME ImportInv, clearUserStaging PROVE ImportInv'
<1>. USE DEF ImportInv
<1>1. /\ folder' = [by |-> "sweep", gone |-> {}, doomed |-> {j \in Job : Inactive(j) /\ Listed(j)}]
      /\ UNCHANGED <<row, file, archive, worker, discarded>>
  BY DEF clearUserStaging
<1>2. ImportTypes' /\ GoneWereDiscarded' /\ PhaseIsDelivered'
  BY <1>1 DEF ImportTypes, GoneWereDiscarded, PhaseIsDelivered
<1>. QED
  BY <1>1, <1>2, NothingLost

-----------------------------------------------------------------------------
(* The worker and restarts.                                                 *)

\* A step of the worker that leaves the copies and the archive alone.
LEMMA WorkerMoves ==
  ASSUME ImportInv, row' \in [Job -> ImportRow], \A k \in Job : row'[k].staging = row[k].staging,
         UNCHANGED <<file, archive, folder, discarded>>,
         \/ worker' = Idle
         \/ /\ worker' \in [job : Job, pc : Busy, cancelled : BOOLEAN]
            /\ Delivered(worker'.pc) \subseteq archive[worker'.job]
  PROVE  ImportInv'
<1>. USE DEF ImportInv
<1>1. ImportTypes'
  BY DEF ImportTypes
<1>2. GoneWereDiscarded' /\ PhaseIsDelivered'
  BY DEF GoneWereDiscarded, PhaseIsDelivered
<1>. QED
  BY <1>1, <1>2, NothingLost

\* A phase of the importer leaves the archive as its end is read.
LEMMA PhaseStep ==
  ASSUME ImportInv, NEW place \in Working \cup {"adopting"}, NEW gains \in SUBSET Complete, NEW next \in Busy,
         Phase(place, gains, next), Delivered(next) \subseteq Delivered(place) \cup gains
  PROVE  ImportInv'
<1>. USE DEF ImportInv
<1>1. /\ worker \in [job : Job, pc : Busy, cancelled : BOOLEAN] /\ worker.pc = place /\ worker # Idle
      /\ archive' = [archive EXCEPT ![worker.job] = @ \cup gains]
      /\ worker' = [worker EXCEPT !.pc = next]
      /\ UNCHANGED <<file, folder, discarded>>
  BY DEF Phase, At, ImportTypes, Idle, Working
<1>2. row' \in [Job -> ImportRow] /\ \A k \in Job : row'[k].staging = row[k].staging
  <2>1. CASE next \in Working
    <3>1. SetImportJobState(worker.job, next) /\ next \in State
      BY <2>1 DEF Phase, Working, State
    <3>. QED BY <1>1, <3>1, StateMoves
  <2>2. CASE next \notin Working
    BY <2>2 DEF Phase, ImportTypes
  <2>. QED BY <2>1, <2>2
<1>3. \A k \in Job : archive[k] \subseteq archive'[k] /\ archive'[k] \subseteq Complete
  BY <1>1 DEF ImportTypes
<1>4. ImportTypes'
  BY <1>1, <1>2 DEF ImportTypes
<1>5. GoneWereDiscarded'
  BY <1>1 DEF GoneWereDiscarded
<1>6. PhaseIsDelivered'
  BY <1>1 DEF PhaseIsDelivered, ImportTypes
<1>7. ImportNeverLost'
  BY <1>1, <1>2, <1>3, NothingLost
<1>. QED
  BY <1>4, <1>5, <1>6, <1>7

\* The worker takes a job, downloads, delivers, and drops the copy of what is
\* in the archive.
LEMMA WorkStep == ASSUME ImportInv, Work PROVE ImportInv'
<1>. USE DEF ImportInv
<1>1. ASSUME NEW j \in Job, runImportJob(j) PROVE ImportInv'
  <2>1. row' \in [Job -> ImportRow] /\ \A k \in Job : row'[k].staging = row[k].staging
    <3>1. SetImportJobState(j, "fetching") /\ "fetching" \in State
      BY <1>1 DEF runImportJob, State, Working
    <3>. QED BY <3>1, StateMoves
  <2>2. /\ worker' \in [job : Job, pc : Busy, cancelled : BOOLEAN] /\ worker'.pc = "fetching"
        /\ UNCHANGED <<file, archive, folder, discarded>>
    BY <1>1 DEF runImportJob, Busy, Working
  <2>. QED BY <2>1, <2>2, WorkerMoves DEF Delivered
<1>2. ASSUME worker.pc # "idle"
      PROVE  worker \in [job : Job, pc : Busy, cancelled : BOOLEAN] /\ worker # Idle
  BY <1>2 DEF ImportTypes, Idle
<1>3. CASE performImport
  <2>1. worker.pc = "fetching"
    BY <1>3 DEF performImport, At
  <2>2. row' \in [Job -> ImportRow] /\ \A k \in Job : row'[k].staging = row[k].staging
    <3>1. CASE SetImportJobState(worker.job, "validating")
      <4>1. worker.job \in Job /\ "validating" \in State
        BY <1>2, <2>1 DEF State, Working
      <4>. QED BY <3>1, <4>1, StateMoves
    <3>2. CASE row' = row
      BY <3>2 DEF ImportTypes
    <3>. QED BY <1>3, <3>1, <3>2 DEF performImport
  <2>3. /\ worker' \in [job : Job, pc : Busy, cancelled : BOOLEAN] /\ worker'.pc \in {"validating", "error"}
        /\ UNCHANGED <<file, archive, folder, discarded>>
    BY <1>2, <1>3, <2>1 DEF performImport, Busy, Working
  <2>. QED BY <2>2, <2>3, WorkerMoves DEF Delivered
<1>4. CASE validate
  BY <1>4, PhaseStep DEF validate, Delivered, Busy, Working
<1>5. CASE deliver
  BY <1>5, PhaseStep DEF deliver, Delivered, Busy, Working, Complete
<1>6. CASE adopt
  BY <1>6, PhaseStep DEF adopt, Delivered, Busy, Working, Complete
<1>7. CASE share
  BY <1>7, PhaseStep DEF share, Delivered, Busy, Working, Complete
<1>8. CASE index
  BY <1>8, PhaseStep DEF index, Delivered, Busy, Working
<1>9. CASE ImportFails
  <2>1. worker.pc # "idle"
    BY <1>9 DEF ImportFails, Working
  <2>2. /\ worker' \in [job : Job, pc : Busy, cancelled : BOOLEAN] /\ worker'.pc = "error"
        /\ UNCHANGED <<row, file, archive, folder, discarded>>
    BY <1>2, <1>9, <2>1 DEF ImportFails, Busy
  <2>. QED BY <2>2, WorkerMoves DEF Delivered, ImportTypes
<1>10. CASE LeaveCanceled
  BY <1>10, WorkerMoves DEF LeaveCanceled, ImportTypes
<1>11. CASE FailImport
  <2>1. row' \in [Job -> ImportRow] /\ \A k \in Job : row'[k].staging = row[k].staging
    BY <1>2, <1>11, StateMoves DEF FailImport, LastWrite, At, State
  <2>. QED BY <1>11, <2>1, WorkerMoves DEF FailImport
<1>12. CASE Proceed
  <2>1. worker.pc = "ok"
    BY <1>12 DEF Proceed, At
  <2>2. /\ worker' \in [job : Job, pc : Busy, cancelled : BOOLEAN] /\ worker'.pc = "outcome"
        /\ worker'.job = worker.job /\ UNCHANGED <<row, file, archive, folder, discarded>>
    BY <1>2, <1>12, <2>1 DEF Proceed, Busy
  <2>3. Complete \subseteq archive[worker.job]
    BY <1>2, <2>1 DEF PhaseIsDelivered, Delivered
  <2>. QED BY <2>2, <2>3, WorkerMoves DEF Delivered, ImportTypes
<1>13. CASE SetImportJobOutcome
  <2>1. worker.pc = "outcome"
    BY <1>13 DEF SetImportJobOutcome, At
  <2>2. row' \in [Job -> ImportRow] /\ \A k \in Job : row'[k].staging = row[k].staging
    BY <1>2, <1>13, <2>1, StateMoves DEF SetImportJobOutcome, LastWrite, State
  <2>3. /\ \/ worker' = Idle
           \/ /\ worker' \in [job : Job, pc : Busy, cancelled : BOOLEAN] /\ worker'.pc = "spent"
              /\ worker'.job = worker.job
        /\ UNCHANGED <<file, archive, folder, discarded>>
    BY <1>2, <1>13, <2>1 DEF SetImportJobOutcome, Busy
  <2>4. Complete \subseteq archive[worker.job]
    BY <1>2, <2>1 DEF PhaseIsDelivered, Delivered
  <2>. QED BY <2>2, <2>3, <2>4, WorkerMoves DEF Delivered
<1>14. CASE DropStagedCopy
  <2>1. worker.pc = "spent" /\ worker \in [job : Job, pc : Busy, cancelled : BOOLEAN]
    BY <1>2, <1>14 DEF DropStagedCopy, At
  <2>2. archive[worker.job] = Complete
    BY <1>2, <2>1 DEF PhaseIsDelivered, Delivered, ImportTypes
  <2>3. CASE worker' = Idle /\ UNCHANGED file
    BY <1>14, <2>3, WorkerMoves DEF DropStagedCopy, ImportTypes
  <2>4. CASE /\ file' = [file EXCEPT ![worker.job] = "none"]
             /\ worker' = [worker EXCEPT !.pc = "dropped"]
    <3>1. UNCHANGED <<row, archive, folder, discarded>>
      BY <1>14 DEF DropStagedCopy
    <3>2. /\ worker' \in [job : Job, pc : Busy, cancelled : BOOLEAN]
          /\ worker'.pc = "dropped" /\ worker'.job = worker.job
      BY <2>1, <2>4 DEF Busy
    <3>3. ImportTypes'
      BY <2>4, <3>1, <3>2 DEF ImportTypes
    <3>4. GoneWereDiscarded' /\ PhaseIsDelivered'
      BY <2>2, <3>1, <3>2 DEF GoneWereDiscarded, PhaseIsDelivered, Delivered
    <3>5. ImportNeverLost'
      BY <2>2, <2>4, <3>1 DEF ImportNeverLost, ImportTypes
    <3>. QED BY <3>3, <3>4, <3>5
  <2>. QED BY <1>14, <2>3, <2>4 DEF DropStagedCopy
<1>15. CASE MarkSpent
  <2>1. worker.pc = "dropped" /\ worker \in [job : Job, pc : Busy, cancelled : BOOLEAN]
    BY <1>2, <1>15 DEF MarkSpent, At
  <2>2. archive[worker.job] = Complete
    BY <1>2, <2>1 DEF PhaseIsDelivered, Delivered, ImportTypes
  <2>3. /\ row' \in {row, [row EXCEPT ![worker.job].staging = "removed"]} /\ worker' = Idle
        /\ UNCHANGED <<file, archive, folder, discarded>>
    BY <1>15 DEF MarkSpent
  <2>a. /\ row' \in [Job -> ImportRow]
        /\ \A k \in Job : k # worker.job => row'[k] = row[k]
    <3>1. row \in [Job -> ImportRow] /\ row[worker.job] \in ImportRow /\ worker.job \in Job
      BY <2>1 DEF ImportTypes
    <3>2. [row[worker.job] EXCEPT !.staging = "removed"] \in ImportRow
      BY <3>1 DEF ImportRow, Staging
    <3>. QED BY <2>3, <3>1, <3>2
  <2>4. ImportTypes'
    BY <2>3, <2>a DEF ImportTypes
  <2>b. GoneWereDiscarded' /\ PhaseIsDelivered'
    BY <2>3 DEF GoneWereDiscarded, PhaseIsDelivered
  <2>5. ImportNeverLost'
    BY <2>2, <2>3, <2>a DEF ImportNeverLost
  <2>. QED BY <2>4, <2>b, <2>5
<1>. QED
  BY <1>1, <1>3, <1>4, <1>5, <1>6, <1>7, <1>8, <1>9, <1>10, <1>11, <1>12, <1>13, <1>14, <1>15 DEF Work

\* A restart frees the worker and the lock, and queues what was interrupted.
LEMMA ImportRestartStep == ASSUME ImportInv, RequeueUnfinishedImports PROVE ImportInv'
<1>. USE DEF ImportInv
<1>1. /\ \/ row' = [j \in Job |-> IF row[j].state \in Working
                                THEN [row[j] EXCEPT !.state = "queued"] ELSE row[j]]
         \/ row' = row
      /\ worker' = Idle /\ folder' = Unlocked /\ UNCHANGED <<file, archive, discarded>>
  BY DEF RequeueUnfinishedImports, AllStops
<1>2. row' \in [Job -> ImportRow] /\ \A k \in Job : row'[k].staging = row[k].staging
  <2>1. row \in [Job -> ImportRow] /\ \A k \in Job : row[k] \in ImportRow
    BY DEF ImportTypes
  <2>2. CASE row' = row
    BY <2>1, <2>2
  <2>3. CASE row' = [j \in Job |-> IF row[j].state \in Working
                                  THEN [row[j] EXCEPT !.state = "queued"] ELSE row[j]]
    <3>1. \A k \in Job : row'[k] \in ImportRow /\ row'[k].staging = row[k].staging
      BY <2>1, <2>3 DEF ImportRow, State
    <3>. QED BY <2>3, <3>1
  <2>. QED BY <1>1, <2>2, <2>3
<1>3. ImportTypes'
  BY <1>1, <1>2 DEF ImportTypes, Unlocked
<1>4. GoneWereDiscarded' /\ PhaseIsDelivered'
  BY <1>1 DEF GoneWereDiscarded, PhaseIsDelivered, Unlocked
<1>. QED
  BY <1>1, <1>2, <1>3, <1>4, NothingLost

\* Every step keeps the inductive invariant.
LEMMA ImportInvStep == ImportInv /\ [ImportNext]_importVars => ImportInv'
<1>. SUFFICES ASSUME ImportInv, [ImportNext]_importVars PROVE ImportInv'
  OBVIOUS
<1>1. CASE Work
  BY <1>1, WorkStep
<1>2. ASSUME NEW j \in Job, register(j) \/ BytesArrive(j) \/ inspectUpload(j) \/ submit(j)
      PROVE  ImportInv'
  BY <1>2, UploadStep
<1>3. ASSUME NEW j \in Job,
             cancel(j) \/ CancelImportJob(j) \/ cancelRun(j) \/ retry(j) \/ RetryApplies(j)
      PROVE  ImportInv'
  BY <1>3, OwnerStep
<1>4. ASSUME NEW j \in Job, remove(j) \/ DeleteCopy(j) \/ MarkRemoved(j) \/ DeleteCopyFails(j)
      PROVE  ImportInv'
  BY <1>4, FolderStep
<1>5. CASE clearUserStaging
  BY <1>5, ImportSweepStep
<1>6. CASE RequeueUnfinishedImports
  BY <1>6, ImportRestartStep
<1>7. CASE UNCHANGED importVars
  BY <1>7, RequestStep DEF importVars, ImportInv, ImportTypes
<1>. QED
  BY <1>1, <1>2, <1>3, <1>4, <1>5, <1>6, <1>7 DEF ImportNext

\* However many files a user imports, and whatever is cancelled, retried, swept,
\* failed or interrupted: a confirmed upload that nobody threw away is still
\* staged or is a whole meeting of the archive (performImport, clearUserStaging,
\* RequeueUnfinishedImports).
THEOREM ImportIsNeverLost == ImportSpec => []ImportNeverLost
<1>1. ImportInv => ImportNeverLost
  BY DEF ImportInv
<1>. QED
  BY ImportInvInit, ImportInvStep, <1>1, PTL DEF ImportSpec

-----------------------------------------------------------------------------
(***************************************************************************)
(* InsightRuns, for any set of runs, any number of slots, attempts and     *)
(* restarts. A run's invariant is stated of its values, so that what a step *)
(* does to it is reasoned about without the other runs.                    *)
(***************************************************************************)

(* The inductive invariant.                                                *)

Row == [status : {"none", "queued", "running", "succeeded", "failed"}, attempt : Number,
        doc : 0..MaxAttempts, reason : {"", "interrupted", "failure", "template-changed"},
        stale : BOOLEAN]
AttemptOutcome == {"none", "running", "succeeded", "failed"}
Goroutines == [handed : 0..MaxAttempts, claimed : 0..MaxAttempts,
               pc : {"waiting"} \cup AtWork, doc : 0..MaxAttempts]

InsightTypes ==
  /\ runRow \in [Run -> Row]
  /\ attempts \in [Run -> [Number -> AttemptOutcome]]
  /\ oldStart \in [Run -> SUBSET Number]
  /\ launches \in [Run -> SUBSET Goroutines]
  /\ files \in [Run -> SUBSET Number]

\* One goroutine works, on the attempt the row is running, and the row is
\* fresh; a document it delivered is its attempt's.
WorkIsOwned(w, L, F) ==
  /\ \A g, h \in L : g.pc \in AtWork /\ h.pc \in AtWork => g = h
  /\ \A g \in L : g.pc \in AtWork =>
       /\ w.status = "running" /\ w.attempt = g.claimed /\ ~w.stale
       /\ g.doc # None => g.doc = g.claimed /\ g.doc \in F

\* A waiting goroutine was handed no attempt or one that was opened, which no
\* other goroutine has claimed.
WaitingIsHanded(w, L) ==
  /\ w.status = "none" => L = {}
  /\ \A g \in L : g.pc = "waiting" =>
       /\ g = Goroutine(g.handed) /\ g.handed <= w.attempt
       /\ w.status = "queued" => g.handed = 0
       /\ \A h \in L : h.pc \in AtWork => h.claimed # g.handed

\* The row agrees with its attempt's, and a stranded attempt is one the sweep
\* will find.
AttemptAgrees(w, a, o, F) ==
  /\ w.status \in {"none", "queued"} => a[w.attempt] = "none"
  /\ w.status = "running" => a[w.attempt] \in {"running", "failed"}
  /\ w.status = "running" /\ w.stale /\ a[w.attempt] = "running" => w.attempt \in o
  /\ w.status = "succeeded" => w.doc = w.attempt /\ w.doc \in F /\ a[w.attempt] = "succeeded"
  /\ w.status = "failed" => a[w.attempt] \notin {"running", "succeeded"}

RunInv(w, a, o, L, F) == WorkIsOwned(w, L, F) /\ WaitingIsHanded(w, L) /\ AttemptAgrees(w, a, o, F)

InsightInv ==
  /\ InsightTypes
  /\ \A r \in Run : RunInv(runRow[r], attempts[r], oldStart[r], launches[r], files[r])

LEMMA InsightInvInit == ASSUME InsightAssumption PROVE RunInit => InsightInv
<1>. SUFFICES ASSUME RunInit PROVE InsightInv
  OBVIOUS
<1>1. 1 \in Number /\ 0 \in 0..MaxAttempts
  BY InsightAssumption DEF InsightAssumption, Number
<1>2. InsightTypes
  BY <1>1 DEF RunInit, InsightTypes, Row, AttemptOutcome, None
<1>3. ASSUME NEW r \in Run PROVE RunInv(runRow[r], attempts[r], oldStart[r], launches[r], files[r])
  <2>1. runRow[r].status = "none" /\ runRow[r].attempt = 1 /\ attempts[r][1] = "none" /\ launches[r] = {}
    BY <1>1 DEF RunInit
  <2>. QED BY <2>1 DEF RunInv, WorkIsOwned, WaitingIsHanded, AttemptAgrees
<1>. QED
  BY <1>2, <1>3 DEF InsightInv

-----------------------------------------------------------------------------
(* Steps of one run.                                                        *)

\* A step of one run leaves the others as they are.
LEMMA OneRunMoves ==
  ASSUME InsightInv, InsightTypes', NEW r \in Run,
         RunInv(runRow'[r], attempts'[r], oldStart'[r], launches'[r], files'[r]),
         \A q \in Run \ {r} : /\ runRow'[q] = runRow[q] /\ attempts'[q] = attempts[q]
                              /\ oldStart'[q] = oldStart[q] /\ launches'[q] = launches[q]
                              /\ files'[q] = files[q]
  PROVE  InsightInv'
<1>1. ASSUME NEW q \in Run PROVE RunInv(runRow'[q], attempts'[q], oldStart'[q], launches'[q], files'[q])
  <2>1. CASE q = r
    BY <2>1
  <2>2. CASE q # r
    <3>1. /\ runRow'[q] = runRow[q] /\ attempts'[q] = attempts[q] /\ oldStart'[q] = oldStart[q]
          /\ launches'[q] = launches[q] /\ files'[q] = files[q]
      BY <2>2
    <3>2. RunInv(runRow[q], attempts[q], oldStart[q], launches[q], files[q])
      BY DEF InsightInv
    <3>. QED BY <3>1, <3>2
  <2>. QED BY <2>1, <2>2
<1>. QED
  BY <1>1 DEF InsightInv

\* A run's values, and what is known of them.
LEMMA RunTypes ==
  ASSUME InsightInv, NEW r \in Run
  PROVE  /\ runRow[r] \in Row /\ attempts[r] \in [Number -> AttemptOutcome] /\ oldStart[r] \in SUBSET Number
         /\ launches[r] \in SUBSET Goroutines /\ files[r] \in SUBSET Number
         /\ RunInv(runRow[r], attempts[r], oldStart[r], launches[r], files[r])
BY DEF InsightInv, InsightTypes

\* The goroutine that replaces one is the only one that is new.
LEMMA Replaced ==
  ASSUME NEW L \in SUBSET Goroutines, NEW g \in L, NEW h \in Goroutines
  PROVE  /\ (L \ {g}) \cup {h} \in SUBSET Goroutines /\ (L \ {g}) \cup {} \in SUBSET Goroutines
         /\ \A x \in (L \ {g}) \cup {h} : x = h \/ (x \in L /\ x # g)
         /\ \A x \in (L \ {g}) \cup {} : x \in L /\ x # g
OBVIOUS

\* A goroutine that ends leaves the rest of the run's invariant.
LEMMA Ends ==
  ASSUME NEW w, NEW a, NEW o, NEW L, NEW F, NEW g, RunInv(w, a, o, L, F)
  PROVE  RunInv(w, a, o, (L \ {g}) \cup {}, F)
BY DEF RunInv, WorkIsOwned, WaitingIsHanded

\* A new run has one goroutine, which was handed no attempt.
LEMMA CreateStep == ASSUME InsightAssumption, InsightInv, NEW r \in Run, create(r) PROVE InsightInv'
<1>. DEFINE w == [runRow[r] EXCEPT !.status = "queued"]
<1>1. /\ runRow[r].status = "none" /\ runRow' = [runRow EXCEPT ![r] = w]
      /\ launches' = [launches EXCEPT ![r] = {Goroutine(0)}]
      /\ UNCHANGED <<attempts, oldStart, files>>
  BY DEF create
<1>2. /\ w \in Row /\ w.status = "queued" /\ w.attempt = runRow[r].attempt /\ w.attempt \in Number
  BY RunTypes DEF Row
<1>3. Goroutine(0) \in Goroutines /\ Goroutine(0).pc = "waiting" /\ Goroutine(0).handed = 0
  BY InsightAssumption DEF InsightAssumption, Goroutine, Goroutines, None
<1>4. RunInv(w, attempts[r], oldStart[r], {Goroutine(0)}, files[r])
  <2>. HIDE DEF w
  <2>1. attempts[r][w.attempt] = "none"
    BY <1>1, <1>2, RunTypes DEF RunInv, AttemptAgrees
  <2>2. WorkIsOwned(w, {Goroutine(0)}, files[r])
    BY <1>3 DEF WorkIsOwned, AtWork
  <2>3. WaitingIsHanded(w, {Goroutine(0)})
    BY <1>2, <1>3 DEF WaitingIsHanded, AtWork, Number
  <2>4. AttemptAgrees(w, attempts[r], oldStart[r], files[r])
    BY <1>2, <2>1 DEF AttemptAgrees
  <2>. QED BY <2>2, <2>3, <2>4 DEF RunInv
<1>5. {Goroutine(0)} \in SUBSET Goroutines
  BY <1>3
<1>6. InsightTypes' /\ runRow'[r] = w /\ launches'[r] = {Goroutine(0)}
  BY <1>1, <1>2, <1>5 DEF InsightInv, InsightTypes
<1>7. \A q \in Run \ {r} : runRow'[q] = runRow[q] /\ launches'[q] = launches[q]
  BY <1>1 DEF InsightInv, InsightTypes
<1>. HIDE DEF w
<1>. QED
  BY <1>1, <1>4, <1>6, <1>7, OneRunMoves

-----------------------------------------------------------------------------
(* What the store's compare-and-swaps do to a run.                          *)

\* Nobody works on a row that is not running.
LEMMA NobodyWorks ==
  ASSUME NEW w, NEW a, NEW o, NEW L, NEW F, RunInv(w, a, o, L, F), w.status # "running"
  PROVE  \A g \in L : g.pc \notin AtWork
BY DEF RunInv, WorkIsOwned

\* A row that is opened runs a new attempt, and whoever waits was handed another.
LEMMA Opened ==
  ASSUME NEW w \in Row, NEW a \in [Number -> AttemptOutcome], NEW o, NEW L \in SUBSET Goroutines, NEW F,
         InsightAssumption, RunInv(w, a, o, L, F), w.status \in {"queued", "failed"},
         NEW n, n = IF w.status = "failed" THEN w.attempt + 1 ELSE w.attempt, n \in Number,
         NEW v \in Row, v.status = "running", v.attempt = n, ~v.stale
  PROVE  /\ AttemptAgrees(v, [a EXCEPT ![n] = "running"], o, F)
         /\ [a EXCEPT ![n] = "running"] \in [Number -> AttemptOutcome]
         /\ \A g \in L : g.pc = "waiting" /\ g = Goroutine(g.handed) /\ g.handed # n /\ g.handed <= n
<1>0. n \in Nat /\ n >= 1 /\ w.attempt \in Nat
  <2>1. w.attempt \in Number
    BY DEF Row
  <2>2. \A k \in Number : k \in Nat /\ k >= 1
    BY InsightAssumption DEF InsightAssumption, Number
  <2>. QED BY <2>1, <2>2
<1>1. [a EXCEPT ![n] = "running"][n] = "running" /\ [a EXCEPT ![n] = "running"] \in [Number -> AttemptOutcome]
  BY DEF AttemptOutcome
<1>2. AttemptAgrees(v, [a EXCEPT ![n] = "running"], o, F)
  BY <1>1 DEF AttemptAgrees
<1>3. ASSUME NEW g \in L
      PROVE  g.pc = "waiting" /\ g = Goroutine(g.handed) /\ g.handed # n /\ g.handed <= n
  <2>1. g.pc = "waiting" /\ g.handed \in Nat
    BY NobodyWorks DEF Goroutines
  <2>2. /\ g = Goroutine(g.handed) /\ g.handed <= w.attempt
        /\ w.status = "queued" => g.handed = 0
    BY <2>1 DEF RunInv, WaitingIsHanded
  <2>. QED BY <1>0, <2>1, <2>2
<1>. QED
  BY <1>1, <1>2, <1>3

\* A goroutine that was handed no attempt opens one and works on it.
LEMMA Claimed ==
  ASSUME NEW w \in Row, NEW a \in [Number -> AttemptOutcome], NEW o, NEW L \in SUBSET Goroutines, NEW F,
         InsightAssumption, RunInv(w, a, o, L, F), w.status \in {"queued", "failed"},
         NEW n, n = IF w.status = "failed" THEN w.attempt + 1 ELSE w.attempt, n \in Number,
         NEW v \in Row, v.status = "running", v.attempt = n, ~v.stale,
         NEW g \in L, NEW h \in Goroutines, h = [g EXCEPT !.pc = "perform", !.claimed = n]
  PROVE  RunInv(v, [a EXCEPT ![n] = "running"], o, (L \ {g}) \cup {h}, F)
<1>1. AttemptAgrees(v, [a EXCEPT ![n] = "running"], o, F)
  BY Opened
<1>2. \A x \in L : x.pc = "waiting" /\ x = Goroutine(x.handed) /\ x.handed # n /\ x.handed <= n
  BY Opened
<1>3. h.pc = "perform" /\ h.claimed = n /\ h.doc = None
  <2>1. g \in Goroutines /\ g.doc = None
    BY <1>2 DEF Goroutine
  <2>. QED BY <2>1 DEF Goroutines
<1>4. WorkIsOwned(v, (L \ {g}) \cup {h}, F)
  BY <1>2, <1>3 DEF WorkIsOwned, AtWork
<1>5. WaitingIsHanded(v, (L \ {g}) \cup {h})
  <2>1. ASSUME NEW x \in (L \ {g}) \cup {h}, x.pc = "waiting"
        PROVE  x \in L \ {g} /\ x = Goroutine(x.handed) /\ x.handed # n /\ x.handed <= n
    BY <2>1, <1>2, <1>3
  <2>2. ASSUME NEW y \in (L \ {g}) \cup {h}, y.pc \in AtWork PROVE y.claimed = n
    BY <2>2, <1>2, <1>3 DEF AtWork
  <2>. QED BY <2>1, <2>2 DEF WaitingIsHanded
<1>. QED
  BY <1>1, <1>4, <1>5 DEF RunInv

\* A retry opens an attempt and hands it to a goroutine of its own.
LEMMA Retried ==
  ASSUME NEW w \in Row, NEW a \in [Number -> AttemptOutcome], NEW o, NEW L \in SUBSET Goroutines, NEW F,
         InsightAssumption, RunInv(w, a, o, L, F), w.status = "failed",
         NEW n, n = w.attempt + 1, n \in Number,
         NEW v \in Row, v.status = "running", v.attempt = n, ~v.stale
  PROVE  RunInv(v, [a EXCEPT ![n] = "running"], o, L \cup {Goroutine(n)}, F)
<1>1. AttemptAgrees(v, [a EXCEPT ![n] = "running"], o, F)
  BY Opened
<1>2. \A x \in L : x.pc = "waiting" /\ x = Goroutine(x.handed) /\ x.handed # n /\ x.handed <= n
  BY Opened
<1>3. Goroutine(n).pc = "waiting" /\ Goroutine(n).handed = n
  BY DEF Goroutine
<1>4. WorkIsOwned(v, L \cup {Goroutine(n)}, F)
  BY <1>2, <1>3 DEF WorkIsOwned, AtWork
<1>5. n <= n
  BY InsightAssumption DEF InsightAssumption, Number
<1>6. WaitingIsHanded(v, L \cup {Goroutine(n)})
  BY <1>2, <1>3, <1>5 DEF WaitingIsHanded, AtWork
<1>. QED
  BY <1>1, <1>4, <1>6 DEF RunInv

\* A goroutine resumes exactly the attempt it was handed, on which nobody works.
LEMMA Resumed ==
  ASSUME NEW w \in Row, NEW a \in [Number -> AttemptOutcome], NEW o, NEW L \in SUBSET Goroutines, NEW F,
         RunInv(w, a, o, L, F), w.status = "running",
         NEW v \in Row, v.status = "running", v.attempt = w.attempt, ~v.stale,
         NEW g \in L, g.pc = "waiting", g.handed = w.attempt,
         NEW h \in Goroutines, h.pc = "perform", h.claimed = w.attempt, h.doc = g.doc
  PROVE  RunInv(v, a, o, (L \ {g}) \cup {h}, F)
<1>0. v.status = "running" /\ v.attempt = w.attempt /\ ~v.stale
  OBVIOUS
<1>1. \A x \in L : x.pc \notin AtWork
  BY DEF RunInv, WorkIsOwned, WaitingIsHanded
<1>2. \A x \in L : x.pc = "waiting" => x = Goroutine(x.handed) /\ x.handed <= w.attempt
  BY DEF RunInv, WaitingIsHanded
<1>3. h.pc = "perform" /\ h.claimed = w.attempt /\ h.doc = None
  <2>1. g \in Goroutines /\ g.doc = None
    BY <1>2 DEF Goroutine
  <2>. QED BY <2>1 DEF Goroutines
<1>4. WorkIsOwned(v, (L \ {g}) \cup {h}, F)
  BY <1>0, <1>1, <1>3 DEF WorkIsOwned
<1>5. \A x \in L \ {g} : x.pc = "waiting" => x.handed # w.attempt
  BY <1>2
<1>6. WaitingIsHanded(v, (L \ {g}) \cup {h})
  <2>1. ASSUME NEW x \in (L \ {g}) \cup {h}, x.pc = "waiting"
        PROVE  x \in L \ {g} /\ x = Goroutine(x.handed) /\ x.handed # w.attempt /\ x.handed <= w.attempt
    BY <2>1, <1>0, <1>1, <1>2, <1>3, <1>5
  <2>2. ASSUME NEW y \in (L \ {g}) \cup {h}, y.pc \in AtWork PROVE y.claimed = w.attempt
    BY <2>2, <1>0, <1>1, <1>2, <1>3, <1>5 DEF AtWork
  <2>. QED BY <2>1, <2>2, <1>0 DEF WaitingIsHanded
<1>7. AttemptAgrees(v, a, o, F)
  BY <1>0 DEF RunInv, AttemptAgrees
<1>. QED
  BY <1>4, <1>6, <1>7 DEF RunInv

\* The goroutine that works goes on working on its attempt.
LEMMA GoesOn ==
  ASSUME NEW w \in Row, NEW a \in [Number -> AttemptOutcome], NEW o, NEW L \in SUBSET Goroutines, NEW F, NEW E,
         RunInv(w, a, o, L, F), F \subseteq E, NEW g \in L, g.pc \in AtWork,
         NEW h \in Goroutines, h.pc \in AtWork, h.claimed = g.claimed,
         h.doc # None => h.doc = h.claimed /\ h.doc \in E
  PROVE  RunInv(w, a, o, (L \ {g}) \cup {h}, E)
<1>1. \A x \in L \ {g} : x.pc \notin AtWork
  BY DEF RunInv, WorkIsOwned
<1>2. w.status = "running" /\ w.attempt = h.claimed /\ ~w.stale
  BY DEF RunInv, WorkIsOwned
<1>3. WorkIsOwned(w, (L \ {g}) \cup {h}, E)
  BY <1>1, <1>2 DEF WorkIsOwned
<1>4. WaitingIsHanded(w, (L \ {g}) \cup {h})
  BY <1>1, <1>2 DEF RunInv, WaitingIsHanded, AtWork
<1>5. AttemptAgrees(w, a, o, E)
  BY DEF RunInv, AttemptAgrees
<1>. QED
  BY <1>3, <1>4, <1>5 DEF RunInv

\* Its outcome is written to the row of its own attempt.
LEMMA Finished ==
  ASSUME NEW w \in Row, NEW a \in [Number -> AttemptOutcome], NEW o, NEW L \in SUBSET Goroutines, NEW F,
         RunInv(w, a, o, L, F), NEW g \in L, g.pc \in AtWork,
         NEW s, s = IF g.doc = None THEN "failed" ELSE "succeeded",
         NEW v \in Row, v.status = s, v.attempt = w.attempt, v.doc = g.doc
  PROVE  RunInv(v, [a EXCEPT ![w.attempt] = s], o, (L \ {g}) \cup {}, F)
<1>0. w.attempt \in Number
  BY DEF Row
<1>1. \A x \in L \ {g} : x.pc \notin AtWork
  BY DEF RunInv, WorkIsOwned
<1>2. g.doc # None => g.doc = w.attempt /\ g.doc \in F
  BY DEF RunInv, WorkIsOwned
<1>3. WorkIsOwned(v, (L \ {g}) \cup {}, F)
  BY <1>1 DEF WorkIsOwned
<1>4. WaitingIsHanded(v, (L \ {g}) \cup {})
  BY DEF RunInv, WaitingIsHanded
<1>5. AttemptAgrees(v, [a EXCEPT ![w.attempt] = s], o, F)
  BY <1>0, <1>2 DEF AttemptAgrees
<1>. QED
  BY <1>3, <1>4, <1>5 DEF RunInv

-----------------------------------------------------------------------------
(* The actions.                                                             *)

\* The transaction that opens an attempt.
LEMMA BeginMoves ==
  ASSUME InsightAssumption, InsightInv, NEW r \in Run, BeginAttempt(r)
  PROVE  \E n \in Number :
           /\ n = IF runRow[r].status = "failed" THEN runRow[r].attempt + 1 ELSE runRow[r].attempt
           /\ runRow[r].status \in {"queued", "failed"}
           /\ runRow' \in [Run -> Row] /\ \A q \in Run \ {r} : runRow'[q] = runRow[q]
           /\ runRow'[r] \in Row /\ runRow'[r].status = "running" /\ runRow'[r].attempt = n /\ ~runRow'[r].stale
           /\ attempts' = [attempts EXCEPT ![r] = [attempts[r] EXCEPT ![n] = "running"]]
<1>. DEFINE n == IF runRow[r].status = "failed" THEN runRow[r].attempt + 1 ELSE runRow[r].attempt
            v == [status |-> "running", attempt |-> n, doc |-> None, reason |-> "", stale |-> FALSE]
<1>1. /\ n \in Number /\ runRow[r].status \in {"queued", "failed"} /\ runRow' = [runRow EXCEPT ![r] = v]
      /\ attempts' = [attempts EXCEPT ![r][n] = "running"]
  BY DEF BeginAttempt
<1>2. v \in Row
  <2>1. None \in 0..MaxAttempts
    BY InsightAssumption DEF InsightAssumption, None
  <2>. QED BY <1>1, <2>1 DEF Row
<1>3. v.status = "running" /\ v.attempt = n /\ ~v.stale
  OBVIOUS
<1>. HIDE DEF n, v
<1>4. runRow \in [Run -> Row]
  BY DEF InsightInv, InsightTypes
<1>5. runRow' \in [Run -> Row] /\ runRow'[r] = v /\ \A q \in Run \ {r} : runRow'[q] = runRow[q]
  BY <1>1, <1>2, <1>4
<1>6. attempts' = [attempts EXCEPT ![r] = [attempts[r] EXCEPT ![n] = "running"]]
  BY <1>1
<1>. QED
  BY <1>1, <1>2, <1>3, <1>5, <1>6 DEF n

\* A retry claims within the request.
LEMMA RetryStep == ASSUME InsightAssumption, InsightInv, NEW r \in Run, retryRun(r) PROVE InsightInv'
<1>1. /\ runRow[r].status = "failed" /\ BeginAttempt(r) /\ UNCHANGED <<oldStart, files>>
      /\ launches' = [launches EXCEPT ![r] = @ \cup {Goroutine(runRow'[r].attempt)}]
  BY DEF retryRun
<1>2. PICK n \in Number :
        /\ n = IF runRow[r].status = "failed" THEN runRow[r].attempt + 1 ELSE runRow[r].attempt
        /\ runRow' \in [Run -> Row] /\ \A q \in Run \ {r} : runRow'[q] = runRow[q]
        /\ runRow'[r] \in Row /\ runRow'[r].status = "running" /\ runRow'[r].attempt = n /\ ~runRow'[r].stale
        /\ attempts' = [attempts EXCEPT ![r] = [attempts[r] EXCEPT ![n] = "running"]]
  BY <1>1, BeginMoves
<1>3. Goroutine(n) \in Goroutines
  BY InsightAssumption DEF InsightAssumption, Goroutine, Goroutines, None, Number
<1>4. [attempts[r] EXCEPT ![n] = "running"] \in [Number -> AttemptOutcome]
  BY RunTypes DEF AttemptOutcome
<1>5. InsightTypes' /\ launches'[r] = launches[r] \cup {Goroutine(n)}
  BY <1>1, <1>2, <1>3, <1>4 DEF InsightInv, InsightTypes
<1>6. attempts'[r] = [attempts[r] EXCEPT ![n] = "running"]
  BY <1>2 DEF InsightInv, InsightTypes
<1>7. \A q \in Run \ {r} : launches'[q] = launches[q] /\ attempts'[q] = attempts[q]
  BY <1>1, <1>2 DEF InsightInv, InsightTypes
<1>8. RunInv(runRow'[r], attempts'[r], oldStart[r], launches'[r], files[r])
  BY <1>1, <1>2, <1>5, <1>6, RunTypes, Retried
<1>. QED
  BY <1>1, <1>2, <1>5, <1>7, <1>8, OneRunMoves

\* What becoming another goroutine, or none, does to the launches.
LEMMA BecomeMoves ==
  ASSUME InsightInv, NEW r \in Run, NEW g \in launches[r], NEW H \in SUBSET Goroutines, Become(r, g, H)
  PROVE  /\ launches' \in [Run -> SUBSET Goroutines] /\ launches'[r] = (launches[r] \ {g}) \cup H
         /\ \A q \in Run \ {r} : launches'[q] = launches[q]
BY DEF Become, InsightInv, InsightTypes

\* A goroutine leaves without a word to the store.
LEMMA LeaveStep ==
  ASSUME InsightInv, NEW r \in Run, NEW g \in launches[r], Become(r, g, {}),
         UNCHANGED <<runRow, attempts, oldStart, files>>
  PROVE  InsightInv'
<1>1. /\ launches' \in [Run -> SUBSET Goroutines] /\ launches'[r] = (launches[r] \ {g}) \cup {}
      /\ \A q \in Run \ {r} : launches'[q] = launches[q]
  BY BecomeMoves
<1>2. InsightTypes'
  BY <1>1 DEF InsightInv, InsightTypes
<1>3. RunInv(runRow[r], attempts[r], oldStart[r], (launches[r] \ {g}) \cup {}, files[r])
  BY RunTypes, Ends
<1>. QED
  BY <1>1, <1>2, <1>3, OneRunMoves

\* With a slot, a goroutine claims or resumes its attempt, or leaves.
LEMMA ClaimStep ==
  ASSUME InsightAssumption, InsightInv, NEW r \in Run, NEW g \in launches[r], claim(r, g)
  PROVE  InsightInv'
<1>0. UNCHANGED <<oldStart, files>> /\ g.pc = "waiting" /\ g \in Goroutines
  BY RunTypes DEF claim
<1>1. CASE /\ g.handed = 0 /\ BeginAttempt(r)
           /\ Become(r, g, {[g EXCEPT !.pc = "perform", !.claimed = runRow'[r].attempt]})
  <2>1. PICK n \in Number :
          /\ n = IF runRow[r].status = "failed" THEN runRow[r].attempt + 1 ELSE runRow[r].attempt
          /\ runRow[r].status \in {"queued", "failed"}
          /\ runRow' \in [Run -> Row] /\ \A q \in Run \ {r} : runRow'[q] = runRow[q]
          /\ runRow'[r] \in Row /\ runRow'[r].status = "running" /\ runRow'[r].attempt = n /\ ~runRow'[r].stale
          /\ attempts' = [attempts EXCEPT ![r] = [attempts[r] EXCEPT ![n] = "running"]]
    BY <1>1, BeginMoves
  <2>. DEFINE h == [g EXCEPT !.pc = "perform", !.claimed = n]
  <2>2. h \in Goroutines
    <3>1. n \in 0..MaxAttempts
      BY InsightAssumption DEF InsightAssumption, Number
    <3>. QED BY <1>0, <3>1 DEF Goroutines, AtWork
  <2>3. [attempts[r] EXCEPT ![n] = "running"] \in [Number -> AttemptOutcome]
    BY RunTypes DEF AttemptOutcome
  <2>4. /\ launches' \in [Run -> SUBSET Goroutines] /\ launches'[r] = (launches[r] \ {g}) \cup {h}
        /\ \A q \in Run \ {r} : launches'[q] = launches[q]
    BY <1>1, <2>1, <2>2, BecomeMoves
  <2>5. InsightTypes' /\ attempts'[r] = [attempts[r] EXCEPT ![n] = "running"]
        /\ \A q \in Run \ {r} : attempts'[q] = attempts[q]
    BY <1>0, <2>1, <2>3, <2>4 DEF InsightInv, InsightTypes
  <2>6. RunInv(runRow'[r], attempts'[r], oldStart[r], launches'[r], files[r])
    <3>1. /\ runRow[r] \in Row /\ attempts[r] \in [Number -> AttemptOutcome] /\ launches[r] \in SUBSET Goroutines
          /\ RunInv(runRow[r], attempts[r], oldStart[r], launches[r], files[r])
      BY RunTypes
    <3>2. RunInv(runRow'[r], [attempts[r] EXCEPT ![n] = "running"], oldStart[r], (launches[r] \ {g}) \cup {h}, files[r])
      <4>. HIDE DEF h
      <4>. QED BY <2>1, <2>2, <3>1, Claimed DEF h
    <3>. QED BY <2>4, <2>5, <3>2
  <2>. QED BY <1>0, <2>1, <2>4, <2>5, <2>6, OneRunMoves
<1>2. CASE /\ g.handed # 0 /\ ResumeAttempt(r, g.handed)
           /\ Become(r, g, {[g EXCEPT !.pc = "perform", !.claimed = runRow'[r].attempt]})
  <2>. DEFINE v == [runRow[r] EXCEPT !.stale = FALSE]
              h == [g EXCEPT !.pc = "perform", !.claimed = runRow[r].attempt]
  <2>1. /\ runRow[r].status = "running" /\ runRow[r].attempt = g.handed
        /\ runRow' = [runRow EXCEPT ![r].stale = FALSE] /\ attempts' = attempts
    BY <1>2 DEF ResumeAttempt
  <2>2. v \in Row /\ v.attempt = runRow[r].attempt /\ runRow[r].attempt \in Number
    BY RunTypes DEF Row
  <2>3. runRow' \in [Run -> Row] /\ runRow'[r] = v /\ \A q \in Run \ {r} : runRow'[q] = runRow[q]
    BY <2>1, <2>2 DEF InsightInv, InsightTypes
  <2>4. h \in Goroutines
    <3>1. runRow[r].attempt \in 0..MaxAttempts
      BY <2>2, InsightAssumption DEF InsightAssumption, Number
    <3>. QED BY <1>0, <3>1 DEF Goroutines, AtWork
  <2>5. /\ launches' \in [Run -> SUBSET Goroutines] /\ launches'[r] = (launches[r] \ {g}) \cup {h}
        /\ \A q \in Run \ {r} : launches'[q] = launches[q]
    BY <1>2, <2>2, <2>3, <2>4, BecomeMoves
  <2>6. InsightTypes'
    BY <1>0, <2>1, <2>3, <2>5 DEF InsightInv, InsightTypes
  <2>7. RunInv(runRow'[r], attempts[r], oldStart[r], launches'[r], files[r])
    <3>1. /\ runRow[r] \in Row /\ attempts[r] \in [Number -> AttemptOutcome] /\ launches[r] \in SUBSET Goroutines
          /\ RunInv(runRow[r], attempts[r], oldStart[r], launches[r], files[r])
      BY RunTypes
    <3>2. RunInv(v, attempts[r], oldStart[r], (launches[r] \ {g}) \cup {h}, files[r])
      <4>1. v.status = "running" /\ v.attempt = runRow[r].attempt /\ ~v.stale
        BY <2>1, <3>1 DEF Row
      <4>2. g.pc = "waiting" /\ g.handed = runRow[r].attempt
        BY <1>0, <2>1
      <4>3. h.pc = "perform" /\ h.claimed = runRow[r].attempt /\ h.doc = g.doc
        BY <1>0 DEF Goroutines
      <4>. HIDE DEF v, h
      <4>. QED BY <2>1, <2>2, <2>4, <3>1, <4>1, <4>2, <4>3, Resumed
    <3>. QED BY <2>3, <2>5, <3>2
  <2>. QED BY <1>0, <2>1, <2>3, <2>5, <2>6, <2>7, OneRunMoves
<1>3. CASE Become(r, g, {}) /\ UNCHANGED <<runRow, attempts>>
  BY <1>0, <1>3, LeaveStep
<1>. QED
  BY <1>1, <1>2, <1>3 DEF claim

\* The workflow and the delivery: the goroutine goes on.
LEMMA WorkflowStep ==
  ASSUME InsightAssumption, InsightInv, NEW r \in Run, NEW g \in launches[r], perform(r, g) \/ deliverRun(r, g)
  PROVE  InsightInv'
<1>0. /\ UNCHANGED <<runRow, attempts, oldStart>> /\ g.pc \in AtWork /\ g \in Goroutines
      /\ g.claimed \in Number
  <2>1. UNCHANGED <<runRow, attempts, oldStart>> /\ g.pc \in AtWork
    BY DEF perform, deliverRun, AtWork
  <2>2. g.claimed = runRow[r].attempt /\ runRow[r].attempt \in Number
    BY <2>1, RunTypes DEF RunInv, WorkIsOwned, Row
  <2>. QED BY <2>1, <2>2, RunTypes
<1>1. PICK h \in Goroutines :
        /\ Become(r, g, {h}) /\ h.pc \in AtWork /\ h.claimed = g.claimed
        /\ files' \in [Run -> SUBSET Number] /\ files[r] \subseteq files'[r]
        /\ \A q \in Run \ {r} : files'[q] = files[q]
        /\ h.doc # None => h.doc = h.claimed /\ h.doc \in files'[r]
  <2>1. CASE perform(r, g)
    <3>1. PICK next \in {"deliver", "record"} : Become(r, g, {[g EXCEPT !.pc = next]})
      BY <2>1 DEF perform
    <3>2. files' = files
      BY <2>1 DEF perform
    <3>3. [g EXCEPT !.pc = next] \in Goroutines
      BY <1>0 DEF Goroutines, AtWork
    <3>4. g.doc # None => g.doc = g.claimed /\ g.doc \in files[r]
      BY <1>0, RunTypes DEF RunInv, WorkIsOwned
    <3>5. /\ [g EXCEPT !.pc = next].pc \in AtWork /\ [g EXCEPT !.pc = next].claimed = g.claimed
          /\ [g EXCEPT !.pc = next].doc = g.doc
      BY <1>0 DEF Goroutines, AtWork
    <3>. QED BY <3>1, <3>2, <3>3, <3>4, <3>5 DEF InsightInv, InsightTypes
  <2>2. CASE /\ deliverRun(r, g) /\ files' = [files EXCEPT ![r] = @ \cup {g.claimed}]
             /\ \E doc \in {None, g.claimed} : Become(r, g, {[g EXCEPT !.pc = "record", !.doc = doc]})
    <3>1. PICK doc \in {None, g.claimed} : Become(r, g, {[g EXCEPT !.pc = "record", !.doc = doc]})
      BY <2>2
    <3>2. doc \in 0..MaxAttempts
      BY <1>0, InsightAssumption DEF InsightAssumption, Number, None
    <3>3. [g EXCEPT !.pc = "record", !.doc = doc] \in Goroutines
      BY <1>0, <3>2 DEF Goroutines, AtWork
    <3>4. /\ [g EXCEPT !.pc = "record", !.doc = doc].pc \in AtWork
          /\ [g EXCEPT !.pc = "record", !.doc = doc].claimed = g.claimed
          /\ [g EXCEPT !.pc = "record", !.doc = doc].doc = doc
      BY <1>0 DEF Goroutines, AtWork
    <3>5. /\ files' \in [Run -> SUBSET Number] /\ files'[r] = files[r] \cup {g.claimed}
          /\ \A q \in Run \ {r} : files'[q] = files[q]
      BY <1>0, <2>2 DEF InsightInv, InsightTypes
    <3>. QED BY <3>1, <3>3, <3>4, <3>5
  <2>3. CASE deliverRun(r, g) /\ files' = files /\ Become(r, g, {[g EXCEPT !.pc = "record"]})
    <3>3. [g EXCEPT !.pc = "record"] \in Goroutines
      BY <1>0 DEF Goroutines, AtWork
    <3>4. g.doc # None => g.doc = g.claimed /\ g.doc \in files[r]
      BY <1>0, RunTypes DEF RunInv, WorkIsOwned
    <3>5. /\ [g EXCEPT !.pc = "record"].pc \in AtWork /\ [g EXCEPT !.pc = "record"].claimed = g.claimed
          /\ [g EXCEPT !.pc = "record"].doc = g.doc
      BY <1>0 DEF Goroutines, AtWork
    <3>. QED BY <2>3, <3>3, <3>4, <3>5 DEF InsightInv, InsightTypes
  <2>. QED BY <2>1, <2>2, <2>3 DEF deliverRun
<1>2. /\ launches' \in [Run -> SUBSET Goroutines] /\ launches'[r] = (launches[r] \ {g}) \cup {h}
      /\ \A q \in Run \ {r} : launches'[q] = launches[q]
  BY <1>1, BecomeMoves
<1>3. InsightTypes'
  BY <1>0, <1>1, <1>2 DEF InsightInv, InsightTypes
<1>4. RunInv(runRow[r], attempts[r], oldStart[r], launches'[r], files'[r])
  <2>1. /\ runRow[r] \in Row /\ attempts[r] \in [Number -> AttemptOutcome] /\ launches[r] \in SUBSET Goroutines
        /\ RunInv(runRow[r], attempts[r], oldStart[r], launches[r], files[r])
    BY RunTypes
  <2>2. RunInv(runRow[r], attempts[r], oldStart[r], (launches[r] \ {g}) \cup {h}, files'[r])
    BY <1>0, <1>1, <2>1, GoesOn
  <2>. QED BY <1>2, <2>2
<1>. QED
  BY <1>0, <1>1, <1>2, <1>3, <1>4, OneRunMoves

\* The outcome is recorded, or the goroutine gives up on the store.
LEMMA OutcomeStep ==
  ASSUME InsightAssumption, InsightInv, NEW r \in Run, NEW g \in launches[r], recordOutcome(r, g)
  PROVE  InsightInv'
<1>0. Become(r, g, {}) /\ UNCHANGED <<oldStart, files>> /\ g.pc \in AtWork /\ g \in Goroutines
  BY RunTypes DEF recordOutcome, AtWork
<1>1. CASE UNCHANGED <<runRow, attempts>>
  BY <1>0, <1>1, LeaveStep
<1>2. CASE FinishAttempt(r, g)
  <2>. DEFINE s == IF g.doc = None THEN "failed" ELSE "succeeded"
  <2>1. PICK reason \in {"failure", "template-changed", ""} :
          runRow' = [runRow EXCEPT ![r].status = s, ![r].doc = g.doc, ![r].reason = reason, ![r].stale = FALSE]
    BY <1>2 DEF FinishAttempt
  <2>. DEFINE v == [runRow[r] EXCEPT !.status = s, !.doc = g.doc, !.reason = reason, !.stale = FALSE]
  <2>2. /\ runRow[r] \in Row /\ attempts[r] \in [Number -> AttemptOutcome] /\ launches[r] \in SUBSET Goroutines
        /\ RunInv(runRow[r], attempts[r], oldStart[r], launches[r], files[r])
    BY RunTypes
  <2>3. v \in Row /\ v.status = s /\ v.attempt = runRow[r].attempt /\ v.doc = g.doc
    BY <1>0, <2>2 DEF Row, Goroutines
  <2>4. runRow' = [runRow EXCEPT ![r] = v]
    BY <2>1
  <2>5. attempts' = [attempts EXCEPT ![r] = [attempts[r] EXCEPT ![runRow[r].attempt] = s]]
    BY <1>2 DEF FinishAttempt
  <2>6. [attempts[r] EXCEPT ![runRow[r].attempt] = s] \in [Number -> AttemptOutcome]
    BY <2>2 DEF AttemptOutcome
  <2>. HIDE DEF v
  <2>7. runRow' \in [Run -> Row] /\ runRow'[r] = v /\ \A q \in Run \ {r} : runRow'[q] = runRow[q]
    BY <2>3, <2>4 DEF InsightInv, InsightTypes
  <2>8. /\ attempts' \in [Run -> [Number -> AttemptOutcome]]
        /\ attempts'[r] = [attempts[r] EXCEPT ![runRow[r].attempt] = s]
        /\ \A q \in Run \ {r} : attempts'[q] = attempts[q]
    BY <2>5, <2>6 DEF InsightInv, InsightTypes
  <2>9. /\ launches' \in [Run -> SUBSET Goroutines] /\ launches'[r] = (launches[r] \ {g}) \cup {}
        /\ \A q \in Run \ {r} : launches'[q] = launches[q]
    BY <1>0, BecomeMoves
  <2>10. RunInv(v, [attempts[r] EXCEPT ![runRow[r].attempt] = s], oldStart[r], (launches[r] \ {g}) \cup {}, files[r])
    BY <1>0, <2>2, <2>3, Finished
  <2>11. InsightTypes'
    BY <1>0, <2>7, <2>8, <2>9 DEF InsightInv, InsightTypes
  <2>. QED BY <1>0, <2>7, <2>8, <2>9, <2>10, <2>11, OneRunMoves
<1>. QED
  BY <1>1, <1>2 DEF recordOutcome

\* Time passes over a row nobody works on, or over the start of an attempt.
LEMMA AgeStep == ASSUME InsightInv, NEW r \in Run, Age(r) PROVE InsightInv'
<1>0. UNCHANGED <<attempts, launches, files>>
  BY DEF Age
<1>1. /\ runRow[r] \in Row /\ attempts[r] \in [Number -> AttemptOutcome] /\ launches[r] \in SUBSET Goroutines
      /\ oldStart[r] \in SUBSET Number /\ runRow[r].attempt \in Number
      /\ RunInv(runRow[r], attempts[r], oldStart[r], launches[r], files[r])
  BY RunTypes DEF Row
<1>2. CASE /\ runRow[r].status \in {"queued", "running"} /\ \A g \in launches[r] : g.pc \notin AtWork
           /\ runRow' = [runRow EXCEPT ![r].stale = TRUE]
           /\ oldStart' = [oldStart EXCEPT ![r] = @ \cup {n \in Number : attempts[r][n] = "running"}]
  <2>. DEFINE v == [runRow[r] EXCEPT !.stale = TRUE]
              o == oldStart[r] \cup {n \in Number : attempts[r][n] = "running"}
  <2>1. v \in Row /\ v.status = runRow[r].status /\ v.attempt = runRow[r].attempt /\ v.doc = runRow[r].doc
    BY <1>1 DEF Row
  <2>2. o \in SUBSET Number /\ (attempts[r][runRow[r].attempt] = "running" => runRow[r].attempt \in o)
    BY <1>1
  <2>3. InsightTypes' /\ runRow'[r] = v /\ oldStart'[r] = o
    BY <1>0, <1>2, <2>1, <2>2 DEF InsightInv, InsightTypes
  <2>4. \A q \in Run \ {r} : runRow'[q] = runRow[q] /\ oldStart'[q] = oldStart[q]
    BY <1>2 DEF InsightInv, InsightTypes
  <2>. HIDE DEF v, o
  <2>5. RunInv(v, attempts[r], o, launches[r], files[r])
    BY <1>1, <1>2, <2>1, <2>2 DEF RunInv, WorkIsOwned, WaitingIsHanded, AttemptAgrees
  <2>. QED BY <1>0, <2>3, <2>4, <2>5, OneRunMoves
<1>3. CASE runRow' = runRow /\ oldStart' = [oldStart EXCEPT ![r] = @ \cup {runRow[r].attempt}]
  <2>1. InsightTypes' /\ oldStart'[r] = oldStart[r] \cup {runRow[r].attempt}
        /\ \A q \in Run \ {r} : oldStart'[q] = oldStart[q]
    BY <1>0, <1>1, <1>3 DEF InsightInv, InsightTypes
  <2>2. RunInv(runRow[r], attempts[r], oldStart'[r], launches[r], files[r])
    BY <1>1, <2>1 DEF RunInv, AttemptAgrees
  <2>. QED BY <1>0, <1>3, <2>1, <2>2, OneRunMoves
<1>. QED
  BY <1>2, <1>3 DEF Age

-----------------------------------------------------------------------------
(* Steps of all runs.                                                       *)

\* The sweep fails what nobody works on, and with it the attempt it was on.
LEMMA SweepStep == ASSUME InsightInv, sweepStranded PROVE InsightInv'
<1>. DEFINE swept(r) == runRow[r].stale /\ runRow[r].status \in {"queued", "running"}
            v(r) == IF swept(r) THEN [runRow[r] EXCEPT !.status = "failed", !.reason = "interrupted", !.stale = FALSE]
                                ELSE [runRow[r] EXCEPT !.stale = FALSE]
            a(r) == [n \in Number |-> IF n \in oldStart[r] /\ attempts[r][n] = "running" THEN "failed"
                                      ELSE attempts[r][n]]
<1>1. /\ runRow' = [r \in Run |-> v(r)] /\ attempts' = [r \in Run |-> a(r)]
      /\ oldStart' = [r \in Run |-> {}] /\ UNCHANGED <<launches, files>>
  BY DEF sweepStranded
<1>2. ASSUME NEW r \in Run
      PROVE  /\ v(r) \in Row /\ v(r).attempt = runRow[r].attempt /\ v(r).doc = runRow[r].doc /\ ~v(r).stale
             /\ v(r).status = IF swept(r) THEN "failed" ELSE runRow[r].status
  BY RunTypes DEF Row
<1>3. ASSUME NEW r \in Run PROVE a(r) \in [Number -> AttemptOutcome]
  BY RunTypes DEF AttemptOutcome
<1>4. InsightTypes'
  BY <1>1, <1>2, <1>3 DEF InsightInv, InsightTypes
<1>5. ASSUME NEW r \in Run PROVE RunInv(v(r), a(r), {}, launches[r], files[r])
  <2>1. /\ runRow[r] \in Row /\ runRow[r].attempt \in Number
        /\ RunInv(runRow[r], attempts[r], oldStart[r], launches[r], files[r])
    BY RunTypes DEF Row
  <2>2. a(r)[runRow[r].attempt] = IF runRow[r].attempt \in oldStart[r] /\ attempts[r][runRow[r].attempt] = "running"
                                 THEN "failed" ELSE attempts[r][runRow[r].attempt]
    BY <2>1
  <2>. HIDE DEF v, a
  <2>3. WorkIsOwned(v(r), launches[r], files[r])
    BY <1>2, <2>1 DEF RunInv, WorkIsOwned
  <2>4. WaitingIsHanded(v(r), launches[r])
    BY <1>2, <2>1 DEF RunInv, WaitingIsHanded
  <2>5. AttemptAgrees(v(r), a(r), {}, files[r])
    BY <1>2, <2>1, <2>2 DEF RunInv, AttemptAgrees
  <2>. QED BY <2>3, <2>4, <2>5 DEF RunInv
<1>. HIDE DEF v, a
<1>. QED
  BY <1>1, <1>4, <1>5 DEF InsightInv

\* A restart ends every goroutine, and what they held grows old.
LEMMA RestartStep == ASSUME InsightInv, Restart PROVE InsightInv'
<1>. DEFINE v(r) == [runRow[r] EXCEPT !.stale = runRow[r].status \in {"queued", "running"}]
            o(r) == {n \in Number : attempts[r][n] = "running"}
<1>1. /\ runRow' = [r \in Run |-> v(r)] /\ oldStart' = [r \in Run |-> o(r)]
      /\ launches' = [r \in Run |-> {}] /\ UNCHANGED <<attempts, files>>
  BY DEF Restart
<1>2. ASSUME NEW r \in Run
      PROVE  /\ v(r) \in Row /\ v(r).attempt = runRow[r].attempt /\ v(r).doc = runRow[r].doc
             /\ v(r).status = runRow[r].status
  <2>. DEFINE c == runRow[r].status \in {"queued", "running"}
  <2>1. c \in BOOLEAN /\ v(r) = [runRow[r] EXCEPT !.stale = c]
    OBVIOUS
  <2>. HIDE DEF c, v
  <2>. QED BY <2>1, RunTypes DEF Row
<1>4. InsightTypes'
  BY <1>1, <1>2 DEF InsightInv, InsightTypes
<1>5. ASSUME NEW r \in Run PROVE RunInv(v(r), attempts[r], o(r), {}, files[r])
  <2>1. /\ runRow[r] \in Row /\ runRow[r].attempt \in Number
        /\ RunInv(runRow[r], attempts[r], oldStart[r], launches[r], files[r])
    BY RunTypes DEF Row
  <2>2. attempts[r][runRow[r].attempt] = "running" => runRow[r].attempt \in o(r)
    BY <2>1
  <2>. HIDE DEF v, o
  <2>3. WorkIsOwned(v(r), {}, files[r]) /\ WaitingIsHanded(v(r), {})
    BY DEF WorkIsOwned, WaitingIsHanded
  <2>4. AttemptAgrees(v(r), attempts[r], o(r), files[r])
    BY <1>2, <2>1, <2>2 DEF RunInv, AttemptAgrees
  <2>. QED BY <2>3, <2>4 DEF RunInv
<1>. HIDE DEF v, o
<1>. QED
  BY <1>1, <1>4, <1>5 DEF InsightInv

\* Every step keeps the inductive invariant.
LEMMA InsightInvStep == ASSUME InsightAssumption PROVE InsightInv /\ [RunNext]_runVars => InsightInv'
<1>. SUFFICES ASSUME InsightInv, [RunNext]_runVars PROVE InsightInv'
  OBVIOUS
<1>1. ASSUME NEW r \in Run, create(r) \/ retryRun(r) \/ Age(r) PROVE InsightInv'
  BY <1>1, CreateStep, RetryStep, AgeStep
<1>2. ASSUME NEW r \in Run, NEW g \in launches[r], claim(r, g) PROVE InsightInv'
  BY <1>2, ClaimStep
<1>3. ASSUME NEW r \in Run, NEW g \in launches[r], perform(r, g) \/ deliverRun(r, g) PROVE InsightInv'
  BY <1>3, WorkflowStep
<1>4. ASSUME NEW r \in Run, NEW g \in launches[r], recordOutcome(r, g) PROVE InsightInv'
  BY <1>4, OutcomeStep
<1>5. CASE sweepStranded
  BY <1>5, SweepStep
<1>6. CASE Restart
  BY <1>6, RestartStep
<1>7. CASE UNCHANGED runVars
  BY <1>7 DEF runVars, InsightInv, InsightTypes
<1>. QED
  BY <1>1, <1>2, <1>3, <1>4, <1>5, <1>6, <1>7 DEF RunNext, RunWork

\* However often the runs are asked for, swept, retried and resumed: one
\* goroutine at most works on a run, on the attempt its row is running, and a run
\* that ended agrees with its attempt's row and links to that attempt's document
\* (claim, ResumeAttempt, FinishAttempt, sweepStranded).
THEOREM AttemptsNeverOverlap == RunSpec => []OneAttemptAtATime
<1>1. InsightInv => OneAttemptAtATime
  <2>. SUFFICES ASSUME InsightInv, NEW r \in Run
                PROVE  /\ \A g, h \in {x \in launches[r] : x.pc \in AtWork} : g = h
                       /\ \A g \in launches[r] :
                            g.pc \in AtWork => runRow[r].status = "running" /\ runRow[r].attempt = g.claimed
                       /\ runRow[r].status = "succeeded" =>
                            /\ runRow[r].doc = runRow[r].attempt /\ runRow[r].doc \in files[r]
                            /\ attempts[r][runRow[r].attempt] = "succeeded"
                       /\ runRow[r].status = "failed" => attempts[r][runRow[r].attempt] \notin {"running", "succeeded"}
    BY DEF OneAttemptAtATime
  <2>. QED BY RunTypes DEF RunInv, WorkIsOwned, AttemptAgrees
<1>. QED
  BY InsightAssumption, InsightInvInit, InsightInvStep, <1>1, PTL DEF RunSpec

-----------------------------------------------------------------------------
(***************************************************************************)
(* RemoteRetention, for any set of meetings, imported or not, and any number *)
(* of faults, outside changes and revisions of the settings.               *)
(***************************************************************************)

(* The inductive invariant.                                                *)

Lifecycle == [state : {"active", "retiring", "retired"}, reason : {"", "deleted", "expired"}]
Steps == {"idle", "look", "intent", "delete", "deleted", "retire", "forget", "purge", "finish"}
Statuses == {"none", "prepared", "delete-intent", "deleted", "completed"}

\* The rows, the steps and what is derived are what they are.
RetirementTypes ==
  /\ life \in [Meeting -> Lifecycle]
  /\ DOMAIN op = Meeting /\ DOMAIN leaf = Meeting /\ DOMAIN destroyed = Meeting
  /\ \A m \in Meeting : op[m].status \in Statuses
  /\ at \in [Meeting -> Steps]
  /\ derived \in [Meeting -> SUBSET Derived]
  /\ writer \in [Meeting -> SUBSET {"index", "marks"}]

\* A plan of the revision in force was made under settings that expire meetings.
PlansAreCurrent ==
  /\ policy.revision \in Nat \ {0} /\ plan \in [Meeting -> Nat]
  /\ \A m \in Meeting : plan[m] <= policy.revision /\ (plan[m] = policy.revision => policy.expires)

\* What is journalled had the right to be, and marks the meeting as retired.
JournalIsWarranted ==
  \A m \in Meeting : op[m].status # "none" => op[m].warranted /\ Retired(m)

\* A retirement that is under way has its operation pending.
StepsArePending == \A m \in Meeting : ~Unheld(m) => IsPending(m)

\* Past each removal, nothing of its kind is left, and no writer is about to bring it back.
ProjectionsAreForgotten ==
  \A m \in Meeting : at[m] \in {"purge", "finish"} \/ op[m].status = "completed" =>
    "index" \notin writer[m] /\ derived[m] \subseteq {"marks"}
MarksArePurged ==
  \A m \in Meeting : at[m] = "finish" \/ op[m].status = "completed" =>
    "marks" \notin writer[m] /\ "marks" \notin derived[m]

RetirementInv ==
  /\ RetirementTypes /\ PlansAreCurrent /\ JournalIsWarranted /\ StepsArePending
  /\ ProjectionsAreForgotten /\ MarksArePurged /\ RetirementIsWarranted

LEMMA RetirementInvInit == RetirementInit => RetirementInv
<1>. SUFFICES ASSUME RetirementInit PROVE RetirementInv
  OBVIOUS
<1>1. RetirementTypes
  <2>1. life \in [Meeting -> Lifecycle] /\ at \in [Meeting -> Steps]
    BY DEF RetirementInit, Lifecycle, Steps
  <2>2. /\ DOMAIN op = Meeting /\ DOMAIN leaf = Meeting /\ DOMAIN destroyed = Meeting
        /\ \A m \in Meeting : op[m].status \in Statuses
    BY DEF RetirementInit, NoOp, Statuses
  <2>3. derived \in [Meeting -> SUBSET Derived] /\ writer \in [Meeting -> SUBSET {"index", "marks"}]
    BY DEF RetirementInit
  <2>. QED
    BY <2>1, <2>2, <2>3 DEF RetirementTypes
<1>2. PlansAreCurrent
  <2>1. policy.revision = 1 /\ policy.expires /\ plan = [m \in Meeting |-> 0]
    BY DEF RetirementInit
  <2>. QED
    BY <2>1 DEF PlansAreCurrent
<1>3. JournalIsWarranted /\ StepsArePending /\ ProjectionsAreForgotten /\ MarksArePurged
  BY DEF RetirementInit, JournalIsWarranted, StepsArePending, ProjectionsAreForgotten, MarksArePurged,
         NoOp, Unheld
<1>4. RetirementIsWarranted
  BY DEF RetirementInit, RetirementIsWarranted
<1>. QED
  BY <1>1, <1>2, <1>3, <1>4 DEF RetirementInv

-----------------------------------------------------------------------------
(* Steps.                                                                  *)

\* Saving the settings makes every plan an old one.
LEMMA SettingsStep == ASSUME RetirementInv, SaveSettings PROVE RetirementInv'
<1>1. PlansAreCurrent'
  BY DEF RetirementInv, PlansAreCurrent, SaveSettings
<1>. QED
  BY <1>1 DEF RetirementInv, RetirementTypes, JournalIsWarranted, StepsArePending, ProjectionsAreForgotten,
     MarksArePurged, RetirementIsWarranted, SaveSettings, Unheld, IsPending, Retired

\* A crash leaves the rows and what is derived, and nobody at work.
LEMMA CrashStep == ASSUME RetirementInv, Crash PROVE RetirementInv'
<1>. USE DEF RetirementInv, Crash
<1>1. RetirementTypes'
  BY DEF RetirementTypes, Steps
<1>2. PlansAreCurrent'
  BY DEF PlansAreCurrent
<1>3. ProjectionsAreForgotten' /\ MarksArePurged'
  BY DEF ProjectionsAreForgotten, MarksArePurged
<1>4. JournalIsWarranted' /\ StepsArePending' /\ RetirementIsWarranted'
  BY DEF JournalIsWarranted, StepsArePending, RetirementIsWarranted, Unheld, IsPending, Retired
<1>. QED
  BY <1>1, <1>2, <1>3, <1>4

\* What the sweep plans it found due under the settings in force.
LEMMA PlanStep ==
  ASSUME RetirementInv, NEW m \in Meeting, runRemoteRetention(m) \/ PlanIsStale(m)
  PROVE  RetirementInv'
<1>1. PlansAreCurrent'
  BY DEF RetirementInv, PlansAreCurrent, runRemoteRetention, PlanIsStale, Due
<1>2. UNCHANGED <<life, op, leaf, derived, media, at, writer, policy, destroyed>>
  BY DEF runRemoteRetention, PlanIsStale
<1>. QED
  BY <1>1, <1>2 DEF RetirementInv, RetirementTypes, JournalIsWarranted, StepsArePending,
     ProjectionsAreForgotten, MarksArePurged, RetirementIsWarranted, Unheld, IsPending, Retired

\* A journalled decision is in force when it is journalled.
LEMMA JournalStep ==
  ASSUME RetirementInv, NEW m \in Meeting, prepareRemoteRetention(m) \/ prepareMeetingDeletion(m)
  PROVE  RetirementInv'
<1>1. PICK action, why : Journal(m, action, why) /\ (action = "delete" \/ policy.expires)
                         /\ why \in {life[m].reason, "deleted"}
  BY DEF RetirementInv, PlansAreCurrent, prepareRemoteRetention, prepareMeetingDeletion
<1>2. plan' = plan \/ plan' = [plan EXCEPT ![m] = 0]
  BY DEF prepareRemoteRetention, prepareMeetingDeletion
<1>3. PlansAreCurrent'
  BY <1>1, <1>2 DEF RetirementInv, PlansAreCurrent, Journal
<1>4. RetirementTypes'
  <2>1. life' \in [Meeting -> Lifecycle] /\ at' \in [Meeting -> Steps]
    BY <1>1 DEF RetirementInv, RetirementTypes, Journal, Lifecycle, Steps
  <2>2. DOMAIN op' = Meeting /\ \A n \in Meeting : op'[n].status \in Statuses
    BY <1>1 DEF RetirementInv, RetirementTypes, Journal, Statuses
  <2>. QED
    BY <1>1, <2>1, <2>2 DEF RetirementInv, RetirementTypes, Journal
<1>5. /\ op'[m].status = "prepared" /\ op'[m].warranted /\ Retired(m)'
      /\ \A n \in Meeting : n # m => op'[n] = op[n] /\ at'[n] = at[n] /\ life'[n] = life[n]
  <2>1. op'[m] = [status |-> "prepared", action |-> action, tag |-> leaf[m].tag,
                  id |-> leaf[m].id, warranted |-> action = "delete" \/ policy.expires]
    BY <1>1, Zenon DEF RetirementInv, RetirementTypes, Journal
  <2>2. op'[m].status = "prepared"
    BY <2>1
  <2>3. op'[m].warranted
    <3>1. op'[m].warranted = (action = "delete" \/ policy.expires)
      BY <2>1
    <3>. QED
      BY <1>1, <3>1, Zenon
  <2>4. life'[m].state = "retiring"
    BY <1>1 DEF RetirementInv, RetirementTypes, Journal
  <2>5. \A n \in Meeting : n # m => op'[n] = op[n] /\ at'[n] = at[n] /\ life'[n] = life[n]
    BY <1>1 DEF RetirementInv, RetirementTypes, Journal
  <2>. QED
    BY <2>2, <2>3, <2>4, <2>5 DEF Retired
<1>6. JournalIsWarranted' /\ StepsArePending'
  BY <1>5 DEF RetirementInv, JournalIsWarranted, StepsArePending, Unheld, IsPending, Retired
<1>7. ProjectionsAreForgotten' /\ MarksArePurged'
  BY <1>1, <1>5 DEF RetirementInv, RetirementTypes, ProjectionsAreForgotten, MarksArePurged, Journal
<1>8. RetirementIsWarranted'
  BY <1>1 DEF RetirementInv, RetirementIsWarranted, Journal
<1>. QED
  BY <1>3, <1>4, <1>6, <1>7, <1>8 DEF RetirementInv

\* A step of the retirement that moves its control point from one to the next
\* and leaves the decision and the ghost alone.
LEMMA RetirementMoves ==
  ASSUME RetirementInv, NEW m \in Meeting, NEW to \in Steps,
         at' = [at EXCEPT ![m] = to],
         to # "idle" => IsPending(m)',
         DOMAIN op' = Meeting, op'[m].status \in Statuses \ {"none"}, op[m].status # "none",
         op'[m].warranted = op[m].warranted,
         \A n \in Meeting : n # m => op'[n] = op[n] /\ life'[n] = life[n] /\ derived'[n] = derived[n],
         life' \in [Meeting -> Lifecycle], Retired(m)',
         derived' \in [Meeting -> SUBSET Derived], derived'[m] \subseteq derived[m],
         to \in {"purge", "finish"} \/ op'[m].status = "completed" =>
           "index" \notin writer[m] /\ derived'[m] \subseteq {"marks"},
         to = "finish" \/ op'[m].status = "completed" =>
           "marks" \notin writer[m] /\ "marks" \notin derived'[m],
         UNCHANGED <<writer, policy, plan>>, DOMAIN leaf' = Meeting, DOMAIN destroyed' = Meeting,
         RetirementIsWarranted'
  PROVE  RetirementInv'
<1>1. RetirementTypes'
  BY DEF RetirementInv, RetirementTypes
<1>2. PlansAreCurrent'
  BY DEF RetirementInv, PlansAreCurrent
<1>3. JournalIsWarranted'
  BY DEF RetirementInv, JournalIsWarranted, Retired
<1>4. StepsArePending'
  BY DEF RetirementInv, RetirementTypes, StepsArePending, Unheld, IsPending
<1>5. ProjectionsAreForgotten' /\ MarksArePurged'
  BY DEF RetirementInv, RetirementTypes, ProjectionsAreForgotten, MarksArePurged
<1>. QED
  BY <1>1, <1>2, <1>3, <1>4, <1>5 DEF RetirementInv

LEMMA RetireStep ==
  ASSUME RetirementInv, NEW m \in Meeting, Retire(m)
  PROVE  RetirementInv'
<1>. USE DEF RetirementInv
<1>a. /\ at[m] # "idle" => op[m].status # "none" /\ op[m].status # "completed"
      /\ op[m].status # "none" => op[m].warranted /\ Retired(m)
      /\ op[m].status \in Statuses
  BY DEF RetirementTypes, StepsArePending, JournalIsWarranted, Unheld, IsPending
<1>1. CASE resumeRemoteRetention(m)
  <2>1. IsPending(m)' /\ Retired(m)' /\ op[m].status \notin {"none", "completed"}
    BY <1>1, <1>a DEF resumeRemoteRetention, IsPending, Retired
  <2>2. RetirementIsWarranted'
    BY <1>1 DEF RetirementIsWarranted, resumeRemoteRetention
  <2>. QED
    BY <1>1, <1>a, <2>1, <2>2, RetirementMoves DEF resumeRemoteRetention, RetirementTypes, Steps
<1>2. CASE Look(m)
  <2>. DEFINE to == CASE ~Intended(m) -> "idle" [] leaf[m].exists -> "intent" [] OTHER -> "deleted"
  <2>1. to \in {"idle", "intent", "deleted"} /\ at' = [at EXCEPT ![m] = to] /\ at[m] = "look"
    BY <1>2 DEF Look, Step
  <2>2. /\ life' \in [Meeting -> Lifecycle] /\ Retired(m)' /\ \A n \in Meeting : n # m => life'[n] = life[n]
        /\ UNCHANGED <<op, leaf, derived, media, destroyed, writer, policy, plan>>
    <3>1. /\ life' = [life EXCEPT ![m].state = "retiring"]
          /\ UNCHANGED <<op, leaf, derived, media, destroyed, writer, policy, plan>>
      BY <1>2 DEF Look, Unchanged
    <3>2. life' \in [Meeting -> Lifecycle] /\ \A n \in Meeting : n # m => life'[n] = life[n]
      BY <3>1 DEF RetirementTypes, Lifecycle
    <3>3. life'[m].state = "retiring"
      BY <3>1 DEF RetirementTypes, Lifecycle
    <3>. QED
      BY <3>1, <3>2, <3>3 DEF Retired
  <2>3. IsPending(m)' /\ op[m].status \notin {"none", "completed"}
    BY <1>a, <2>1, <2>2 DEF StepsArePending, Unheld, IsPending
  <2>4. RetirementIsWarranted'
    BY <2>2 DEF RetirementIsWarranted
  <2>. HIDE DEF to
  <2>5. to \in Steps /\ to \notin {"purge", "finish"}
    BY <2>1 DEF Steps
  <2>. QED
    BY <1>a, <2>1, <2>2, <2>3, <2>4, <2>5, RetirementMoves DEF RetirementTypes
<1>3. CASE SaveDeleteIntent(m)
  <2>1. /\ at[m] = "intent" /\ at' = [at EXCEPT ![m] = "delete"]
        /\ op'[m].status = "delete-intent" /\ op'[m].warranted = op[m].warranted
        /\ DOMAIN op' = Meeting /\ \A n \in Meeting : n # m => op'[n] = op[n]
        /\ UNCHANGED <<life, leaf, derived, media, destroyed, writer, policy, plan>>
    BY <1>3 DEF SaveDeleteIntent, Step, Unchanged, RetirementTypes
  <2>2. IsPending(m)' /\ Retired(m)' /\ RetirementIsWarranted'
    BY <1>a, <2>1 DEF IsPending, Retired, RetirementIsWarranted
  <2>. QED
    BY <1>a, <2>1, <2>2, RetirementMoves DEF RetirementTypes, Steps, Statuses
<1>4. CASE davRetentionDelete(m)
  <2>1. /\ at[m] = "delete" /\ \E to \in {"deleted", "idle"} : at' = [at EXCEPT ![m] = to]
        /\ UNCHANGED <<life, op, derived, media, writer, policy, plan>>
        /\ DOMAIN leaf' = Meeting
    BY <1>4 DEF davRetentionDelete, RetirementTypes
  <2>2. destroyed' = destroyed \/ (destroyed' = Destroy(m) /\ leaf[m].tag = op[m].tag)
    BY <1>4 DEF davRetentionDelete
  <2>3. DOMAIN destroyed' = Meeting /\ RetirementIsWarranted'
    BY <1>a, <2>1, <2>2 DEF Destroy, RetirementIsWarranted, RetirementTypes
  <2>4. IsPending(m)' /\ Retired(m)' /\ op[m].status \notin {"none", "completed"}
    BY <1>a, <2>1 DEF IsPending, Retired, StepsArePending, Unheld
  <2>. QED
    BY <1>a, <2>1, <2>3, <2>4, RetirementMoves DEF RetirementTypes, Steps
<1>5. CASE SaveDeleted(m)
  <2>1. /\ at[m] = "deleted" /\ at' = [at EXCEPT ![m] = "retire"]
        /\ op'[m].status = "deleted" /\ op'[m].warranted = op[m].warranted
        /\ DOMAIN op' = Meeting /\ \A n \in Meeting : n # m => op'[n] = op[n]
        /\ UNCHANGED <<life, leaf, derived, media, destroyed, writer, policy, plan>>
    BY <1>5 DEF SaveDeleted, Step, Unchanged, RetirementTypes
  <2>2. IsPending(m)' /\ Retired(m)' /\ RetirementIsWarranted'
    BY <1>a, <2>1 DEF IsPending, Retired, RetirementIsWarranted
  <2>. QED
    BY <1>a, <2>1, <2>2, RetirementMoves DEF RetirementTypes, Steps, Statuses
<1>6. CASE MarkRetired(m)
  <2>1. /\ at[m] = "retire" /\ at' = [at EXCEPT ![m] = "forget"]
        /\ life' \in [Meeting -> Lifecycle] /\ Retired(m)' /\ \A n \in Meeting : n # m => life'[n] = life[n]
        /\ UNCHANGED <<op, leaf, derived, media, destroyed, writer, policy, plan>>
    <3>1. /\ at[m] = "retire" /\ at' = [at EXCEPT ![m] = "forget"]
          /\ UNCHANGED <<op, leaf, derived, media, destroyed, writer, policy, plan>>
      BY <1>6 DEF MarkRetired, Step, Unchanged
    <3>2. PICK why \in {"deleted", "expired"} :
            life' = [life EXCEPT ![m] = [state |-> "retired", reason |-> why]]
      BY <1>6 DEF MarkRetired
    <3>3. life' \in [Meeting -> Lifecycle] /\ life'[m].state = "retired"
          /\ \A n \in Meeting : n # m => life'[n] = life[n]
      BY <3>2 DEF RetirementTypes, Lifecycle
    <3>. QED
      BY <3>1, <3>3 DEF Retired
  <2>2. IsPending(m)' /\ RetirementIsWarranted' /\ op[m].status \notin {"none", "completed"}
    BY <1>a, <2>1 DEF IsPending, RetirementIsWarranted, StepsArePending, Unheld
  <2>. QED
    BY <1>a, <2>1, <2>2, RetirementMoves DEF RetirementTypes, Steps
<1>7. CASE ForgetProjections(m)
  <2>1. /\ at[m] = "forget" /\ at' = [at EXCEPT ![m] = "purge"] /\ "index" \notin writer[m]
        /\ derived' = [derived EXCEPT ![m] = @ \ {"metadata", "search"}]
        /\ UNCHANGED <<life, op, leaf, media, destroyed, writer, policy, plan>>
    BY <1>7 DEF ForgetProjections, Step, Unchanged
  <2>2. /\ derived' \in [Meeting -> SUBSET Derived] /\ derived'[m] \subseteq derived[m] \cap {"marks"}
        /\ \A n \in Meeting : n # m => derived'[n] = derived[n]
    BY <2>1 DEF RetirementTypes, Derived
  <2>3. /\ IsPending(m)' /\ Retired(m)' /\ RetirementIsWarranted'
        /\ op[m].status \notin {"none", "completed"}
    BY <1>a, <2>1 DEF IsPending, Retired, RetirementIsWarranted, StepsArePending, Unheld
  <2>. QED
    BY <1>a, <2>1, <2>2, <2>3, RetirementMoves DEF RetirementTypes, Steps
<1>8. CASE PurgeMarks(m)
  <2>1. /\ at[m] = "purge" /\ at' = [at EXCEPT ![m] = "finish"] /\ "marks" \notin writer[m]
        /\ derived' = [derived EXCEPT ![m] = @ \ {"marks"}]
        /\ UNCHANGED <<life, op, leaf, media, destroyed, writer, policy, plan>>
    BY <1>8 DEF PurgeMarks, Step, Unchanged
  <2>2. /\ derived' \in [Meeting -> SUBSET Derived] /\ derived'[m] = derived[m] \ {"marks"}
        /\ \A n \in Meeting : n # m => derived'[n] = derived[n]
        /\ "index" \notin writer[m] /\ derived[m] \subseteq {"marks"}
    BY <2>1 DEF RetirementTypes, ProjectionsAreForgotten
  <2>3. /\ IsPending(m)' /\ Retired(m)' /\ RetirementIsWarranted'
        /\ op[m].status \notin {"none", "completed"}
    BY <1>a, <2>1 DEF IsPending, Retired, RetirementIsWarranted, StepsArePending, Unheld
  <2>. QED
    BY <1>a, <2>1, <2>2, <2>3, RetirementMoves DEF RetirementTypes, Steps
<1>9. CASE finishRemoteRetention(m)
  <2>1. /\ at[m] = "finish" /\ at' = [at EXCEPT ![m] = "idle"]
        /\ op'[m].status = "completed" /\ op'[m].warranted = op[m].warranted
        /\ DOMAIN op' = Meeting /\ \A n \in Meeting : n # m => op'[n] = op[n]
        /\ UNCHANGED <<life, leaf, derived, destroyed, writer, policy, plan>>
    BY <1>9 DEF finishRemoteRetention, Step, Unchanged, RetirementTypes
  <2>2. /\ "index" \notin writer[m] /\ derived[m] \subseteq {"marks"}
        /\ "marks" \notin writer[m] /\ "marks" \notin derived[m]
    BY <2>1 DEF ProjectionsAreForgotten, MarksArePurged
  <2>3. Retired(m)' /\ RetirementIsWarranted'
    BY <1>a, <2>1 DEF Retired, RetirementIsWarranted
  <2>. QED
    BY <1>a, <2>1, <2>2, <2>3, RetirementMoves DEF RetirementTypes, Steps, Statuses
<1>. QED
  BY <1>1, <1>2, <1>3, <1>4, <1>5, <1>6, <1>7, <1>8, <1>9 DEF Retire

\* A writer that saw the meeting alive holds its lock, and none begins once the
\* meeting is being retired.
LEMMA WriterStep ==
  ASSUME RetirementInv, NEW m \in Meeting, NEW kind \in {"index", "marks"},
         WriterChecks(m, kind) \/ WriterWrites(m, kind)
  PROVE  RetirementInv'
<1>. USE DEF RetirementInv
<1>1. UNCHANGED <<life, op, leaf, media, at, policy, plan, destroyed>>
  BY DEF WriterChecks, WriterWrites
<1>2. /\ writer' \in [Meeting -> SUBSET {"index", "marks"}] /\ derived' \in [Meeting -> SUBSET Derived]
      /\ \A n \in Meeting : n # m => writer'[n] = writer[n] /\ derived'[n] = derived[n]
  BY DEF WriterChecks, WriterWrites, RetirementTypes, Writes, Derived
<1>3. RetirementTypes' /\ PlansAreCurrent'
  BY <1>1, <1>2 DEF RetirementTypes, PlansAreCurrent
<1>4. JournalIsWarranted' /\ StepsArePending' /\ RetirementIsWarranted'
  BY <1>1 DEF JournalIsWarranted, StepsArePending, RetirementIsWarranted, Unheld, IsPending, Retired
<1>5. at[m] \in {"purge", "finish"} \/ op[m].status = "completed" => Retired(m)
  BY DEF JournalIsWarranted, StepsArePending, Unheld, IsPending
<1>6. ProjectionsAreForgotten'
  <2>1. CASE WriterChecks(m, kind)
    BY <1>1, <1>2, <1>5, <2>1 DEF ProjectionsAreForgotten, WriterChecks
  <2>2. CASE WriterWrites(m, kind)
    <3>1. writer'[m] = writer[m] \ {kind} /\ derived'[m] = derived[m] \cup Writes(kind) /\ kind \in writer[m]
      BY <2>2 DEF WriterWrites, RetirementTypes
    <3>. QED
      BY <1>1, <1>2, <3>1 DEF ProjectionsAreForgotten, Writes
  <2>. QED
    BY <2>1, <2>2
<1>7. MarksArePurged'
  <2>1. CASE WriterChecks(m, kind)
    BY <1>1, <1>2, <1>5, <2>1 DEF MarksArePurged, WriterChecks
  <2>2. CASE WriterWrites(m, kind)
    <3>1. writer'[m] = writer[m] \ {kind} /\ derived'[m] = derived[m] \cup Writes(kind) /\ kind \in writer[m]
      BY <2>2 DEF WriterWrites, RetirementTypes
    <3>. QED
      BY <1>1, <1>2, <3>1 DEF MarksArePurged, Writes
  <2>. QED
    BY <2>1, <2>2
<1>. QED
  BY <1>3, <1>4, <1>6, <1>7

\* The rest touches the file or the media, or gives a retirement up.
LEMMA OtherStep ==
  ASSUME RetirementInv, NEW m \in Meeting,
         \/ attemptMediaCleanup(m) \/ RetirementFails(m)
         \/ OutsideEdits(m) \/ OutsideDeletes(m) \/ OutsideRestores(m) \/ OutsideReplaces(m)
  PROVE  RetirementInv'
<1>. USE DEF RetirementInv
<1>1. /\ UNCHANGED <<life, op, derived, writer, policy, plan, destroyed>>
      /\ at' = at \/ at' = [at EXCEPT ![m] = "idle"]
      /\ DOMAIN leaf' = Meeting
  BY DEF attemptMediaCleanup, RetirementFails, OutsideEdits, OutsideDeletes, OutsideRestores, OutsideReplaces,
         Outside, RetirementTypes
<1>2. RetirementTypes' /\ PlansAreCurrent'
  BY <1>1 DEF RetirementTypes, PlansAreCurrent, Steps
<1>3. \A n \in Meeting : at'[n] = at[n] \/ at'[n] = "idle"
  BY <1>1 DEF RetirementTypes
<1>4. JournalIsWarranted' /\ StepsArePending' /\ RetirementIsWarranted'
  BY <1>1, <1>3 DEF JournalIsWarranted, StepsArePending, RetirementIsWarranted, Unheld, IsPending, Retired
<1>5. ProjectionsAreForgotten' /\ MarksArePurged'
  BY <1>1, <1>3 DEF ProjectionsAreForgotten, MarksArePurged
<1>. QED
  BY <1>2, <1>4, <1>5

LEMMA RetirementInvStep == RetirementInv /\ [RetirementNext]_retirementVars => RetirementInv'
<1>. SUFFICES ASSUME RetirementInv, [RetirementNext]_retirementVars PROVE RetirementInv'
  OBVIOUS
<1>1. CASE SaveSettings \/ Crash
  BY <1>1, SettingsStep, CrashStep
<1>2. ASSUME NEW m \in Meeting, Sweep(m) \/ PlanIsStale(m) \/ prepareMeetingDeletion(m)
      PROVE  RetirementInv'
  BY <1>2, PlanStep, JournalStep DEF Sweep
<1>3. ASSUME NEW m \in Meeting, Retire(m) PROVE RetirementInv'
  BY <1>3, RetireStep
<1>4. ASSUME NEW m \in Meeting, Write(m) \/ \E kind \in {"index", "marks"} : WriterChecks(m, kind)
      PROVE  RetirementInv'
  BY <1>4, WriterStep DEF Write
<1>5. ASSUME NEW m \in Meeting,
             \/ attemptMediaCleanup(m) \/ RetirementFails(m)
             \/ OutsideEdits(m) \/ OutsideDeletes(m) \/ OutsideRestores(m) \/ OutsideReplaces(m)
      PROVE  RetirementInv'
  BY <1>5, OtherStep
<1>6. CASE UNCHANGED retirementVars
  BY <1>6 DEF retirementVars, RetirementInv, RetirementTypes, PlansAreCurrent, JournalIsWarranted,
     StepsArePending, ProjectionsAreForgotten, MarksArePurged, RetirementIsWarranted, Unheld, IsPending,
     Retired
<1>. QED
  BY <1>1, <1>2, <1>3, <1>4, <1>5, <1>6 DEF RetirementNext

\* Whatever fails, crashes, races or changes the file: a retirement deletes
\* only the version it journalled, on a decision in force when it was
\* journalled or at a person's request, and once completed it has left nothing
\* derived from the meeting (remote_retention_retire.go:46, :66).
THEOREM RetirementsAreSafe == RetirementSpec => []RetirementIsSafe
<1>1. RetirementInv => RetirementIsSafe
  <2>. SUFFICES ASSUME RetirementInv PROVE RetirementIsSafe
    OBVIOUS
  <2>1. RetiredLeavesNoTrace
    BY DEF RetirementInv, RetirementTypes, ProjectionsAreForgotten, MarksArePurged, RetiredLeavesNoTrace
  <2>. QED
    BY <2>1 DEF RetirementInv, RetirementIsSafe
<1>. QED
  BY <1>1, RetirementInvInit, RetirementInvStep, PTL DEF RetirementSpec

-----------------------------------------------------------------------------
(***************************************************************************)
(* TalkBackend, for any number of recordings of the room, calls of a callback *)
(* and restarts.                                                           *)
(***************************************************************************)

(* The inductive invariant.                                                *)

TalkRow ==
  [state : {"none", "queued", "running", "failed", "build", "interrupted"},
   binding : BOOLEAN, stopped : BOOLEAN, named : BOOLEAN]

\* The rows, the workers and what spreed was told are what they are.
TalkTypes ==
  /\ room \in {Free, Pending} \cup RecordJob
  /\ talkJobs \subseteq RecordJob
  /\ jobRow \in [RecordJob -> TalkRow] /\ DOMAIN told = RecordJob
  /\ pc \in [RecordJob -> {"none", "done"} \cup Alive]
  /\ notifier \subseteq RecordJob

\* A job has a row once it is bound.
RowsAreBound == \A j \in RecordJob : pc[j] = "none" => jobRow[j].state = "none"

\* The room of a recording that is not over is its own.
RoomIsHeld == \A j \in RecordJob : pc[j] \in Alive => room = j /\ j \in talkJobs

\* Between the notifier's look and its call, a room that is taken was taken since.
LookIsForgiven == checked => window /\ ~known

\* The mark of a stop is the last thing before the hand-off.
StopsAreMarked ==
  \A j \in RecordJob : jobRow[j].stopped => pc[j] \in {"handoff", "leave", "done"}

\* Only a recording that ended without being marked as stopped is reported as failed.
FailedIsOver ==
  \A j \in RecordJob : "failed" \in told[j] => pc[j] \in {"leave", "done"} /\ ~jobRow[j].stopped
InterruptedIsOver == \A j \in notifier : pc[j] = "done" /\ ~jobRow[j].stopped

TalkInv ==
  /\ TalkTypes /\ RowsAreBound /\ RoomIsHeld /\ LookIsForgiven
  /\ StopsAreMarked /\ FailedIsOver /\ InterruptedIsOver /\ ~clobbered

\* A room that is free or reserved is no recording's.
LEMMA RoomsDiffer ==
  ASSUME TalkAssumption PROVE Free \notin RecordJob /\ Pending \notin RecordJob /\ Free # Pending
BY DEF TalkAssumption, Free, Pending, RecordJob

LEMMA TalkInvInit == TalkInit => TalkInv
<1>. SUFFICES ASSUME TalkInit PROVE TalkInv
  OBVIOUS
<1>1. TalkTypes
  BY DEF TalkInit, TalkTypes, TalkRow
<1>2. RowsAreBound /\ RoomIsHeld /\ StopsAreMarked /\ FailedIsOver /\ InterruptedIsOver
  BY DEF TalkInit, RowsAreBound, RoomIsHeld, StopsAreMarked, FailedIsOver, InterruptedIsOver, Alive, Ended
<1>3. LookIsForgiven /\ ~clobbered
  BY Zenon DEF TalkInit, LookIsForgiven
<1>. QED
  BY <1>1, <1>2, <1>3 DEF TalkInv

-----------------------------------------------------------------------------
(* Steps.                                                                  *)

\* A room is reserved, or given back, while no recording has it.
LEMMA ReserveStep ==
  ASSUME TalkAssumption, TalkInv, reserveTalkRoom \/ releaseTalkRoom PROVE TalkInv'
<1>. USE DEF TalkInv
<1>1. UNCHANGED <<talkJobs, jobRow, pc, notifier, told>> /\ room \notin RecordJob /\ room' \in {Free, Pending}
  BY RoomsDiffer DEF reserveTalkRoom, releaseTalkRoom
<1>2. TalkTypes'
  BY <1>1 DEF TalkTypes
<1>3. RowsAreBound' /\ RoomIsHeld' /\ StopsAreMarked' /\ FailedIsOver' /\ InterruptedIsOver'
  BY <1>1 DEF RowsAreBound, RoomIsHeld, StopsAreMarked, FailedIsOver, InterruptedIsOver
<1>4. LookIsForgiven' /\ ~clobbered'
  <2>1. checked' = checked /\ window' = window /\ clobbered' = clobbered
    BY DEF reserveTalkRoom, releaseTalkRoom, ghosts
  <2>2. (known' <=> ~window) \/ (known' <=> known)
    BY Zenon DEF reserveTalkRoom, releaseTalkRoom, ghosts
  <2>. QED
    BY <2>1, <2>2, Zenon DEF LookIsForgiven
<1>. QED
  BY <1>2, <1>3, <1>4

\* A job is made for the reserved room.
LEMMA BindStep == ASSUME TalkAssumption, TalkInv, bindTalkRoomJob PROVE TalkInv'
<1>. USE DEF TalkInv
<1>1. PICK j \in RecordJob :
         /\ room = Pending /\ pc[j] = "none" /\ room' = j /\ talkJobs' = talkJobs \cup {j}
         /\ jobRow' = [jobRow EXCEPT ![j].state = "queued"] /\ pc' = [pc EXCEPT ![j] = "bound"]
         /\ UNCHANGED <<notifier, told>>
  BY DEF bindTalkRoomJob, Goto
<1>2. \A k \in RecordJob : pc[k] \notin Alive
  BY <1>1, RoomsDiffer DEF RoomIsHeld
<1>3. /\ pc'[j] = "bound" /\ \A k \in RecordJob : k # j => pc'[k] = pc[k] /\ jobRow'[k] = jobRow[k]
      /\ \A k \in RecordJob : jobRow'[k].stopped = jobRow[k].stopped
  BY <1>1 DEF TalkTypes, TalkRow
<1>4. TalkTypes'
  BY <1>1 DEF TalkTypes, TalkRow, Alive
<1>5. RowsAreBound' /\ RoomIsHeld'
  BY <1>1, <1>2, <1>3 DEF RowsAreBound, RoomIsHeld
<1>6. StopsAreMarked' /\ FailedIsOver' /\ InterruptedIsOver'
  BY <1>1, <1>3 DEF StopsAreMarked, FailedIsOver, InterruptedIsOver, TalkTypes
<1>7. LookIsForgiven' /\ ~clobbered'
  BY Zenon DEF bindTalkRoomJob, LookIsForgiven, ghosts
<1>. QED
  BY <1>4, <1>5, <1>6, <1>7

\* A worker's step that keeps the room and tells spreed nothing new about a
\* failure: from a control point before the end to another, with the row's
\* mark of a stop set on the way of a stop only.
LEMMA SweepMoves ==
  ASSUME TalkInv, NEW j \in RecordJob, NEW to \in Alive, pc[j] \in Alive,
         pc' = [pc EXCEPT ![j] = to],
         UNCHANGED <<room, talkJobs, notifier, checked, window, known>>,
         jobRow' \in [RecordJob -> TalkRow], DOMAIN told' = RecordJob,
         \A k \in RecordJob : k # j => jobRow'[k] = jobRow[k] /\ told'[k] = told[k],
         "failed" \in told'[j] => to = "leave" /\ ~jobRow'[j].stopped,
         jobRow'[j].stopped => to \in {"handoff", "leave"},
         ~clobbered'
  PROVE  TalkInv'
<1>. USE DEF TalkInv
<1>1. /\ pc'[j] = to /\ \A k \in RecordJob : k # j => pc'[k] = pc[k]
      /\ j \notin notifier /\ to \notin {"none", "done"}
  BY DEF TalkTypes, InterruptedIsOver, Alive, Ended
<1>2. TalkTypes'
  BY <1>1 DEF TalkTypes
<1>3. RowsAreBound' /\ RoomIsHeld'
  BY <1>1 DEF RowsAreBound, RoomIsHeld
<1>4. StopsAreMarked' /\ FailedIsOver' /\ InterruptedIsOver'
  BY <1>1 DEF StopsAreMarked, FailedIsOver, InterruptedIsOver, TalkTypes
<1>5. LookIsForgiven'
  BY Zenon DEF LookIsForgiven
<1>. QED
  BY <1>2, <1>3, <1>4, <1>5

\* What the worker of a recording does before its last step.
LEMMA MeetingWorkStep ==
  ASSUME TalkAssumption, TalkInv, NEW j \in RecordJob,
         \/ SetJobTalkBinding(j) \/ MarkRecordRunning(j) \/ RecorderLive(j) \/ notifyTalkStarted(j)
         \/ RecorderExits(j) \/ notifyTalkFailed(j) \/ notifyTalkStopped(j) \/ MarkTalkStopped(j)
         \/ enqueueBuildJob(j)
  PROVE  TalkInv'
<1>. USE DEF TalkInv
<1>a. /\ \A k \in RecordJob : pc[k] \in Alive \/ pc[k] \in {"none", "done"}
      /\ pc[j] \in Alive /\ pc[j] # "leave"
      /\ room = j /\ j \in talkJobs /\ room \in {Free, j}
  BY DEF SetJobTalkBinding, MarkRecordRunning, RecorderLive, notifyTalkStarted, RecorderExits,
         notifyTalkFailed, notifyTalkStopped, MarkTalkStopped, enqueueBuildJob, Alive, Ended, TalkTypes,
         RoomIsHeld
<1>b. "failed" \notin told[j]
  BY <1>a DEF FailedIsOver, Alive, Ended
<1>c. UNCHANGED <<room, talkJobs, notifier, checked, window, known>>
  BY DEF SetJobTalkBinding, MarkRecordRunning, RecorderLive, notifyTalkStarted, RecorderExits,
         notifyTalkFailed, notifyTalkStopped, MarkTalkStopped, enqueueBuildJob, ghosts
<1>d. jobRow[j].stopped => pc[j] = "handoff"
  BY <1>a DEF StopsAreMarked, Alive, Ended
<1>e. \A o : Clobber(j, o) => ~clobbered'
  <2>1. room = j
    BY <1>a
  <2>2. room \in {Free, j}
    BY <2>1
  <2>. QED
    BY <2>2, Zenon DEF Clobber
<1>1. CASE SetJobTalkBinding(j) \/ MarkRecordRunning(j) \/ RecorderExits(j) \/ enqueueBuildJob(j) \/ RecorderLive(j)
  <2>1. UNCHANGED <<told, clobbered>>
    BY <1>1 DEF SetJobTalkBinding, MarkRecordRunning, RecorderExits, enqueueBuildJob, RecorderLive
  <2>2. PICK to \in Alive : pc' = [pc EXCEPT ![j] = to] /\ (pc[j] = "handoff" => to = "leave")
    BY <1>1 DEF SetJobTalkBinding, MarkRecordRunning, RecorderExits, enqueueBuildJob, RecorderLive, Goto,
                Alive, Ended
  <2>3. /\ jobRow' \in [RecordJob -> TalkRow] /\ \A k \in RecordJob : k # j => jobRow'[k] = jobRow[k]
        /\ jobRow'[j].stopped = jobRow[j].stopped
    <3>1. \/ UNCHANGED jobRow
          \/ \E saved \in BOOLEAN : jobRow' = [jobRow EXCEPT ![j].binding = saved]
          \/ \E state \in {"running", "failed", "build"} : jobRow' = [jobRow EXCEPT ![j].state = state]
      BY <1>1 DEF SetJobTalkBinding, MarkRecordRunning, RecorderExits, enqueueBuildJob, RecorderLive
    <3>2. CASE \E saved \in BOOLEAN : jobRow' = [jobRow EXCEPT ![j].binding = saved]
      BY <3>2 DEF TalkTypes, TalkRow
    <3>3. CASE \E state \in {"running", "failed", "build"} : jobRow' = [jobRow EXCEPT ![j].state = state]
      BY <3>3 DEF TalkTypes, TalkRow
    <3>. QED
      BY <3>1, <3>2, <3>3 DEF TalkTypes
  <2>. QED
    BY <1>a, <1>b, <1>c, <1>d, <2>1, <2>2, <2>3, SweepMoves DEF TalkTypes
<1>2. CASE notifyTalkStarted(j) \/ notifyTalkStopped(j)
  <2>1. PICK o \in Outcome, kind \in {"started", "stopped"} :
          told' = (IF Arrived(o) THEN [told EXCEPT ![j] = @ \cup {kind}] ELSE told)
    BY <1>2 DEF notifyTalkStarted, notifyTalkStopped, Receive
  <2>2. /\ DOMAIN told' = RecordJob /\ "failed" \notin told'[j]
        /\ \A k \in RecordJob : k # j => told'[k] = told[k]
    BY <1>b, <2>1 DEF TalkTypes
  <2>3. /\ UNCHANGED jobRow /\ pc[j] # "handoff"
        /\ \E to \in Alive : pc' = [pc EXCEPT ![j] = to]
    <3>1. CASE notifyTalkStarted(j)
      BY <3>1 DEF notifyTalkStarted, Goto, Alive, Ended
    <3>2. CASE notifyTalkStopped(j)
      <4>1. pc' = pc \/ pc' = [pc EXCEPT ![j] = "stopped_mark"] \/ pc' = [pc EXCEPT ![j] = "handoff"]
        BY <3>2 DEF notifyTalkStopped, Goto
      <4>2. pc = [pc EXCEPT ![j] = "stopped_call"] /\ pc[j] = "stopped_call" /\ UNCHANGED jobRow
        BY <3>2 DEF notifyTalkStopped, TalkTypes
      <4>. QED
        BY <4>1, <4>2 DEF Alive, Ended
    <3>. QED
      BY <1>2, <3>1, <3>2
  <2>4. ~clobbered'
    <3>1. clobbered' = clobbered \/ \E q \in Outcome : Clobber(j, q)
      BY <1>2 DEF notifyTalkStarted, notifyTalkStopped
    <3>. QED
      BY <1>e, <3>1, Zenon
  <2>. QED
    BY <1>a, <1>c, <1>d, <2>2, <2>3, <2>4, SweepMoves DEF TalkTypes
<1>3. CASE notifyTalkFailed(j)
  <2>1. PICK o \in Outcome : /\ told' = (IF Arrived(o) THEN [told EXCEPT ![j] = @ \cup {"failed"}] ELSE told)
                             /\ Clobber(j, o)
    BY <1>3, <1>a DEF notifyTalkFailed, Receive
  <2>2. ~clobbered'
    BY <1>e, <2>1, Zenon
  <2>3. /\ DOMAIN told' = RecordJob
        /\ \A k \in RecordJob : k # j => told'[k] = told[k]
    BY <2>1 DEF TalkTypes
  <2>4. /\ pc[j] = "record_failed" /\ pc' = [pc EXCEPT ![j] = "leave"]
        /\ jobRow' = [jobRow EXCEPT ![j].state = "failed"]
    BY <1>3 DEF notifyTalkFailed, Goto
  <2>6. /\ jobRow' \in [RecordJob -> TalkRow] /\ \A k \in RecordJob : k # j => jobRow'[k] = jobRow[k]
        /\ jobRow'[j].stopped = jobRow[j].stopped
    BY <2>4 DEF TalkTypes, TalkRow
  <2>5. "leave" \in Alive
    BY DEF Alive, Ended
  <2>. QED
    BY <1>a, <1>c, <1>d, <2>2, <2>3, <2>4, <2>5, <2>6, SweepMoves
<1>4. CASE MarkTalkStopped(j)
  <2>1. /\ UNCHANGED <<told, clobbered>> /\ pc' = [pc EXCEPT ![j] = "handoff"]
        /\ jobRow' \in [RecordJob -> TalkRow] /\ \A k \in RecordJob : k # j => jobRow'[k] = jobRow[k]
    BY <1>4 DEF MarkTalkStopped, Goto, TalkTypes, TalkRow
  <2>2. "handoff" \in Alive
    BY DEF Alive, Ended
  <2>. QED
    BY <1>a, <1>b, <1>c, <2>1, <2>2, SweepMoves DEF TalkTypes
<1>. QED
  BY <1>1, <1>2, <1>3, <1>4

\* The worker's last step frees the room, which is nobody else's.
LEMMA MeetingLeaveStep ==
  ASSUME TalkAssumption, TalkInv, NEW j \in RecordJob, clearTalkRoomJobByID(j) PROVE TalkInv'
<1>. USE DEF TalkInv
<1>1. /\ pc[j] = "leave" /\ pc' = [pc EXCEPT ![j] = "done"] /\ room' \in {Free, room}
      /\ talkJobs' = talkJobs \ {j} /\ UNCHANGED <<jobRow, notifier, told, checked, window, known, clobbered>>
  BY DEF clearTalkRoomJobByID, Goto, ghosts
<1>2. \A k \in RecordJob : k # j => pc'[k] = pc[k] /\ pc[k] \notin Alive
  BY <1>1 DEF TalkTypes, RoomIsHeld, Alive, Ended
<1>3. TalkTypes' /\ pc'[j] = "done"
  BY <1>1 DEF TalkTypes
<1>4. RowsAreBound' /\ RoomIsHeld'
  BY <1>1, <1>2, <1>3 DEF RowsAreBound, RoomIsHeld, Alive, Ended
<1>5. StopsAreMarked' /\ FailedIsOver' /\ InterruptedIsOver'
  BY <1>1, <1>2, <1>3 DEF StopsAreMarked, FailedIsOver, InterruptedIsOver, TalkTypes
<1>6. LookIsForgiven' /\ ~clobbered'
  BY <1>1, Zenon DEF LookIsForgiven
<1>. QED
  BY <1>3, <1>4, <1>5, <1>6

\* The room's name is saved on the row of a job that is bound.
LEMMA NameStep ==
  ASSUME TalkInv, NEW j \in RecordJob, storeTalkRoomInfo(j) PROVE TalkInv'
<1>. USE DEF TalkInv
<1>1. /\ UNCHANGED <<room, talkJobs, pc, notifier, told, checked, window, known, clobbered>>
      /\ jobRow' \in [RecordJob -> TalkRow]
      /\ \A k \in RecordJob : jobRow'[k].state = jobRow[k].state /\ jobRow'[k].stopped = jobRow[k].stopped
  BY DEF storeTalkRoomInfo, ghosts, TalkTypes, TalkRow
<1>2. TalkTypes' /\ RowsAreBound' /\ RoomIsHeld'
  BY <1>1 DEF TalkTypes, RowsAreBound, RoomIsHeld
<1>3. StopsAreMarked' /\ FailedIsOver' /\ InterruptedIsOver'
  BY <1>1 DEF StopsAreMarked, FailedIsOver, InterruptedIsOver, TalkTypes
<1>4. LookIsForgiven' /\ ~clobbered'
  BY <1>1, Zenon DEF LookIsForgiven
<1>. QED
  BY <1>2, <1>3, <1>4

\* The notifier looks, and calls about a job that is over while the room is
\* not known to be another's.
LEMMA NotifierStep == ASSUME TalkAssumption, TalkInv, Notifier PROVE TalkInv'
<1>. USE DEF TalkInv
<1>1. CASE CheckLive
  <2>1. UNCHANGED <<room, talkJobs, jobRow, pc, told, clobbered>> /\ notifier' \subseteq notifier
    BY <1>1 DEF CheckLive
  <2>2. TalkTypes' /\ RowsAreBound' /\ RoomIsHeld' /\ StopsAreMarked' /\ FailedIsOver' /\ InterruptedIsOver'
    BY <2>1 DEF TalkTypes, RowsAreBound, RoomIsHeld, StopsAreMarked, FailedIsOver, InterruptedIsOver
  <2>3. LookIsForgiven'
    <3>1. window' /\ known' = (room # Free) /\ ~checked /\ (room # Free => checked' = checked)
      BY <1>1, Zenon DEF CheckLive
    <3>. QED
      BY <3>1, Zenon DEF LookIsForgiven
  <2>. QED
    BY <2>1, <2>2, <2>3
<1>2. CASE NotifyInterruptedTalkRecordings
  <2>1. UNCHANGED <<room, talkJobs, jobRow, pc>> /\ notifier' \subseteq notifier
    BY <1>2 DEF NotifyInterruptedTalkRecordings
  <2>2. PICK j \in notifier, o \in Outcome : Receive(j, "failed", o)
    BY <1>2 DEF NotifyInterruptedTalkRecordings, IsNext
  <2>3. /\ DOMAIN told' = RecordJob
        /\ \A k \in RecordJob : "failed" \in told'[k] => "failed" \in told[k] \/ k = j
    BY <2>2 DEF Receive, TalkTypes
  <2>4. TalkTypes' /\ RowsAreBound' /\ RoomIsHeld' /\ StopsAreMarked' /\ InterruptedIsOver'
    BY <2>1, <2>3 DEF TalkTypes, RowsAreBound, RoomIsHeld, StopsAreMarked, InterruptedIsOver
  <2>5. FailedIsOver'
    BY <2>1, <2>2, <2>3 DEF FailedIsOver, InterruptedIsOver
  <2>6. ~clobbered'
    <3>1. checked /\ ~known
      BY <1>2, Zenon DEF NotifyInterruptedTalkRecordings, LookIsForgiven
    <3>2. clobbered' = clobbered
      BY <1>2, <3>1, Zenon DEF NotifyInterruptedTalkRecordings
    <3>. QED
      BY <3>2, Zenon
  <2>7. LookIsForgiven'
    BY <1>2, Zenon DEF NotifyInterruptedTalkRecordings, LookIsForgiven
  <2>. QED
    BY <2>4, <2>5, <2>6, <2>7
<1>. QED
  BY <1>1, <1>2 DEF Notifier

\* A restart lists rows that were bound and ran, and whose worker it ended.
LEMMA RestartBackendStep == ASSUME TalkAssumption, TalkInv, RestartBackend PROVE TalkInv'
<1>. USE DEF TalkInv
<1>1. /\ room' = Free /\ talkJobs' = {} /\ UNCHANGED told
      /\ pc' = [j \in RecordJob |-> IF pc[j] \in Alive THEN "done" ELSE pc[j]]
      /\ notifier' = {j \in RecordJob : ListInterruptedTalkRecordJobs(j)}
  BY DEF RestartBackend
<1>2. /\ jobRow' \in [RecordJob -> TalkRow]
      /\ \A j \in RecordJob : /\ jobRow'[j].stopped = jobRow[j].stopped
                              /\ jobRow[j].state = "none" => jobRow'[j].state = "none"
  <2>1. jobRow' = [j \in RecordJob |-> [jobRow[j] EXCEPT
          !.state = IF jobRow[j].state \in {"queued", "running"} THEN "interrupted" ELSE jobRow[j].state]]
    BY DEF RestartBackend
  <2>. QED
    BY <2>1 DEF TalkTypes, TalkRow
<1>3. TalkTypes' /\ \A j \in RecordJob : pc'[j] \notin Alive
  BY <1>1, <1>2 DEF TalkTypes, Alive, Ended
<1>4. RowsAreBound' /\ RoomIsHeld'
  BY <1>1, <1>2, <1>3 DEF RowsAreBound, RoomIsHeld
<1>5. StopsAreMarked' /\ FailedIsOver'
  BY <1>1, <1>2 DEF StopsAreMarked, FailedIsOver, TalkTypes
<1>6. InterruptedIsOver'
  <2>1. \A j \in notifier' : j \in RecordJob /\ jobRow[j].state # "none" /\ ~jobRow[j].stopped
    BY <1>1 DEF ListInterruptedTalkRecordJobs
  <2>. QED
    BY <1>1, <1>2, <2>1 DEF InterruptedIsOver, RowsAreBound, TalkTypes
<1>7. LookIsForgiven' /\ ~clobbered'
  BY Zenon DEF RestartBackend, LookIsForgiven
<1>. QED
  BY <1>3, <1>4, <1>5, <1>6, <1>7

LEMMA TalkInvStep == ASSUME TalkAssumption PROVE TalkInv /\ [TalkNext]_talkVars => TalkInv'
<1>. SUFFICES ASSUME TalkInv, [TalkNext]_talkVars PROVE TalkInv'
  OBVIOUS
<1>1. CASE reserveTalkRoom \/ releaseTalkRoom \/ bindTalkRoomJob
  BY <1>1, ReserveStep, BindStep
<1>2. ASSUME NEW j \in RecordJob, SetJobTalkBinding(j) \/ storeTalkRoomInfo(j) \/ Worker(j)
      PROVE  TalkInv'
  BY <1>2, MeetingWorkStep, MeetingLeaveStep, NameStep DEF Worker
<1>3. CASE Notifier
  BY <1>3, NotifierStep
<1>4. CASE RestartBackend
  BY <1>4, RestartBackendStep
<1>5. CASE UNCHANGED talkVars
  <2>1. UNCHANGED <<room, talkJobs, jobRow, pc, notifier, told, checked, window, known, clobbered>>
    BY <1>5 DEF talkVars, ghosts
  <2>2. TalkTypes' /\ RowsAreBound' /\ RoomIsHeld' /\ StopsAreMarked' /\ FailedIsOver' /\ InterruptedIsOver'
    BY <2>1 DEF TalkInv, TalkTypes, RowsAreBound, RoomIsHeld, StopsAreMarked, FailedIsOver, InterruptedIsOver
  <2>3. LookIsForgiven' /\ ~clobbered'
    BY <2>1, Zenon DEF TalkInv, LookIsForgiven
  <2>. QED
    BY <2>2, <2>3 DEF TalkInv
<1>. QED
  BY <1>1, <1>2, <1>3, <1>4, <1>5 DEF TalkNext

\* However often callbacks are retried, answers are lost and the operator
\* restarts: a callback about one recording never meets another's room, unless
\* that one began between the notifier's look and its call, and a recording
\* marked as stopped was never reported as failed (talkRoomLiveWithOtherJob,
\* talk_stopped_at).
THEOREM CallbacksAreAlwaysHonest == TalkSpec => []CallbacksAreHonest
<1>1. TalkInv => CallbacksAreHonest
  BY DEF TalkInv, FailedIsOver, CallbacksAreHonest
<1>. QED
  BY <1>1, TalkInvInit, TalkInvStep, TalkAssumption, PTL DEF TalkSpec
=============================================================================
