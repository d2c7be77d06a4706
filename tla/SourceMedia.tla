----------------------------- MODULE SourceMedia -----------------------------
(***************************************************************************)
(* The media of one job on the operator's disk: how a stage's output takes *)
(* the place of the canonical copy (two renames, with the old copy aside), *)
(* what a restart makes of an interrupted swap, and how a job whose policy *)
(* deletes its source media is emptied once it is over.                    *)
(*                                                                         *)
(* A directory is a number: 0 none, n the output of attempt n, and Torn a  *)
(* copy that is not whole. The job's artifact lock is held by its stage    *)
(* worker, so a stage and the disposal never overlap; the archive readers' *)
(* gate is only tried.  The other disposal of the code, that of a meeting  *)
(* people deleted, is left out: it takes any job, seals and logs included, *)
(* and an attempt that was queued before it may write after it.            *)
(***************************************************************************)
EXTENDS Naturals

CONSTANTS
  MaxAttempts,   \* bound: attempts of the job
  MaxRestarts,   \* bound: restarts of the operator
  MaxFaults      \* bound: file operations that fail

\* What is assumed of the constants.
ASSUME MediaAssumption == MaxAttempts \in Nat \ {0} /\ MaxRestarts \in Nat /\ MaxFaults \in Nat

Attempt == 1..MaxAttempts
None == 0
Torn == MaxAttempts + 1

VARIABLES
  deletes,    \* the policy of the job: its source media go once it is over
  attempt,    \* the current attempt
  state,      \* "queued", "running", "done" (succeeded or failed), "interrupted"
  ownDirs,    \* attempts whose own directories are there
  staging,    \* current/.staging/<name>
  backup,     \* current/.staging/<name>.backup
  dest,       \* current/<name>
  holder,     \* the holder of the job's artifact lock, and where it is
  reading,    \* an archive-wide reader holds the gate
  removal,    \* targets of the removal under way, saved before the first one goes
  cleanup,    \* media_cleanup.status
  restarts, faults,
  promoted    \* ghost: an attempt's output has taken the canonical place

files == <<ownDirs, staging, backup, dest>>
bounds == <<restarts, faults>>
sourceVars == <<deletes, attempt, state, files, holder, reading, removal, cleanup, bounds, promoted>>

SourceInit ==
  /\ deletes \in BOOLEAN
  /\ attempt = 1
  /\ state = "queued"
  /\ ownDirs = {}
  /\ staging = None /\ backup = None /\ dest = None
  /\ holder = "idle"
  /\ reading = FALSE
  /\ removal = {}
  /\ cleanup = "waiting"
  /\ restarts = 0 /\ faults = 0
  /\ promoted = FALSE

Hold(l) == holder' = l
Fault == faults < MaxFaults /\ faults' = faults + 1
Idle == holder = "idle"

-----------------------------------------------------------------------------
(* A stage. *)

\* A worker takes the lock and writes the attempt's own directory.
RunStage ==
  /\ Idle /\ state = "queued"
  /\ state' = "running"
  /\ ownDirs' = ownDirs \cup {attempt}
  /\ Hold("copy")
  /\ UNCHANGED <<deletes, attempt, staging, backup, dest, reading, removal, cleanup, bounds, promoted>>

\* promoteDirectory clears what an earlier promotion left and copies anew.
BeginCopy ==
  /\ holder = "copy"
  /\ staging' = Torn
  /\ Hold("copying")
  /\ UNCHANGED <<deletes, attempt, state, ownDirs, backup, dest, reading, removal, cleanup, bounds, promoted>>

\* The copy, or a failure of it, whose leftovers may resist removal too.
copyDirectory ==
  /\ holder = "copying"
  /\ \/ staging' = attempt /\ Hold("aside") /\ UNCHANGED faults
     \/ Fault /\ staging' \in {None, Torn} /\ Hold("failed")
  /\ UNCHANGED <<deletes, attempt, state, ownDirs, backup, dest, reading, removal, cleanup, restarts, promoted>>

\* The old copy moves aside, over whatever backup there was.
MoveAside ==
  /\ holder = "aside"
  /\ \/ /\ dest # None
        /\ \/ backup' = dest /\ dest' = None /\ Hold("place") /\ UNCHANGED <<staging, faults>>
           \/ Fault /\ backup' = None /\ staging' \in {None, staging} /\ Hold("failed") /\ UNCHANGED dest
     \/ dest = None /\ Hold("place_new") /\ UNCHANGED <<backup, dest, staging, faults>>
  /\ UNCHANGED <<deletes, attempt, state, ownDirs, reading, removal, cleanup, restarts, promoted>>

\* The new copy takes its place; a failure puts the old one back, if that works.
Place ==
  /\ holder \in {"place", "place_new"}
  /\ \/ /\ dest' = staging /\ staging' = None
        /\ promoted' = TRUE
        /\ Hold(IF holder = "place" THEN "drop" ELSE "over")
        /\ UNCHANGED <<backup, faults>>
     \/ /\ Fault
        /\ Hold("failed")
        /\ \/ /\ holder = "place"
              /\ \/ dest' = backup /\ backup' = None /\ staging' \in {None, staging}
                 \/ UNCHANGED <<dest, backup, staging>>
           \/ holder = "place_new" /\ staging' \in {None, staging} /\ UNCHANGED <<dest, backup>>
        /\ UNCHANGED promoted
  /\ UNCHANGED <<deletes, attempt, state, ownDirs, reading, removal, cleanup, restarts>>

DropBackup ==
  /\ holder = "drop"
  /\ \/ backup' = None /\ UNCHANGED faults
     \/ Fault /\ UNCHANGED backup
  /\ Hold("over")
  /\ UNCHANGED <<deletes, attempt, state, ownDirs, staging, dest, reading, removal, cleanup, restarts, promoted>>

\* The job is over, for better or worse; the worker disposes of the media before
\* it gives the lock back, unless an archive reader holds the gate.
FinishStage ==
  /\ holder \in {"over", "failed"}
  /\ state' = "done"
  /\ \/ deletes /\ ~reading /\ Hold("dispose")
     \/ (~deletes \/ reading) /\ Hold("idle")
  /\ UNCHANGED <<deletes, attempt, files, reading, removal, cleanup, bounds, promoted>>

\* A job whose media go is not processed again.
Rerun ==
  /\ Idle /\ ~deletes /\ state \in {"done", "interrupted"} /\ attempt < MaxAttempts
  /\ attempt' = attempt + 1
  /\ state' = "queued"
  /\ UNCHANGED <<deletes, files, holder, reading, removal, cleanup, bounds, promoted>>

-----------------------------------------------------------------------------
(* Disposal. *)

\* Nobody deletes the meeting here: the policy alone decides.
terminalMediaJob == state \in {"done", "interrupted"}
mediaDisposalEligible == deletes /\ terminalMediaJob

\* The archive-wide reader of the search backfill.
ReadArchive ==
  /\ holder \notin {"dispose", "remove"} /\ ~reading
  /\ reading' = TRUE
  /\ UNCHANGED <<deletes, attempt, state, files, holder, removal, cleanup, bounds, promoted>>
StopReading ==
  /\ reading
  /\ reading' = FALSE
  /\ UNCHANGED <<deletes, attempt, state, files, holder, removal, cleanup, bounds, promoted>>

\* The periodic pass: the gate and the lock are tried, and an obligation whose
\* retry is due is taken up.
runMediaCleanupPass ==
  /\ Idle /\ ~reading
  /\ mediaDisposalEligible /\ cleanup # "completed"
  /\ Hold("dispose")
  /\ UNCHANGED <<deletes, attempt, state, files, reading, removal, cleanup, bounds, promoted>>

OwnAndCanonical ==
  {<<"own", n>> : n \in ownDirs} \cup {<<"dest", 0>> : x \in {dest} \ {None}}

\* Mutant of Media: the staging root is forgotten.
MediaInPlace == OwnAndCanonical

\* Everything of the job that holds media: its attempts' own directories, the
\* canonical copy, and what a promotion keeps in the staging root.
Media ==
  OwnAndCanonical
    \cup {<<"staging", 0>> : x \in {staging} \ {None}}
    \cup {<<"backup", 0>> : x \in {backup} \ {None}}

\* A pending operation is finished first; then everything there is becomes the
\* targets of a removal that is saved before it begins.
cleanupJobMedia ==
  /\ holder = "dispose" /\ removal = {}
  /\ removal' = Media
  /\ cleanup' = "pending"
  /\ Hold("remove")
  /\ UNCHANGED <<deletes, attempt, state, files, reading, bounds, promoted>>

removeMediaPaths(t) ==
  /\ holder \in {"dispose", "remove"} /\ t \in removal
  /\ \/ /\ ownDirs' = IF t[1] = "own" THEN ownDirs \ {t[2]} ELSE ownDirs
        /\ staging' = IF t[1] = "staging" THEN None ELSE staging
        /\ backup' = IF t[1] = "backup" THEN None ELSE backup
        /\ dest' = IF t[1] = "dest" THEN None ELSE dest
        /\ removal' = removal \ {t}
        /\ UNCHANGED <<holder, cleanup, faults>>
     \/ /\ Fault
        /\ cleanup' = "error"
        /\ Hold("idle")
        /\ UNCHANGED <<files, removal>>
  /\ UNCHANGED <<deletes, attempt, state, reading, restarts, promoted>>

\* Every journal is done: the obligation is met, in one transaction.
CompleteCleanup ==
  /\ holder = "remove" /\ removal = {}
  /\ cleanup' = "completed"
  /\ Hold("idle")
  /\ UNCHANGED <<deletes, attempt, state, files, reading, removal, bounds, promoted>>

-----------------------------------------------------------------------------
(* Restart. *)

\* Mutant of reconciledDest: the staging root is emptied.
EmptyStaging == dest

\* A backup without its destination was moved aside just before the crash and
\* goes back.
reconciledDest == IF backup # None /\ dest = None THEN backup ELSE dest

\* Every other entry of the staging root is dropped.
reconcilePromotionStaging == backup' = None /\ staging' = None

\* The journal that was open is replayed: what it names goes, unless that fails.
recoverArtifactOperations ==
  LET left == {t \in removal : t[1] \in {"own", "dest"}}
  IN  \E gone \in SUBSET left :
        /\ dest' = IF <<"dest", 0>> \in gone THEN None ELSE reconciledDest
        /\ ownDirs' = {n \in ownDirs : <<"own", n>> \notin gone}
        /\ removal' = left \ gone

\* The sweep interrupts what was running, and a recording that was queued; a
\* queued build, seal or publish is delivered again.  The staging root is put in
\* order before the journal is replayed; the rest is left to the pass.
Restart ==
  /\ restarts < MaxRestarts
  /\ restarts' = restarts + 1
  /\ reconcilePromotionStaging /\ recoverArtifactOperations
  /\ state' \in CASE state = "running" -> {"interrupted"}
                  [] state = "queued"  -> {"queued", "interrupted"}
                  [] OTHER             -> {state}
  /\ Hold("idle")
  /\ reading' = FALSE
  /\ UNCHANGED <<deletes, attempt, cleanup, faults, promoted>>

-----------------------------------------------------------------------------
SourceNext ==
  \/ RunStage \/ BeginCopy \/ copyDirectory \/ MoveAside \/ Place \/ DropBackup \/ FinishStage \/ Rerun
  \/ ReadArchive \/ StopReading
  \/ runMediaCleanupPass \/ cleanupJobMedia \/ (\E t \in removal : removeMediaPaths(t)) \/ CompleteCleanup
  \/ Restart

\* The disposal worker passes every half minute, a stage that began goes on, and
\* an archive reader finishes.
SourceFairness ==
  /\ WF_sourceVars(RunStage \/ BeginCopy \/ copyDirectory \/ MoveAside \/ Place \/ DropBackup \/ FinishStage)
  /\ WF_sourceVars(StopReading) /\ SF_sourceVars(runMediaCleanupPass)
  /\ WF_sourceVars(cleanupJobMedia \/ (\E t \in removal : removeMediaPaths(t)) \/ CompleteCleanup)

SourceSpec == SourceInit /\ [][SourceNext]_sourceVars /\ SourceFairness

-----------------------------------------------------------------------------
\* From the first promotion on a whole canonical copy is in its place or aside,
\* whatever fails and wherever the operator stops, until the job is disposed of
\* (replaceStagedDirectory, reconcilePromotionStaging).
CanonicalCopySurvives ==
  /\ promoted /\ ~(mediaDisposalEligible) => dest \in Attempt \/ backup \in Attempt
  /\ dest # Torn

\* A disposal that reads as completed left nothing behind, and nothing appears
\* afterwards (CompleteCleanup, reconcilePromotionStaging).
CompletedIsEmpty == cleanup = "completed" => ownDirs = {} /\ {staging, backup, dest} = {None}

\* A job whose media go is emptied for good once it is over, and nothing of it comes back:
\* neither a failed removal nor a swap a restart repaired leaves bytes behind a
\* disposal that reads as completed.
MediaIsDisposed ==
  mediaDisposalEligible
    ~> [](cleanup = "completed" /\ ownDirs = {} /\ {staging, backup, dest} = {None})

=============================================================================
