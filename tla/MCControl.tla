------------------------------ MODULE MCControl ------------------------------
(***************************************************************************)
(* Instance for TLC of what surrounds a job of the pipeline: how its       *)
(* recording is stopped, how recordings and builds share the machine, the  *)
(* archive of published files, and its source media. No two of them share  *)
(* a variable, so a behaviour of the operator is a merge of one of each,   *)
(* and looking at one at a time loses none of the states they reach.       *)
(***************************************************************************)
EXTENDS RecordStop, RecordingPriority, ArtifactArchive, SourceMedia

VARIABLE
  part   \* the component this behaviour is about

stop ==
  <<stage, store, reg, attached, signalled, stopInProgress, done, proc, termed, sent, talkFailed,
     enforcers, watch, shutdown, hpc, answer>>
priority ==
  <<policy, slots, rec, quiet, gate, build, priorityBuildCancel, fresh, autoCanStart,
     autoCanContinue, startSamples, badSamples>>
archive ==
  <<sealOnly, flight, latest, current, own, staged, old, journal, published, output, pc, index,
     boot, clean>>
source ==
  <<deletes, attempt, state, ownDirs, staging, backup, dest, holder, reading, removal, cleanup,
     restarts, faults, promoted>>
vars == <<part, stop, priority, archive, source>>

Init ==
  /\ part \in {"stop", "priority", "archive", "source"}
  /\ StopInit /\ PriorityInit /\ ArchiveInit /\ SourceInit
  \* a component nobody looks at has one initial state
  /\ part # "priority" => policy = "auto"
  /\ part # "source" => deletes
  /\ part # "archive" => sealOnly

\* A step of one component.
StopOnly     == part = "stop" /\ UNCHANGED <<part, priority, archive, source>>
PriorityOnly == part = "priority" /\ UNCHANGED <<part, stop, archive, source>>
ArchiveOnly  == part = "archive" /\ UNCHANGED <<part, stop, priority, source>>
SourceOnly   == part = "source" /\ UNCHANGED <<part, stop, priority, archive>>

Next ==
  \/ StopOnly /\ StopNext
  \/ PriorityOnly /\ PriorityNext
  \/ ArchiveOnly /\ ArchiveNext
  \/ SourceOnly /\ SourceNext

\* The fairness of the specifications.
Copying ==
  \/ RunStage \/ BeginCopy \/ copyDirectory \/ MoveAside
  \/ Place \/ DropBackup \/ FinishStage
Disposal ==
  cleanupJobMedia \/ (\E t \in removal : removeMediaPaths(t)) \/ CompleteCleanup

Fairness ==
  /\ WF_vars(StopOnly /\ RecordGoroutine)
  /\ \A h \in Stopper : WF_vars(StopOnly /\ StopHandler(h))
  /\ WF_vars(StopOnly /\ Enforcer)
  /\ WF_vars(StopOnly /\ stopRecordProcessOnShutdown)
  /\ \A r \in Recording : WF_vars(PriorityOnly /\ releaseRecordSlot(r))
  /\ WF_vars(PriorityOnly /\ GracePasses)
  /\ \A b \in Builder :
       /\ SF_vars(PriorityOnly /\ TakeBuildGate(b))
       /\ WF_vars(PriorityOnly /\ beginBackgroundBuild(b))
       /\ WF_vars(PriorityOnly /\ BuildEnds(b))
  /\ WF_vars(SourceOnly /\ Copying)
  /\ WF_vars(SourceOnly /\ StopReading)
  /\ SF_vars(SourceOnly /\ runMediaCleanupPass)
  /\ WF_vars(SourceOnly /\ Disposal)

Spec == Init /\ [][Next]_vars /\ Fairness

\* A recorded stop, and a shutdown, end the recording (RecordStop).
StopsEnd == RecordedStopEnds /\ ShutdownEnds
\* Builds are not starved for good, and one runs beside a recording only on
\* fresh headroom (RecordingPriority).
BuildsAreServed == BuildsDrain /\ OverlapNeedsHeadroom
==============================================================================
