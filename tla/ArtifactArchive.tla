--------------------------- MODULE ArtifactArchive ---------------------------
(***************************************************************************)
(* The archive of one job: the canonical (meeting, seal) pair, the         *)
(* per-attempt files it is made from, the journal of the one pending       *)
(* artifact operation, and the availability record.  Promotions and        *)
(* expiries are journalled and replayed after a crash.  The job's artifact *)
(* mutex serializes them, so there is one control point.                   *)
(*                                                                         *)
(* A job that deletes its source media archives the seal alone and is      *)
(* never run again (sealOnly).  The adoption of a canonical pair that is   *)
(* older than the availability record, and the disposal of a meeting       *)
(* people deleted, are left out.                                           *)
(*                                                                         *)
(* A file is the number of the attempt whose version it is; 0: no file.    *)
(***************************************************************************)
EXTENDS Naturals, Sequences

CONSTANTS
  MaxPublications   \* bound: publications of the job

\* What is assumed of the constants.
ASSUME ArchiveAssumption == MaxPublications \in Nat \ {0}

Attempts == 1..MaxPublications
Pair     == {"meeting", "seal"}
Own      == {"ownSeal", "ownMeeting"}   \* an attempt's seal and meeting directories

VARIABLES
  sealOnly,  \* the job deletes its source media, its meetings among them
  flight,    \* the job is not "done": an attempt is on its way, or was interrupted
  latest,    \* the last attempt whose publication was recorded; 0: none
  current,   \* [Pair -> attempt]: current/<job>.meeting and current/<job>.opus
  own,       \* [Own -> set of attempts that still have the file]
  staged,    \* [Pair -> attempt]: new-0, new-1 in the operation directory
  old,       \* [Pair \cup Own -> attempt]: old-i in the operation directory
  journal,   \* the row of artifact_operations
  published, \* artifact_availability.published_attempt
  output,    \* artifact_availability.output
  pc, index, \* control point, and target finishOperation is at
  boot,      \* the operator is starting and has no workers yet
  clean      \* no operation has failed since the last start

archiveVars ==
  <<sealOnly, flight, latest, current, own, staged, old, journal, published, output, pc, index,
     boot, clean>>
\* What an operation on files leaves alone: the job.
jobVars == <<sealOnly, flight, latest>>

NoOp    == [kind |-> "none", attempt |-> 0]
Kinds   == {"promote", "current", "superseded", "disposal"}

\* The targets of each operation, in the order they are processed.
Targets == [promote    |-> <<"meeting", "seal">>,
            current    |-> <<"meeting", "seal", "ownSeal", "ownMeeting">>,
            superseded |-> <<"ownSeal", "ownMeeting">>,
            disposal   |-> <<"ownMeeting">>,
            none       |-> <<>>]

EmptyPair == [f \in Pair |-> 0]
EmptyDir  == [f \in Pair \cup Own |-> 0]

\* The file that the archive has of attempt a.
Of(f, a) == IF sealOnly /\ f = "meeting" THEN 0 ELSE a

\* The files that its promotion needs.
Needed == IF sealOnly THEN {"ownSeal"} ELSE Own

Goto(l) == pc' = l

-----------------------------------------------------------------------------
(* The job's attempts.                                                     *)

\* The job stands at "done" and takes a new attempt: a rerun, speaker edits, a
\* summary.  None is admitted while an operation is pending (artifactAdmission),
\* nor to a job that deletes its media.
QueueRerunAttempt ==
  /\ pc = "idle" /\ ~boot
  /\ ~flight /\ ~sealOnly
  /\ journal = NoOp
  /\ flight' = TRUE
  /\ UNCHANGED <<sealOnly, latest, current, own, staged, old, journal, published, output, pc, index,
                  boot, clean>>

\* An attempt ends without a publication.
AttemptFails ==
  /\ pc = "idle" /\ ~boot
  /\ flight
  /\ flight' = FALSE
  /\ UNCHANGED <<sealOnly, latest, current, own, staged, old, journal, published, output, pc, index,
                  boot, clean>>

-----------------------------------------------------------------------------
(* Promotion of a published pair.                                          *)

\* A publication is recorded, which ends the attempt, and its worker goes on to
\* promote the archive.
RecordPublication ==
  /\ pc = "idle" /\ ~boot
  /\ flight
  /\ latest < MaxPublications
  /\ flight' = FALSE
  /\ latest' = latest + 1
  /\ own' = [f \in Own |-> own[f] \cup {latest + 1}]
  /\ Goto("promote")
  /\ UNCHANGED <<sealOnly, current, staged, old, journal, published, output, index, boot, clean>>

\* promotePublishedPair has nothing to do, or refuses because of a pending
\* operation; otherwise it starts from an empty operation directory.  The
\* meeting of a job that deletes its media is missing by design.
promotePublishedPair ==
  /\ pc = "promote"
  /\ \/ /\ published = latest
        /\ Goto("prune")
        /\ UNCHANGED <<staged, old>>
     \/ /\ published # latest /\ journal # NoOp
        /\ Goto(IF boot THEN "prune" ELSE "idle")
        /\ UNCHANGED <<staged, old>>
     \/ /\ published # latest /\ journal = NoOp
        /\ staged' = EmptyPair /\ old' = EmptyDir
        /\ Goto(IF sealOnly THEN "linkSeal" ELSE "copyMeeting")
  /\ UNCHANGED <<jobVars, current, own, journal, published, output, index, boot, clean>>

\* copyDirectory of the attempt's meeting, then a hard link to its seal. That
\* what is needed is there is UnpromotedKeepsItsFiles.
StageMeeting ==
  /\ pc = "copyMeeting"
  /\ latest \in own["ownMeeting"]
  /\ staged' = [staged EXCEPT !["meeting"] = latest]
  /\ Goto("linkSeal")
  /\ UNCHANGED <<jobVars, current, own, old, journal, published, output, index, boot, clean>>

StageSeal ==
  /\ pc = "linkSeal"
  /\ latest \in own["ownSeal"]
  /\ staged' = [staged EXCEPT !["seal"] = latest]
  /\ Goto("save")
  /\ UNCHANGED <<jobVars, current, own, old, journal, published, output, index, boot, clean>>

\* The recovery promise becomes durable after the replacements are.
saveOperation ==
  /\ pc = "save"
  /\ journal' = [kind |-> "promote", attempt |-> latest]
  /\ index' = 1
  /\ Goto("target")
  /\ UNCHANGED <<jobVars, current, own, staged, old, published, output, boot, clean>>

-----------------------------------------------------------------------------
(* finishOperation, from the worker that saved the journal or on recovery. *)

\* An operation is being worked on, under its journal.
Working == {"target", "place", "removeDir", "delete"}

Target == Targets[journal.kind][index]
AtTarget == pc = "target" /\ index <= Len(Targets[journal.kind])

\* Nothing is to take the target's place: an expiry, a disposal, or the meeting
\* of a promotion that has none.
RemoveOnly == journal.kind # "promote" \/ (sealOnly /\ Target = "meeting")

\* What the target path holds.
Held(f) == IF f \in Pair THEN current[f]
           ELSE IF journal.attempt \in own[f] THEN journal.attempt ELSE 0

\* The staged replacement is gone: this target was finished before a crash.
SkipTarget ==
  /\ AtTarget
  /\ ~RemoveOnly /\ staged[Target] = 0
  /\ index' = index + 1
  /\ UNCHANGED <<jobVars, current, own, staged, old, journal, published, output, pc, boot, clean>>

\* Mutant of SetAside: the version set aside before a crash is not looked for.
SetAsideAgain ==
  /\ AtTarget
  /\ ~RemoveOnly => staged[Target] # 0
  /\ old' = [old EXCEPT ![Target] = Held(Target)]
  /\ current' = IF Target \in Pair THEN [current EXCEPT ![Target] = 0] ELSE current
  /\ own' = IF Target \in Own THEN [own EXCEPT ![Target] = @ \ {journal.attempt}] ELSE own
  /\ IF RemoveOnly THEN index' = index + 1 /\ UNCHANGED pc
                   ELSE Goto("place") /\ UNCHANGED index
  /\ UNCHANGED <<jobVars, staged, journal, published, output, boot, clean>>

\* The version at the target moves into the operation directory, unless one is
\* there already.  Where nothing takes its place the target is then done.
SetAside ==
  /\ AtTarget
  /\ ~RemoveOnly => staged[Target] # 0
  /\ IF old[Target] = 0
     THEN /\ old' = [old EXCEPT ![Target] = Held(Target)]
          /\ current' = IF Target \in Pair THEN [current EXCEPT ![Target] = 0] ELSE current
          /\ own' = IF Target \in Own THEN [own EXCEPT ![Target] = @ \ {journal.attempt}] ELSE own
     ELSE UNCHANGED <<old, current, own>>
  /\ IF RemoveOnly THEN index' = index + 1 /\ UNCHANGED pc
                   ELSE Goto("place") /\ UNCHANGED index
  /\ UNCHANGED <<jobVars, staged, journal, published, output, boot, clean>>

PlaceStaged ==
  /\ pc = "place"
  /\ current' = [current EXCEPT ![Target] = staged[Target]]
  /\ staged' = [staged EXCEPT ![Target] = 0]
  /\ index' = index + 1
  /\ Goto("target")
  /\ UNCHANGED <<jobVars, own, old, journal, published, output, boot, clean>>

\* The availability record follows the files, in one transaction.
RecordOperation ==
  /\ pc = "target" /\ index > Len(Targets[journal.kind])
  /\ published' = IF journal.kind = "promote" THEN journal.attempt ELSE published
  /\ output' = CASE journal.kind = "promote" -> "present"
                 [] journal.kind = "current" -> "expired"
                 [] OTHER -> output
  /\ Goto("removeDir")
  /\ UNCHANGED <<jobVars, current, own, staged, old, journal, index, boot, clean>>

RemoveOperationDir ==
  /\ pc = "removeDir"
  /\ staged' = EmptyPair /\ old' = EmptyDir
  /\ Goto("delete")
  /\ UNCHANGED <<jobVars, current, own, journal, published, output, index, boot, clean>>

\* A recovery goes on to the startup pass; after a promotion its duplicates are
\* pruned (a disposal that finishes one takes them as well).
DeleteJournal ==
  /\ pc = "delete"
  /\ journal' = NoOp
  /\ Goto(IF boot THEN "reconcile" ELSE IF journal.kind = "promote" THEN "prune" ELSE "idle")
  /\ UNCHANGED <<jobVars, current, own, staged, old, published, output, index, boot, clean>>

\* Only the promoted attempt's own meeting is a duplicate, and only while no
\* operation is pending.
pruneArtifactsForJob ==
  /\ pc = "prune"
  /\ own' = IF journal = NoOp THEN [own EXCEPT !["ownMeeting"] = @ \ {published}] ELSE own
  /\ boot' = FALSE
  /\ Goto("idle")
  /\ UNCHANGED <<jobVars, current, staged, old, journal, published, output, index, clean>>

-----------------------------------------------------------------------------
(* Expiry and disposal.                                                    *)

Start(kind, a) ==
  /\ staged' = EmptyPair /\ old' = EmptyDir
  /\ journal' = [kind |-> kind, attempt |-> a]
  /\ index' = 1
  /\ Goto("target")

\* The retention sweep finds the archive, or the files of a superseded
\* publication, past their policy.  It passes over a job that is not at "done",
\* whose media are still to be disposed of or that has nothing left to remove,
\* and refuses one with a pending operation.
ExpirePaths(kind, a) ==
  /\ pc = "idle" /\ ~boot
  /\ ~flight
  /\ sealOnly => own["ownMeeting"] = {}
  /\ journal = NoOp
  /\ \/ /\ kind = "current" /\ a = published /\ a # 0
        /\ current # EmptyPair \/ \E f \in Own : a \in own[f]
     \/ /\ kind = "superseded" /\ a \in Attempts /\ a < latest
        /\ \E f \in Own : a \in own[f]
  /\ Start(kind, a)
  /\ UNCHANGED <<jobVars, current, own, published, output, boot, clean>>

\* The disposal of source media takes a job that deletes them once it is done:
\* it finishes a pending operation, then removes the attempt's meeting.  The
\* rest of what it removes is SourceMedia's.
DisposeOfMeeting ==
  /\ pc = "idle" /\ ~boot
  /\ ~flight /\ sealOnly
  /\ \/ /\ journal # NoOp
        /\ index' = 1
        /\ Goto("target")
        /\ UNCHANGED <<staged, old, journal>>
     \/ /\ journal = NoOp
        /\ \E a \in own["ownMeeting"] : Start("disposal", a)
  /\ UNCHANGED <<jobVars, current, own, published, output, boot, clean>>

-----------------------------------------------------------------------------
(* Failures.                                                               *)

\* A file operation or a store write returns an error: the operation is left
\* as it is, and a recovery goes on to the startup pass.
OperationFails ==
  /\ pc # "idle"
  /\ clean' = FALSE
  /\ Goto(CASE ~boot \/ pc \in {"reconcile", "prune"} -> "idle"
            [] boot /\ pc \in Working -> "reconcile"
            [] OTHER -> "prune")
  /\ boot' = (boot /\ pc \notin {"reconcile", "prune"})
  /\ UNCHANGED <<jobVars, current, own, staged, old, journal, published, output, index>>

\* The operator dies and starts again: recoverArtifactOperations replays the
\* journal, then the startup pass looks at the job.  An attempt in flight keeps
\* the job from "done", whether the start queues it again or interrupts it.
Crash ==
  /\ clean' = TRUE
  /\ boot' = TRUE
  /\ index' = 1
  /\ Goto(IF journal # NoOp THEN "target" ELSE "reconcile")
  /\ UNCHANGED <<jobVars, current, own, staged, old, journal, published, output>>

\* Mutant of reconcileArtifactDuplicatesOnStartup: it only prunes.
ReconcileOnlyPrunes ==
  /\ pc = "reconcile"
  /\ boot' = ~flight
  /\ Goto(IF flight THEN "idle" ELSE "prune")
  /\ UNCHANGED <<jobVars, current, own, staged, old, journal, published, output, index, clean>>

\* The startup pass promotes the last publication and prunes; it passes over a
\* job whose stage is not "done".
reconcileArtifactDuplicatesOnStartup ==
  /\ pc = "reconcile"
  /\ boot' = ~flight
  /\ Goto(IF flight THEN "idle" ELSE "promote")
  /\ UNCHANGED <<jobVars, current, own, staged, old, journal, published, output, index, clean>>

-----------------------------------------------------------------------------
ArchiveInit ==
  /\ sealOnly \in BOOLEAN
  /\ flight = TRUE
  /\ latest = 0
  /\ current = EmptyPair
  /\ own = [f \in Own |-> {}]
  /\ staged = EmptyPair
  /\ old = EmptyDir
  /\ journal = NoOp
  /\ published = 0
  /\ output = "none"
  /\ pc = "idle" /\ index = 1 /\ boot = FALSE /\ clean = TRUE

finishOperation ==
  \/ SkipTarget \/ SetAside \/ PlaceStaged \/ RecordOperation
  \/ RemoveOperationDir \/ DeleteJournal

Worker ==
  \/ promotePublishedPair \/ StageMeeting \/ StageSeal \/ saveOperation
  \/ finishOperation \/ pruneArtifactsForJob

ArchiveNext ==
  \/ QueueRerunAttempt \/ AttemptFails \/ RecordPublication
  \/ Worker
  \/ \E kind \in Kinds, a \in Attempts : ExpirePaths(kind, a)
  \/ DisposeOfMeeting
  \/ OperationFails \/ Crash \/ reconcileArtifactDuplicatesOnStartup

ArchiveSpec == ArchiveInit /\ [][ArchiveNext]_archiveVars

-----------------------------------------------------------------------------
(* Properties.                                                             *)

\* Every variable has its type.
ArchiveTypeOK ==
  /\ sealOnly \in BOOLEAN /\ flight \in BOOLEAN
  /\ latest \in 0..MaxPublications /\ published \in 0..MaxPublications
  /\ current \in [Pair -> 0..MaxPublications]
  /\ own \in [Own -> SUBSET Attempts]
  /\ staged \in [Pair -> 0..MaxPublications]
  /\ old \in [Pair \cup Own -> 0..MaxPublications]
  /\ journal = NoOp \/ journal \in [kind : Kinds, attempt : Attempts]
  /\ output \in {"none", "present", "expired"}
  /\ pc \in {"idle", "reconcile", "promote", "copyMeeting", "linkSeal", "save", "target", "place",
             "removeDir", "delete", "prune"}
  /\ index \in 1..5
  /\ boot \in BOOLEAN
  /\ clean \in BOOLEAN

\* Unless an operation is journalled, the canonical pair is whole and is what
\* the availability record says: the files of the published attempt, or none.
\* A crash between any two renames, writes or clean-ups leaves the journal.
ArchiveMatchesRecord ==
  journal = NoOp =>
    current = [f \in Pair |-> IF output = "present" THEN Of(f, published) ELSE 0]

\* Until an expiry takes it, the published seal and its meeting are on disk, in
\* the archive or set aside beside it, at every point of replacing them.
PublishedPairNeverLost ==
  output = "present" /\ journal.kind # "current" =>
    \A f \in Pair : Of(f, published) \in {current[f], old[f]}

\* A publication that has not been promoted still has the files to promote:
\* pruning, expiry and disposal spare them, so a startup pass can finish the job.
UnpromotedKeepsItsFiles ==
  published # latest => \A f \in Needed : latest \in own[f]

\* The canonical pair is whole and recorded, never lost, and a publication not
\* promoted yet keeps its files.
ArchiveIsWhole ==
  ArchiveTypeOK /\ ArchiveMatchesRecord /\ PublishedPairNeverLost /\ UnpromotedKeepsItsFiles

\* Expired output comes back only as a later publication; no replay and no
\* startup pass resurrects it.
ExpiredStaysExpired ==
  [][output = "expired" /\ output' = "present" => published' > published]_archiveVars

\* A start in which no operation fails leaves nothing pending: the journal is
\* replayed and the last publication is in the archive or has expired, unless
\* an attempt in flight makes the startup pass leave the job to its successor.
RestartSettlesArchive ==
  [][boot /\ ~boot' /\ clean' => journal' = NoOp /\ (flight' \/ published' = latest')]_archiveVars

\* A start settles the archive, and nothing that expired comes back.
ArchiveSettles == RestartSettlesArchive /\ ExpiredStaysExpired
=============================================================================
