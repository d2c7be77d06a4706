-------------------------- MODULE RetentionProofs ---------------------------
(***************************************************************************)
(* Proofs about the two places where the only copy of something may be     *)
(* destroyed: the promotion and disposal of source media (SourceMedia) and *)
(* the archive of a job's artifacts (ArtifactArchive).                     *)
(***************************************************************************)
EXTENDS SourceMedia, ArtifactArchive, TLAPS

-----------------------------------------------------------------------------
(***************************************************************************)
(* SourceMedia, for any number of attempts, restarts and failed file       *)
(* operations.                                                             *)
(***************************************************************************)

(* The inductive invariant.                                                *)

StagePc == {"copy", "copying", "aside", "place", "place_new", "drop", "over", "failed"}
DisposalPc == {"dispose", "remove"}

\* What a journal may name.
MediaTargets == ({"own"} \X Attempt) \cup {<<"dest", 0>>, <<"staging", 0>>, <<"backup", 0>>}

MediaTypes ==
  /\ attempt \in Attempt
  /\ state \in {"queued", "running", "done", "interrupted"}
  /\ ownDirs \subseteq Attempt
  /\ staging \in Attempt \cup {None, Torn}
  /\ backup \in Attempt \cup {None}
  /\ dest \in Attempt \cup {None}
  /\ holder \in StagePc \cup DisposalPc \cup {"idle"}
  /\ removal \subseteq MediaTargets
  /\ cleanup \in {"waiting", "pending", "error", "completed"}

\* Who holds the lock says what state the job is in, and so does a journal.
HolderMatchesState ==
  /\ removal # {} => mediaDisposalEligible
  /\ holder \in StagePc => state = "running"
  /\ holder \in DisposalPc => mediaDisposalEligible /\ cleanup # "completed"
  /\ cleanup = "completed" => mediaDisposalEligible

\* How far a swap has come: the new copy is whole before the old one moves, and
\* the old one is aside before the new one takes its place.
SwapIsOrdered ==
  /\ holder \in {"aside", "place", "place_new"} => staging = attempt
  /\ holder \in {"place", "place_new"} => dest = None
  /\ holder = "place" => backup \in Attempt
  /\ holder = "drop" => dest \in Attempt

\* Until the job is over a copy that was promoted is in its place or aside.
CopyIsKept == promoted /\ ~mediaDisposalEligible => dest \in Attempt \/ backup \in Attempt

\* A removal under way names everything that is still there.
RemovalIsComplete == holder = "remove" => Media \subseteq removal

MediaInv ==
  MediaTypes /\ HolderMatchesState /\ SwapIsOrdered /\ CopyIsKept /\ RemovalIsComplete /\ CompletedIsEmpty

\* Nothing is in the way of anything iff every place is empty.
LEMMA MediaEmpty ==
  Media = {} <=> ownDirs = {} /\ staging = None /\ backup = None /\ dest = None
<1>1. \A n \in ownDirs : <<"own", n>> \in Media
  BY DEF Media, OwnAndCanonical
<1>2. /\ staging # None => <<"staging", 0>> \in Media
      /\ backup # None => <<"backup", 0>> \in Media
      /\ dest # None => <<"dest", 0>> \in Media
  BY DEF Media, OwnAndCanonical
<1>3. ownDirs = {} /\ staging = None /\ backup = None /\ dest = None => Media = {}
  BY DEF Media, OwnAndCanonical
<1>. QED
  BY <1>1, <1>2, <1>3

\* The inductive invariant holds at the start.
LEMMA MediaInvInit == ASSUME MediaAssumption PROVE SourceInit => MediaInv
<1>. SUFFICES ASSUME SourceInit PROVE MediaInv
  OBVIOUS
<1>1. MediaTypes
  BY DEF MediaAssumption, SourceInit, MediaTypes, Attempt, StagePc, DisposalPc, None
<1>2. HolderMatchesState /\ SwapIsOrdered /\ CopyIsKept /\ RemovalIsComplete /\ CompletedIsEmpty
  BY DEF SourceInit, HolderMatchesState, SwapIsOrdered, CopyIsKept, RemovalIsComplete, CompletedIsEmpty,
         StagePc, DisposalPc
<1>. QED
  BY <1>1, <1>2 DEF MediaInv

\* Numbers of attempts are told apart from the two that are none.
LEMMA AttemptNumbers ==
  ASSUME MediaAssumption
  PROVE  None \notin Attempt /\ Torn \notin Attempt /\ Torn # None /\ Attempt \subseteq Nat
  BY DEF MediaAssumption, Attempt, None, Torn

\* A stage keeps the types, and says where its swap is.
LEMMA StageStep ==
  ASSUME MediaAssumption, MediaInv,
         \/ RunStage \/ BeginCopy \/ copyDirectory \/ MoveAside \/ Place \/ DropBackup \/ FinishStage
  PROVE  MediaInv'
<1>. USE AttemptNumbers DEF MediaInv, MediaTypes, HolderMatchesState, SwapIsOrdered, StagePc, DisposalPc, Hold,
         mediaDisposalEligible, terminalMediaJob, files, bounds
<1>1. CASE RunStage
  BY <1>1 DEF RunStage, Idle, CopyIsKept, RemovalIsComplete, CompletedIsEmpty
<1>2. CASE BeginCopy
  BY <1>2 DEF BeginCopy, CopyIsKept, RemovalIsComplete, CompletedIsEmpty
<1>3. CASE copyDirectory
  BY <1>3 DEF copyDirectory, Fault, CopyIsKept, RemovalIsComplete, CompletedIsEmpty
<1>4. CASE MoveAside
  BY <1>4 DEF MoveAside, Fault, CopyIsKept, RemovalIsComplete, CompletedIsEmpty
<1>5. CASE Place
  BY <1>5 DEF Place, Fault, CopyIsKept, RemovalIsComplete, CompletedIsEmpty
<1>6. CASE DropBackup
  BY <1>6 DEF DropBackup, Fault, CopyIsKept, RemovalIsComplete, CompletedIsEmpty
<1>7. CASE FinishStage
  BY <1>7 DEF FinishStage, CopyIsKept, RemovalIsComplete, CompletedIsEmpty
<1>. QED
  BY <1>1, <1>2, <1>3, <1>4, <1>5, <1>6, <1>7

\* A rerun, and the readers of the archive, touch no file.
LEMMA RerunAndReadersStep ==
  ASSUME MediaAssumption, MediaInv, Rerun \/ ReadArchive \/ StopReading \/ UNCHANGED sourceVars
  PROVE  MediaInv'
<1>. USE DEF MediaInv, MediaTypes, HolderMatchesState, SwapIsOrdered, CopyIsKept, RemovalIsComplete,
         CompletedIsEmpty, StagePc, DisposalPc, Hold, mediaDisposalEligible, terminalMediaJob,
         files, bounds
<1>1. CASE Rerun
  BY <1>1 DEF Rerun, Idle, MediaAssumption, Attempt
<1>2. CASE ReadArchive \/ StopReading
  BY <1>2 DEF ReadArchive, StopReading, Media, OwnAndCanonical
<1>3. CASE UNCHANGED sourceVars
  BY <1>3 DEF sourceVars, Media, OwnAndCanonical
<1>. QED
  BY <1>1, <1>2, <1>3

\* One target of a removal goes, and with it its name in the journal.
LEMMA RemovalStep ==
  ASSUME MediaAssumption, MediaInv, NEW t \in removal, removeMediaPaths(t)
  PROVE  MediaInv'
<1>. USE AttemptNumbers DEF MediaInv, MediaTypes
<1>1. mediaDisposalEligible /\ mediaDisposalEligible' /\ cleanup # "completed"
  BY DEF removeMediaPaths, HolderMatchesState, mediaDisposalEligible, terminalMediaJob, DisposalPc
<1>2. MediaTypes'
  BY DEF removeMediaPaths, Hold, Fault, files
<1>3. HolderMatchesState' /\ CompletedIsEmpty' /\ CopyIsKept' /\ SwapIsOrdered'
  BY <1>1 DEF removeMediaPaths, Hold, Fault, HolderMatchesState, CompletedIsEmpty, CopyIsKept, SwapIsOrdered,
              StagePc, DisposalPc
<1>4. RemovalIsComplete'
  <2>1. CASE removal' = removal \ {t} /\ UNCHANGED holder
    <3>1. SUFFICES ASSUME holder = "remove", NEW m \in Media' PROVE m \in removal /\ m # t
      BY <2>1 DEF RemovalIsComplete
    <3>2. m \in Media
      BY <2>1 DEF removeMediaPaths, Media, OwnAndCanonical, files
    <3>3. CASE t[1] = "own"
      BY <2>1, <3>1, <3>2, <3>3 DEF removeMediaPaths, Media, OwnAndCanonical, RemovalIsComplete, files, MediaTargets
    <3>4. CASE t = <<"staging", 0>> \/ t = <<"backup", 0>> \/ t = <<"dest", 0>>
      BY <2>1, <3>1, <3>2, <3>4 DEF removeMediaPaths, Media, OwnAndCanonical, RemovalIsComplete, files
    <3>. QED BY <3>3, <3>4 DEF MediaTargets
  <2>2. CASE holder' = "idle"
    BY <2>2 DEF RemovalIsComplete
  <2>. QED BY <2>1, <2>2 DEF removeMediaPaths, Hold
<1>. QED
  BY <1>2, <1>3, <1>4

\* The disposal begins, lists what there is, and is recorded as completed.
LEMMA DisposalStep ==
  ASSUME MediaAssumption, MediaInv, runMediaCleanupPass \/ cleanupJobMedia \/ CompleteCleanup
  PROVE  MediaInv'
<1>. USE DEF MediaInv, MediaTypes, HolderMatchesState, SwapIsOrdered, CopyIsKept, RemovalIsComplete,
         CompletedIsEmpty, StagePc, DisposalPc, Hold, mediaDisposalEligible, terminalMediaJob,
         files, bounds
<1>1. CASE runMediaCleanupPass
  BY <1>1 DEF runMediaCleanupPass, Idle
<1>2. CASE cleanupJobMedia
  <2>1. Media \subseteq MediaTargets
    BY DEF Media, OwnAndCanonical, MediaTargets
  <2>2. Media' = Media
    BY <1>2 DEF cleanupJobMedia, Media, OwnAndCanonical
  <2>. HIDE DEF Media
  <2>. QED BY <1>2, <2>1, <2>2 DEF cleanupJobMedia
<1>3. CASE CompleteCleanup
  <2>1. Media = {}
    BY <1>3 DEF CompleteCleanup
  <2>2. ownDirs = {} /\ staging = None /\ backup = None /\ dest = None
    BY <2>1, MediaEmpty
  <2>. QED BY <1>3, <2>2 DEF CompleteCleanup
<1>. QED
  BY <1>1, <1>2, <1>3

\* A restart puts a copy that was aside back, empties the staging root, and
\* goes on with a removal.
LEMMA RestartStep ==
  ASSUME MediaAssumption, MediaInv, Restart PROVE MediaInv'
<1>. USE AttemptNumbers DEF MediaInv, Restart, reconcilePromotionStaging, Hold, mediaDisposalEligible,
         terminalMediaJob
<1>0. /\ state' \in {"queued", "running", "done", "interrupted"}
      /\ state \in {"done", "interrupted"} => state' = state
      /\ UNCHANGED <<deletes, attempt, cleanup, promoted>> /\ holder' = "idle"
      /\ staging' = None /\ backup' = None
  BY DEF MediaTypes
<1>1. PICK gone \in SUBSET {t \in removal : t[1] \in {"own", "dest"}} :
        /\ dest' = IF <<"dest", 0>> \in gone THEN None ELSE reconciledDest
        /\ ownDirs' = {n \in ownDirs : <<"own", n>> \notin gone}
        /\ removal' = {t \in removal : t[1] \in {"own", "dest"}} \ gone
  BY DEF recoverArtifactOperations
<1>. HIDE DEF Restart
<1>2. ownDirs' \subseteq ownDirs /\ removal' \subseteq removal /\ dest' \in {None, dest, backup}
  BY <1>1 DEF reconciledDest
<1>3. MediaTypes'
  BY <1>0, <1>2 DEF MediaTypes
<1>4. HolderMatchesState' /\ SwapIsOrdered' /\ RemovalIsComplete'
  BY <1>0, <1>2 DEF MediaTypes, HolderMatchesState, SwapIsOrdered, RemovalIsComplete, StagePc, DisposalPc
<1>5. CopyIsKept'
  <2>. SUFFICES ASSUME promoted, ~mediaDisposalEligible' PROVE dest' \in Attempt
    BY <1>0 DEF CopyIsKept
  <2>1. ~mediaDisposalEligible
    BY <1>0
  <2>2. removal = {}
    BY <2>1 DEF HolderMatchesState
  <2>3. dest' = reconciledDest
    BY <1>1, <2>2
  <2>. QED BY <2>1, <2>3 DEF MediaTypes, CopyIsKept, reconciledDest
<1>6. CompletedIsEmpty'
  BY <1>0, <1>2 DEF MediaTypes, CompletedIsEmpty
<1>. QED
  BY <1>3, <1>4, <1>5, <1>6

\* Every step keeps the inductive invariant.
LEMMA MediaInvStep == ASSUME MediaAssumption PROVE MediaInv /\ [SourceNext]_sourceVars => MediaInv'
  BY StageStep, RerunAndReadersStep, RemovalStep, DisposalStep, RestartStep DEF SourceNext

\* From the first promotion on a whole canonical copy is in its place or aside,
\* whichever file operations fail and wherever the operator stops, until the
\* disposal of a job that is over (replaceStagedDirectory,
\* reconcilePromotionStaging).
THEOREM CanonicalCopyAlwaysSurvives == SourceSpec => []CanonicalCopySurvives
<1>1. MediaInv => CanonicalCopySurvives
  BY AttemptNumbers, MediaAssumption DEF MediaInv, MediaTypes, CopyIsKept, CanonicalCopySurvives
<1>. QED
  BY MediaAssumption, MediaInvInit, MediaInvStep, <1>1, PTL DEF SourceSpec

\* The obligation to dispose of a job's media reads as completed only when
\* nothing of them is left, and a restart that repairs a swap brings nothing
\* back (CompleteCleanup, reconcilePromotionStaging).
THEOREM CompletedIsAlwaysEmpty == SourceSpec => []CompletedIsEmpty
<1>1. MediaInv => CompletedIsEmpty
  BY DEF MediaInv
<1>. QED
  BY MediaAssumption, MediaInvInit, MediaInvStep, <1>1, PTL DEF SourceSpec

-----------------------------------------------------------------------------
(***************************************************************************)
(* ArtifactArchive, for any number of publications.                        *)
(***************************************************************************)

(* The inductive invariant.                                                *)

Staging == {"copyMeeting", "linkSeal", "save"}

\* What the availability record says of a canonical file.
Recorded(f) == IF output = "present" THEN Of(f, published) ELSE 0

ArchiveTypes ==
  /\ latest \in 0..MaxPublications /\ published \in 0..latest
  /\ current \in [Pair -> 0..MaxPublications]
  /\ own \in [Own -> SUBSET Attempts]
  /\ staged \in [Pair -> 0..MaxPublications]
  /\ old \in [Pair \cup Own -> 0..MaxPublications]
  /\ journal = NoOp \/ journal \in [kind : Kinds, attempt : Attempts]
  /\ output \in {"none", "present", "expired"}
  /\ pc \in {"idle", "reconcile", "promote", "prune"} \cup Staging \cup Working
  /\ index \in 1..5

Flags == boot \in BOOLEAN /\ clean \in BOOLEAN /\ sealOnly \in BOOLEAN /\ flight \in BOOLEAN

\* While an attempt is on its way nothing is done to the archive.
FlightLeavesArchive == flight => journal = NoOp /\ pc \in {"idle", "reconcile"}

\* An operation is worked on only under its journal, and prepared only without.
JournalBracketsWork ==
  /\ journal = NoOp => pc \notin Working
  /\ journal # NoOp => pc \notin Staging
  /\ pc = "place" => journal.kind = "promote" /\ index \in 1..2 /\ (sealOnly => index = 2)
  /\ pc = "target" => index <= Len(Targets[journal.kind]) + 1

\* The replacements are complete before the journal promises them.
StagingIsOrdered ==
  /\ pc \in Staging => published # latest /\ old = EmptyDir
  /\ pc = "copyMeeting" => ~sealOnly
  /\ pc \in {"linkSeal", "save"} => staged["meeting"] = Of("meeting", latest)
  /\ pc = "save" => staged["seal"] = latest

\* A canonical file on its way from the recorded version to the latest one:
\* untouched, set aside, or replaced.
Untouched(f) == staged[f] = Of(f, latest) /\ old[f] = 0 /\ current[f] = Recorded(f)
Aside(f)     == staged[f] = Of(f, latest) /\ old[f] = Recorded(f) /\ current[f] = 0
Replaced(f)  == staged[f] = 0 /\ old[f] = Recorded(f) /\ current[f] = Of(f, latest)

\* A promotion is always of the latest publication, and a replay finds each of
\* its files where the crash left it.
Promoting ==
  journal.kind = "promote" =>
    /\ journal.attempt = latest
    /\ published # latest =>
         /\ pc \notin {"removeDir", "delete"}
         /\ \A f \in Pair : Untouched(f) \/ Aside(f) \/ Replaced(f)
    /\ published = latest =>
         output = "present" /\ \A f \in Pair : current[f] = Of(f, latest) /\ staged[f] = 0
    /\ pc \in {"target", "place"} =>
         (index > 1 => staged["meeting"] = 0) /\ (index > 2 => staged["seal"] = 0)
    /\ pc = "place" /\ index = 1 => Aside("meeting") /\ published # latest
    /\ pc = "place" /\ index = 2 => Aside("seal") /\ published # latest

\* The expiry of the archive takes the recorded pair, one file at a time.
Expiring ==
  journal.kind = "current" =>
    /\ journal.attempt = published
    /\ \A f \in Pair : old[f] # 0 => current[f] = 0
    /\ pc = "target" =>
         (index > 1 => current["meeting"] = 0) /\ (index > 2 => current["seal"] = 0)
    /\ output # "present" => \A f \in Pair : current[f] = 0
    /\ pc \in {"removeDir", "delete"} => output = "expired"

\* The expiry of an older publication, and the disposal of a meeting, leave the
\* archive alone.
Superseding ==
  journal.kind \in {"superseded", "disposal"} =>
    /\ journal.kind = "superseded" => journal.attempt < latest
    /\ journal.kind = "disposal" => sealOnly
    /\ \A f \in Pair : current[f] = Recorded(f)

Matching == journal = NoOp => \A f \in Pair : current[f] = Recorded(f)

\* A start that nothing disturbed has finished the journal before it promotes,
\* and promoted before it prunes.
StartIsOrdered ==
  /\ pc = "reconcile" => boot
  /\ boot /\ clean =>
       /\ pc \in {"reconcile", "promote"} => journal = NoOp
       /\ pc = "prune" => journal = NoOp /\ published = latest

ArchiveInv ==
  /\ ArchiveTypes /\ Flags /\ FlightLeavesArchive /\ JournalBracketsWork /\ StagingIsOrdered
  /\ Promoting /\ Expiring /\ Superseding /\ Matching
  /\ UnpromotedKeepsItsFiles /\ StartIsOrdered

\* The targets of each operation, one by one.
LEMMA TargetsAre ==
  /\ Len(Targets["promote"]) = 2 /\ Targets["promote"][1] = "meeting" /\ Targets["promote"][2] = "seal"
  /\ Len(Targets["current"]) = 4 /\ Targets["current"][1] = "meeting" /\ Targets["current"][2] = "seal"
  /\ Targets["current"][3] = "ownSeal" /\ Targets["current"][4] = "ownMeeting"
  /\ Len(Targets["superseded"]) = 2
  /\ Targets["superseded"][1] = "ownSeal" /\ Targets["superseded"][2] = "ownMeeting"
  /\ Len(Targets["disposal"]) = 1 /\ Targets["disposal"][1] = "ownMeeting"
  BY DEF Targets

\* A journal is that of one kind of operation, or none.
LEMMA JournalKinds ==
  ASSUME ArchiveTypes
  PROVE  /\ journal = NoOp <=> journal.kind = "none"
         /\ journal # NoOp => journal.kind \in Kinds /\ journal.attempt \in Attempts
  BY DEF ArchiveTypes, NoOp, Kinds

\* The inductive invariant holds at the start.
LEMMA ArchiveInvInit == ASSUME ArchiveAssumption PROVE ArchiveInit => ArchiveInv
<1>. SUFFICES ASSUME ArchiveInit PROVE ArchiveInv
  OBVIOUS
<1>1. ArchiveTypes
  BY DEF ArchiveAssumption, ArchiveInit, ArchiveTypes, EmptyPair, EmptyDir
<1>2. Flags /\ FlightLeavesArchive /\ UnpromotedKeepsItsFiles
  BY DEF ArchiveInit, Flags, FlightLeavesArchive, UnpromotedKeepsItsFiles
<1>3. JournalBracketsWork /\ StagingIsOrdered /\ Promoting /\ Expiring /\ Superseding
  BY DEF ArchiveInit, JournalBracketsWork, StagingIsOrdered, Promoting, Expiring, Superseding, NoOp, Working, Staging
<1>4. Matching
  BY DEF ArchiveInit, Matching, Recorded, EmptyPair
<1>5. StartIsOrdered
  BY DEF ArchiveInit, StartIsOrdered
<1>. QED
  BY <1>1, <1>2, <1>3, <1>4, <1>5 DEF ArchiveInv

-----------------------------------------------------------------------------
(* A publication, and the preparation of its promotion.                    *)

\* An attempt begins, or ends without a publication.
LEMMA AttemptStep ==
  ASSUME ArchiveAssumption, ArchiveInv, QueueRerunAttempt \/ AttemptFails PROVE ArchiveInv'
<1>. USE DEF ArchiveInv, QueueRerunAttempt, AttemptFails, Of, Needed
<1>1. ArchiveTypes' /\ Flags' /\ FlightLeavesArchive'
  BY DEF ArchiveTypes, Flags, FlightLeavesArchive
<1>2. JournalBracketsWork' /\ StagingIsOrdered' /\ UnpromotedKeepsItsFiles' /\ StartIsOrdered'
  BY DEF JournalBracketsWork, StagingIsOrdered, UnpromotedKeepsItsFiles, StartIsOrdered, Staging
<1>3. Promoting' /\ Expiring' /\ Superseding' /\ Matching'
  BY DEF Promoting, Expiring, Superseding, Matching, Untouched, Aside, Replaced, Recorded
<1>. QED
  BY <1>1, <1>2, <1>3

\* A publication brings the files its promotion needs.
LEMMA RecordPublicationStep ==
  ASSUME ArchiveAssumption, ArchiveInv, RecordPublication PROVE ArchiveInv'
<1>. USE DEF ArchiveInv, Of, RecordPublication, Goto
<1>1. journal = NoOp /\ journal' = NoOp /\ NoOp.kind = "none"
  BY DEF NoOp, FlightLeavesArchive
<1>2. ArchiveTypes'
  BY DEF ArchiveAssumption, ArchiveTypes, Attempts
<1>3. Flags' /\ FlightLeavesArchive' /\ StartIsOrdered'
  BY DEF Flags, FlightLeavesArchive, StartIsOrdered
<1>4. JournalBracketsWork' /\ StagingIsOrdered' /\ Promoting' /\ Expiring' /\ Superseding'
  BY <1>1 DEF JournalBracketsWork, StagingIsOrdered, Promoting, Expiring, Superseding, Working, Staging
<1>5. Matching'
  BY DEF Matching, Recorded
<1>6. UnpromotedKeepsItsFiles'
  <2>1. \A f \in Own : latest' \in own'[f]
    BY DEF ArchiveTypes
  <2>2. Needed' \subseteq Own
    BY DEF Needed, Own
  <2>. QED BY <2>1, <2>2 DEF UnpromotedKeepsItsFiles
<1>. QED
  BY <1>2, <1>3, <1>4, <1>5, <1>6

\* A promotion is prepared in an empty operation directory, in order.
LEMMA PrepareStep ==
  ASSUME ArchiveAssumption, ArchiveInv, promotePublishedPair \/ StageMeeting \/ StageSeal \/ saveOperation
  PROVE  ArchiveInv'
<1>. USE DEF ArchiveInv, jobVars, Of, Needed, Goto
<1>0. EmptyPair \in [Pair -> 0..MaxPublications] /\ EmptyDir \in [Pair \cup Own -> 0..MaxPublications]
  BY DEF ArchiveAssumption, EmptyPair, EmptyDir
<1>1. CASE promotePublishedPair
  <2>. USE <1>1 DEF promotePublishedPair
  <2>1. ArchiveTypes'
    BY <1>0 DEF ArchiveTypes, Staging
  <2>2. Flags' /\ FlightLeavesArchive'
    BY DEF Flags, FlightLeavesArchive
  <2>3. JournalBracketsWork' /\ StagingIsOrdered'
    BY DEF ArchiveTypes, JournalBracketsWork, StagingIsOrdered, Working, Staging, EmptyPair, Pair, Flags
  <2>4. Promoting' /\ Expiring' /\ Superseding' /\ Matching'
    <3>1. CASE journal = NoOp
      BY <3>1, NoOp.kind = "none" DEF Promoting, Expiring, Superseding, Matching, Recorded, NoOp
    <3>2. CASE journal # NoOp
      BY <3>2 DEF Promoting, Expiring, Superseding, Matching, Recorded, Untouched, Aside, Replaced
    <3>. QED BY <3>1, <3>2
  <2>5. UnpromotedKeepsItsFiles'
    BY DEF UnpromotedKeepsItsFiles
  <2>6. StartIsOrdered'
    BY DEF StartIsOrdered, Flags
  <2>. QED BY <2>1, <2>2, <2>3, <2>4, <2>5, <2>6
<1>2. CASE StageMeeting \/ StageSeal
  <2>. USE <1>2 DEF StageMeeting, StageSeal
  <2>0. journal = NoOp /\ journal' = NoOp /\ NoOp.kind = "none"
    BY DEF JournalBracketsWork, Staging, NoOp
  <2>1. ArchiveTypes'
    BY DEF ArchiveTypes, Staging, Pair
  <2>2. Flags' /\ FlightLeavesArchive' /\ UnpromotedKeepsItsFiles'
    BY DEF Flags, FlightLeavesArchive, UnpromotedKeepsItsFiles
  <2>3. JournalBracketsWork' /\ StagingIsOrdered'
    BY <2>0 DEF ArchiveTypes, JournalBracketsWork, StagingIsOrdered, Working, Staging, Pair
  <2>4. Promoting' /\ Expiring' /\ Superseding' /\ Matching'
    BY <2>0 DEF Promoting, Expiring, Superseding, Matching, Recorded
  <2>5. StartIsOrdered'
    BY DEF StartIsOrdered
  <2>. QED BY <2>1, <2>2, <2>3, <2>4, <2>5
<1>3. CASE saveOperation
  <2>. USE <1>3 DEF saveOperation
  <2>0. /\ journal = NoOp /\ published # latest /\ latest \in Attempts
        /\ journal'.kind = "promote" /\ journal'.attempt = latest /\ index' = 1 /\ pc' = "target"
    BY DEF ArchiveTypes, JournalBracketsWork, StagingIsOrdered, Staging, Attempts
  <2>1. ArchiveTypes'
    BY <2>0 DEF ArchiveTypes, Working, Kinds
  <2>2. Flags' /\ FlightLeavesArchive' /\ UnpromotedKeepsItsFiles'
    BY DEF Flags, FlightLeavesArchive, UnpromotedKeepsItsFiles
  <2>3. JournalBracketsWork' /\ StagingIsOrdered'
    BY <2>0, TargetsAre DEF JournalBracketsWork, StagingIsOrdered, Staging, NoOp
  <2>4. Promoting'
    <3>1. \A f \in Pair : Untouched(f)'
      BY <2>0 DEF Matching, StagingIsOrdered, Staging, Recorded, Untouched, Pair, EmptyDir
    <3>. QED BY <2>0, <3>1 DEF Promoting
  <2>5. Expiring' /\ Superseding' /\ Matching'
    BY <2>0 DEF Expiring, Superseding, Matching, NoOp
  <2>6. StartIsOrdered'
    BY DEF StartIsOrdered
  <2>. QED BY <2>1, <2>2, <2>3, <2>4, <2>5, <2>6
<1>. QED
  BY <1>1, <1>2, <1>3

-----------------------------------------------------------------------------
(* finishOperation, for each kind of operation.                            *)

\* What the steps through a promotion's files do.
LEMMA PromoteFileStep ==
  ASSUME ArchiveAssumption, ArchiveInv, journal.kind = "promote",
         SkipTarget \/ SetAside \/ PlaceStaged
  PROVE  ArchiveInv'
<1>. USE TargetsAre, JournalKinds DEF ArchiveInv, jobVars, Of, Needed, Goto
<1>0. journal # NoOp /\ journal' = journal /\ journal.attempt = latest
  BY DEF SkipTarget, SetAside, PlaceStaged, Promoting
<1>1. CASE SkipTarget
  <2>. USE <1>1 DEF SkipTarget, AtTarget, Target
  <2>0. index \in 1..2 /\ staged[Targets["promote"][index]] = 0
    BY DEF ArchiveTypes
  <2>1. ArchiveTypes' /\ Flags' /\ FlightLeavesArchive' /\ UnpromotedKeepsItsFiles'
    BY <2>0 DEF ArchiveTypes, Flags, FlightLeavesArchive, UnpromotedKeepsItsFiles
  <2>2. JournalBracketsWork' /\ StagingIsOrdered' /\ Expiring' /\ Superseding' /\ Matching'
    BY <1>0, <2>0 DEF JournalBracketsWork, StagingIsOrdered, Expiring, Superseding, Matching, Staging
  <2>3. Promoting'
    BY <1>0, <2>0 DEF Promoting, Untouched, Aside, Replaced, Recorded
  <2>4. StartIsOrdered'
    BY DEF StartIsOrdered
  <2>. QED BY <2>1, <2>2, <2>3, <2>4
<1>2a. CASE SetAside /\ RemoveOnly
  <2>. USE <1>2a DEF SetAside, AtTarget, Target
  <2>0. /\ sealOnly /\ index \in 1..2 /\ Targets["promote"][index] = "meeting" /\ index = 1
        /\ "meeting" \in Pair /\ "meeting" \notin Own
    BY DEF RemoveOnly, ArchiveTypes, Pair, Own
  <2>1. staged["meeting"] = 0 /\ current["meeting"] = 0
    BY <1>0, <2>0 DEF Promoting, Untouched, Aside, Replaced, Recorded, ArchiveTypes
  <2>2. UNCHANGED <<old, current, own>> /\ index' = 2 /\ pc' = "target"
    BY <2>0, <2>1 DEF Held, ArchiveTypes
  <2>. HIDE DEF SetAside, AtTarget, Target
  <2>3. UNCHANGED <<jobVars, current, own, old, staged, journal, published, output, pc, boot, clean>>
    BY <1>2a, <2>2 DEF SetAside, AtTarget
  <2>4. ArchiveTypes' /\ Flags' /\ FlightLeavesArchive' /\ UnpromotedKeepsItsFiles'
    BY <2>2, <2>3 DEF ArchiveTypes, Flags, FlightLeavesArchive, UnpromotedKeepsItsFiles
  <2>5. JournalBracketsWork' /\ StagingIsOrdered' /\ Expiring' /\ Superseding' /\ Matching'
    BY <1>0, <2>2, <2>3 DEF JournalBracketsWork, StagingIsOrdered, Expiring, Superseding, Matching, Staging
  <2>6. Promoting'
    BY <1>0, <2>1, <2>2, <2>3 DEF Promoting, Untouched, Aside, Replaced, Recorded
  <2>7. StartIsOrdered'
    BY <2>2, <2>3 DEF StartIsOrdered
  <2>. QED BY <2>4, <2>5, <2>6, <2>7
<1>2. CASE SetAside /\ ~RemoveOnly
  <2>. USE <1>2 DEF SetAside, AtTarget, Target
  <2>0. PICK f \in Pair :
          /\ index \in 1..2 /\ staged[f] # 0 /\ f = Target
          /\ pc' = "place" /\ index' = index /\ own' = own
          /\ (index = 1 => f = "meeting") /\ (index = 2 => f = "seal")
          /\ (sealOnly => f = "seal")
    BY DEF ArchiveTypes, Pair, Own, RemoveOnly
  <2>1. published # latest /\ (Untouched(f) \/ Aside(f))
    BY <2>0 DEF Promoting, Replaced
  <2>2. old' = [old EXCEPT ![f] = IF old[f] = 0 THEN current[f] ELSE old[f]]
        /\ current' = [current EXCEPT ![f] = 0]
    <3>1. CASE old[f] = 0
      BY <2>0, <3>1 DEF Held
    <3>2. CASE old[f] # 0
      <4>1. current[f] = 0 /\ old' = old /\ current' = current
        BY <2>0, <2>1, <3>2 DEF Untouched, Aside
      <4>. QED BY <3>2, <4>1, <2>0 DEF ArchiveTypes
    <3>. QED BY <3>1, <3>2
  <2>. HIDE DEF SetAside, AtTarget, Target
  <2>6. UNCHANGED <<sealOnly, flight, latest, staged, published, output>>
    BY <1>2 DEF SetAside
  <2>3. ArchiveTypes'
    BY <2>0, <2>2, <1>0, <1>2 DEF ArchiveTypes, SetAside, Working
  <2>4. Flags' /\ FlightLeavesArchive' /\ UnpromotedKeepsItsFiles' /\ StartIsOrdered'
    BY <2>0, <1>2 DEF SetAside, Flags, FlightLeavesArchive, UnpromotedKeepsItsFiles, StartIsOrdered
  <2>5. JournalBracketsWork' /\ StagingIsOrdered' /\ Expiring' /\ Superseding' /\ Matching'
    BY <1>0, <2>0, <2>6 DEF JournalBracketsWork, StagingIsOrdered, Expiring, Superseding, Matching, Working,
                            Staging
  <2>7. Aside(f)'
    BY <2>0, <2>1, <2>2, <2>6 DEF ArchiveTypes, Untouched, Aside, Recorded
  <2>8. \A g \in Pair : g # f => (Untouched(g) \/ Aside(g) \/ Replaced(g))'
    BY <2>0, <2>1, <2>2, <2>6 DEF ArchiveTypes, Promoting, Untouched, Aside, Replaced, Recorded
  <2>9. Promoting'
    BY <1>0, <2>0, <2>1, <2>6, <2>7, <2>8, <1>2 DEF Promoting, SetAside, AtTarget
  <2>. QED BY <2>3, <2>4, <2>5, <2>9
<1>3. CASE PlaceStaged
  <2>. USE <1>3 DEF PlaceStaged, Target
  <2>0. PICK f \in Pair :
          /\ index \in 1..2 /\ f = Target /\ pc' = "target" /\ index' = index + 1
          /\ (index = 1 => f = "meeting") /\ (index = 2 => f = "seal")
          /\ published # latest /\ Aside(f) /\ (sealOnly => f = "seal")
    BY DEF JournalBracketsWork, Promoting, Pair
  <2>1. current' = [current EXCEPT ![f] = latest] /\ staged' = [staged EXCEPT ![f] = 0]
    BY <2>0 DEF Aside
  <2>. HIDE DEF PlaceStaged, Target
  <2>2. ArchiveTypes'
    <3>1. current' \in [Pair -> 0..MaxPublications] /\ staged' \in [Pair -> 0..MaxPublications]
      BY <2>0, <2>1, ArchiveAssumption DEF ArchiveAssumption, ArchiveTypes
    <3>. QED BY <2>0, <3>1, <1>0, <1>3 DEF ArchiveTypes, PlaceStaged, Working
  <2>3. Flags' /\ FlightLeavesArchive' /\ UnpromotedKeepsItsFiles' /\ StartIsOrdered'
    BY <2>0, <1>3 DEF PlaceStaged, Flags, FlightLeavesArchive, UnpromotedKeepsItsFiles, StartIsOrdered
  <2>4. JournalBracketsWork' /\ StagingIsOrdered' /\ Expiring' /\ Superseding' /\ Matching'
    BY <1>0, <2>0 DEF JournalBracketsWork, StagingIsOrdered, Expiring, Superseding, Matching, Working, Staging
  <2>5. UNCHANGED <<sealOnly, latest, old, published, output>>
    BY <1>3 DEF PlaceStaged
  <2>6. Replaced(f)'
    BY <2>0, <2>1, <2>5 DEF ArchiveTypes, Aside, Replaced, Recorded
  <2>7. \A g \in Pair : g # f => (Untouched(g) \/ Aside(g) \/ Replaced(g))'
    BY <2>0, <2>1, <2>5 DEF ArchiveTypes, Promoting, Untouched, Aside, Replaced, Recorded
  <2>8. (index' > 1 => staged'["meeting"] = 0) /\ (index' > 2 => staged'["seal"] = 0)
    BY <2>0, <2>1, <1>3 DEF ArchiveTypes, Promoting, PlaceStaged, Pair
  <2>9. Promoting'
    BY <1>0, <2>0, <2>5, <2>6, <2>7, <2>8 DEF Promoting
  <2>. QED BY <2>2, <2>3, <2>4, <2>9
<1>. QED
  BY <1>1, <1>2a, <1>2, <1>3

\* What the steps through the files of an expiry or a disposal do: they take the
\* archive's pair, or files of an attempt that no promotion needs.
LEMMA ExpireFileStep ==
  ASSUME ArchiveAssumption, ArchiveInv, journal.kind # "promote",
         SkipTarget \/ SetAside \/ PlaceStaged
  PROVE  ArchiveInv'
<1>. USE TargetsAre, JournalKinds DEF ArchiveInv, jobVars, Of, Needed, Goto
<1>1. /\ SetAside /\ pc = "target" /\ journal # NoOp /\ journal' = journal
      /\ journal.kind \in {"current", "superseded", "disposal"} /\ journal.attempt \in Attempts
  BY DEF SkipTarget, PlaceStaged, SetAside, AtTarget, JournalBracketsWork, Kinds, Working, RemoveOnly
<1>2. /\ index' = index + 1 /\ pc' = "target" /\ index \in 1..5
      /\ UNCHANGED <<sealOnly, flight, latest, staged, published, output, boot, clean>>
      /\ index <= Len(Targets[journal.kind])
  BY <1>1 DEF SetAside, AtTarget, ArchiveTypes, RemoveOnly
<1>2a. journal.kind = "current" => index \in 1..4
  <2>. SUFFICES ASSUME journal.kind = "current" PROVE index \in 1..4
    OBVIOUS
  <2>1. Len(Targets[journal.kind]) = 4
    OBVIOUS
  <2>2. index <= 4
    BY <1>2, <2>1
  <2>. QED BY <1>2, <2>2
<1>2b. journal.kind = "superseded" => index \in 1..2
  <2>. SUFFICES ASSUME journal.kind = "superseded" PROVE index \in 1..2
    OBVIOUS
  <2>1. Len(Targets[journal.kind]) = 2
    OBVIOUS
  <2>2. index <= 2
    BY <1>2, <2>1
  <2>. QED BY <1>2, <2>2
<1>2c. journal.kind = "disposal" => index = 1
  <2>. SUFFICES ASSUME journal.kind = "disposal" PROVE index = 1
    OBVIOUS
  <2>1. Len(Targets[journal.kind]) = 1
    OBVIOUS
  <2>2. index <= 1
    BY <1>2, <2>1
  <2>. QED BY <1>2, <2>2
<1>3. CASE journal.kind = "current" /\ index <= 2
  <2>1. PICK f \in Pair :
          f = Target /\ f \notin Own /\ (index = 1 => f = "meeting") /\ (index = 2 => f = "seal")
    BY <1>2, <1>3 DEF Pair, Own, Target
  <2>2. own' = own /\ current' = [current EXCEPT ![f] = 0]
        /\ old' = [old EXCEPT ![f] = IF old[f] = 0 THEN current[f] ELSE old[f]]
    <3>1. CASE old[f] = 0
      BY <1>1, <2>1, <3>1 DEF SetAside, Held
    <3>2. CASE old[f] # 0
      <4>1. current[f] = 0 /\ old' = old /\ current' = current /\ own' = own
        BY <1>1, <1>3, <2>1, <3>2 DEF SetAside, Expiring
      <4>. QED BY <3>2, <4>1, <2>1 DEF ArchiveTypes
    <3>. QED BY <3>1, <3>2
  <2>3. ArchiveTypes'
    <3>1. current' \in [Pair -> 0..MaxPublications] /\ old' \in [Pair \cup Own -> 0..MaxPublications]
      BY <2>1, <2>2, ArchiveAssumption DEF ArchiveAssumption, ArchiveTypes
    <3>2. own' = own /\ journal' = journal /\ pc' = "target" /\ index' \in 1..5
          /\ UNCHANGED <<latest, staged, published, output>>
      BY <1>1, <1>2, <1>2a, <1>3, <2>2
    <3>. QED BY <3>1, <3>2 DEF ArchiveTypes, Working
  <2>4. Flags' /\ FlightLeavesArchive' /\ UnpromotedKeepsItsFiles' /\ StartIsOrdered'
    BY <1>1, <1>2, <2>2 DEF Flags, FlightLeavesArchive, UnpromotedKeepsItsFiles, StartIsOrdered
  <2>5. JournalBracketsWork' /\ StagingIsOrdered' /\ Promoting' /\ Superseding' /\ Matching'
    BY <1>1, <1>2, <1>3 DEF JournalBracketsWork, StagingIsOrdered, Promoting, Superseding, Matching,
                            Working, Staging
  <2>6. \A g \in Pair : (old'[g] # 0 => current'[g] = 0) /\ (current[g] = 0 => current'[g] = 0)
    BY <1>3, <2>1, <2>2 DEF ArchiveTypes, Expiring
  <2>7. (index' > 1 => current'["meeting"] = 0) /\ (index' > 2 => current'["seal"] = 0)
    <3>1. index \in 1..2 /\ index' = index + 1 /\ f \in Pair
      BY <1>2, <1>3, <2>1
    <3>2. current'[f] = 0
      BY <3>1, <2>2 DEF ArchiveTypes
    <3>3. index > 1 => current'["meeting"] = 0
      BY <1>1, <1>3, <2>6 DEF Expiring, Pair
    <3>. QED BY <2>1, <3>1, <3>2, <3>3
  <2>8. Expiring'
    BY <1>1, <1>2, <1>3, <2>6, <2>7 DEF Expiring
  <2>. QED BY <2>3, <2>4, <2>5, <2>8
<1>4. CASE journal.kind \in {"superseded", "disposal"} \/ index > 2
  <2>1. PICK f \in Own : f = Target /\ f \notin Pair /\ (journal.kind = "disposal" => f = "ownMeeting")
    BY <1>1, <1>2, <1>2a, <1>2b, <1>2c, <1>4 DEF Pair, Own, Target
  <2>2. current' = current /\ (\A g \in Pair : old'[g] = old[g])
        /\ old' \in [Pair \cup Own -> 0..MaxPublications]
    <3>1. Held(f) \in 0..MaxPublications
      BY <1>1, <2>1, ArchiveAssumption DEF ArchiveAssumption, Held, Attempts
    <3>2. old' = old \/ old' = [old EXCEPT ![f] = Held(f)]
      BY <1>1, <2>1 DEF SetAside
    <3>. QED BY <1>1, <2>1, <3>1, <3>2 DEF SetAside, ArchiveTypes
  <2>3. /\ own' \in [Own -> SUBSET Attempts]
        /\ \A g \in Own : own[g] \ {journal.attempt} \subseteq own'[g]
        /\ \A g \in Own : g # f => own'[g] = own[g]
    <3>1. own' = own \/ own' = [own EXCEPT ![f] = @ \ {journal.attempt}]
      BY <1>1, <2>1 DEF SetAside
    <3>. QED BY <2>1, <3>1 DEF ArchiveTypes
  <2>4. published # latest /\ journal.kind # "disposal" => journal.attempt # latest
    BY <1>1 DEF Expiring, Superseding, ArchiveTypes, Attempts
  <2>5. ArchiveTypes'
    <3>1. journal' = journal /\ pc' = "target" /\ index' \in 1..5
          /\ UNCHANGED <<latest, staged, published, output>>
      BY <1>1, <1>2, <1>2a, <1>2b, <1>2c
    <3>. QED BY <3>1, <2>2, <2>3 DEF ArchiveTypes, Working
  <2>6. Flags' /\ FlightLeavesArchive' /\ StartIsOrdered'
    BY <1>1, <1>2 DEF Flags, FlightLeavesArchive, StartIsOrdered
  <2>7. UnpromotedKeepsItsFiles'
    <3>. SUFFICES ASSUME published # latest, NEW g \in Needed PROVE latest \in own'[g]
      BY <1>2 DEF UnpromotedKeepsItsFiles
    <3>1. g \in Own /\ latest \in own[g]
      BY DEF UnpromotedKeepsItsFiles, Own
    <3>2. CASE journal.kind = "disposal"
      BY <2>1, <2>3, <3>1, <3>2 DEF Superseding
    <3>3. CASE journal.kind # "disposal"
      BY <2>3, <2>4, <3>1, <3>3
    <3>. QED BY <3>2, <3>3
  <2>8. JournalBracketsWork' /\ StagingIsOrdered' /\ Promoting' /\ Matching'
    BY <1>1, <1>2 DEF JournalBracketsWork, StagingIsOrdered, Promoting, Matching, Working, Staging
  <2>9. Superseding'
    BY <1>1, <1>2, <2>2 DEF Superseding, Recorded
  <2>10. Expiring'
    <3>1. journal.kind = "current" => index > 2
      BY <1>4
    <3>. QED BY <1>1, <1>2, <2>2, <3>1 DEF Expiring
  <2>. QED BY <2>5, <2>6, <2>7, <2>8, <2>9, <2>10
<1>. QED
  BY <1>1, <1>2, <1>3, <1>4

\* The record follows the files once every target is done.
LEMMA RecordOperationStep ==
  ASSUME ArchiveAssumption, ArchiveInv, RecordOperation PROVE ArchiveInv'
<1>. USE TargetsAre, JournalKinds DEF ArchiveInv, jobVars, Of, Needed, RecordOperation, Goto
<1>0. /\ journal # NoOp /\ journal.kind \in Kinds /\ journal.attempt \in Attempts
      /\ journal' = journal /\ pc' = "removeDir"
  BY DEF JournalBracketsWork, Working
<1>1. CASE journal.kind = "promote"
  <2>0. /\ journal.attempt = latest /\ staged["meeting"] = 0 /\ staged["seal"] = 0 /\ latest # 0
        /\ published' = latest /\ output' = "present"
    BY <1>0, <1>1 DEF Promoting, ArchiveTypes, Attempts
  <2>1. \A f \in Pair : current[f] = Of(f, latest) /\ staged[f] = 0
    BY <1>1, <2>0 DEF Promoting, Untouched, Aside, Replaced, Recorded, Pair
  <2>2. ArchiveTypes'
    BY <1>0, <2>0 DEF ArchiveTypes, Working
  <2>3. Flags' /\ FlightLeavesArchive' /\ UnpromotedKeepsItsFiles' /\ StartIsOrdered'
    BY <2>0 DEF Flags, FlightLeavesArchive, UnpromotedKeepsItsFiles, StartIsOrdered
  <2>4. JournalBracketsWork' /\ StagingIsOrdered' /\ Expiring' /\ Superseding' /\ Matching'
    BY <1>0, <1>1 DEF JournalBracketsWork, StagingIsOrdered, Expiring, Superseding, Matching, Working, Staging
  <2>5. Promoting'
    BY <1>0, <2>0, <2>1 DEF Promoting
  <2>. QED BY <2>2, <2>3, <2>4, <2>5
<1>2. CASE journal.kind = "current"
  <2>0. /\ current["meeting"] = 0 /\ current["seal"] = 0
        /\ published' = published /\ output' = "expired"
    BY <1>0, <1>2 DEF Expiring, ArchiveTypes
  <2>1. \A f \in Pair : current[f] = 0
    BY <2>0 DEF Pair
  <2>2. ArchiveTypes'
    BY <1>0, <2>0 DEF ArchiveTypes, Working
  <2>3. Flags' /\ FlightLeavesArchive' /\ UnpromotedKeepsItsFiles' /\ StartIsOrdered'
    BY <2>0 DEF Flags, FlightLeavesArchive, UnpromotedKeepsItsFiles, StartIsOrdered
  <2>4. JournalBracketsWork' /\ StagingIsOrdered' /\ Promoting' /\ Superseding' /\ Matching'
    BY <1>0, <1>2 DEF JournalBracketsWork, StagingIsOrdered, Promoting, Superseding, Matching, Working, Staging
  <2>5. Expiring'
    BY <1>0, <1>2, <2>0, <2>1 DEF Expiring
  <2>. QED BY <2>2, <2>3, <2>4, <2>5
<1>3. CASE journal.kind \in {"superseded", "disposal"}
  <2>0. published' = published /\ output' = output
    BY <1>3
  <2>1. ArchiveTypes'
    BY <1>0, <2>0 DEF ArchiveTypes, Working
  <2>2. Flags' /\ FlightLeavesArchive' /\ UnpromotedKeepsItsFiles' /\ StartIsOrdered'
    BY <2>0 DEF Flags, FlightLeavesArchive, UnpromotedKeepsItsFiles, StartIsOrdered
  <2>3. JournalBracketsWork' /\ StagingIsOrdered' /\ Promoting' /\ Expiring' /\ Matching'
    BY <1>0, <1>3 DEF JournalBracketsWork, StagingIsOrdered, Promoting, Expiring, Matching, Working, Staging
  <2>4. Superseding'
    BY <1>0, <2>0 DEF Superseding, Recorded
  <2>. QED BY <2>1, <2>2, <2>3, <2>4
<1>. QED
  BY <1>0, <1>1, <1>2, <1>3 DEF Kinds

\* The operation directory goes, then the journal; by then the pair is what the
\* record says.
LEMMA CloseOperationStep ==
  ASSUME ArchiveAssumption, ArchiveInv, RemoveOperationDir \/ DeleteJournal PROVE ArchiveInv'
<1>. USE JournalKinds DEF ArchiveInv, jobVars, Of, Needed, Goto
<1>0. EmptyPair \in [Pair -> 0..MaxPublications] /\ EmptyDir \in [Pair \cup Own -> 0..MaxPublications]
  BY DEF ArchiveAssumption, EmptyPair, EmptyDir
<1>1. CASE RemoveOperationDir
  <2>. USE <1>1 DEF RemoveOperationDir
  <2>0. journal # NoOp /\ journal' = journal /\ pc' = "delete"
    BY DEF JournalBracketsWork, Working
  <2>1. ArchiveTypes'
    BY <1>0, <2>0 DEF ArchiveTypes, Working
  <2>2. Flags' /\ FlightLeavesArchive' /\ UnpromotedKeepsItsFiles' /\ StartIsOrdered'
    BY DEF Flags, FlightLeavesArchive, UnpromotedKeepsItsFiles, StartIsOrdered
  <2>3. JournalBracketsWork' /\ StagingIsOrdered' /\ Superseding' /\ Matching'
    BY <2>0 DEF JournalBracketsWork, StagingIsOrdered, Superseding, Matching, Staging, Recorded
  <2>4. Promoting'
    BY <2>0 DEF Promoting, EmptyPair
  <2>5. Expiring'
    BY <2>0 DEF Expiring, EmptyDir
  <2>. QED BY <2>1, <2>2, <2>3, <2>4, <2>5
<1>2. CASE DeleteJournal
  <2>. USE <1>2 DEF DeleteJournal
  <2>0. journal # NoOp /\ journal' = NoOp /\ NoOp.kind = "none" /\ pc' \in {"reconcile", "prune", "idle"}
    BY DEF JournalBracketsWork, Working, NoOp
  <2>1. \A f \in Pair : current[f] = Recorded(f)
    BY <2>0 DEF Promoting, Expiring, Superseding, Recorded, Kinds
  <2>2. ArchiveTypes' /\ UnpromotedKeepsItsFiles'
    BY <2>0 DEF ArchiveTypes, UnpromotedKeepsItsFiles
  <2>3. Flags' /\ FlightLeavesArchive'
    BY DEF Flags, FlightLeavesArchive
  <2>4. JournalBracketsWork' /\ StagingIsOrdered' /\ Promoting' /\ Expiring' /\ Superseding'
    BY <2>0 DEF JournalBracketsWork, StagingIsOrdered, Promoting, Expiring, Superseding, Working, Staging
  <2>5. Matching'
    BY <2>1 DEF Matching, Recorded
  <2>6. StartIsOrdered'
    BY <2>0 DEF StartIsOrdered
  <2>. QED BY <2>2, <2>3, <2>4, <2>5, <2>6
<1>. QED
  BY <1>1, <1>2

-----------------------------------------------------------------------------
(* Pruning, expiry, failures and crashes.                                  *)

\* Pruning takes only the duplicate of what is in the archive.
LEMMA PruneStep ==
  ASSUME ArchiveAssumption, ArchiveInv, pruneArtifactsForJob PROVE ArchiveInv'
<1>. USE DEF ArchiveInv, jobVars, Of, Needed, pruneArtifactsForJob, Goto
<1>1. ArchiveTypes'
  BY DEF ArchiveTypes, Own
<1>2. Flags' /\ FlightLeavesArchive' /\ StartIsOrdered'
  BY DEF Flags, FlightLeavesArchive, StartIsOrdered
<1>3. JournalBracketsWork' /\ StagingIsOrdered'
  BY DEF JournalBracketsWork, StagingIsOrdered, Working, Staging
<1>4. Promoting' /\ Expiring' /\ Superseding' /\ Matching'
  BY DEF Promoting, Expiring, Superseding, Matching, Untouched, Aside, Replaced, Recorded
<1>5. UnpromotedKeepsItsFiles'
  BY DEF ArchiveTypes, UnpromotedKeepsItsFiles
<1>. QED
  BY <1>1, <1>2, <1>3, <1>4, <1>5

\* An expiry begins with the recorded pair in its place.
LEMMA ExpirePathsStep ==
  ASSUME ArchiveAssumption, ArchiveInv, NEW kind \in Kinds, NEW a \in Attempts, ExpirePaths(kind, a)
  PROVE  ArchiveInv'
<1>. USE DEF ArchiveInv, jobVars, Of, Needed, ExpirePaths, Start, Goto
<1>1. /\ journal = NoOp /\ journal' \in [kind : Kinds, attempt : Attempts] /\ journal' # NoOp
      /\ journal'.kind = kind /\ journal'.attempt = a
      /\ kind \in {"current", "superseded"} /\ pc' = "target" /\ index' = 1
  BY DEF NoOp, Kinds
<1>2. EmptyPair \in [Pair -> 0..MaxPublications] /\ EmptyDir \in [Pair \cup Own -> 0..MaxPublications]
  BY DEF ArchiveAssumption, EmptyPair, EmptyDir
<1>3. ArchiveTypes'
  BY <1>1, <1>2 DEF ArchiveTypes, Working
<1>4. Flags' /\ FlightLeavesArchive' /\ StartIsOrdered' /\ UnpromotedKeepsItsFiles'
  BY <1>1 DEF Flags, FlightLeavesArchive, StartIsOrdered, UnpromotedKeepsItsFiles
<1>5. JournalBracketsWork' /\ StagingIsOrdered' /\ Promoting' /\ Matching'
  BY <1>1, TargetsAre DEF JournalBracketsWork, StagingIsOrdered, Promoting, Matching, Working, Staging
<1>6. Expiring'
  BY <1>1 DEF Expiring, Matching, Recorded, EmptyDir
<1>7. Superseding'
  BY <1>1 DEF Superseding, Matching, Recorded
<1>. QED
  BY <1>3, <1>4, <1>5, <1>6, <1>7

\* A disposal begins with the recorded seal in its place, or finishes what is
\* pending.
LEMMA DisposeOfMeetingStep ==
  ASSUME ArchiveAssumption, ArchiveInv, DisposeOfMeeting PROVE ArchiveInv'
<1>. USE TargetsAre, JournalKinds DEF ArchiveInv, jobVars, Of, Needed, DisposeOfMeeting, Goto
<1>1. /\ pc' = "target" /\ index' = 1 /\ sealOnly /\ ~flight
      /\ UNCHANGED <<sealOnly, flight, latest, current, own, published, output, boot, clean>>
  BY DEF Start
<1>2. CASE journal # NoOp
  <2>0. journal' = journal /\ staged' = staged /\ old' = old
    BY <1>2
  <2>1. ArchiveTypes' /\ UnpromotedKeepsItsFiles'
    BY <1>1, <2>0 DEF ArchiveTypes, UnpromotedKeepsItsFiles, Working
  <2>2. Flags' /\ FlightLeavesArchive' /\ StartIsOrdered'
    BY <1>1 DEF Flags, FlightLeavesArchive, StartIsOrdered
  <2>3. JournalBracketsWork' /\ StagingIsOrdered'
    BY <1>1, <1>2, <2>0 DEF JournalBracketsWork, StagingIsOrdered, Working, Staging, Kinds
  <2>4. Promoting' /\ Expiring' /\ Superseding' /\ Matching'
    BY <1>1, <2>0 DEF Promoting, Expiring, Superseding, Matching, Untouched, Aside, Replaced, Recorded
  <2>. QED BY <2>1, <2>2, <2>3, <2>4
<1>3. CASE journal = NoOp
  <2>0. PICK a \in own["ownMeeting"] : Start("disposal", a)
    BY <1>3
  <2>1. /\ a \in Attempts /\ journal' = [kind |-> "disposal", attempt |-> a]
        /\ journal' # NoOp /\ journal'.kind = "disposal" /\ journal'.attempt = a
        /\ staged' = EmptyPair /\ old' = EmptyDir
    BY <2>0 DEF Start, ArchiveTypes, Own, NoOp
  <2>2. EmptyPair \in [Pair -> 0..MaxPublications] /\ EmptyDir \in [Pair \cup Own -> 0..MaxPublications]
    BY DEF ArchiveAssumption, EmptyPair, EmptyDir
  <2>. HIDE DEF DisposeOfMeeting
  <2>3. ArchiveTypes'
    BY <1>1, <2>1, <2>2 DEF ArchiveTypes, Working, Kinds
  <2>4. Flags' /\ FlightLeavesArchive' /\ StartIsOrdered' /\ UnpromotedKeepsItsFiles'
    BY <1>1 DEF Flags, FlightLeavesArchive, StartIsOrdered, UnpromotedKeepsItsFiles
  <2>5. JournalBracketsWork' /\ StagingIsOrdered' /\ Promoting' /\ Expiring' /\ Matching'
    BY <1>1, <2>1 DEF JournalBracketsWork, StagingIsOrdered, Promoting, Expiring, Matching, Working, Staging
  <2>6. Superseding'
    BY <1>1, <1>3, <2>1 DEF Superseding, Matching, Recorded
  <2>. QED BY <2>3, <2>4, <2>5, <2>6
<1>. QED
  BY <1>2, <1>3

\* The startup pass goes on to the promotion, or leaves the job alone.
LEMMA ReconcileStep ==
  ASSUME ArchiveAssumption, ArchiveInv, reconcileArtifactDuplicatesOnStartup PROVE ArchiveInv'
<1>. USE DEF ArchiveInv, jobVars, Of, Needed, reconcileArtifactDuplicatesOnStartup, Goto
<1>1. pc' \in {"idle", "promote"} /\ (flight => pc' = "idle")
  OBVIOUS
<1>2. ArchiveTypes' /\ UnpromotedKeepsItsFiles' /\ Flags' /\ FlightLeavesArchive'
  BY <1>1 DEF ArchiveTypes, UnpromotedKeepsItsFiles, Flags, FlightLeavesArchive
<1>3. JournalBracketsWork' /\ StagingIsOrdered' /\ StartIsOrdered'
  BY <1>1 DEF JournalBracketsWork, StagingIsOrdered, StartIsOrdered, Working, Staging
<1>4. Promoting' /\ Expiring' /\ Superseding' /\ Matching'
  BY <1>1 DEF Promoting, Expiring, Superseding, Matching, Untouched, Aside, Replaced, Recorded
<1>. QED
  BY <1>2, <1>3, <1>4

\* A failure and a crash leave every file, the journal and the record as they are.
LEMMA FaultStep ==
  ASSUME ArchiveAssumption, ArchiveInv, OperationFails \/ Crash \/ UNCHANGED archiveVars PROVE ArchiveInv'
<1>. USE JournalKinds DEF ArchiveInv, jobVars, Of, Needed, Goto
<1>1. CASE OperationFails
  <2>. USE <1>1 DEF OperationFails
  <2>0. pc' \in {"idle", "reconcile", "prune"} /\ ~clean'
        /\ (pc' = "reconcile" => boot /\ pc \in Working)
    OBVIOUS
  <2>1. ArchiveTypes' /\ UnpromotedKeepsItsFiles'
    BY <2>0 DEF ArchiveTypes, UnpromotedKeepsItsFiles
  <2>2a. Flags' /\ FlightLeavesArchive'
    BY <2>0 DEF Flags, FlightLeavesArchive
  <2>2. StartIsOrdered'
    <3>1. pc' = "reconcile" => boot'
      BY <2>0 DEF Flags, Working
    <3>. QED BY <2>0, <3>1 DEF StartIsOrdered
  <2>3. JournalBracketsWork' /\ StagingIsOrdered'
    BY <2>0 DEF JournalBracketsWork, StagingIsOrdered, Working, Staging
  <2>4. Promoting' /\ Expiring' /\ Superseding' /\ Matching'
    BY <2>0 DEF Promoting, Expiring, Superseding, Matching, Untouched, Aside, Replaced, Recorded
  <2>. QED BY <2>1, <2>2a, <2>2, <2>3, <2>4
<1>2. CASE Crash
  <2>. USE <1>2, TargetsAre DEF Crash
  <2>1. ArchiveTypes' /\ UnpromotedKeepsItsFiles'
    BY DEF ArchiveTypes, UnpromotedKeepsItsFiles, Working
  <2>2. Flags' /\ FlightLeavesArchive' /\ StartIsOrdered'
    BY DEF Flags, FlightLeavesArchive, StartIsOrdered
  <2>3. JournalBracketsWork' /\ StagingIsOrdered'
    BY DEF JournalBracketsWork, StagingIsOrdered, Working, Staging, Kinds
  <2>4. Promoting' /\ Expiring' /\ Superseding' /\ Matching'
    BY DEF Promoting, Expiring, Superseding, Matching, Untouched, Aside, Replaced, Recorded
  <2>. QED BY <2>1, <2>2, <2>3, <2>4
<1>3. CASE UNCHANGED archiveVars
  BY <1>3 DEF archiveVars, ArchiveTypes, Flags, FlightLeavesArchive, JournalBracketsWork, StagingIsOrdered, Promoting, Expiring, Superseding,
              Matching, UnpromotedKeepsItsFiles, StartIsOrdered, Untouched, Aside, Replaced, Recorded
<1>. QED
  BY <1>1, <1>2, <1>3

\* Every step keeps the inductive invariant.
LEMMA ArchiveInvStep == ASSUME ArchiveAssumption PROVE ArchiveInv /\ [ArchiveNext]_archiveVars => ArchiveInv'
<1>. SUFFICES ASSUME ArchiveInv, [ArchiveNext]_archiveVars PROVE ArchiveInv'
  OBVIOUS
<1>1. CASE finishOperation
  BY <1>1, PromoteFileStep, ExpireFileStep, RecordOperationStep, CloseOperationStep DEF finishOperation
<1>2. CASE QueueRerunAttempt \/ AttemptFails \/ RecordPublication \/ (Worker /\ ~finishOperation)
  BY <1>2, AttemptStep, RecordPublicationStep, PrepareStep, PruneStep DEF Worker
<1>3. ASSUME NEW kind \in Kinds, NEW a \in Attempts, ExpirePaths(kind, a) PROVE ArchiveInv'
  BY <1>3, ExpirePathsStep
<1>4. CASE OperationFails \/ Crash \/ UNCHANGED archiveVars
  BY <1>4, FaultStep
<1>5. CASE DisposeOfMeeting \/ reconcileArtifactDuplicatesOnStartup
  BY <1>5, DisposeOfMeetingStep, ReconcileStep
<1>. QED
  BY <1>1, <1>2, <1>3, <1>4, <1>5 DEF ArchiveNext, Worker

-----------------------------------------------------------------------------
\* At every point of replacing, expiring or replaying them, whatever fails and
\* wherever the operator stops: the canonical pair is what the record says
\* unless a journal is open, the published pair is never lost, and what was not
\* promoted yet can still be (finishOperation, recoverArtifactOperations).
THEOREM ArchiveIsAlwaysWhole == ArchiveSpec => []ArchiveIsWhole
<1>1. ArchiveInv => ArchiveIsWhole
  <2>. SUFFICES ASSUME ArchiveInv PROVE ArchiveIsWhole
    OBVIOUS
  <2>. USE JournalKinds, ArchiveAssumption DEF ArchiveInv
  <2>1. ArchiveTypeOK
    BY DEF ArchiveAssumption, ArchiveTypes, Flags, FlightLeavesArchive, ArchiveTypeOK, Staging, Working
  <2>2. ArchiveMatchesRecord
    BY DEF ArchiveMatchesRecord, Matching, Recorded, ArchiveTypes
  <2>3. PublishedPairNeverLost
    <3>. SUFFICES ASSUME output = "present", journal.kind # "current", NEW f \in Pair
                  PROVE  Of(f, published) \in {current[f], old[f]}
      BY DEF PublishedPairNeverLost
    <3>1. CASE journal = NoOp
      BY <3>1 DEF Matching, Recorded
    <3>2. CASE journal.kind = "promote"
      BY <3>2 DEF Promoting, Untouched, Aside, Replaced, Recorded
    <3>3. CASE journal.kind \in {"superseded", "disposal"}
      BY <3>3 DEF Superseding, Recorded
    <3>. QED BY <3>1, <3>2, <3>3 DEF Kinds
  <2>. QED BY <2>1, <2>2, <2>3 DEF ArchiveIsWhole
<1>. QED
  BY ArchiveAssumption, ArchiveInvInit, ArchiveInvStep, <1>1, PTL DEF ArchiveSpec

\* No replay and no startup pass resurrects what expired: the archive comes back
\* only as a later publication (RecordOperation).
THEOREM ExpiredAlwaysStaysExpired == ArchiveSpec => ExpiredStaysExpired
<1>1. ArchiveInv /\ [ArchiveNext]_archiveVars =>
        [output = "expired" /\ output' = "present" => published' > published]_archiveVars
  <2>. SUFFICES ASSUME ArchiveInv, ArchiveNext, output = "expired", output' = "present"
                PROVE  published' > published
    OBVIOUS
  <2>1. RecordOperation
    BY DEF ArchiveNext, Worker, finishOperation, QueueRerunAttempt, AttemptFails, RecordPublication,
           promotePublishedPair, StageMeeting, StageSeal, saveOperation, SkipTarget, SetAside,
           PlaceStaged, RemoveOperationDir, DeleteJournal, pruneArtifactsForJob, ExpirePaths,
           DisposeOfMeeting, OperationFails, Crash, reconcileArtifactDuplicatesOnStartup
  <2>2. journal.kind = "promote" /\ published' = journal.attempt
    BY <2>1 DEF RecordOperation
  <2>. QED BY <2>2 DEF ArchiveInv, Promoting, ArchiveTypes
<1>. QED
  BY ArchiveAssumption, ArchiveInvInit, ArchiveInvStep, <1>1, PTL DEF ArchiveSpec, ExpiredStaysExpired

\* A start in which nothing fails finishes the journal and leaves the last
\* publication in the archive or expired, unless it passes over the job because
\* an attempt is on its way (recoverArtifactOperations,
\* reconcileArtifactDuplicatesOnStartup).
THEOREM RestartAlwaysSettles == ArchiveSpec => RestartSettlesArchive
<1>1. ArchiveInv /\ [ArchiveNext]_archiveVars =>
        [boot /\ ~boot' /\ clean' => journal' = NoOp /\ (flight' \/ published' = latest')]_archiveVars
  <2>. SUFFICES ASSUME ArchiveInv, ArchiveNext, boot, ~boot', clean'
                PROVE  journal' = NoOp /\ (flight' \/ published' = latest')
    OBVIOUS
  <2>1. pruneArtifactsForJob \/ (reconcileArtifactDuplicatesOnStartup /\ flight)
    BY DEF ArchiveNext, Worker, finishOperation, QueueRerunAttempt, AttemptFails, RecordPublication,
           promotePublishedPair, StageMeeting, StageSeal, saveOperation, SkipTarget, SetAside,
           PlaceStaged, RecordOperation, RemoveOperationDir, DeleteJournal, ExpirePaths,
           DisposeOfMeeting, OperationFails, Crash, reconcileArtifactDuplicatesOnStartup
  <2>2. CASE pruneArtifactsForJob
    BY <2>2 DEF pruneArtifactsForJob, ArchiveInv, StartIsOrdered, jobVars
  <2>3. CASE reconcileArtifactDuplicatesOnStartup /\ flight
    BY <2>3 DEF reconcileArtifactDuplicatesOnStartup, ArchiveInv, FlightLeavesArchive, jobVars
  <2>. QED BY <2>1, <2>2, <2>3
<1>. QED
  BY ArchiveAssumption, ArchiveInvInit, ArchiveInvStep, <1>1, PTL DEF ArchiveSpec, RestartSettlesArchive

\* Both at once: what a start owes to the archive.
THEOREM ArchiveAlwaysSettles == ArchiveSpec => ArchiveSettles
BY RestartAlwaysSettles, ExpiredAlwaysStaysExpired DEF ArchiveSettles
=============================================================================
