---------------------------- MODULE SpeakerEdits ----------------------------
(***************************************************************************)
(* Speaker edits and summaries of one published meeting                    *)
(* (speaker_edits.go, speaker_refine.go, summarize_attempt.go and the      *)
(* write side of annotations_speakers.go).  A saved document of edits is a *)
(* revision of its own and queues a refine; a rerun replays what the       *)
(* published meeting carries; a summarize writes into a copy of it.  All   *)
(* of them build from, and publish over, the meeting readers have.         *)
(*                                                                         *)
(* A document is its revision number (it is whole, never a difference), a  *)
(* bundle is the revision it carries, the attempt that wrote its summary   *)
(* and the attempt stamped in it.  Stages of an attempt hold the job's     *)
(* artifact lock, so they are steps of one control variable.               *)
(***************************************************************************)
EXTENDS Naturals, FiniteSets

CONSTANTS
  Person,          \* people with the page open
  MaxVersions,     \* bound: attempts of the job
  MaxRevisions,    \* bound: saved documents
  MaxStageFaults  \* bound: failed stages, failed promotions and restarts

ASSUME SpeakersAssumption == MaxVersions \in Nat \ {0} /\ MaxRevisions \in Nat

AttemptNumbers == 1..MaxVersions

VARIABLES
  state,      \* jobs.state; "build", "seal", "publish", "delivered": running there
  cur,        \* jobs.current_attempt_number
  versions,   \* job_attempts: kind, snapshot, summary choice, publication
  own,        \* the meeting bundle in each attempt's directory
  edits,      \* the speaker_edits row
  current,    \* current/<job>.meeting
  promoted,   \* artifact_availability.published_attempt
  promoting,  \* "none"; "tail": the publish goes on to promote; "pending": journalled
  readers,    \* the meeting inside the file at the publish destination
  page,       \* revision each person's page shows
  planned,    \* people whose summary plan said that there is none
  stageFaults,
  basis,      \* ghost: the revision its author was looking at, of each revision
  unasked     \* ghost: a summary was replaced by an attempt that was not asked to

speakersVars ==
  <<state, cur, versions, own, edits, current, promoted, promoting, readers, page, planned,
    stageFaults, basis, unasked>>

NoBundle == [edits |-> 0, summary |-> 0, by |-> 0]
NoAttempt == [kind |-> "none", snap |-> 0, rewrite |-> FALSE, published |-> FALSE, ended |-> "none"]
Resting == {"succeeded", "failed", "interrupted", "blocked"}

-----------------------------------------------------------------------------
(* The meeting readers have, according to the store.                       *)

Published == {a \in AttemptNumbers : versions[a].published}
Latest(S) == CHOOSE a \in S : \A b \in S : b <= a

\* Mutant of publishedSpeakerMeeting: whatever is in current/.
CurrentMeeting == current

\* current/ once the latest published attempt is promoted; that attempt's own
\* bundle before; current/ again when its bundle is gone.
publishedSpeakerMeeting ==
  IF Published = {} \/ promoted = Latest(Published) \/ own[Latest(Published)] = NoBundle
  THEN current ELSE own[Latest(Published)]

\* The bundle to copy is a rebuild that was never published.
speakerBuildUnpublished(b) ==
  /\ b.by > 0
  /\ versions[b.by].kind \notin {"refine", "summarize"}
  /\ versions[b.by].ended \in {"failed", "interrupted"}

Copyable == publishedSpeakerMeeting # NoBundle /\ ~speakerBuildUnpublished(publishedSpeakerMeeting)

-----------------------------------------------------------------------------
(* New attempts: nobody holds the artifact lock, no archive operation is   *)
(* pending and the job is at rest.                                         *)

MayQueue == state \in Resting /\ promoting = "none" /\ cur < MaxVersions

queueAttempt(kind, snap, rewrite) ==
  /\ MayQueue
  /\ cur' = cur + 1
  /\ state' = "queued"
  /\ versions' = [versions EXCEPT ![cur].ended = state,
                        ![cur + 1] = [NoAttempt EXCEPT !.kind = kind, !.snap = snap, !.rewrite = rewrite]]

\* readSpeakers: the page loads what is saved.
readSpeakers(p) ==
  /\ page[p] # edits.revision
  /\ page' = [page EXCEPT ![p] = edits.revision]
  /\ UNCHANGED <<state, cur, versions, own, edits, current, promoted, promoting, readers, planned,
                 stageFaults, basis, unasked>>

ExpectedRevision(p) == page[p] = edits.revision

\* writeSpeakers: the next revision and the refine that applies it, in one
\* transaction; a page that shows an older revision gets a conflict. The handler
\* looks for a meeting to copy before that, with no lock held: what it saw may
\* have ended as an unpublished rebuild since, so only the build can tell.
writeSpeakers(p) ==
  /\ ExpectedRevision(p)
  /\ publishedSpeakerMeeting # NoBundle
  /\ edits.revision < MaxRevisions
  /\ edits' = [edits EXCEPT !.revision = @ + 1, !.error = FALSE]
  /\ basis' = [basis EXCEPT ![edits.revision + 1] = page[p]]
  /\ \E rewrite \in BOOLEAN : queueAttempt("refine", edits.revision + 1, rewrite)
  /\ page' = [page EXCEPT ![p] = edits.revision + 1]
  /\ UNCHANGED <<own, current, promoted, promoting, readers, planned, stageFaults, unasked>>

\* The document a rerun replays, frozen with the attempt: the applied one.
speakerEditsReplay == edits.applied

QueueRerunAttempt ==
  /\ queueAttempt("rerun", speakerEditsReplay, TRUE)
  /\ UNCHANGED <<own, edits, current, promoted, promoting, readers, page, planned, stageFaults,
                 basis, unasked>>

\* The plan a person is shown before asking for a summary.
summaryPlanFor(p) ==
  /\ p \notin planned
  /\ publishedSpeakerMeeting # NoBundle /\ publishedSpeakerMeeting.summary = 0
  /\ planned' = planned \cup {p}
  /\ UNCHANGED <<state, cur, versions, own, edits, current, promoted, promoting, readers, page,
                 stageFaults, basis, unasked>>

\* queueSummarizeAttempt: whether there is a summary is decided again here.
queueSummarizeAttempt(p, replace) ==
  /\ replace \/ p \in planned
  /\ replace \/ publishedSpeakerMeeting.summary = 0
  /\ queueAttempt("summarize", 0, replace)
  /\ planned' = planned \ {p}
  /\ UNCHANGED <<own, edits, current, promoted, promoting, readers, page, stageFaults, basis,
                 unasked>>

-----------------------------------------------------------------------------
(* The stages of the current attempt.                                      *)

Row == versions[cur]
ToStage(s) == state' = s /\ UNCHANGED cur

ClaimVersion ==
  /\ state = "queued"
  /\ ToStage("build")
  /\ UNCHANGED <<versions, own, edits, current, promoted, promoting, readers, page, planned,
                 stageFaults, basis, unasked>>

\* A build from the capture with the snapshot replayed on its words, if there
\* is one; s is the summary it comes out with (0: none was written).
applySpeakerEdits(s) == [edits |-> Row.snap, summary |-> s, by |-> cur]

\* A copy of the published meeting with the whole document applied to its
\* original words; its summary is kept unless the person asked for a new one.
executeRefineCLI(s) ==
  [edits |-> Row.snap, summary |-> IF Row.rewrite THEN s ELSE publishedSpeakerMeeting.summary,
   by |-> cur]

\* A copy of the published meeting with a summary written into it.
executeSummarizeCLI == [publishedSpeakerMeeting EXCEPT !.summary = cur, !.by = cur]

withSpeakerEdits ==
  /\ state = "build"
  /\ \E s \in {0, cur} :
       own' = [own EXCEPT ![cur] = CASE Row.kind = "refine"    -> executeRefineCLI(s)
                                     [] Row.kind = "summarize" -> executeSummarizeCLI
                                     [] OTHER                  -> applySpeakerEdits(s)]
  /\ Row.kind \in {"refine", "summarize"} => Copyable
  /\ ToStage("seal")
  /\ UNCHANGED <<versions, edits, current, promoted, promoting, readers, page, planned,
                 stageFaults, basis, unasked>>

\* The build cannot be done: nothing to copy, the CLI refuses, no model. The
\* page is told through last_error when edits were being applied.
BuildFails ==
  /\ state = "build"
  /\ stageFaults < MaxStageFaults /\ stageFaults' = stageFaults + 1
  /\ ToStage("failed")
  /\ edits' = [edits EXCEPT !.error = @ \/ Row.snap > 0]
  /\ UNCHANGED <<versions, own, current, promoted, promoting, readers, page, planned, basis,
                 unasked>>

\* Out of memory, or a recording starts: back in the queue, or blocked once
\* deferred too often; nothing is recorded against the edits.
VersionYields ==
  /\ state = "build"
  /\ stageFaults < MaxStageFaults /\ stageFaults' = stageFaults + 1
  /\ \E s \in {"queued", "blocked"} : ToStage(s)
  /\ UNCHANGED <<versions, own, edits, current, promoted, promoting, readers, page, planned,
                 basis, unasked>>

SealSucceeds ==
  /\ state = "seal"
  /\ ToStage("publish")
  /\ UNCHANGED <<versions, own, edits, current, promoted, promoting, readers, page, planned,
                 stageFaults, basis, unasked>>

\* The sealed attempt replaces the file at the destination.
DeliverVersion ==
  /\ state = "publish"
  /\ readers' = own[cur]
  /\ ToStage("delivered")
  /\ UNCHANGED <<versions, own, edits, current, promoted, promoting, page, planned,
                 stageFaults, basis, unasked>>

\* The seal fails, or the publish does, before or after the file was put.
VersionFails ==
  /\ state \in {"seal", "publish", "delivered"}
  /\ stageFaults < MaxStageFaults /\ stageFaults' = stageFaults + 1
  /\ ToStage("failed")
  /\ UNCHANGED <<versions, own, edits, current, promoted, promoting, readers, page, planned,
                 basis, unasked>>

\* The snapshot of the published attempt is what the recording carries now;
\* an older one does not un-apply a newer, and leaves the newer one's error.
markSpeakerEditsPublished ==
  edits' = [edits EXCEPT
              !.applied = IF Row.snap > @ THEN Row.snap ELSE @,
              !.error = @ /\ ~(Row.snap > 0 /\ Row.snap >= edits.revision)]

\* One transaction: the attempt is published and its edits are applied.
MarkVersionPublished ==
  /\ state = "delivered"
  /\ ToStage("succeeded")
  /\ versions' = [versions EXCEPT ![cur].published = TRUE]
  /\ markSpeakerEditsPublished
  /\ promoting' = "tail"
  /\ unasked' = (unasked \/ /\ publishedSpeakerMeeting.summary \notin {0, own[cur].summary}
                            /\ Row.kind \in {"refine", "summarize"} /\ ~Row.rewrite)
  /\ UNCHANGED <<own, current, promoted, readers, page, planned, stageFaults, basis>>

\* The archive journals the promotion, or fails before it does.
PromotionStarts ==
  /\ promoting = "tail"
  /\ \/ promoting' = "pending" /\ UNCHANGED stageFaults
     \/ stageFaults < MaxStageFaults /\ stageFaults' = stageFaults + 1 /\ promoting' = "none"
  /\ UNCHANGED <<state, cur, versions, own, edits, current, promoted, readers, page, planned,
                 basis, unasked>>

\* The pair is in current/, the attempt's own bundle is pruned.
PromotionEnds ==
  LET a == Latest(Published) IN
  /\ promoting = "pending"
  /\ promoting' = "none"
  /\ current' = own[a]
  /\ promoted' = a
  /\ own' = [b \in AttemptNumbers |-> IF b <= a THEN NoBundle ELSE own[b]]
  /\ UNCHANGED <<state, cur, versions, edits, readers, page, planned, stageFaults, basis, unasked>>

\* A new process: a running attempt is interrupted, a journalled promotion is
\* taken up again, and a job that is done has its published attempt promoted
\* if current/ holds another.
RestartSpeakers ==
  /\ stageFaults < MaxStageFaults /\ stageFaults' = stageFaults + 1
  /\ state' = IF state \in Resting \cup {"queued"} THEN state ELSE "interrupted"
  /\ promoting' = IF \/ promoting = "pending"
                     \/ /\ state \in {"succeeded", "failed"}
                        /\ Published # {} /\ promoted # Latest(Published)
                  THEN "pending" ELSE "none"
  /\ planned' = {}
  /\ UNCHANGED <<cur, versions, own, edits, current, promoted, readers, page, basis, unasked>>

-----------------------------------------------------------------------------
SpeakersInit ==
  /\ state = "queued" /\ cur = 1
  /\ versions = [a \in AttemptNumbers |-> IF a = 1 THEN [NoAttempt EXCEPT !.kind = "create"] ELSE NoAttempt]
  /\ own = [a \in AttemptNumbers |-> NoBundle]
  /\ edits = [revision |-> 0, applied |-> 0, error |-> FALSE]
  /\ current = NoBundle /\ promoted = 0 /\ promoting = "none"
  /\ readers = NoBundle
  /\ page = [p \in Person |-> 0]
  /\ planned = {}
  /\ stageFaults = 0
  /\ basis = [r \in 1..MaxRevisions |-> r - 1]
  /\ unasked = FALSE

ByPerson(p) ==
  readSpeakers(p) \/ writeSpeakers(p) \/ summaryPlanFor(p)
    \/ \E replace \in BOOLEAN : queueSummarizeAttempt(p, replace)

Stage == ClaimVersion \/ withSpeakerEdits \/ SealSucceeds \/ DeliverVersion \/ MarkVersionPublished

SpeakersNext ==
  \/ \E p \in Person : ByPerson(p)
  \/ QueueRerunAttempt
  \/ Stage \/ BuildFails \/ VersionYields \/ VersionFails
  \/ PromotionStarts \/ PromotionEnds
  \/ RestartSpeakers

SpeakersSpec == SpeakersInit /\ [][SpeakersNext]_speakersVars

-----------------------------------------------------------------------------
(* Properties.                                                             *)

\* The edits recorded as applied are in the meeting every new attempt starts
\* from and in the file readers have, after any mix of reruns, refines,
\* summaries, failed stages, late promotions and restarts, so that names are
\* never silently undone (QueueRerunAttempt's replay); and every revision was
\* written over the one its author was looking at, so that two people who save
\* from the same page do not overwrite each other.
EditsAreKept ==
  /\ Published # {} => publishedSpeakerMeeting.edits = edits.applied
  /\ readers.edits >= edits.applied
  /\ \A r \in 1..edits.revision : basis[r] = r - 1

\* A summary is replaced only by an attempt that was asked to write a new one:
\* two requests for a missing summary, or an edit that keeps it, never do.
SummaryReplacedOnlyWhenAsked == ~unasked

\* Nobody's correction or summary is undone or overwritten unseen.
CorrectionsAreKept == EditsAreKept /\ SummaryReplacedOnlyWhenAsked

=============================================================================
