--------------------------- MODULE AnnotationSync ---------------------------
(***************************************************************************)
(* The marks people put on one published recording. An edit is committed   *)
(* to the operator's database (annotation_head.desired) and answered;      *)
(* workers later embed it into the recording's file in Nextcloud and move  *)
(* annotation_head.confirmed. Publishing a rerun replaces the same file    *)
(* and carries its marks. Uploads are conditional on the ETag read before, *)
(* answers get lost, uploads land after their caller gave up, the process  *)
(* crashes, and somebody outside may write the file.                       *)
(*                                                                         *)
(* A document is the sequence of the edits applied to it. A recording's    *)
(* bytes are [audio, doc, build, ok]: the audio identity, the marks, the   *)
(* seal they were built by, and whether the annotations can be read.       *)
(***************************************************************************)
EXTENDS Naturals, FiniteSets, Sequences

CONSTANTS
  Request,        \* edits, each with its requestId
  MaxPublish,     \* bound: deliveries
  MaxCarry,       \* maxCarryAttempts
  MaxOutside,     \* bound: writes by somebody else
  MaxSnapshots    \* bound: rows of annotation_snapshot ever inserted

None == [none |-> TRUE]

VARIABLES
  remoteFile,  \* the leaf in Nextcloud: [etag, bytes], or None
  etags,       \* the last ETag the server gave out
  head,        \* row of annotation_head, or None
  snapshots,   \* annotation_snapshot: id -> [audio, doc]
  nextID,      \* AUTOINCREMENT of annotation_snapshot
  receipts,    \* requestIds with an annotation_receipt
  lock,        \* annotationWriteLocks of the recording
  worker,      \* annotationWorker's locals, or None
  publisher,   \* Deliver's locals, or None
  importer,    \* bytes read by a backfill or an import, or None
  rebuild,     \* a rebuild of the index that did not find the recording in its listing
  late,        \* an upload whose caller gave up and the server may still apply
  publishes, outside,
  accepted,    \* edits answered with success since the current audio was delivered
  drift        \* the file was written by somebody else, or by a late upload that no ETag
               \* guards (a first delivery) or that brings other audio

marksVars == <<remoteFile, etags, head, snapshots, nextID, receipts, lock, worker, publisher,
          importer, rebuild, late, publishes, outside, accepted, drift>>
store == <<head, snapshots, nextID, accepted>>
remote == <<remoteFile, etags, late, drift>>

MarksInit ==
  /\ remoteFile = None /\ etags = 0
  /\ head = None /\ snapshots = <<>> /\ nextID = 1 /\ receipts = {}
  /\ lock = "free" /\ worker = None /\ publisher = None /\ importer = None /\ late = None
  /\ rebuild = "no"
  /\ publishes = 0 /\ outside = 0 /\ accepted = {} /\ drift = FALSE

\* Somebody waits for the sync worker: desired is not confirmed, or a replacement is unsettled.
Pending == head # None /\ (head.desired # head.confirmed \/ head.republish # None)

Snapshot(bytes) == [audio |-> bytes.audio, doc |-> bytes.doc]
sameAnnotationDocument(a, b) == a.doc = b.doc

-----------------------------------------------------------------------------
(* The store's transactions. *)

Insert(snapshot) ==
  /\ nextID <= MaxSnapshots
  /\ snapshots' = [id \in DOMAIN snapshots \cup {nextID} |->
                     IF id = nextID THEN snapshot ELSE snapshots[id]]
  /\ nextID' = nextID + 1

\* The bytes become desired and confirmed (an upsert: other columns stay).
importAnnotationSnapshot(bytes) ==
  /\ Insert(Snapshot(bytes))
  /\ head' = IF head = None
               THEN [desired |-> nextID, confirmed |-> nextID, flight |-> 0, republish |-> None,
                     blocked |-> FALSE]
               ELSE [head EXCEPT !.desired = nextID, !.confirmed = nextID]

\* A delivery the operator verified: other audio discards every mark, pending ones too.
recordAnnotationDelivery(bytes) ==
  LET otherAudio == head = None \/ snapshots[head.desired].audio # bytes.audio
      same == head # None /\ sameAnnotationDocument(snapshots[head.desired], bytes)
  IN /\ Insert(Snapshot(bytes))
     /\ head' = [desired |-> IF otherAudio \/ same THEN nextID ELSE head.desired,
                 confirmed |-> nextID, flight |-> 0, republish |-> None, blocked |-> FALSE]
     /\ accepted' = IF head # None /\ otherAudio THEN {} ELSE accepted

prepareAnnotationRepublish(bytes) ==
  /\ head' = IF head = None THEN None ELSE [head EXCEPT !.republish = bytes, !.blocked = FALSE]
  /\ UNCHANGED <<snapshots, nextID, accepted>>

confirmAnnotation(id) == [head EXCEPT !.confirmed = id, !.flight = 0, !.blocked = FALSE]

\* Observed bytes with other audio than the desired snapshot's: the same document, re-based.
refreshAnnotationAudio(bytes) ==
  IF snapshots[head.desired].audio = bytes.audio
    THEN UNCHANGED <<head, snapshots, nextID>>
    ELSE /\ Insert([audio |-> bytes.audio, doc |-> snapshots[head.desired].doc])
         /\ head' = [head EXCEPT !.desired = nextID]

\* An observation of the file never replaces a head somebody waits for.
replace(bytes) ==
  /\ UNCHANGED accepted
  /\ IF Pending
       THEN IF head.republish = None /\ bytes.ok
              THEN refreshAnnotationAudio(bytes)
              ELSE UNCHANGED <<head, snapshots, nextID>>
       ELSE IF bytes.ok
              THEN importAnnotationSnapshot(bytes)
              ELSE head' = None /\ UNCHANGED <<snapshots, nextID>>

\* Rows no durable pointer needs go. (Receipts keep theirs at least a week; then they go too.)
collectSnapshots ==
  /\ head # None
  /\ snapshots' = [id \in DOMAIN snapshots \cap {head.desired, head.confirmed, head.flight} |->
                     snapshots[id]]
  /\ snapshots' # snapshots
  /\ UNCHANGED <<remote, head, nextID, receipts, lock, worker, publisher, importer, rebuild,
                 publishes, outside, accepted>>

-----------------------------------------------------------------------------
(* People. *)

\* The transaction of an edit: the document grows by it. (An edit whose state token or
\* revision is stale is answered 409 and changes nothing.)
mutateAnnotationDocument(r) ==
  /\ LET current == snapshots[head.desired]
     IN Insert([current EXCEPT !.doc = Append(@, r)])
  /\ head' = [head EXCEPT !.desired = nextID]

\* A resend of an answered request finds its receipt, and nothing is applied again.
commitDocument(r) ==
  /\ head # None /\ r \notin receipts
  /\ mutateAnnotationDocument(r)
  /\ receipts' = receipts \cup {r}
  /\ accepted' = accepted \cup {r}
  /\ UNCHANGED <<remote, lock, worker, publisher, importer, rebuild, publishes, outside>>

\* retrySync of a blocked recording.
RetrySync ==
  /\ head # None /\ head.blocked
  /\ head' = [head EXCEPT !.blocked = FALSE]
  /\ UNCHANGED <<remote, snapshots, nextID, accepted, receipts, lock, worker, publisher,
                 importer, rebuild, publishes, outside>>

-----------------------------------------------------------------------------
(* Nextcloud (external). *)

\* A conditional PUT: 0 is no condition.
Matches(ifMatch) == ifMatch = 0 \/ (remoteFile # None /\ remoteFile.etag = ifMatch)
Stored(bytes) == remoteFile' = [etag |-> etags + 1, bytes |-> bytes] /\ etags' = etags + 1

\* What becomes of an upload: stored and answered, or not; refused; or still on its way.
Uploaded(ifMatch, bytes) == Matches(ifMatch) /\ Stored(bytes) /\ UNCHANGED <<late, drift>>
Delayed(ifMatch, bytes) ==
  /\ late = None
  /\ late' = [ifMatch |-> ifMatch, bytes |-> bytes]
  /\ UNCHANGED <<remoteFile, etags, drift>>

LateUploadLands ==
  /\ late # None
  /\ late' = None
  /\ IF Matches(late.ifMatch)
       THEN /\ Stored(late.bytes)
            /\ drift' = (drift \/ late.ifMatch = 0 \/ remoteFile.bytes.audio # late.bytes.audio)
       ELSE UNCHANGED <<remoteFile, etags, drift>>
  /\ UNCHANGED <<store, receipts, lock, worker, publisher, importer, rebuild, publishes, outside>>

OutsideWrite ==
  /\ outside < MaxOutside /\ remoteFile # None
  /\ \E ok \in BOOLEAN : Stored([remoteFile.bytes EXCEPT !.doc = <<"outsider">>, !.ok = ok])
  /\ outside' = outside + 1 /\ drift' = TRUE
  /\ UNCHANGED <<store, receipts, lock, worker, publisher, importer, rebuild, late, publishes>>

OutsideDelete ==
  /\ outside < MaxOutside /\ remoteFile # None
  /\ remoteFile' = None /\ outside' = outside + 1 /\ drift' = TRUE
  /\ UNCHANGED <<etags, store, receipts, lock, worker, publisher, importer, rebuild, late, publishes>>

-----------------------------------------------------------------------------
(* The sync worker (syncAnnotation), under the recording's lock. *)

WorkerOnly == UNCHANGED <<receipts, publisher, importer, rebuild, publishes, outside>>
WorkerDone == worker' = None /\ lock' = "free"
WorkerAt(pc) == worker # None /\ worker.pc = pc
\* retryAnnotation: only a head somebody waits for is blocked.
WorkerBlocks ==
  /\ WorkerDone
  /\ head' = IF Pending THEN [head EXCEPT !.blocked = TRUE] ELSE head
  /\ UNCHANGED <<snapshots, nextID, accepted>>

\* The head is read, and the file is staged at the ETag just read.
nextAnnotation ==
  /\ Pending /\ ~head.blocked /\ lock = "free"
  /\ IF remoteFile = None
       THEN head' = [head EXCEPT !.blocked = TRUE] /\ UNCHANGED <<lock, worker>>
       ELSE /\ lock' = "worker" /\ UNCHANGED head
            /\ worker' = [pc |-> "republish", base |-> remoteFile.bytes, etag |-> remoteFile.etag,
                          desired |-> head.desired, confirmed |-> head.confirmed,
                          previous |-> snapshots[head.confirmed], flight |-> head.flight,
                          republish |-> head.republish]
  /\ UNCHANGED <<remote, snapshots, nextID, accepted>> /\ WorkerOnly

\* A replacement nobody acknowledged: it landed, it did not, or nobody can tell.
settleRepublish ==
  /\ WorkerAt("republish")
  /\ \/ /\ ~worker.base.ok /\ WorkerBlocks
     \/ /\ worker.base.ok /\ worker.republish = None
        /\ worker' = [worker EXCEPT !.pc = "flight"]
        /\ UNCHANGED <<store, lock>>
     \/ /\ worker.base.ok /\ worker.republish = worker.base
        /\ recordAnnotationDelivery(worker.base)
        /\ IF head'.desired = head'.confirmed
             THEN WorkerDone
             ELSE /\ worker' = [worker EXCEPT !.pc = "flight", !.flight = 0,
                                  !.desired = head'.desired, !.confirmed = head'.confirmed,
                                  !.previous = Snapshot(worker.base)]
                  /\ UNCHANGED lock
     \/ /\ worker.base.ok /\ worker.republish \notin {None, worker.base}
        /\ IF Snapshot(worker.base) = worker.previous
             THEN /\ head' = [head EXCEPT !.republish = None]
                  /\ IF worker.desired = worker.confirmed
                       THEN WorkerDone
                       ELSE worker' = [worker EXCEPT !.pc = "flight"] /\ UNCHANGED lock
                  /\ UNCHANGED <<snapshots, nextID, accepted>>
             ELSE WorkerBlocks
  /\ UNCHANGED remote /\ WorkerOnly

\* Mutant of settleFlight: a lost answer is taken for the current desired head.
SettleFlightByDesired ==
  /\ WorkerAt("flight")
  /\ IF worker.flight # 0
       THEN /\ head' = confirmAnnotation(head.desired)
            /\ worker' = [worker EXCEPT !.pc = "render", !.confirmed = head.desired]
            /\ UNCHANGED <<lock, snapshots, nextID, accepted>>
       ELSE IF sameAnnotationDocument(worker.base, worker.previous)
              THEN worker' = [worker EXCEPT !.pc = "render"] /\ UNCHANGED <<store, lock>>
              ELSE WorkerBlocks
  /\ UNCHANGED remote /\ WorkerOnly

\* A lost answer is settled by the persisted target; a document nobody wrote blocks.
settleFlight ==
  /\ WorkerAt("flight")
  /\ IF worker.flight # 0 /\ sameAnnotationDocument(worker.base, snapshots[worker.flight])
       THEN /\ head' = confirmAnnotation(worker.flight)
            /\ worker' = [worker EXCEPT !.pc = "render", !.confirmed = worker.flight]
            /\ UNCHANGED <<lock, snapshots, nextID, accepted>>
       ELSE IF sameAnnotationDocument(worker.base, worker.previous)
              THEN worker' = [worker EXCEPT !.pc = "render"] /\ UNCHANGED <<store, lock>>
              ELSE WorkerBlocks
  /\ UNCHANGED remote /\ WorkerOnly

\* The desired document moves to the audio that was read; a head that
\* forgetVanishedAnnotations dropped meanwhile ends the sync.
refreshDesiredAudio ==
  /\ WorkerAt("render")
  /\ IF head = None
       THEN WorkerDone /\ UNCHANGED <<head, snapshots, nextID>>
       ELSE /\ refreshAnnotationAudio(worker.base)
            /\ worker' = [worker EXCEPT !.pc = "select"] /\ UNCHANGED lock
  /\ UNCHANGED <<remote, accepted>> /\ WorkerOnly

\* The desired document of this moment is the one to render.
selectDesired ==
  /\ WorkerAt("select")
  /\ IF head = None \/ head.desired = worker.confirmed
       THEN WorkerDone
       ELSE /\ worker' = [worker EXCEPT !.pc = "claim", !.desired = head.desired,
                            !.base.doc = snapshots[head.desired].doc]
            /\ UNCHANGED lock
  /\ UNCHANGED <<remote, store>> /\ WorkerOnly

\* Rendered, it is recorded as in flight, though edits may have been made since; a row
\* that was collected meanwhile is refused (a foreign key). Rendering may fail.
markInFlight ==
  /\ WorkerAt("claim")
  /\ \/ /\ worker.desired \in DOMAIN snapshots
        /\ head' = [head EXCEPT !.flight = worker.desired]
        /\ worker' = [worker EXCEPT !.pc = "put"]
        /\ UNCHANGED <<lock, snapshots, nextID, accepted>>
     \/ WorkerDone /\ UNCHANGED store
     \/ WorkerBlocks
  /\ UNCHANGED remote /\ WorkerOnly

\* The conditional upload: answered, answered too late, refused or failed.
putAnnotation ==
  /\ WorkerAt("put")
  /\ \/ /\ Uploaded(worker.etag, worker.base)
        /\ \/ worker' = [worker EXCEPT !.pc = "verify"] /\ UNCHANGED lock
           \/ WorkerDone
     \/ Delayed(worker.etag, worker.base) /\ WorkerDone
     \/ WorkerDone /\ UNCHANGED remote
  /\ UNCHANGED store /\ WorkerOnly

\* The uploaded bytes are read back before they are confirmed.
verifyAnnotation ==
  /\ WorkerAt("verify")
  /\ \/ /\ remoteFile # None /\ remoteFile.bytes = worker.base
        /\ head' = confirmAnnotation(worker.desired)
        /\ WorkerDone /\ UNCHANGED <<snapshots, nextID, accepted>>
     \/ remoteFile # None /\ remoteFile.bytes # worker.base /\ WorkerBlocks
     \/ WorkerDone /\ UNCHANGED store
  /\ UNCHANGED remote /\ WorkerOnly

-----------------------------------------------------------------------------
(* Delivery of a sealed rerun (Deliver, putOverDeliveredCopy, putAssetBytes). *)

PublishOnly == UNCHANGED <<receipts, worker, importer, rebuild, outside>>
PublishDone == publisher' = None /\ lock' = "free"
PublishAt(pc) == publisher # None /\ publisher.pc = pc
ETagOf(leaf) == IF leaf = None THEN 0 ELSE leaf.etag

\* Deliver takes the lock and inspects the leaf; a speaker edit keeps the marks.
DeliverSealed ==
  /\ publishes < MaxPublish /\ lock = "free"
  /\ publishes' = publishes + 1 /\ lock' = "publisher"
  /\ \E audio \in {1, 2}, keep \in BOOLEAN :
       publisher' = [pc |-> IF remoteFile = None THEN "prepare" ELSE "carry", keepMarks |-> keep,
                     attempt |-> 1, etag |-> ETagOf(remoteFile),
                     item |-> [audio |-> audio, doc |-> <<>>, build |-> publishes', ok |-> TRUE],
                     staged |-> [audio |-> audio, doc |-> <<>>, build |-> publishes', ok |-> TRUE]]
  /\ UNCHANGED <<remote, store>> /\ PublishOnly

\* The marks of the delivered copy go onto the sealed file; other audio, or a copy nobody
\* can read, leaves the sealed file as it is.
stageDeliveredMarks ==
  /\ PublishAt("carry")
  /\ \/ /\ remoteFile # None
        /\ IF remoteFile.bytes.ok /\ remoteFile.bytes.audio = publisher.item.audio
             THEN publisher' = [publisher EXCEPT !.pc = "prepare",
                                  !.staged = [publisher.item EXCEPT !.doc = remoteFile.bytes.doc]]
                  /\ UNCHANGED lock
             ELSE IF remoteFile.bytes.ok /\ publisher.keepMarks /\ remoteFile.bytes.doc # <<>>
                    THEN PublishDone
                    ELSE publisher' = [publisher EXCEPT !.pc = "prepare", !.staged = publisher.item]
                         /\ UNCHANGED lock
     \/ PublishDone
  /\ UNCHANGED <<remote, store, publishes>> /\ PublishOnly

\* putAssetBytes first records the replacement.
prepareReplacement ==
  /\ PublishAt("prepare")
  /\ prepareAnnotationRepublish(publisher.staged)
  /\ publisher' = [publisher EXCEPT !.pc = "put"]
  /\ UNCHANGED <<remote, lock, publishes>> /\ PublishOnly

\* A refused precondition starts the carry again, a bounded number of times. Other audio
\* over a recording without a head discards the marks that only the file had.
putOverDeliveredCopy ==
  /\ PublishAt("put")
  /\ \/ /\ Uploaded(publisher.etag, publisher.staged)
        /\ accepted' = IF head = None /\ remoteFile # None /\ remoteFile.bytes.audio # publisher.staged.audio
                         THEN {} ELSE accepted
        /\ \/ publisher' = [publisher EXCEPT !.pc = "verify"] /\ UNCHANGED lock
           \/ PublishDone
     \/ Delayed(publisher.etag, publisher.staged) /\ PublishDone /\ UNCHANGED accepted
     \/ /\ ~Matches(publisher.etag) /\ publisher.attempt < MaxCarry /\ remoteFile # None
        /\ publisher' = [publisher EXCEPT !.pc = "carry", !.attempt = @ + 1, !.etag = ETagOf(remoteFile)]
        /\ UNCHANGED <<remote, lock, accepted>>
     \/ PublishDone /\ UNCHANGED <<remote, accepted>>
  /\ UNCHANGED <<head, snapshots, nextID, publishes>> /\ PublishOnly

\* The stored bytes are read back; only then is the delivery recorded.
verifyReplacement ==
  /\ PublishAt("verify")
  /\ PublishDone
  /\ \/ /\ remoteFile # None /\ remoteFile.bytes = publisher.staged
        /\ recordAnnotationDelivery(publisher.staged)
     \/ UNCHANGED store
  /\ UNCHANGED <<remote, publishes>> /\ PublishOnly

-----------------------------------------------------------------------------
(* Observing the archive: a backfill, or the import of a document without a head. *)

backfillOneAnnotation ==
  /\ lock = "free" /\ remoteFile # None
  /\ lock' = "importer" /\ importer' = remoteFile.bytes
  /\ UNCHANGED <<remote, store, receipts, worker, publisher, rebuild, publishes, outside>>

recordObservation ==
  /\ importer # None
  /\ replace(importer)
  /\ importer' = None /\ lock' = "free"
  /\ UNCHANGED <<remote, receipts, worker, publisher, rebuild, publishes, outside>>

\* A rebuild of the index lists the archive first; a listing that names the recording is
\* no danger to it.
archiveBackfillTargets ==
  /\ rebuild = "no" /\ remoteFile = None
  /\ rebuild' = "listed"
  /\ UNCHANGED <<remote, store, receipts, lock, worker, publisher, importer, publishes, outside>>

\* It reads what is recorded next; a recording may be recorded, as unavailable, without a head.
recordedContainers ==
  /\ rebuild = "listed"
  /\ rebuild' \in {"no", "doomed"} /\ (head # None => rebuild' = "doomed")
  /\ UNCHANGED <<remote, store, receipts, lock, worker, publisher, importer, publishes, outside>>

\* At its end a settled head of a recording that was recorded and not listed is dropped,
\* without the lock and without another look at the archive.
forgetVanishedAnnotations ==
  /\ rebuild = "doomed" /\ rebuild' = "no"
  /\ head' = IF Pending THEN head ELSE None
  /\ UNCHANGED <<remote, snapshots, nextID, accepted, receipts, lock, worker, publisher,
                 importer, publishes, outside>>

\* The operator dies and starts again; only the database and Nextcloud remember. (A rebuild
\* run from the command line is a process of its own and goes on.)
RestartSync ==
  /\ lock # "free" \/ rebuild # "no"
  /\ lock' = "free" /\ worker' = None /\ publisher' = None /\ importer' = None
  /\ rebuild' \in {rebuild, "no"}
  /\ UNCHANGED <<remote, store, receipts, publishes, outside>>

MarksNext ==
  \/ \E r \in Request : commitDocument(r)
  \/ RetrySync \/ collectSnapshots
  \/ LateUploadLands \/ OutsideWrite \/ OutsideDelete
  \/ nextAnnotation \/ settleRepublish \/ settleFlight
  \/ refreshDesiredAudio \/ selectDesired \/ markInFlight \/ putAnnotation \/ verifyAnnotation
  \/ DeliverSealed \/ stageDeliveredMarks \/ prepareReplacement \/ putOverDeliveredCopy
  \/ verifyReplacement
  \/ backfillOneAnnotation \/ recordObservation
  \/ archiveBackfillTargets \/ recordedContainers \/ forgetVanishedAnnotations
  \/ RestartSync

MarksSpec == MarksInit /\ [][MarksNext]_marksVars

-----------------------------------------------------------------------------
Occurrences(r, doc) == Cardinality({i \in DOMAIN doc : doc[i] = r})

(* An edit that was answered with success is in the desired document exactly once, or, when  *)
(* the index forgot the recording, in the recording itself, whatever syncs, reruns, lost or   *)
(* late answers, resends, backfills and restarts come between, until other audio is delivered *)
(* or somebody outside writes the file (commitDocument, recordAnnotationDelivery, replace,    *)
(* forgetVanishedAnnotations). Every durable pointer names a snapshot that exists.            *)
EditsSurvive ==
  /\ head # None => {head.desired, head.confirmed} \cup ({head.flight} \ {0}) \subseteq DOMAIN snapshots
  /\ ~drift /\ head # None =>
       \A r \in accepted : Occurrences(r, snapshots[head.desired].doc) = 1
  /\ ~drift /\ head = None =>
       \A r \in accepted : remoteFile # None /\ Occurrences(r, remoteFile.bytes.doc) = 1

(* A recording whose state is answered as saved really is: Nextcloud holds the desired       *)
(* document on the audio it is about (syncAnnotation, putAssetBytes).                        *)
SavedIsArchived ==
  head # None /\ ~Pending /\ ~drift =>
    remoteFile # None /\ Snapshot(remoteFile.bytes) = snapshots[head.desired]

(* No accepted edit is lost or applied twice, and none is said to be saved before it is.     *)
MarksAreKept == EditsSurvive /\ SavedIsArchived
=============================================================================
