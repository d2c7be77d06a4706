---------------------------- MODULE MarksProofs -----------------------------
(***************************************************************************)
(* Proofs about AnnotationSync, for any set of edits, any number of        *)
(* deliveries, of writes by others and of carry attempts.                  *)
(*                                                                         *)
(* No accepted edit is lost because a chain holds as long as nobody        *)
(* outside writes the file: the marks in Nextcloud are a prefix of the     *)
(* document in flight, that one of the desired document; and what a late   *)
(* upload, the worker, the publisher or the importer carries is on that    *)
(* chain too.                                                              *)
(***************************************************************************)
EXTENDS AnnotationSync, FiniteSetTheorems, TLAPS

(* The inductive invariant.                                                *)

Docs == Seq(Request \cup {"outsider"})
Bytes == [audio : Nat, doc : Docs, build : Nat, ok : BOOLEAN]
MaybeBytes == Bytes \cup {None}
SnapshotRows == [audio : Nat, doc : Docs]
Heads == [desired : Nat, confirmed : Nat, flight : Nat, republish : MaybeBytes, blocked : BOOLEAN]
Leaves == [etag : Nat, bytes : Bytes]
Uploads == [ifMatch : Nat, bytes : Bytes]
WorkerLocals ==
  [pc : {"republish", "flight", "render", "select", "claim", "put", "verify"}, base : Bytes, etag : Nat, desired : Nat, confirmed : Nat,
   previous : SnapshotRows, flight : Nat, republish : MaybeBytes]
PublisherLocals ==
  [pc : {"carry", "prepare", "put", "verify"}, keepMarks : BOOLEAN, attempt : Nat, etag : Nat, item : Bytes, staged : Bytes]

FileTypes ==
  /\ remoteFile \in Leaves \cup {None} /\ late \in Uploads \cup {None} /\ etags \in Nat /\ publishes \in Nat
LocalTypes ==
  /\ worker \in WorkerLocals \cup {None} /\ publisher \in PublisherLocals \cup {None} /\ importer \in MaybeBytes
StoreTypes ==
  /\ head \in Heads \cup {None} /\ nextID \in Nat \ {0}
  /\ \A id \in DOMAIN snapshots : id \in 1..(nextID - 1) /\ snapshots[id] \in SnapshotRows
EditTypes == accepted \subseteq receipts /\ receipts \subseteq Request

\* The lock is the recording's: one of the three works on it at a time.
OneAtATime ==
  /\ worker # None <=> lock = "worker"
  /\ publisher # None <=> lock = "publisher"
  /\ importer # None <=> lock = "importer"

Pointed == head # None => {head.desired, head.confirmed} \cup ({head.flight} \ {0}) \subseteq DOMAIN snapshots

Desired   == snapshots[head.desired]
Confirmed == snapshots[head.confirmed]
Flight    == snapshots[head.flight]

\* ETags and builds are not used twice.
FileNumbers ==
  /\ remoteFile # None => remoteFile.etag \in 1..etags /\ remoteFile.bytes.build <= publishes
  /\ late # None => late.ifMatch <= etags /\ late.bytes.build <= publishes
WorkerNumbers == worker # None => worker.base.build <= publishes /\ worker.etag <= etags
PublisherNumbers ==
  publisher # None =>
    /\ publisher.etag <= etags /\ publisher.item.build = publishes /\ publisher.staged.build = publishes
    /\ publisher.item.doc = <<>>
    /\ publisher.pc = "carry" => publisher.etag # 0
    /\ publisher.pc # "verify" =>
         /\ remoteFile # None => remoteFile.bytes.build < publishes
         /\ late # None => late.bytes.build < publishes

\* What the worker read of the head is still so, but for edits made since.
WorkerKnows ==
  worker # None =>
    /\ worker.pc \notin {"render", "select"} => head # None
    /\ head # None =>
         /\ worker.confirmed = head.confirmed
         /\ worker.pc = "republish" =>
              /\ worker.republish = head.republish
              /\ worker.desired = head.desired \/ head.desired # head.confirmed
         /\ worker.pc \in {"republish", "flight"} =>
              worker.flight = head.flight /\ worker.previous = Confirmed
         /\ worker.pc # "republish" => head.republish = None
         /\ worker.pc = "republish" => Pending
         /\ worker.pc \in {"flight", "claim", "put", "verify"} => head.desired # head.confirmed
         /\ worker.pc = "select" => Desired.audio = worker.base.audio
         /\ worker.pc = "claim" =>
              /\ worker.desired \in 1..(nextID - 1)
              /\ worker.desired \in DOMAIN snapshots => snapshots[worker.desired] = Snapshot(worker.base)
         /\ worker.pc \in {"put", "verify"} =>
              worker.desired = head.flight /\ head.flight # 0 /\ Flight = Snapshot(worker.base)

\* The replacement is recorded before it is uploaded.
ReplacementIsRecorded ==
  publisher # None /\ publisher.pc \in {"put", "verify"} /\ head # None => head.republish = publisher.staged

Prefix(s, t) == Len(s) <= Len(t) /\ \A i \in 1..Len(s) : s[i] = t[i]
Within(doc, S) == \A i \in 1..Len(doc) : doc[i] \in S

File == remoteFile.bytes

\* An upload that could still land, on the same audio, with other marks.
LateMatters ==
  /\ late # None /\ remoteFile # None
  /\ late.ifMatch = remoteFile.etag /\ late.bytes.audio = File.audio /\ late.bytes.doc # File.doc

\* The bytes in Nextcloud, the head, and what may land there.
FileIsSound ==
  /\ remoteFile # None => File.ok /\ Within(File.doc, receipts)
  /\ late # None => late.bytes.ok
FileFollowsHead ==
  head # None =>
    /\ remoteFile # None
    /\ Desired.audio = Confirmed.audio
    /\ head.republish = None => File.audio = Confirmed.audio
    /\ Prefix(File.doc, Desired.doc)
    /\ head.flight # 0 =>
         Flight.audio = Confirmed.audio /\ Prefix(File.doc, Flight.doc) /\ Prefix(Flight.doc, Desired.doc)
    /\ head.desired = head.confirmed /\ head.republish = None => Snapshot(File) = Desired
LateFollowsHead ==
  LateMatters =>
    /\ head # None /\ head.desired # head.confirmed /\ head.flight # 0
    /\ Prefix(File.doc, late.bytes.doc) /\ Prefix(late.bytes.doc, Flight.doc)
    /\ head.republish # None => head.republish.build # File.build

\* What each of the three has read, compared with what is there now.
WorkerFollows ==
  worker # None =>
    /\ remoteFile # None /\ worker.base.ok
    /\ worker.base.audio = File.audio
    /\ worker.pc \in {"republish", "flight"} => Prefix(worker.base.doc, File.doc)
    /\ worker.pc = "republish" /\ (worker.republish = worker.base \/ head.desired = head.confirmed) =>
         ~LateMatters /\ Snapshot(worker.base) = Snapshot(File)
    /\ worker.pc = "claim" =>
         /\ Prefix(File.doc, worker.base.doc) /\ Prefix(worker.base.doc, Desired.doc)
         /\ head.flight # 0 => Prefix(Flight.doc, worker.base.doc)
    /\ worker.pc = "verify" => ~LateMatters
PublisherFollows ==
  publisher # None =>
    /\ publisher.item.ok /\ publisher.staged.ok
    /\ publisher.etag = 0 /\ publisher.pc # "verify" => remoteFile = None /\ publisher.staged.doc = <<>>
    /\ publisher.etag # 0 \/ publisher.pc = "verify" => remoteFile # None
    /\ publisher.pc \in {"prepare", "put"} /\ publisher.etag # 0 =>
         /\ Prefix(publisher.staged.doc, File.doc)
         /\ publisher.etag = remoteFile.etag /\ publisher.staged.audio = File.audio => publisher.staged.doc = File.doc
    /\ publisher.pc = "verify" => ~LateMatters
ImporterFollows ==
  importer # None =>
    /\ remoteFile # None /\ importer.ok /\ importer.audio = File.audio
    /\ head = None \/ head.desired = head.confirmed => Snapshot(importer) = Snapshot(File)

\* Every accepted edit, once.
EditsAreOnce ==
  /\ head # None => Within(Desired.doc, receipts) /\ \A r \in accepted : Occurrences(r, Desired.doc) = 1
  /\ head = None => \A r \in accepted : remoteFile # None /\ Occurrences(r, File.doc) = 1

Basics ==
  /\ FileTypes /\ LocalTypes /\ StoreTypes /\ EditTypes /\ OneAtATime /\ Pointed
  /\ FileNumbers /\ WorkerNumbers /\ PublisherNumbers /\ WorkerKnows /\ ReplacementIsRecorded
Kept ==
  /\ FileIsSound /\ FileFollowsHead /\ LateFollowsHead
  /\ WorkerFollows /\ PublisherFollows /\ ImporterFollows /\ EditsAreOnce
MarksInv == Basics /\ (~drift => Kept)

-----------------------------------------------------------------------------
(* Documents.                                                              *)

LEMMA PrefixFacts ==
  ASSUME NEW s \in Docs, NEW t \in Docs, NEW u \in Docs
  PROVE  /\ Prefix(s, s) /\ Prefix(<<>>, s)
         /\ Prefix(s, t) /\ Prefix(t, u) => Prefix(s, u)
         /\ Prefix(s, t) /\ Prefix(t, s) => s = t
         /\ \A S : Prefix(s, t) /\ Within(t, S) => Within(s, S)
<1>1. Len(s) \in Nat /\ Len(t) \in Nat /\ Len(u) \in Nat /\ <<>> \in Docs /\ Len(<<>>) = 0
  BY DEF Docs
<1>2. Prefix(s, t) /\ Prefix(t, s) => s = t
  BY <1>1 DEF Prefix, Docs
<1>. QED
  BY <1>1, <1>2 DEF Prefix, Within

LEMMA AppendFacts ==
  ASSUME NEW doc \in Docs, NEW r \in Request, NEW S
  PROVE  /\ Append(doc, r) \in Docs /\ Prefix(doc, Append(doc, r))
         /\ Within(doc, S) => Within(Append(doc, r), S \cup {r})
<1>1. Append(doc, r) \in Docs /\ Len(Append(doc, r)) = Len(doc) + 1 /\ Len(doc) \in Nat
      /\ Append(doc, r)[Len(doc) + 1] = r /\ \A i \in 1..Len(doc) : Append(doc, r)[i] = doc[i]
  BY DEF Docs
<1>. QED
  BY <1>1 DEF Prefix, Within

\* An edit that is new to a document is in it once afterwards, and changes the count of no other.
LEMMA AppendOccurs ==
  ASSUME NEW doc \in Docs, NEW r \in Request, NEW q
  PROVE  /\ q # r => Occurrences(q, Append(doc, r)) = Occurrences(q, doc)
         /\ (\A i \in 1..Len(doc) : doc[i] # r) => Occurrences(r, Append(doc, r)) = 1
<1>1. /\ DOMAIN doc = 1..Len(doc) /\ DOMAIN Append(doc, r) = 1..(Len(doc) + 1) /\ Len(doc) \in Nat
      /\ Append(doc, r)[Len(doc) + 1] = r /\ \A i \in 1..Len(doc) : Append(doc, r)[i] = doc[i]
  BY DEF Docs
<1>2. ASSUME q # r PROVE {i \in DOMAIN Append(doc, r) : Append(doc, r)[i] = q} = {i \in DOMAIN doc : doc[i] = q}
  BY <1>1, <1>2
<1>3. ASSUME \A i \in 1..Len(doc) : doc[i] # r
      PROVE  {i \in DOMAIN Append(doc, r) : Append(doc, r)[i] = r} = {Len(doc) + 1}
  BY <1>1, <1>3
<1>4. Cardinality({Len(doc) + 1}) = 1
  BY FS_Singleton
<1>. QED
  BY <1>2, <1>3, <1>4 DEF Occurrences

-----------------------------------------------------------------------------
(* Records.                                                                *)

LEMMA NoneIsNoRecord ==
  None \notin Bytes /\ None \notin Heads /\ None \notin Leaves /\ None \notin Uploads
  /\ None \notin WorkerLocals /\ None \notin PublisherLocals
  BY DEF None, Bytes, Heads, Leaves, Uploads, WorkerLocals, PublisherLocals

LEMMA SnapshotFacts ==
  ASSUME NEW b \in Bytes
  PROVE  Snapshot(b) \in SnapshotRows /\ Snapshot(b).audio = b.audio /\ Snapshot(b).doc = b.doc
  BY DEF Snapshot, SnapshotRows, Bytes

LEMMA InsertFacts ==
  ASSUME StoreTypes, NEW s \in SnapshotRows, Insert(s)
  PROVE  /\ nextID' = nextID + 1 /\ nextID' \in Nat \ {0} /\ nextID \in Nat \ {0} /\ nextID \notin DOMAIN snapshots
         /\ DOMAIN snapshots' = DOMAIN snapshots \cup {nextID} /\ snapshots'[nextID] = s
         /\ \A id \in DOMAIN snapshots : snapshots'[id] = snapshots[id]
         /\ \A id \in DOMAIN snapshots' : id \in 1..(nextID' - 1) /\ snapshots'[id] \in SnapshotRows
<1>1. nextID' = nextID + 1 /\ nextID' \in Nat \ {0} /\ nextID \in Nat \ {0} /\ nextID \notin DOMAIN snapshots
  BY DEF StoreTypes, Insert
<1>2. snapshots' = [id \in DOMAIN snapshots \cup {nextID} |-> IF id = nextID THEN s ELSE snapshots[id]]
  BY DEF Insert
<1>3. /\ DOMAIN snapshots' = DOMAIN snapshots \cup {nextID} /\ snapshots'[nextID] = s
      /\ \A id \in DOMAIN snapshots : snapshots'[id] = snapshots[id]
  BY <1>1, <1>2
<1>4. ASSUME NEW id \in DOMAIN snapshots' PROVE id \in 1..(nextID' - 1) /\ snapshots'[id] \in SnapshotRows
  <2>1. CASE id = nextID
    BY <1>1, <1>3, <2>1
  <2>2. CASE id \in DOMAIN snapshots
    BY <1>1, <1>3, <2>2 DEF StoreTypes
  <2>. QED
    BY <1>3, <1>4, <2>1, <2>2
<1>. QED
  BY <1>1, <1>3, <1>4

\* A delivery that is recorded: other audio discards the marks, and the desired
\* document stays or is the delivered one.
LEMMA RecordFacts ==
  ASSUME StoreTypes, Pointed, NEW b \in Bytes, recordAnnotationDelivery(b)
  PROVE  /\ Insert(Snapshot(b)) /\ head' \in Heads /\ Pointed' /\ StoreTypes'
         /\ head'.confirmed = nextID /\ head'.flight = 0 /\ head'.republish = None /\ Confirmed' = Snapshot(b)
         /\ \/ accepted' = (IF head = None THEN accepted ELSE {}) /\ head'.desired = nextID /\ Desired' = Snapshot(b)
            \/ /\ accepted' = accepted /\ head # None /\ Desired.audio = b.audio /\ Desired' = Desired
               /\ (head'.desired = nextID /\ Desired.doc = b.doc) \/ head'.desired = head.desired
<1>. DEFINE otherAudio == head = None \/ snapshots[head.desired].audio # b.audio
            same == head # None /\ sameAnnotationDocument(snapshots[head.desired], b)
            d == IF otherAudio \/ same THEN nextID ELSE head.desired
<1>1. /\ Insert(Snapshot(b)) /\ accepted' = (IF head # None /\ otherAudio THEN {} ELSE accepted)
      /\ head' = [desired |-> d, confirmed |-> nextID, flight |-> 0, republish |-> None, blocked |-> FALSE]
  BY DEF recordAnnotationDelivery
<1>2. Snapshot(b) \in SnapshotRows /\ Snapshot(b).audio = b.audio /\ Snapshot(b).doc = b.doc
  BY SnapshotFacts
<1>3. /\ nextID \in Nat \ {0} /\ DOMAIN snapshots' = DOMAIN snapshots \cup {nextID} /\ snapshots'[nextID] = Snapshot(b)
      /\ \A id \in DOMAIN snapshots : snapshots'[id] = snapshots[id]
  BY <1>1, <1>2, InsertFacts
<1>4. head # None => head \in Heads /\ head.desired \in DOMAIN snapshots /\ Desired \in SnapshotRows
  BY DEF StoreTypes, Pointed, Desired
<1>5. d \in Nat /\ d \in DOMAIN snapshots'
  BY <1>3, <1>4 DEF Heads
<1>6. /\ head'.desired = d /\ head'.confirmed = nextID /\ head'.flight = 0 /\ head'.republish = None
  BY <1>1
<1>7. head' \in Heads
  BY <1>1, <1>3, <1>5 DEF Heads, MaybeBytes
<1>8. Confirmed' = Snapshot(b)
  BY <1>3, <1>6 DEF Confirmed
<1>9. Pointed' /\ StoreTypes'
  BY <1>1, <1>2, <1>3, <1>5, <1>6, <1>7, InsertFacts DEF Pointed, StoreTypes
<1>10. CASE otherAudio
  <2>. d = nextID
    BY <1>10
  <2>. Desired' = Snapshot(b) /\ accepted' = (IF head = None THEN accepted ELSE {})
    BY <1>1, <1>3, <1>6, <1>10 DEF Desired
  <2>. QED
    BY <1>1, <1>6, <1>7, <1>8, <1>9
<1>11. CASE ~otherAudio
  <2>1. head # None /\ Desired.audio = b.audio /\ accepted' = accepted
    BY <1>1, <1>11 DEF Desired
  <2>2. CASE same
    <3>1. Desired.doc = b.doc /\ d = nextID
      BY <2>2 DEF sameAnnotationDocument, Desired
    <3>2. Desired' = Snapshot(b)
      BY <1>3, <1>6, <3>1 DEF Desired
    <3>3. Snapshot(b) = Desired
      BY <1>2, <1>4, <2>1, <3>1 DEF SnapshotRows
    <3>. QED
      BY <1>1, <1>6, <1>7, <1>8, <1>9, <2>1, <3>1, <3>2, <3>3
  <2>3. CASE ~same
    <3>1. d = head.desired
      BY <1>11, <2>3
    <3>2. Desired' = Desired
      BY <1>3, <1>4, <1>6, <2>1, <3>1 DEF Desired
    <3>. QED
      BY <1>1, <1>6, <1>7, <1>8, <1>9, <2>1, <3>1, <3>2
  <2>. QED
    BY <2>2, <2>3
<1>. QED
  BY <1>10, <1>11

LEMMA ImportFacts ==
  ASSUME StoreTypes, Pointed, NEW b \in Bytes, importAnnotationSnapshot(b)
  PROVE  /\ Insert(Snapshot(b)) /\ head' \in Heads /\ Pointed' /\ StoreTypes'
         /\ head'.desired = nextID /\ head'.confirmed = nextID /\ Confirmed' = Snapshot(b) /\ Desired' = Snapshot(b)
         /\ head = None => head'.flight = 0 /\ head'.republish = None
         /\ head # None => head'.flight = head.flight /\ head'.republish = head.republish
<1>1. Insert(Snapshot(b)) /\ Snapshot(b) \in SnapshotRows
  BY SnapshotFacts DEF importAnnotationSnapshot
<1>2. /\ nextID \in Nat \ {0} /\ DOMAIN snapshots' = DOMAIN snapshots \cup {nextID} /\ snapshots'[nextID] = Snapshot(b)
  BY <1>1, InsertFacts
<1>3. /\ head' \in Heads /\ head'.desired = nextID /\ head'.confirmed = nextID
      /\ head = None => head'.flight = 0 /\ head'.republish = None
      /\ head # None => head'.flight = head.flight /\ head'.republish = head.republish
  BY <1>2 DEF importAnnotationSnapshot, StoreTypes, Heads, MaybeBytes
<1>4. Pointed' /\ StoreTypes'
  BY <1>1, <1>2, <1>3, InsertFacts DEF Pointed, StoreTypes
<1>. QED
  BY <1>1, <1>2, <1>3, <1>4 DEF Confirmed, Desired

\* What the head's pointers name.
LEMMA PointedFacts ==
  ASSUME StoreTypes, Pointed, head # None
  PROVE  /\ head \in Heads /\ head.desired \in DOMAIN snapshots /\ head.confirmed \in DOMAIN snapshots
         /\ Desired \in SnapshotRows /\ Confirmed \in SnapshotRows
         /\ head.flight # 0 => head.flight \in DOMAIN snapshots /\ Flight \in SnapshotRows
         /\ nextID \notin DOMAIN snapshots /\ nextID \in Nat \ {0}
         /\ head.desired # nextID /\ head.confirmed # nextID /\ head.flight # nextID
  BY DEF StoreTypes, Pointed, Desired, Confirmed, Flight

\* An edit, or a new row for the desired document.
LEMMA NewDesiredFacts ==
  ASSUME StoreTypes, Pointed, head # None, NEW s \in SnapshotRows, Insert(s), NEW f \in {head.flight, nextID},
         head' = [head EXCEPT !.desired = nextID, !.flight = f]
  PROVE  /\ StoreTypes' /\ Pointed' /\ head' \in Heads
         /\ head'.desired = nextID /\ head'.confirmed = head.confirmed /\ head'.flight = f /\ head'.republish = head.republish
         /\ head'.desired # head'.confirmed
         /\ Desired' = s /\ Confirmed' = Confirmed
         /\ f = head.flight /\ f # 0 => Flight' = Flight
         /\ f = nextID => Flight' = s
<1>1. /\ nextID' \in Nat \ {0} /\ nextID \notin DOMAIN snapshots
      /\ DOMAIN snapshots' = DOMAIN snapshots \cup {nextID} /\ snapshots'[nextID] = s
      /\ \A id \in DOMAIN snapshots : snapshots'[id] = snapshots[id]
      /\ \A id \in DOMAIN snapshots' : id \in 1..(nextID' - 1) /\ snapshots'[id] \in SnapshotRows
  BY InsertFacts
<1>2. /\ head \in Heads /\ head.desired \in DOMAIN snapshots /\ head.confirmed \in DOMAIN snapshots
      /\ head.flight # 0 => head.flight \in DOMAIN snapshots
      /\ nextID \in Nat \ {0} /\ head.confirmed # nextID /\ head.flight # nextID
  BY PointedFacts
<1>3. /\ head' \in Heads /\ head'.desired = nextID /\ head'.confirmed = head.confirmed /\ head'.flight = f
      /\ head'.republish = head.republish
  BY <1>2 DEF Heads
<1>4. StoreTypes' /\ Pointed'
  BY <1>1, <1>2, <1>3 DEF StoreTypes, Pointed
<1>5. /\ Desired' = s /\ Confirmed' = Confirmed /\ (f = head.flight /\ f # 0 => Flight' = Flight) /\ (f = nextID => Flight' = s)
  BY <1>1, <1>2, <1>3 DEF Desired, Confirmed, Flight
<1>. QED
  BY <1>2, <1>3, <1>4, <1>5

\* The rows stay.
LEMMA SameRowsFacts ==
  ASSUME StoreTypes, Pointed, head # None, UNCHANGED <<snapshots, nextID>>, head' \in Heads,
         head'.desired = head.desired \/ (head'.desired = head.flight /\ head.flight # 0),
         head'.confirmed = head.confirmed \/ (head'.confirmed = head.flight /\ head.flight # 0),
         head'.flight \in {head.flight, head.desired, 0}
  PROVE  /\ StoreTypes' /\ Pointed'
         /\ head'.desired = head.desired => Desired' = Desired
         /\ head'.confirmed = head.confirmed => Confirmed' = Confirmed
         /\ head'.confirmed = head.flight => Confirmed' = Flight
         /\ head'.flight = head.flight => Flight' = Flight
         /\ head'.flight = head.desired => Flight' = Desired
  BY PointedFacts DEF StoreTypes, Pointed, Desired, Confirmed, Flight

\* An observation of the file.
LEMMA ReplaceFacts ==
  ASSUME StoreTypes, Pointed, NEW b \in Bytes, replace(b)
  PROVE  /\ StoreTypes' /\ Pointed' /\ accepted' = accepted
         /\ Pending /\ (head.republish # None \/ ~b.ok \/ Desired.audio = b.audio) => UNCHANGED <<head, snapshots, nextID>>
         /\ Pending /\ head.republish = None /\ b.ok /\ Desired.audio # b.audio =>
              /\ Insert([audio |-> b.audio, doc |-> Desired.doc]) /\ head' = [head EXCEPT !.desired = nextID]
         /\ ~Pending /\ b.ok => importAnnotationSnapshot(b)
         /\ ~Pending /\ ~b.ok => head' = None
<1>1. accepted' = accepted
  BY DEF replace
<1>2. CASE Pending /\ (head.republish # None \/ ~b.ok \/ Desired.audio = b.audio)
  <2>. UNCHANGED <<head, snapshots, nextID>>
    BY <1>2 DEF replace, refreshAnnotationAudio, Desired
  <2>. QED
    BY <1>1, <1>2 DEF StoreTypes, Pointed
<1>3. CASE Pending /\ head.republish = None /\ b.ok /\ Desired.audio # b.audio
  <2>. DEFINE s == [audio |-> b.audio, doc |-> Desired.doc]
  <2>1. Insert(s) /\ head' = [head EXCEPT !.desired = nextID]
    BY <1>3 DEF replace, refreshAnnotationAudio, Desired
  <2>2. head # None
    BY <1>3 DEF Pending
  <2>3. s \in SnapshotRows /\ head \in Heads
    BY <2>2, PointedFacts DEF SnapshotRows, Bytes
  <2>4. head' = [head EXCEPT !.desired = nextID, !.flight = head.flight]
    BY <2>1, <2>3 DEF Heads
  <2>. HIDE DEF s
  <2>5. StoreTypes' /\ Pointed'
    BY <2>1, <2>2, <2>3, <2>4, NewDesiredFacts
  <2>. QED
    BY <1>1, <1>3, <2>1, <2>5 DEF s
<1>4. CASE ~Pending /\ b.ok
  <2>. importAnnotationSnapshot(b)
    BY <1>4 DEF replace
  <2>. QED
    BY <1>1, <1>4, ImportFacts
<1>5. CASE ~Pending /\ ~b.ok
  <2>. head' = None /\ UNCHANGED <<snapshots, nextID>>
    BY <1>5 DEF replace
  <2>. QED
    BY <1>1, <1>5 DEF StoreTypes, Pointed
<1>. QED
  BY <1>2, <1>3, <1>4, <1>5

-----------------------------------------------------------------------------
(* What steps leave alone.                                                 *)

\* No row changes, and none is new.
RowsStay == nextID' = nextID /\ \A id \in DOMAIN snapshots' : id \in DOMAIN snapshots /\ snapshots'[id] = snapshots[id]

\* The head says what it said.
SameHead ==
  \/ head = None /\ head' = None
  \/ /\ head # None /\ head' \in Heads
     /\ head'.desired = head.desired /\ head'.confirmed = head.confirmed
     /\ head'.flight = head.flight /\ head'.republish = head.republish
     /\ Desired' = Desired /\ Confirmed' = Confirmed /\ (head.flight # 0 => Flight' = Flight)
     /\ RowsStay

LEMMA SameHeadFacts ==
  ASSUME SameHead
  PROVE  /\ head' = None <=> head = None
         /\ head # None =>
              /\ head'.desired = head.desired /\ head'.confirmed = head.confirmed
              /\ head'.flight = head.flight /\ head'.republish = head.republish
              /\ Desired' = Desired /\ Confirmed' = Confirmed /\ (head.flight # 0 => Flight' = Flight)
              /\ RowsStay
         /\ Pending' <=> Pending
<1>1. head' = None <=> head = None
  BY NoneIsNoRecord DEF SameHead
<1>. QED
  BY <1>1 DEF SameHead, Pending

\* Nextcloud and the edits stay as they are: the workers go on, or let go of the lock.
LEMMA LetGo ==
  ASSUME MarksInv, SameHead, StoreTypes', Pointed',
         UNCHANGED <<remoteFile, etags, late, drift, receipts, accepted, publishes>>,
         \/ UNCHANGED <<lock, worker, publisher, importer>>
         \/ lock' = "free" /\ worker' = None /\ publisher' = None /\ importer' = None
  PROVE  MarksInv'
<1>0. /\ head' = None <=> head = None
      /\ head # None =>
              /\ head'.desired = head.desired /\ head'.confirmed = head.confirmed
              /\ head'.flight = head.flight /\ head'.republish = head.republish
              /\ Desired' = Desired /\ Confirmed' = Confirmed /\ (head.flight # 0 => Flight' = Flight)
              /\ RowsStay
      /\ Pending' <=> Pending
  BY SameHeadFacts
<1>1. FileTypes' /\ LocalTypes' /\ EditTypes' /\ OneAtATime' /\ FileNumbers' /\ WorkerNumbers' /\ PublisherNumbers'
  BY DEF MarksInv, Basics, FileTypes, LocalTypes, EditTypes, OneAtATime, FileNumbers, WorkerNumbers, PublisherNumbers,
     MaybeBytes
<1>2. WorkerKnows' /\ ReplacementIsRecorded'
  BY <1>0 DEF MarksInv, Basics, WorkerKnows, ReplacementIsRecorded, RowsStay
<1>3. LateMatters' <=> LateMatters
  BY DEF LateMatters, File
<1>4. ASSUME ~drift PROVE Kept'
  <2>1. FileIsSound' /\ FileFollowsHead' /\ LateFollowsHead' /\ EditsAreOnce'
    BY <1>0, <1>3, <1>4 DEF MarksInv, Kept, FileIsSound, FileFollowsHead, LateFollowsHead, EditsAreOnce, File, Snapshot
  <2>2. WorkerFollows' /\ PublisherFollows' /\ ImporterFollows'
    BY <1>0, <1>3, <1>4 DEF MarksInv, Kept, WorkerFollows, PublisherFollows, ImporterFollows, File, Snapshot, Basics, WorkerKnows
  <2>. QED
    BY <2>1, <2>2 DEF Kept
<1>. QED
  BY <1>1, <1>2, <1>4 DEF MarksInv, Basics

LEMMA HeadStays ==
  ASSUME StoreTypes, Pointed, UNCHANGED <<head, snapshots, nextID>>
  PROVE  SameHead /\ StoreTypes' /\ Pointed'
<1>1. StoreTypes' /\ Pointed'
  BY DEF StoreTypes, Pointed
<1>2. CASE head = None
  BY <1>1, <1>2 DEF SameHead
<1>3. CASE head # None
  BY <1>1, <1>3, PointedFacts DEF SameHead, RowsStay, Desired, Confirmed, Flight
<1>. QED
  BY <1>2, <1>3

LEMMA OnlyBlocked ==
  ASSUME StoreTypes, Pointed, head # None, NEW v \in BOOLEAN, head' = [head EXCEPT !.blocked = v],
         UNCHANGED <<snapshots, nextID>>
  PROVE  SameHead /\ StoreTypes' /\ Pointed'
<1>1. head \in Heads
  BY PointedFacts
<1>2. /\ head' \in Heads /\ head'.desired = head.desired /\ head'.confirmed = head.confirmed
      /\ head'.flight = head.flight /\ head'.republish = head.republish
  BY <1>1 DEF Heads
<1>. QED
  BY <1>2, SameRowsFacts DEF SameHead, RowsStay

\* retryAnnotation: the worker blocks a head somebody waits for.
LEMMA BlocksFacts ==
  ASSUME MarksInv, WorkerBlocks
  PROVE  /\ SameHead /\ StoreTypes' /\ Pointed'
         /\ lock' = "free" /\ worker' = None /\ accepted' = accepted
<1>1. StoreTypes /\ Pointed /\ UNCHANGED <<snapshots, nextID, accepted>> /\ lock' = "free" /\ worker' = None
  BY DEF MarksInv, Basics, WorkerBlocks, WorkerDone
<1>2. CASE Pending
  <2>. head # None /\ head' = [head EXCEPT !.blocked = TRUE]
    BY <1>2 DEF Pending, WorkerBlocks
  <2>. QED
    BY <1>1, OnlyBlocked
<1>3. CASE ~Pending
  <2>. head' = head
    BY <1>3 DEF WorkerBlocks
  <2>. QED
    BY <1>1, HeadStays
<1>. QED
  BY <1>2, <1>3

LEMMA OthersAreIdle ==
  ASSUME MarksInv
  PROVE  /\ worker # None => lock = "worker" /\ publisher = None /\ importer = None
         /\ publisher # None => lock = "publisher" /\ worker = None /\ importer = None
         /\ importer # None => lock = "importer" /\ worker = None /\ publisher = None
         /\ lock = "free" => worker = None /\ publisher = None /\ importer = None
  BY DEF MarksInv, Basics, OneAtATime

LEMMA BlockStep == ASSUME MarksInv, WorkerBlocks, worker # None, UNCHANGED remote, WorkerOnly PROVE MarksInv'
<1>1. publisher' = None /\ importer' = None /\ UNCHANGED <<remoteFile, etags, late, drift, receipts, publishes>>
  BY OthersAreIdle DEF remote, WorkerOnly
<1>. QED
  BY <1>1, BlocksFacts, LetGo

LEMMA RetryStep == ASSUME MarksInv, RetrySync PROVE MarksInv'
<1>1. /\ head # None /\ head' = [head EXCEPT !.blocked = FALSE]
      /\ UNCHANGED <<remoteFile, etags, late, drift, snapshots, nextID, accepted, receipts, lock, worker, publisher,
                     importer, publishes>>
  BY DEF RetrySync, remote
<1>2. SameHead /\ StoreTypes' /\ Pointed'
  BY <1>1, OnlyBlocked DEF MarksInv, Basics
<1>. QED
  BY <1>1, <1>2, LetGo

LEMMA CollectStep == ASSUME MarksInv, collectSnapshots PROVE MarksInv'
<1>1. /\ head # None
      /\ snapshots' = [id \in DOMAIN snapshots \cap {head.desired, head.confirmed, head.flight} |-> snapshots[id]]
      /\ UNCHANGED <<remoteFile, etags, late, drift, head, nextID, accepted, receipts, lock, worker, publisher,
                     importer, publishes>>
  BY DEF collectSnapshots, remote
<1>2. StoreTypes /\ Pointed /\ head \in Heads /\ head.desired \in DOMAIN snapshots /\ head.confirmed \in DOMAIN snapshots
      /\ (head.flight # 0 => head.flight \in DOMAIN snapshots)
  BY <1>1, PointedFacts DEF MarksInv, Basics
<1>3. StoreTypes' /\ Pointed'
  BY <1>1, <1>2 DEF StoreTypes, Pointed
<1>4. Desired' = Desired /\ Confirmed' = Confirmed /\ (head.flight # 0 => Flight' = Flight)
  BY <1>1, <1>2 DEF Desired, Confirmed, Flight
<1>5. SameHead
  BY <1>1, <1>2, <1>4 DEF SameHead, RowsStay
<1>. QED
  BY <1>1, <1>3, <1>5, LetGo

LEMMA RestartSyncStep == ASSUME MarksInv, RestartSync PROVE MarksInv'
<1>1. /\ UNCHANGED <<remoteFile, etags, late, drift, head, snapshots, nextID, accepted, receipts, publishes>>
      /\ lock' = "free" /\ worker' = None /\ publisher' = None /\ importer' = None
  BY DEF RestartSync, remote, store
<1>2. SameHead /\ StoreTypes' /\ Pointed'
  BY <1>1, HeadStays DEF MarksInv, Basics
<1>. QED
  BY <1>1, <1>2, LetGo

\* What a rebuild of the index has read is no state of the marks.
LEMMA RebuildStep == ASSUME MarksInv, archiveBackfillTargets \/ recordedContainers PROVE MarksInv'
<1>1. /\ UNCHANGED <<remoteFile, etags, late, drift, head, snapshots, nextID, accepted, receipts, lock, worker, publisher,
                     importer, publishes>>
  BY DEF archiveBackfillTargets, recordedContainers, remote, store
<1>2. SameHead /\ StoreTypes' /\ Pointed'
  BY <1>1, HeadStays DEF MarksInv, Basics
<1>. QED
  BY <1>1, <1>2, LetGo

-----------------------------------------------------------------------------
(* Nextcloud, and people.                                                  *)

LEMMA FileFacts ==
  ASSUME Basics
  PROVE  /\ remoteFile # None => remoteFile \in Leaves /\ File \in Bytes /\ File.doc \in Docs /\ remoteFile.etag \in Nat
         /\ late # None => late \in Uploads /\ late.bytes \in Bytes /\ late.bytes.doc \in Docs /\ late.ifMatch \in Nat
         /\ worker # None => worker \in WorkerLocals /\ worker.base \in Bytes /\ worker.base.doc \in Docs
         /\ publisher # None => publisher \in PublisherLocals /\ publisher.staged \in Bytes /\ publisher.staged.doc \in Docs
                                /\ publisher.item \in Bytes /\ publisher.etag \in Nat
         /\ importer # None => importer \in Bytes
         /\ head # None => Desired.doc \in Docs /\ (head.flight # 0 => Flight.doc \in Docs)
         /\ etags \in Nat /\ publishes \in Nat
  BY PointedFacts DEF Basics, FileTypes, LocalTypes, Leaves, Uploads, WorkerLocals, PublisherLocals, MaybeBytes, Bytes,
     File, SnapshotRows

\* A settled head may be dropped, of a recording that is there too: it says what Nextcloud
\* holds, and nothing that could still land differs.
LEMMA ForgetVanishedStep == ASSUME MarksInv, forgetVanishedAnnotations PROVE MarksInv'
<1>1. UNCHANGED <<remoteFile, etags, late, drift, snapshots, nextID, accepted, receipts, lock, worker, publisher,
                  importer, publishes>>
  BY DEF forgetVanishedAnnotations, remote
<1>2. Basics
  BY DEF MarksInv
<1>3. CASE head' = head
  <2>1. SameHead /\ StoreTypes' /\ Pointed'
    BY <1>1, <1>2, <1>3, HeadStays DEF Basics
  <2>. QED
    BY <1>1, <2>1, LetGo
<1>4. CASE head' = None /\ head # None /\ ~Pending
  <2>1. head.desired = head.confirmed /\ head.republish = None
    BY <1>4 DEF Pending
  <2>2. FileTypes' /\ LocalTypes' /\ StoreTypes' /\ EditTypes' /\ OneAtATime' /\ Pointed'
        /\ FileNumbers' /\ WorkerNumbers' /\ PublisherNumbers'
    BY <1>1, <1>2, <1>4 DEF Basics, FileTypes, LocalTypes, StoreTypes, EditTypes, OneAtATime, Pointed, FileNumbers,
       WorkerNumbers, PublisherNumbers
  <2>3. worker # None => worker.pc \in {"render", "select"}
    BY <1>2, <1>4, <2>1 DEF Basics, WorkerKnows, LocalTypes, WorkerLocals
  <2>4. WorkerKnows' /\ ReplacementIsRecorded'
    BY <1>1, <1>4, <2>3 DEF WorkerKnows, ReplacementIsRecorded
  <2>5. ASSUME ~drift PROVE Kept'
    <3>1. Kept
      BY <2>5 DEF MarksInv
    <3>2. ~LateMatters /\ ~LateMatters'
      BY <1>1, <2>1, <3>1 DEF Kept, LateFollowsHead, LateMatters, File
    <3>3. remoteFile # None /\ Snapshot(File) = Desired /\ File \in Bytes
      BY <1>2, <1>4, <2>1, <3>1, FileFacts DEF Kept, FileFollowsHead
    <3>4. FileIsSound' /\ FileFollowsHead' /\ LateFollowsHead'
      BY <1>1, <1>4, <3>1, <3>2 DEF Kept, FileIsSound, FileFollowsHead, LateFollowsHead, File
    <3>5. WorkerFollows' /\ PublisherFollows'
      BY <1>1, <2>3, <3>1, <3>2 DEF Kept, WorkerFollows, PublisherFollows, File
    <3>6. ImporterFollows'
      BY <1>1, <2>1, <3>1 DEF Kept, ImporterFollows, File, Snapshot
    <3>7. EditsAreOnce'
      BY <1>1, <1>4, <3>1, <3>3, SnapshotFacts DEF Kept, EditsAreOnce, File
    <3>. QED
      BY <3>4, <3>5, <3>6, <3>7 DEF Kept
  <2>. QED
    BY <1>1, <2>2, <2>4, <2>5 DEF MarksInv, Basics
<1>. QED
  BY <1>3, <1>4 DEF forgetVanishedAnnotations

\* An upload that matters grows the marks of the file as far as the document in flight.
LEMMA LandsStep == ASSUME MarksInv, LateUploadLands PROVE MarksInv'
<1>1. /\ late # None /\ late' = None
      /\ UNCHANGED <<head, snapshots, nextID, accepted, receipts, lock, worker, publisher, importer, publishes>>
  BY DEF LateUploadLands, store
<1>2. Basics /\ SameHead /\ StoreTypes' /\ Pointed'
  BY <1>1, HeadStays DEF MarksInv, Basics
<1>3. Desired' = Desired /\ Confirmed' = Confirmed /\ Flight' = Flight /\ (Pending' <=> Pending)
  BY <1>1 DEF Desired, Confirmed, Flight, Pending
<1>4. WorkerKnows' /\ ReplacementIsRecorded' /\ OneAtATime' /\ LocalTypes' /\ EditTypes'
  BY <1>1, <1>2, <1>3 DEF Basics, WorkerKnows, ReplacementIsRecorded, OneAtATime, LocalTypes, EditTypes
<1>5. ~LateMatters'
  BY <1>1 DEF LateMatters
<1>6. CASE ~Matches(late.ifMatch)
  <2>1. UNCHANGED <<remoteFile, etags, drift>>
    BY <1>6 DEF LateUploadLands
  <2>2. FileTypes' /\ FileNumbers' /\ PublisherNumbers' /\ WorkerNumbers'
    BY <1>1, <1>2, <2>1 DEF Basics, FileTypes, FileNumbers, PublisherNumbers, WorkerNumbers
  <2>3. ASSUME ~drift PROVE Kept'
    <3>1. FileIsSound' /\ FileFollowsHead' /\ LateFollowsHead' /\ EditsAreOnce'
      BY <1>1, <1>3, <1>5, <2>1, <2>3 DEF MarksInv, Kept, FileIsSound, FileFollowsHead, LateFollowsHead, EditsAreOnce, File, Snapshot
    <3>2. WorkerFollows' /\ PublisherFollows' /\ ImporterFollows'
      BY <1>1, <1>3, <1>5, <2>1, <2>3 DEF MarksInv, Kept, WorkerFollows, PublisherFollows, ImporterFollows, File, Snapshot
    <3>. QED
      BY <3>1, <3>2 DEF Kept
  <2>. QED
    BY <1>2, <1>4, <2>1, <2>2, <2>3 DEF MarksInv, Basics
<1>7. CASE Matches(late.ifMatch)
  <2>1. /\ remoteFile' = [etag |-> etags + 1, bytes |-> late.bytes] /\ etags' = etags + 1
        /\ drift' = (drift \/ late.ifMatch = 0 \/ remoteFile.bytes.audio # late.bytes.audio)
    BY <1>7 DEF LateUploadLands, Stored
  <2>2. late \in Uploads /\ late.bytes \in Bytes /\ etags \in Nat /\ publishes \in Nat /\ late.bytes.build <= publishes
    BY <1>1, <1>2, FileFacts DEF Basics, FileNumbers
  <2>3. remoteFile' \in Leaves /\ remoteFile' # None /\ File' = late.bytes /\ remoteFile'.etag = etags + 1
    BY <2>1, <2>2, NoneIsNoRecord DEF Leaves, File
  <2>4. FileTypes' /\ FileNumbers' /\ PublisherNumbers' /\ WorkerNumbers'
    BY <1>1, <1>2, <2>1, <2>2, <2>3, FileFacts DEF Basics, FileTypes, FileNumbers, PublisherNumbers, WorkerNumbers, WorkerLocals, File
  <2>5. ASSUME ~drift' PROVE Kept'
    <3>1. ~drift /\ late.ifMatch # 0 /\ remoteFile # None /\ remoteFile.etag = late.ifMatch
          /\ File.audio = late.bytes.audio
      BY <1>7, <2>1, <2>5 DEF Matches, File
    <3>2. Kept
      BY <3>1 DEF MarksInv
    <3>3. File \in Bytes /\ File.doc \in Docs /\ late.bytes.doc \in Docs
          /\ (head # None => Desired.doc \in Docs /\ (head.flight # 0 => Flight.doc \in Docs))
      BY <1>1, <1>2, <3>1, FileFacts
    <3>4. ~LateMatters => Snapshot(File') = Snapshot(File) /\ late.bytes.doc = File.doc
      BY <1>1, <2>3, <3>1 DEF LateMatters, Snapshot
    <3>5. Prefix(File.doc, late.bytes.doc)
      BY <3>2, <3>3, <3>4, PrefixFacts DEF Kept, LateFollowsHead
    <3>6. ASSUME head # None
          PROVE  /\ Prefix(late.bytes.doc, Desired.doc)
                 /\ head.flight # 0 => Prefix(late.bytes.doc, Flight.doc)
                 /\ head.desired = head.confirmed => ~LateMatters
      <4>1. CASE LateMatters
        BY <3>2, <3>3, <3>6, <4>1, PrefixFacts DEF Kept, LateFollowsHead, FileFollowsHead
      <4>2. CASE ~LateMatters
        BY <3>2, <3>4, <3>6, <4>2 DEF Kept, FileFollowsHead
      <4>. QED
        BY <4>1, <4>2
    <3>7. FileIsSound'
      <4>1. Within(late.bytes.doc, receipts)
        <5>1. CASE LateMatters
          <6>. head # None /\ Within(Desired.doc, receipts)
            BY <3>2, <5>1 DEF Kept, LateFollowsHead, EditsAreOnce
          <6>. QED
            BY <3>3, <3>6, PrefixFacts
        <5>2. CASE ~LateMatters
          BY <3>1, <3>2, <3>4, <5>2 DEF Kept, FileIsSound
        <5>. QED
          BY <5>1, <5>2
      <4>. QED
        BY <1>1, <2>3, <3>2, <4>1 DEF Kept, FileIsSound
    <3>8. FileFollowsHead' /\ LateFollowsHead'
      BY <1>1, <1>3, <1>5, <2>3, <3>1, <3>2, <3>4, <3>6 DEF Kept, FileFollowsHead, LateFollowsHead, Snapshot
    <3>9. EditsAreOnce'
      <4>1. head = None => ~LateMatters
        BY <3>2 DEF Kept, LateFollowsHead
      <4>. QED
        BY <1>1, <1>3, <2>3, <3>2, <3>4, <4>1 DEF Kept, EditsAreOnce
    <3>10. WorkerFollows'
      <4>1. worker # None => worker.base.doc \in Docs
        BY <1>2, FileFacts
      <4>2. worker # None /\ worker.pc \in {"republish", "flight"} => Prefix(worker.base.doc, late.bytes.doc)
        BY <3>2, <3>3, <3>5, <4>1, PrefixFacts DEF Kept, WorkerFollows
      <4>3. ASSUME worker # None, worker.pc = "claim" PROVE Prefix(late.bytes.doc, worker.base.doc)
        <5>1. head # None
          BY <1>2, <4>3 DEF Basics, WorkerKnows
        <5>2. CASE LateMatters
          <6>1. head.flight # 0 /\ Prefix(late.bytes.doc, Flight.doc) /\ Prefix(Flight.doc, worker.base.doc)
            BY <3>2, <4>3, <5>2 DEF Kept, LateFollowsHead, WorkerFollows
          <6>. QED
            BY <3>3, <4>1, <4>3, <5>1, <6>1, PrefixFacts
        <5>3. CASE ~LateMatters
          BY <3>2, <3>4, <4>3, <5>3 DEF Kept, WorkerFollows
        <5>. QED
          BY <5>2, <5>3
      <4>. QED
        BY <1>1, <1>3, <1>5, <2>3, <3>1, <3>2, <3>4, <4>2, <4>3 DEF Kept, WorkerFollows
    <3>11. PublisherFollows'
      <4>1. publisher # None => publisher.staged.doc \in Docs /\ publisher.etag <= etags /\ publisher.etag \in Nat
        BY <1>2, FileFacts DEF Basics, PublisherNumbers
      <4>2. publisher # None /\ publisher.pc \in {"prepare", "put"} /\ publisher.etag # 0 => Prefix(publisher.staged.doc, late.bytes.doc)
        BY <3>2, <3>3, <3>5, <4>1, PrefixFacts DEF Kept, PublisherFollows
      <4>3. publisher # None => remoteFile'.etag # publisher.etag
        BY <2>2, <2>3, <4>1
      <4>. QED
        BY <1>1, <1>5, <2>3, <3>1, <3>2, <4>2, <4>3 DEF Kept, PublisherFollows
    <3>12. ImporterFollows'
      <4>1. head = None \/ head.desired = head.confirmed => ~LateMatters
        BY <3>2 DEF Kept, LateFollowsHead
      <4>. QED
        BY <1>1, <2>3, <3>1, <3>2, <3>4, <4>1 DEF Kept, ImporterFollows, Snapshot
    <3>. QED
      BY <3>7, <3>8, <3>9, <3>10, <3>11, <3>12 DEF Kept
  <2>. QED
    BY <1>2, <1>4, <2>4, <2>5 DEF MarksInv, Basics
<1>. QED
  BY <1>6, <1>7

LEMMA OutsideStep == ASSUME MarksInv, OutsideWrite \/ OutsideDelete PROVE MarksInv'
<1>1. /\ remoteFile # None /\ drift' = TRUE
      /\ UNCHANGED <<head, snapshots, nextID, accepted, receipts, lock, worker, publisher, importer, late, publishes>>
  BY DEF OutsideWrite, OutsideDelete, store
<1>2. Basics /\ StoreTypes' /\ Pointed' /\ WorkerKnows' /\ ReplacementIsRecorded' /\ OneAtATime' /\ LocalTypes'
      /\ EditTypes'
  BY <1>1 DEF MarksInv, Basics, StoreTypes, Pointed, WorkerKnows, ReplacementIsRecorded, OneAtATime, LocalTypes, EditTypes,
     Desired, Confirmed, Flight, Pending
<1>3. FileTypes' /\ FileNumbers' /\ PublisherNumbers' /\ WorkerNumbers'
  <2>1. CASE OutsideDelete
    <3>. remoteFile' = None /\ etags' = etags
      BY <2>1 DEF OutsideDelete
    <3>. QED
      BY <1>1, <1>2 DEF Basics, FileTypes, FileNumbers, PublisherNumbers, WorkerNumbers
  <2>2. CASE OutsideWrite
    <3>1. PICK ok \in BOOLEAN : Stored([remoteFile.bytes EXCEPT !.doc = <<"outsider">>, !.ok = ok])
      BY <2>2 DEF OutsideWrite
    <3>. DEFINE b == [remoteFile.bytes EXCEPT !.doc = <<"outsider">>, !.ok = ok]
    <3>2. remoteFile.bytes \in Bytes /\ etags \in Nat /\ publishes \in Nat /\ remoteFile.etag \in Nat
      BY <1>1, <1>2, FileFacts DEF File
    <3>. DEFINE note == <<"outsider">>
    <3>6. note \in Docs
      BY DEF Docs
    <3>. HIDE DEF note
    <3>7. b = [remoteFile.bytes EXCEPT !.doc = note, !.ok = ok]
      BY DEF note
    <3>3. b \in Bytes /\ b.build = remoteFile.bytes.build
      BY <3>2, <3>6, <3>7 DEF Bytes
    <3>. HIDE DEF b
    <3>4. remoteFile' = [etag |-> etags + 1, bytes |-> b] /\ etags' = etags + 1
      BY <3>1 DEF Stored, b
    <3>5. remoteFile' \in Leaves /\ remoteFile'.etag = etags + 1 /\ remoteFile'.bytes = b
      BY <3>2, <3>3, <3>4 DEF Leaves
    <3>. QED
      BY <1>1, <1>2, <3>2, <3>3, <3>4, <3>5, FileFacts DEF Basics, FileTypes, FileNumbers, PublisherNumbers, WorkerNumbers, WorkerLocals, File
  <2>. QED
    BY <2>1, <2>2
<1>. QED
  BY <1>1, <1>2, <1>3 DEF MarksInv, Basics

\* The document grows by an edit that was in no document before.
LEMMA CommitStep == ASSUME MarksInv, NEW r \in Request, commitDocument(r) PROVE MarksInv'
<1>. DEFINE s == [Desired EXCEPT !.doc = Append(@, r)]
<1>1. /\ head # None /\ r \notin receipts /\ Insert(s) /\ head' = [head EXCEPT !.desired = nextID]
      /\ receipts' = receipts \cup {r} /\ accepted' = accepted \cup {r}
      /\ UNCHANGED <<remoteFile, etags, late, drift, lock, worker, publisher, importer, publishes>>
  BY DEF commitDocument, mutateAnnotationDocument, remote, Desired
<1>2. Basics /\ StoreTypes /\ Pointed /\ head \in Heads /\ Desired \in SnapshotRows /\ Desired.doc \in Docs
  BY <1>1, PointedFacts, FileFacts DEF MarksInv, Basics
<1>3. s \in SnapshotRows /\ s.audio = Desired.audio /\ s.doc = Append(Desired.doc, r)
  BY <1>2, AppendFacts DEF SnapshotRows
<1>4. head' = [head EXCEPT !.desired = nextID, !.flight = head.flight]
  BY <1>1, <1>2 DEF Heads
<1>. HIDE DEF s
<1>5. /\ StoreTypes' /\ Pointed' /\ head' \in Heads /\ head' # None
      /\ head'.desired = nextID /\ head'.confirmed = head.confirmed /\ head'.flight = head.flight
      /\ head'.republish = head.republish /\ head'.desired # head'.confirmed
      /\ Desired' = s /\ Confirmed' = Confirmed /\ (head.flight # 0 => Flight' = Flight)
  BY <1>1, <1>2, <1>3, <1>4, NewDesiredFacts, NoneIsNoRecord
<1>6. FileTypes' /\ LocalTypes' /\ EditTypes' /\ OneAtATime' /\ FileNumbers' /\ WorkerNumbers' /\ PublisherNumbers'
  BY <1>1, <1>2 DEF Basics, FileTypes, LocalTypes, EditTypes, OneAtATime, FileNumbers, WorkerNumbers, PublisherNumbers
<1>7. WorkerKnows' /\ ReplacementIsRecorded'
  <2>1. ASSUME worker # None, worker.pc = "claim"
        PROVE  /\ worker.desired \in 1..(nextID' - 1)
               /\ worker.desired \in DOMAIN snapshots' => snapshots'[worker.desired] = Snapshot(worker.base)
    BY <1>1, <1>2, <1>3, <2>1, InsertFacts DEF Basics, WorkerKnows
  <2>2. Snapshot(worker.base)' = Snapshot(worker.base)
    BY <1>1 DEF Snapshot
  <2>. QED
    BY <1>1, <1>2, <1>3, <1>5, <2>1, <2>2 DEF Basics, WorkerKnows, ReplacementIsRecorded, Pending
<1>8. LateMatters' <=> LateMatters
  BY <1>1 DEF LateMatters, File
<1>9. ASSUME ~drift PROVE Kept'
  <2>1. Kept
    BY <1>9 DEF MarksInv
  <2>2. /\ Prefix(Desired.doc, s.doc) /\ s.doc \in Docs /\ Within(s.doc, receipts')
    BY <1>1, <1>2, <1>3, <2>1, AppendFacts DEF Kept, EditsAreOnce
  <2>3. FileFollowsHead'
    <3>1. remoteFile # None /\ File.doc \in Docs /\ (head.flight # 0 => Flight.doc \in Docs)
      BY <1>1, <1>2, <2>1, FileFacts DEF Kept, FileFollowsHead
    <3>2. Prefix(File.doc, s.doc) /\ (head.flight # 0 => Prefix(Flight.doc, s.doc))
      BY <1>1, <1>2, <2>1, <2>2, <3>1, PrefixFacts DEF Kept, FileFollowsHead
    <3>. QED
      BY <1>1, <1>3, <1>5, <2>1, <3>2 DEF Kept, FileFollowsHead, File
  <2>4. FileIsSound'
    BY <1>1, <2>1 DEF Kept, FileIsSound, File, Within
  <2>5. LateFollowsHead'
    BY <1>1, <1>5, <1>8, <2>1 DEF Kept, LateFollowsHead, File
  <2>6. WorkerFollows' /\ PublisherFollows' /\ ImporterFollows'
    <3>1. worker # None /\ worker.pc = "claim" => Prefix(worker.base.doc, s.doc)
      BY <1>2, <2>1, <2>2, FileFacts, PrefixFacts DEF Kept, WorkerFollows
    <3>2. WorkerFollows'
      BY <1>1, <1>2, <1>5, <1>8, <2>1, <3>1 DEF Kept, WorkerFollows, File, Snapshot
    <3>3. PublisherFollows' /\ ImporterFollows'
      BY <1>1, <1>5, <1>8, <2>1 DEF Kept, PublisherFollows, ImporterFollows, File, Snapshot
    <3>. QED
      BY <3>2, <3>3
  <2>7. EditsAreOnce'
    <3>1. accepted \subseteq receipts /\ r \notin accepted /\ \A i \in 1..Len(Desired.doc) : Desired.doc[i] # r
      BY <1>1, <1>2, <2>1 DEF Basics, EditTypes, Kept, EditsAreOnce, Within
    <3>2. ASSUME NEW q \in accepted' PROVE Occurrences(q, s.doc) = 1
      <4>1. CASE q = r
        BY <1>2, <1>3, <3>1, <4>1, AppendOccurs
      <4>2. CASE q # r
        BY <1>1, <1>2, <1>3, <2>1, <3>2, <4>2, AppendOccurs DEF Kept, EditsAreOnce
      <4>. QED
        BY <4>1, <4>2
    <3>. QED
      BY <1>5, <2>2, <3>2 DEF EditsAreOnce
  <2>. QED
    BY <2>3, <2>4, <2>5, <2>6, <2>7 DEF Kept
<1>. QED
  BY <1>1, <1>5, <1>6, <1>7, <1>9 DEF MarksInv, Basics

-----------------------------------------------------------------------------
(* The sync worker.                                                        *)

\* The head moves while Nextcloud and the edits stay.
LEMMA HeadMoves ==
  ASSUME MarksInv, UNCHANGED <<remoteFile, etags, late, drift, receipts, publishes>>,
         publisher' = None, importer' = None, accepted' \subseteq accepted,
         \/ lock' = "free" /\ worker' = None
         \/ lock' = "worker" /\ worker' \in WorkerLocals /\ worker'.base.build <= publishes /\ worker'.etag <= etags,
         StoreTypes', Pointed', WorkerKnows',
         ~drift => FileFollowsHead' /\ LateFollowsHead' /\ WorkerFollows' /\ EditsAreOnce'
  PROVE  MarksInv'
<1>1. FileTypes' /\ LocalTypes' /\ EditTypes' /\ FileNumbers' /\ WorkerNumbers' /\ PublisherNumbers' /\ ReplacementIsRecorded'
  BY DEF MarksInv, Basics, FileTypes, LocalTypes, EditTypes, FileNumbers, WorkerNumbers, PublisherNumbers,
     ReplacementIsRecorded, MaybeBytes
<1>2. OneAtATime'
  BY NoneIsNoRecord DEF OneAtATime
<1>3. ~drift => FileIsSound' /\ PublisherFollows' /\ ImporterFollows'
  BY DEF MarksInv, Kept, FileIsSound, PublisherFollows, ImporterFollows, File
<1>. QED
  BY <1>1, <1>2, <1>3 DEF MarksInv, Basics, Kept

LEMMA WorkerMoves ==
  ASSUME MarksInv, SameHead, StoreTypes', Pointed',
         UNCHANGED <<remoteFile, etags, late, drift, receipts, accepted, publishes>>,
         publisher' = None, importer' = None,
         lock' = "worker", worker' \in WorkerLocals, worker'.base.build <= publishes, worker'.etag <= etags,
         WorkerKnows', ~drift => WorkerFollows'
  PROVE  MarksInv'
<1>1. ~drift => FileFollowsHead' /\ LateFollowsHead' /\ EditsAreOnce'
  BY SameHeadFacts DEF MarksInv, Kept, FileFollowsHead, LateFollowsHead, LateMatters, EditsAreOnce, File, Snapshot
<1>. QED
  BY <1>1, HeadMoves

LEMMA NextStep == ASSUME MarksInv, nextAnnotation PROVE MarksInv'
<1>1. /\ Pending /\ head # None /\ lock = "free" /\ worker = None /\ publisher = None /\ importer = None
      /\ UNCHANGED <<remoteFile, etags, late, drift, snapshots, nextID, accepted, receipts, publisher, importer, publishes>>
  BY OthersAreIdle DEF nextAnnotation, Pending, remote, WorkerOnly
<1>2. Basics /\ StoreTypes /\ Pointed
  BY DEF MarksInv, Basics
<1>3. CASE remoteFile = None
  <2>. head' = [head EXCEPT !.blocked = TRUE] /\ UNCHANGED <<lock, worker>>
    BY <1>3 DEF nextAnnotation
  <2>. QED
    BY <1>1, <1>2, OnlyBlocked, LetGo
<1>4. CASE remoteFile # None
  <2>1. /\ lock' = "worker" /\ UNCHANGED head
        /\ worker' = [pc |-> "republish", base |-> File, etag |-> remoteFile.etag,
                       desired |-> head.desired, confirmed |-> head.confirmed,
                       previous |-> Confirmed, flight |-> head.flight, republish |-> head.republish]
    BY <1>4 DEF nextAnnotation, File, Confirmed
  <2>2. /\ File \in Bytes /\ File.build <= publishes /\ remoteFile.etag \in Nat /\ remoteFile.etag <= etags /\ head \in Heads /\ Confirmed \in SnapshotRows
        /\ File.doc \in Docs
    BY <1>1, <1>2, <1>4, FileFacts, PointedFacts DEF Basics, FileNumbers, File
  <2>3. /\ worker' \in WorkerLocals /\ worker' # None /\ worker'.base = File /\ worker'.pc = "republish"
        /\ worker'.etag = remoteFile.etag
        /\ worker'.desired = head.desired /\ worker'.confirmed = head.confirmed /\ worker'.previous = Confirmed
        /\ worker'.flight = head.flight /\ worker'.republish = head.republish
    BY <2>1, <2>2, NoneIsNoRecord DEF WorkerLocals, Heads
  <2>4. SameHead /\ StoreTypes' /\ Pointed'
    BY <1>1, <1>2, <2>1, HeadStays
  <2>5. WorkerKnows'
    BY <1>1, <2>1, <2>3 DEF WorkerKnows, Pending, Confirmed
  <2>6. ASSUME ~drift PROVE WorkerFollows'
    <3>1. Kept /\ Prefix(File.doc, File.doc)
      BY <2>2, <2>6, PrefixFacts DEF MarksInv
    <3>2. head.republish = File \/ head.desired = head.confirmed => ~LateMatters
      BY <1>1, <2>2, <3>1, NoneIsNoRecord DEF Kept, LateFollowsHead
    <3>3. LateMatters' <=> LateMatters
      BY <1>1 DEF LateMatters, File
    <3>. QED
      BY <1>1, <1>4, <2>1, <2>3, <3>1, <3>2, <3>3 DEF WorkerFollows, Kept, FileIsSound, File, Snapshot
  <2>. QED
    BY <1>1, <2>1, <2>2, <2>3, <2>4, <2>5, <2>6, WorkerMoves
<1>. QED
  BY <1>3, <1>4

\* A delivery that is recorded is what Nextcloud holds.
LEMMA RecordKeeps ==
  ASSUME MarksInv, ~drift, NEW b \in Bytes, recordAnnotationDelivery(b), remoteFile # None,
         Snapshot(b) = Snapshot(File), ~LateMatters, UNCHANGED <<remoteFile, late, receipts>>
  PROVE  FileFollowsHead' /\ LateFollowsHead' /\ EditsAreOnce'
<1>1. Basics /\ StoreTypes /\ Pointed /\ Kept /\ File \in Bytes /\ File.doc \in Docs
  BY FileFacts DEF MarksInv, Basics
<1>2. /\ head' # None
      /\ head'.confirmed = nextID /\ head'.flight = 0 /\ head'.republish = None /\ Confirmed' = Snapshot(b)
      /\ \/ accepted' = (IF head = None THEN accepted ELSE {}) /\ head'.desired = nextID /\ Desired' = Snapshot(b)
         \/ /\ accepted' = accepted /\ head # None /\ Desired.audio = b.audio /\ Desired' = Desired
            /\ (head'.desired = nextID /\ Desired.doc = b.doc) \/ head'.desired = head.desired
  BY <1>1, RecordFacts, NoneIsNoRecord
<1>3. /\ Snapshot(b).audio = b.audio /\ Snapshot(b).doc = b.doc /\ b.audio = File.audio /\ b.doc = File.doc
      /\ Snapshot(File) \in SnapshotRows /\ File' = File /\ Prefix(File.doc, File.doc)
  BY <1>1, SnapshotFacts, PrefixFacts DEF File
<1>4. LateFollowsHead'
  BY DEF LateFollowsHead, LateMatters, File
<1>5. CASE accepted' = (IF head = None THEN accepted ELSE {}) /\ head'.desired = nextID /\ Desired' = Snapshot(b)
  <2>1. FileFollowsHead'
    BY <1>2, <1>3, <1>5 DEF FileFollowsHead
  <2>2. EditsAreOnce'
    BY <1>1, <1>2, <1>3, <1>5 DEF EditsAreOnce, Kept, FileIsSound
  <2>. QED
    BY <1>4, <2>1, <2>2
<1>6. CASE /\ accepted' = accepted /\ head # None /\ Desired.audio = b.audio /\ Desired' = Desired
           /\ (head'.desired = nextID /\ Desired.doc = b.doc) \/ head'.desired = head.desired
  <2>1. Desired \in SnapshotRows /\ head.desired # nextID
    BY <1>1, <1>6, PointedFacts
  <2>2. head'.desired = nextID => Snapshot(File) = Desired
    BY <1>3, <1>6, <2>1 DEF SnapshotRows
  <2>3. FileFollowsHead'
    BY <1>1, <1>2, <1>3, <1>6, <2>1, <2>2 DEF FileFollowsHead, Kept
  <2>4. EditsAreOnce'
    BY <1>1, <1>2, <1>6 DEF EditsAreOnce, Kept
  <2>. QED
    BY <1>4, <2>3, <2>4
<1>. QED
  BY <1>2, <1>5, <1>6

\* Facts about the worker at a step of its own.
LEMMA AtWork ==
  ASSUME MarksInv, worker # None, UNCHANGED remote, WorkerOnly
  PROVE  /\ Basics /\ StoreTypes /\ Pointed /\ worker \in WorkerLocals /\ worker.base \in Bytes /\ worker.base.build <= publishes
         /\ worker.etag <= etags /\ lock = "worker" /\ publisher' = None /\ importer' = None
         /\ UNCHANGED <<remoteFile, etags, late, drift, receipts, publishes>>
         /\ (LateMatters' <=> LateMatters) /\ File' = File
         /\ ~drift => Kept
  BY OthersAreIdle, FileFacts DEF MarksInv, Basics, WorkerNumbers, remote, WorkerOnly, LateMatters, File

LEMMA ToFlightFacts ==
  ASSUME worker \in WorkerLocals, NEW d \in Nat, NEW c \in Nat, NEW p \in SnapshotRows,
         worker' = [worker EXCEPT !.pc = "flight", !.flight = 0, !.desired = d, !.confirmed = c, !.previous = p]
  PROVE  /\ worker' \in WorkerLocals /\ worker' # None /\ worker'.pc = "flight" /\ worker'.base = worker.base
         /\ worker'.etag = worker.etag /\ worker'.confirmed = c /\ worker'.flight = 0 /\ worker'.previous = p
<1>1. worker' \in WorkerLocals
  BY DEF WorkerLocals
<1>2. /\ worker'.pc = "flight" /\ worker'.base = worker.base /\ worker'.etag = worker.etag
      /\ worker'.confirmed = c /\ worker'.flight = 0 /\ worker'.previous = p
  BY DEF WorkerLocals
<1>. QED
  BY <1>1, <1>2, NoneIsNoRecord

LEMMA SettleRepublishStep == ASSUME MarksInv, settleRepublish PROVE MarksInv'
<1>1. worker # None /\ worker.pc = "republish" /\ UNCHANGED remote /\ WorkerOnly
  BY DEF settleRepublish, WorkerAt
<1>2. /\ Basics /\ StoreTypes /\ Pointed /\ worker \in WorkerLocals /\ worker.base \in Bytes /\ worker.base.build <= publishes
      /\ worker.etag <= etags /\ lock = "worker" /\ publisher' = None /\ importer' = None
      /\ UNCHANGED <<remoteFile, etags, late, drift, receipts, publishes>>
      /\ (LateMatters' <=> LateMatters) /\ File' = File
      /\ (~drift => Kept)
  BY <1>1, AtWork
<1>3. /\ head # None /\ worker.confirmed = head.confirmed /\ worker.republish = head.republish /\ Pending
      /\ worker.desired = head.desired \/ head.desired # head.confirmed
      /\ worker.flight = head.flight /\ worker.previous = Confirmed
  BY <1>1, <1>2 DEF Basics, WorkerKnows
<1>4. head \in Heads
  BY <1>2, <1>3 DEF StoreTypes
<1>5. CASE WorkerBlocks
  BY <1>1, <1>5, BlockStep
<1>6. CASE worker.republish = None /\ worker' = [worker EXCEPT !.pc = "flight"] /\ UNCHANGED <<store, lock>>
  <2>1. /\ worker' \in WorkerLocals /\ worker' # None /\ worker'.pc = "flight" /\ worker'.base = worker.base /\ worker'.etag = worker.etag
        /\ worker'.confirmed = worker.confirmed /\ worker'.flight = worker.flight /\ worker'.previous = worker.previous
    BY <1>2, <1>6, NoneIsNoRecord DEF WorkerLocals
  <2>2. SameHead /\ StoreTypes' /\ Pointed' /\ UNCHANGED <<head, snapshots, accepted, lock>>
    BY <1>2, <1>6, HeadStays DEF store
  <2>3. head.desired # head.confirmed
    BY <1>3, <1>6 DEF Pending
  <2>4. WorkerKnows'
    BY <1>3, <1>6, <2>1, <2>2, <2>3 DEF WorkerKnows, Confirmed
  <2>5. ~drift => WorkerFollows'
    BY <1>1, <1>2, <2>1 DEF Kept, WorkerFollows
  <2>. QED
    BY <1>2, <2>1, <2>2, <2>4, <2>5, WorkerMoves
<1>7. CASE /\ worker.republish = worker.base /\ recordAnnotationDelivery(worker.base)
           /\ IF head'.desired = head'.confirmed
                THEN WorkerDone
                ELSE /\ worker' = [worker EXCEPT !.pc = "flight", !.flight = 0,
                                     !.desired = head'.desired, !.confirmed = head'.confirmed,
                                     !.previous = Snapshot(worker.base)]
                     /\ UNCHANGED lock
  <2>1. /\ StoreTypes' /\ Pointed' /\ accepted' \subseteq accepted /\ head' \in Heads /\ head' # None
        /\ head'.flight = 0 /\ head'.republish = None /\ Confirmed' = Snapshot(worker.base)
    BY <1>2, <1>7, RecordFacts, NoneIsNoRecord
  <2>2. ~drift => FileFollowsHead' /\ LateFollowsHead' /\ EditsAreOnce'
    BY <1>1, <1>2, <1>7, RecordKeeps DEF Kept, WorkerFollows
  <2>3. CASE head'.desired = head'.confirmed
    <3>. lock' = "free" /\ worker' = None
      BY <1>7, <2>3 DEF WorkerDone
    <3>. WorkerKnows' /\ WorkerFollows'
      BY DEF WorkerKnows, WorkerFollows
    <3>. QED
      BY <1>2, <2>1, <2>2, HeadMoves
  <2>4. CASE head'.desired # head'.confirmed
    <3>1. /\ lock' = "worker"
          /\ worker' = [worker EXCEPT !.pc = "flight", !.flight = 0, !.desired = head'.desired,
                          !.confirmed = head'.confirmed, !.previous = Snapshot(worker.base)]
      BY <1>2, <1>7, <2>4
    <3>2. Snapshot(worker.base) \in SnapshotRows /\ head'.desired \in Nat /\ head'.confirmed \in Nat
      BY <1>2, <2>1, SnapshotFacts DEF Heads
    <3>3. /\ worker' \in WorkerLocals /\ worker' # None /\ worker'.pc = "flight" /\ worker'.base = worker.base /\ worker'.etag = worker.etag
          /\ worker'.confirmed = head'.confirmed /\ worker'.flight = 0 /\ worker'.previous = Snapshot(worker.base)
      BY <1>2, <3>1, <3>2, ToFlightFacts
    <3>4. WorkerKnows'
      BY <2>1, <2>4, <3>3 DEF WorkerKnows
    <3>5. ~drift => WorkerFollows'
      BY <1>1, <1>2, <3>3 DEF Kept, WorkerFollows
    <3>. QED
      BY <1>2, <2>1, <2>2, <3>1, <3>3, <3>4, <3>5, HeadMoves
  <2>. QED
    BY <2>3, <2>4
<1>8. CASE /\ Snapshot(worker.base) = worker.previous /\ head' = [head EXCEPT !.republish = None]
           /\ IF worker.desired = worker.confirmed
                THEN WorkerDone
                ELSE worker' = [worker EXCEPT !.pc = "flight"] /\ UNCHANGED lock
           /\ UNCHANGED <<snapshots, nextID, accepted>>
  <2>1. /\ head' \in Heads /\ head' # None /\ head'.desired = head.desired /\ head'.confirmed = head.confirmed
        /\ head'.flight = head.flight /\ head'.republish = None
    BY <1>4, <1>8, NoneIsNoRecord DEF Heads, MaybeBytes
  <2>2. StoreTypes' /\ Pointed' /\ Desired' = Desired /\ Confirmed' = Confirmed /\ Flight' = Flight
    BY <1>2, <1>3, <1>8, <2>1, SameRowsFacts
  <2>3. ASSUME ~drift PROVE FileFollowsHead' /\ LateFollowsHead' /\ EditsAreOnce'
    <3>1. Kept /\ Snapshot(worker.base) = Confirmed /\ worker.base.audio = File.audio
      BY <1>1, <1>2, <1>3, <1>8, <2>3 DEF Kept, WorkerFollows
    <3>2. Confirmed.audio = File.audio
      BY <1>2, <3>1, SnapshotFacts
    <3>3. head.desired = head.confirmed => Snapshot(File) = Desired
      BY <1>1, <3>1 DEF Kept, WorkerFollows, Desired, Confirmed
    <3>4. FileFollowsHead'
      BY <1>2, <1>3, <2>1, <2>2, <3>1, <3>2, <3>3 DEF Kept, FileFollowsHead
    <3>5. LateFollowsHead'
      BY <1>2, <1>3, <2>1, <2>2, <3>1 DEF Kept, LateFollowsHead
    <3>6. EditsAreOnce'
      BY <1>2, <1>3, <1>8, <2>1, <2>2, <3>1 DEF Kept, EditsAreOnce
    <3>. QED
      BY <3>4, <3>5, <3>6
  <2>4. CASE worker.desired = worker.confirmed
    <3>. lock' = "free" /\ worker' = None
      BY <1>8, <2>4 DEF WorkerDone
    <3>. WorkerKnows' /\ WorkerFollows'
      BY DEF WorkerKnows, WorkerFollows
    <3>. QED
      BY <1>2, <1>8, <2>2, <2>3, HeadMoves
  <2>5. CASE worker.desired # worker.confirmed
    <3>1. worker' = [worker EXCEPT !.pc = "flight"] /\ lock' = "worker"
      BY <1>2, <1>8, <2>5
    <3>2. /\ worker' \in WorkerLocals /\ worker' # None /\ worker'.pc = "flight" /\ worker'.base = worker.base /\ worker'.etag = worker.etag
          /\ worker'.confirmed = worker.confirmed /\ worker'.flight = worker.flight /\ worker'.previous = worker.previous
      BY <1>2, <3>1, NoneIsNoRecord DEF WorkerLocals
    <3>3. WorkerKnows'
      BY <1>3, <2>1, <2>2, <2>5, <3>2 DEF WorkerKnows
    <3>4. ~drift => WorkerFollows'
      BY <1>1, <1>2, <3>2 DEF Kept, WorkerFollows
    <3>. QED
      BY <1>2, <1>8, <2>2, <2>3, <3>1, <3>2, <3>3, <3>4, HeadMoves
  <2>. QED
    BY <2>4, <2>5
<1>. QED
  BY <1>5, <1>6, <1>7, <1>8 DEF settleRepublish

\* A lost answer is settled by the document in flight: what is confirmed is what Nextcloud holds.
LEMMA SettleFlightStep == ASSUME MarksInv, settleFlight PROVE MarksInv'
<1>1. worker # None /\ worker.pc = "flight" /\ UNCHANGED remote /\ WorkerOnly
  BY DEF settleFlight, WorkerAt
<1>2. /\ Basics /\ StoreTypes /\ Pointed /\ worker \in WorkerLocals /\ worker.base \in Bytes /\ worker.base.build <= publishes
      /\ worker.etag <= etags /\ lock = "worker" /\ publisher' = None /\ importer' = None
      /\ UNCHANGED <<remoteFile, etags, late, drift, receipts, publishes>>
      /\ (LateMatters' <=> LateMatters) /\ File' = File
      /\ (~drift => Kept)
  BY <1>1, AtWork
<1>3. /\ head # None /\ worker.confirmed = head.confirmed /\ head.republish = None /\ head.desired # head.confirmed
      /\ worker.flight = head.flight /\ worker.previous = Confirmed
  BY <1>1, <1>2 DEF Basics, WorkerKnows
<1>4. head \in Heads /\ head.flight \in Nat
  BY <1>2, <1>3 DEF StoreTypes, Heads
<1>5. CASE WorkerBlocks
  BY <1>1, <1>5, BlockStep
<1>6. CASE worker' = [worker EXCEPT !.pc = "render"] /\ UNCHANGED <<store, lock>>
  <2>1. /\ worker' \in WorkerLocals /\ worker' # None /\ worker'.pc = "render" /\ worker'.base = worker.base
        /\ worker'.etag = worker.etag /\ worker'.confirmed = worker.confirmed
    BY <1>2, <1>6, NoneIsNoRecord DEF WorkerLocals
  <2>2. SameHead /\ StoreTypes' /\ Pointed' /\ UNCHANGED <<head, snapshots, accepted, lock>>
    BY <1>2, <1>6, HeadStays DEF store
  <2>3. WorkerKnows'
    BY <1>3, <2>1, <2>2 DEF WorkerKnows
  <2>4. ~drift => WorkerFollows'
    BY <1>1, <1>2, <2>1 DEF Kept, WorkerFollows
  <2>. QED
    BY <1>2, <2>1, <2>2, <2>3, <2>4, WorkerMoves
<1>7. CASE /\ worker.flight # 0 /\ sameAnnotationDocument(worker.base, Flight)
           /\ head' = [head EXCEPT !.confirmed = head.flight, !.flight = 0, !.blocked = FALSE]
           /\ worker' = [worker EXCEPT !.pc = "render", !.confirmed = head.flight]
           /\ UNCHANGED <<lock, snapshots, nextID, accepted>>
  <2>1. /\ head' \in Heads /\ head' # None /\ head'.desired = head.desired /\ head'.confirmed = head.flight
        /\ head'.flight = 0 /\ head'.republish = None
    <3>1. head' = [head EXCEPT !.confirmed = head.flight, !.flight = 0, !.blocked = FALSE]
      BY <1>7
    <3>2. head' \in Heads
      BY <1>4, <3>1 DEF Heads
    <3>3. head'.desired = head.desired /\ head'.confirmed = head.flight /\ head'.flight = 0
      BY <1>4, <3>1 DEF Heads
    <3>4. head'.republish = head.republish
      BY <1>4, <3>1 DEF Heads
    <3>. QED
      BY <1>3, <3>2, <3>3, <3>4, NoneIsNoRecord
  <2>2. /\ worker' \in WorkerLocals /\ worker' # None /\ worker'.pc = "render" /\ worker'.base = worker.base
        /\ worker'.etag = worker.etag /\ worker'.confirmed = head.flight
    BY <1>2, <1>4, <1>7, NoneIsNoRecord DEF WorkerLocals
  <2>3. StoreTypes' /\ Pointed' /\ Desired' = Desired /\ Confirmed' = Flight
    BY <1>2, <1>3, <1>7, <2>1, SameRowsFacts
  <2>4. WorkerKnows'
    BY <2>1, <2>2 DEF WorkerKnows
  <2>5. ASSUME ~drift PROVE FileFollowsHead' /\ LateFollowsHead' /\ EditsAreOnce'
    <3>1. Kept /\ worker.base.doc = Flight.doc /\ remoteFile # None /\ head.flight # 0
      BY <1>2, <1>1, <1>3, <1>7, <2>5 DEF Kept, WorkerFollows, sameAnnotationDocument
    <3>2. File \in Bytes /\ File.doc \in Docs /\ Flight.doc \in Docs /\ Flight \in SnapshotRows
      BY <1>2, <1>3, <3>1, FileFacts, PointedFacts
    <3>3. Prefix(Flight.doc, File.doc) /\ Prefix(File.doc, Flight.doc)
      BY <1>1, <1>3, <3>1 DEF Kept, WorkerFollows, FileFollowsHead
    <3>4. File.doc = Flight.doc
      BY <3>2, <3>3, PrefixFacts
    <3>5. ~LateMatters
      <4>1. ASSUME LateMatters PROVE FALSE
        <5>1. late # None /\ late.bytes.doc # File.doc
              /\ Prefix(File.doc, late.bytes.doc) /\ Prefix(late.bytes.doc, File.doc)
          BY <3>1, <3>4, <4>1 DEF Kept, LateFollowsHead, LateMatters
        <5>2. late.bytes.doc \in Docs
          BY <1>2, <5>1, FileFacts
        <5>. QED
          BY <3>2, <5>1, <5>2, PrefixFacts
      <4>. QED
        BY <4>1
    <3>6. File.audio = Flight.audio /\ Flight.audio = Confirmed.audio /\ Desired.audio = Confirmed.audio
      BY <1>3, <3>1 DEF Kept, FileFollowsHead
    <3>7. Snapshot(File) = Flight
      BY <3>2, <3>4, <3>6, SnapshotFacts DEF SnapshotRows
    <3>8. head.desired = head.flight => Desired = Flight
      BY DEF Desired, Flight
    <3>9. FileFollowsHead'
      BY <1>2, <1>3, <2>1, <2>3, <3>1, <3>6, <3>7, <3>8 DEF Kept, FileFollowsHead
    <3>10. LateFollowsHead'
      BY <1>2, <3>5 DEF LateFollowsHead
    <3>11. EditsAreOnce'
      BY <1>2, <1>3, <1>7, <2>1, <2>3, <3>1 DEF Kept, EditsAreOnce
    <3>. QED
      BY <3>9, <3>10, <3>11
  <2>6. ~drift => WorkerFollows'
    BY <1>1, <1>2, <2>2 DEF Kept, WorkerFollows
  <2>. QED
    BY <1>2, <1>7, <2>2, <2>3, <2>4, <2>5, <2>6, HeadMoves
<1>. QED
  BY <1>3, <1>5, <1>6, <1>7 DEF settleFlight, confirmAnnotation, Flight

\* The desired document gets the audio that was read; nobody outside wrote the file, and it has it.
LEMMA RefreshAudioStep == ASSUME MarksInv, refreshDesiredAudio PROVE MarksInv'
<1>. DEFINE s == [audio |-> worker.base.audio, doc |-> Desired.doc]
<1>1. worker # None /\ worker.pc = "render" /\ UNCHANGED remote /\ WorkerOnly /\ accepted' = accepted
  BY DEF refreshDesiredAudio, WorkerAt
<1>2. /\ Basics /\ StoreTypes /\ Pointed /\ worker \in WorkerLocals /\ worker.base \in Bytes /\ worker.base.build <= publishes
      /\ worker.etag <= etags /\ lock = "worker" /\ publisher' = None /\ importer' = None
      /\ UNCHANGED <<remoteFile, etags, late, drift, receipts, publishes>>
      /\ (LateMatters' <=> LateMatters) /\ File' = File
      /\ (~drift => Kept)
  BY <1>1, AtWork
<1>3. head # None => worker.confirmed = head.confirmed /\ head.republish = None
  BY <1>1, <1>2 DEF Basics, WorkerKnows
<1>4. CASE head = None
  <2>1. UNCHANGED <<head, snapshots, nextID>> /\ lock' = "free" /\ worker' = None
    BY <1>4 DEF refreshDesiredAudio, WorkerDone
  <2>2. SameHead /\ StoreTypes' /\ Pointed'
    BY <1>2, <2>1, HeadStays
  <2>. QED
    BY <1>1, <1>2, <2>1, <2>2, LetGo
<1>5. CASE head # None
  <2>1. worker' = [worker EXCEPT !.pc = "select"] /\ lock' = "worker" /\ refreshAnnotationAudio(worker.base)
    BY <1>2, <1>5 DEF refreshDesiredAudio
  <2>2. /\ worker' \in WorkerLocals /\ worker' # None /\ worker'.pc = "select" /\ worker'.base = worker.base
        /\ worker'.etag = worker.etag /\ worker'.confirmed = worker.confirmed
    BY <1>2, <2>1, NoneIsNoRecord DEF WorkerLocals
  <2>3. head \in Heads /\ Desired \in SnapshotRows
    BY <1>2, <1>5, PointedFacts
  <2>4. ~drift => WorkerFollows'
    BY <1>1, <1>2, <2>2 DEF Kept, WorkerFollows
  <2>5. CASE Desired.audio = worker.base.audio
    <3>1. UNCHANGED <<head, snapshots, nextID>>
      BY <2>1, <2>5 DEF refreshAnnotationAudio, Desired
    <3>2. SameHead /\ StoreTypes' /\ Pointed' /\ Desired' = Desired
      BY <1>2, <3>1, HeadStays DEF Desired
    <3>3. WorkerKnows'
      BY <1>3, <1>5, <2>2, <2>5, <3>1, <3>2 DEF WorkerKnows
    <3>. QED
      BY <1>1, <1>2, <2>1, <2>2, <2>4, <3>2, <3>3, WorkerMoves
  <2>6. CASE Desired.audio # worker.base.audio
    <3>1. Insert(s) /\ head' = [head EXCEPT !.desired = nextID, !.flight = head.flight]
      BY <2>1, <2>3, <2>6 DEF refreshAnnotationAudio, Desired, Heads
    <3>2. s \in SnapshotRows /\ s.audio = worker.base.audio
      BY <1>2, <2>3 DEF SnapshotRows, Bytes
    <3>. HIDE DEF s
    <3>3. /\ StoreTypes' /\ Pointed' /\ head' # None /\ head'.confirmed = head.confirmed
          /\ head'.republish = head.republish /\ Desired' = s
      BY <1>2, <1>5, <3>1, <3>2, NewDesiredFacts, NoneIsNoRecord
    <3>4. WorkerKnows'
      BY <1>3, <1>5, <2>2, <3>2, <3>3 DEF WorkerKnows
    <3>5. drift
      BY <1>1, <1>2, <1>3, <1>5, <2>6 DEF Kept, FileFollowsHead, WorkerFollows
    <3>. QED
      BY <1>1, <1>2, <2>1, <2>2, <3>3, <3>4, <3>5, HeadMoves
  <2>. QED
    BY <2>5, <2>6
<1>. QED
  BY <1>4, <1>5

\* The document that is rendered is the desired one, on the audio that was read.
LEMMA SelectFacts ==
  ASSUME worker \in WorkerLocals, NEW id \in Nat, NEW doc \in Docs,
         worker' = [worker EXCEPT !.pc = "claim", !.desired = id, !.base.doc = doc]
  PROVE  /\ worker' \in WorkerLocals /\ worker' # None /\ worker'.pc = "claim" /\ worker'.desired = id
         /\ worker'.etag = worker.etag /\ worker'.confirmed = worker.confirmed
         /\ worker'.base.audio = worker.base.audio /\ worker'.base.doc = doc /\ worker'.base.ok = worker.base.ok
         /\ worker'.base.build = worker.base.build
         /\ Snapshot(worker'.base) = [audio |-> worker.base.audio, doc |-> doc]
<1>. DEFINE b == [worker.base EXCEPT !.doc = doc]
<1>1. worker.base \in Bytes
  BY DEF WorkerLocals
<1>2. b \in Bytes /\ b.audio = worker.base.audio /\ b.doc = doc /\ b.ok = worker.base.ok /\ b.build = worker.base.build
  BY <1>1 DEF Bytes
<1>3. worker' = [worker EXCEPT !.pc = "claim", !.desired = id, !.base = b]
  BY DEF WorkerLocals
<1>. HIDE DEF b
<1>4. worker' \in WorkerLocals
  BY <1>2, <1>3 DEF WorkerLocals
<1>5. worker'.pc = "claim" /\ worker'.desired = id /\ worker'.base = b /\ worker'.etag = worker.etag
      /\ worker'.confirmed = worker.confirmed
  BY <1>3 DEF WorkerLocals
<1>. QED
  BY <1>2, <1>4, <1>5, NoneIsNoRecord DEF Snapshot

LEMMA SelectStep == ASSUME MarksInv, selectDesired PROVE MarksInv'
<1>1. /\ worker # None /\ worker.pc = "select" /\ UNCHANGED remote /\ WorkerOnly
      /\ UNCHANGED <<head, snapshots, nextID, accepted>>
  BY DEF selectDesired, WorkerAt, store
<1>2. /\ Basics /\ StoreTypes /\ Pointed /\ worker \in WorkerLocals /\ worker.base \in Bytes /\ worker.base.build <= publishes
      /\ worker.etag <= etags /\ lock = "worker" /\ publisher' = None /\ importer' = None
      /\ UNCHANGED <<remoteFile, etags, late, drift, receipts, publishes>>
      /\ (LateMatters' <=> LateMatters) /\ File' = File
      /\ (~drift => Kept)
  BY <1>1, AtWork
<1>3. head # None => worker.confirmed = head.confirmed /\ head.republish = None /\ Desired.audio = worker.base.audio
  BY <1>1, <1>2 DEF Basics, WorkerKnows
<1>4. SameHead /\ StoreTypes' /\ Pointed' /\ Desired' = Desired /\ Flight' = Flight
  BY <1>1, <1>2, HeadStays DEF Desired, Flight
<1>5. CASE WorkerDone
  BY <1>1, <1>2, <1>4, <1>5, LetGo DEF WorkerDone
<1>6. CASE /\ head # None /\ head.desired # worker.confirmed /\ lock' = lock
           /\ worker' = [worker EXCEPT !.pc = "claim", !.desired = head.desired, !.base.doc = Desired.doc]
  <2>1. /\ head \in Heads /\ Desired \in SnapshotRows /\ Desired.doc \in Docs /\ head.desired \in DOMAIN snapshots
        /\ head.desired \in Nat /\ head.desired \in 1..(nextID - 1)
    BY <1>2, <1>6, PointedFacts DEF StoreTypes, SnapshotRows, Heads
  <2>2. /\ worker' \in WorkerLocals /\ worker' # None /\ worker'.pc = "claim" /\ worker'.desired = head.desired
        /\ worker'.etag = worker.etag /\ worker'.confirmed = worker.confirmed
        /\ worker'.base.audio = worker.base.audio /\ worker'.base.doc = Desired.doc /\ worker'.base.ok = worker.base.ok
        /\ worker'.base.build = worker.base.build
        /\ Snapshot(worker'.base) = [audio |-> worker.base.audio, doc |-> Desired.doc]
    BY <1>2, <1>6, <2>1, SelectFacts
  <2>3. Snapshot(worker'.base) = Desired
    BY <1>3, <1>6, <2>1, <2>2 DEF SnapshotRows
  <2>4. WorkerKnows'
    <3>1. Snapshot(worker.base)' = Snapshot(worker'.base)
      BY DEF Snapshot
    <3>. QED
      BY <1>1, <1>3, <1>6, <2>1, <2>2, <2>3, <3>1 DEF WorkerKnows, Desired
  <2>5. ASSUME ~drift PROVE WorkerFollows'
    <3>1. Kept /\ Prefix(Desired.doc, Desired.doc)
      BY <1>2, <2>1, <2>5, PrefixFacts
    <3>. QED
      BY <1>1, <1>2, <1>4, <1>6, <2>2, <3>1 DEF Kept, WorkerFollows, FileFollowsHead
  <2>. QED
    BY <1>1, <1>2, <1>4, <1>6, <2>2, <2>4, <2>5, WorkerMoves
<1>. QED
  BY <1>5, <1>6 DEF selectDesired, Desired

\* What is put in flight is what was rendered: edits made since only grow the desired document.
LEMMA MarkInFlightStep == ASSUME MarksInv, markInFlight PROVE MarksInv'
<1>1. worker # None /\ worker.pc = "claim" /\ UNCHANGED remote /\ WorkerOnly
  BY DEF markInFlight, WorkerAt
<1>2. /\ Basics /\ StoreTypes /\ Pointed /\ worker \in WorkerLocals /\ worker.base \in Bytes /\ worker.base.build <= publishes
      /\ worker.etag <= etags /\ lock = "worker" /\ publisher' = None /\ importer' = None
      /\ UNCHANGED <<remoteFile, etags, late, drift, receipts, publishes>>
      /\ (LateMatters' <=> LateMatters) /\ File' = File
      /\ (~drift => Kept)
  BY <1>1, AtWork
<1>3. /\ head # None /\ worker.confirmed = head.confirmed /\ head.republish = None /\ head.desired # head.confirmed
      /\ worker.desired \in 1..(nextID - 1)
      /\ worker.desired \in DOMAIN snapshots => snapshots[worker.desired] = Snapshot(worker.base)
  BY <1>1, <1>2 DEF Basics, WorkerKnows
<1>4. CASE WorkerBlocks
  BY <1>1, <1>4, BlockStep
<1>5. CASE WorkerDone /\ UNCHANGED store
  <2>1. SameHead /\ StoreTypes' /\ Pointed' /\ accepted' = accepted
    BY <1>2, <1>5, HeadStays DEF store
  <2>. QED
    BY <1>2, <1>5, <2>1, LetGo DEF WorkerDone
<1>6. CASE /\ worker.desired \in DOMAIN snapshots /\ head' = [head EXCEPT !.flight = worker.desired]
           /\ worker' = [worker EXCEPT !.pc = "put"] /\ UNCHANGED <<lock, snapshots, nextID, accepted>>
  <2>1. /\ head \in Heads /\ worker.desired \in Nat /\ worker.desired # 0 /\ Desired.doc \in Docs
        /\ worker.base.doc \in Docs
    BY <1>1, <1>2, <1>3, PointedFacts, FileFacts DEF StoreTypes
  <2>2. /\ head' \in Heads /\ head' # None /\ head'.desired = head.desired /\ head'.confirmed = head.confirmed
        /\ head'.flight = worker.desired /\ head'.republish = head.republish
    BY <1>6, <2>1, NoneIsNoRecord DEF Heads
  <2>3. /\ worker' \in WorkerLocals /\ worker' # None /\ worker'.pc = "put" /\ worker'.base = worker.base
        /\ worker'.etag = worker.etag /\ worker'.confirmed = worker.confirmed /\ worker'.desired = worker.desired
    BY <1>2, <1>6, NoneIsNoRecord DEF WorkerLocals
  <2>4. /\ StoreTypes' /\ Pointed' /\ Desired' = Desired /\ Confirmed' = Confirmed /\ Flight' = Snapshot(worker.base)
    BY <1>2, <1>3, <1>6, <2>2, PointedFacts DEF StoreTypes, Pointed, Desired, Confirmed, Flight
  <2>5. WorkerKnows'
    <3>1. Snapshot(worker.base)' = Snapshot(worker.base)
      BY <2>3 DEF Snapshot
    <3>. QED
      BY <1>3, <2>1, <2>2, <2>3, <2>4, <3>1 DEF WorkerKnows
  <2>6. ASSUME ~drift PROVE FileFollowsHead' /\ LateFollowsHead' /\ WorkerFollows' /\ EditsAreOnce'
    <3>1. /\ Kept /\ remoteFile # None /\ worker.base.audio = File.audio
          /\ Prefix(File.doc, worker.base.doc) /\ Prefix(worker.base.doc, Desired.doc)
          /\ Snapshot(worker.base).audio = worker.base.audio /\ Snapshot(worker.base).doc = worker.base.doc
      BY <1>1, <1>2, <2>6, SnapshotFacts DEF Kept, WorkerFollows
    <3>2. FileFollowsHead'
      BY <1>2, <1>3, <2>2, <2>4, <3>1 DEF Kept, FileFollowsHead
    <3>3. ASSUME LateMatters PROVE Prefix(late.bytes.doc, worker.base.doc)
      <4>1. late # None /\ head.flight # 0 /\ Prefix(late.bytes.doc, Flight.doc) /\ Prefix(Flight.doc, worker.base.doc)
        BY <1>1, <3>1, <3>3 DEF Kept, LateFollowsHead, WorkerFollows, LateMatters
      <4>2. late.bytes.doc \in Docs /\ Flight.doc \in Docs
        BY <1>2, <1>3, <4>1, FileFacts
      <4>. QED
        BY <2>1, <4>1, <4>2, PrefixFacts
    <3>4. LateFollowsHead'
      BY <1>2, <1>3, <2>1, <2>2, <2>4, <3>1, <3>3 DEF Kept, LateFollowsHead
    <3>5. WorkerFollows'
      BY <1>1, <1>2, <2>3, <3>1 DEF Kept, WorkerFollows
    <3>6. EditsAreOnce'
      BY <1>2, <1>3, <1>6, <2>2, <2>4, <3>1 DEF Kept, EditsAreOnce
    <3>. QED
      BY <3>2, <3>4, <3>5, <3>6
  <2>. QED
    BY <1>2, <1>6, <2>3, <2>4, <2>5, <2>6, HeadMoves
<1>. QED
  BY <1>4, <1>5, <1>6 DEF markInFlight

\* What is known when the document in flight is uploaded, and when it is read back.
LEMMA InFlight ==
  ASSUME MarksInv, worker # None, worker.pc \in {"put", "verify"}
  PROVE  /\ head # None /\ head \in Heads /\ head.desired # head.confirmed /\ head.flight # 0 /\ head.republish = None
         /\ worker.desired = head.flight /\ Flight = Snapshot(worker.base) /\ Flight \in SnapshotRows
         /\ worker.base \in Bytes /\ worker.base.doc \in Docs /\ worker.base.doc = Flight.doc /\ worker.base.audio = Flight.audio
<1>1. Basics /\ StoreTypes /\ Pointed
  BY DEF MarksInv, Basics
<1>2. /\ head # None /\ head.desired # head.confirmed /\ head.flight # 0 /\ head.republish = None
      /\ worker.desired = head.flight /\ Flight = Snapshot(worker.base)
  BY <1>1 DEF Basics, WorkerKnows
<1>3. worker.base \in Bytes /\ worker.base.doc \in Docs
  BY <1>1, FileFacts
<1>. QED
  BY <1>1, <1>2, <1>3, PointedFacts, SnapshotFacts

\* The upload lands, gets lost or stays on its way.
LEMMA PutStep == ASSUME MarksInv, putAnnotation PROVE MarksInv'
<1>1. /\ worker # None /\ worker.pc = "put"
      /\ UNCHANGED <<head, snapshots, nextID, accepted, receipts, publisher, importer, publishes>>
  BY DEF putAnnotation, WorkerAt, WorkerOnly, store
<1>2. /\ Basics /\ StoreTypes /\ Pointed /\ worker \in WorkerLocals /\ worker.base \in Bytes /\ worker.base.build <= publishes
      /\ worker.etag <= etags /\ worker.etag \in Nat /\ lock = "worker" /\ publisher' = None /\ importer' = None
      /\ etags \in Nat /\ publishes \in Nat
  BY <1>1, OthersAreIdle, FileFacts DEF MarksInv, Basics, WorkerNumbers, WorkerLocals
<1>3. /\ head # None /\ head \in Heads /\ head.desired # head.confirmed /\ head.flight # 0 /\ head.republish = None
      /\ worker.desired = head.flight /\ Flight = Snapshot(worker.base) /\ Flight \in SnapshotRows
      /\ worker.base.doc \in Docs /\ worker.base.doc = Flight.doc /\ worker.base.audio = Flight.audio
  BY <1>1, InFlight
<1>4. SameHead /\ StoreTypes' /\ Pointed' /\ Desired' = Desired /\ Confirmed' = Confirmed /\ Flight' = Flight
  BY <1>1, <1>2, HeadStays DEF Desired, Confirmed, Flight
<1>5. ASSUME ~drift
      PROVE  /\ Kept /\ remoteFile # None /\ worker.base.ok /\ worker.base.audio = File.audio
             /\ Prefix(worker.base.doc, Desired.doc) /\ Prefix(worker.base.doc, worker.base.doc)
             /\ Prefix(File.doc, worker.base.doc) /\ Desired.doc \in Docs /\ Within(worker.base.doc, receipts)
  <2>1. Kept /\ Desired.doc \in Docs
    BY <1>2, <1>3, <1>5, FileFacts DEF MarksInv
  <2>2. /\ remoteFile # None /\ worker.base.ok /\ worker.base.audio = File.audio
        /\ Prefix(worker.base.doc, Desired.doc) /\ Prefix(File.doc, worker.base.doc) /\ Within(Desired.doc, receipts)
    BY <1>1, <1>3, <2>1 DEF Kept, WorkerFollows, FileFollowsHead, EditsAreOnce
  <2>. QED
    BY <1>3, <2>1, <2>2, PrefixFacts
<1>6. ASSUME WorkerDone \/ (worker' = [worker EXCEPT !.pc = "verify"] /\ lock' = lock)
      PROVE  /\ OneAtATime' /\ LocalTypes' /\ EditTypes' /\ WorkerKnows' /\ ReplacementIsRecorded' /\ PublisherNumbers'
             /\ worker' # None => worker'.pc = "verify" /\ worker'.base = worker.base /\ worker'.etag = worker.etag
  <2>1. CASE WorkerDone
    <3>. lock' = "free" /\ worker' = None
      BY <2>1 DEF WorkerDone
    <3>. QED
      BY <1>1, <1>2 DEF Basics, OneAtATime, LocalTypes, EditTypes, WorkerKnows, ReplacementIsRecorded, PublisherNumbers, MaybeBytes
  <2>2. CASE worker' = [worker EXCEPT !.pc = "verify"] /\ lock' = lock
    <3>1. /\ worker' \in WorkerLocals /\ worker' # None /\ worker'.pc = "verify" /\ worker'.base = worker.base
          /\ worker'.etag = worker.etag /\ worker'.confirmed = worker.confirmed /\ worker'.desired = worker.desired
      BY <1>2, <2>2, NoneIsNoRecord DEF WorkerLocals
    <3>2. WorkerKnows'
      BY <1>1, <1>2, <1>3, <1>4, <3>1 DEF Basics, WorkerKnows
    <3>. QED
      BY <1>1, <1>2, <2>2, <3>1, <3>2 DEF Basics, OneAtATime, LocalTypes, EditTypes, ReplacementIsRecorded, PublisherNumbers, MaybeBytes
  <2>. QED
    BY <1>6, <2>1, <2>2
<1>7. CASE WorkerDone /\ UNCHANGED remote
  BY <1>1, <1>2, <1>4, <1>7, LetGo DEF WorkerDone, remote
<1>8. CASE Uploaded(worker.etag, worker.base) /\ (WorkerDone \/ (worker' = [worker EXCEPT !.pc = "verify"] /\ lock' = lock))
  <2>1. /\ remoteFile' = [etag |-> etags + 1, bytes |-> worker.base] /\ etags' = etags + 1 /\ late' = late /\ drift' = drift
    BY <1>8 DEF Uploaded, Stored
  <2>2. remoteFile' \in Leaves /\ remoteFile' # None /\ File' = worker.base /\ remoteFile'.etag = etags + 1
    BY <1>2, <2>1, NoneIsNoRecord DEF Leaves, File
  <2>3. FileTypes' /\ FileNumbers' /\ WorkerNumbers'
    BY <1>1, <1>2, <1>6, <1>8, <2>1, <2>2, FileFacts DEF Basics, FileTypes, FileNumbers, WorkerNumbers, File
  <2>4. ~LateMatters'
    BY <1>2, <2>1, <2>2, FileFacts DEF LateMatters, Basics, FileNumbers
  <2>5. ASSUME ~drift PROVE Kept'
    <3>1. FileIsSound'
      BY <1>1, <1>5, <2>1, <2>2, <2>5 DEF Kept, FileIsSound
    <3>2. FileFollowsHead' /\ LateFollowsHead'
      BY <1>1, <1>3, <1>4, <1>5, <2>2, <2>4, <2>5 DEF Kept, FileFollowsHead, LateFollowsHead
    <3>3. WorkerFollows'
      BY <1>5, <1>6, <1>8, <2>2, <2>4, <2>5 DEF WorkerFollows
    <3>4. PublisherFollows' /\ ImporterFollows'
      BY <1>2 DEF PublisherFollows, ImporterFollows
    <3>5. EditsAreOnce'
      BY <1>1, <1>3, <1>4, <1>5, <2>5, NoneIsNoRecord DEF Kept, EditsAreOnce, SameHead
    <3>. QED
      BY <3>1, <3>2, <3>3, <3>4, <3>5 DEF Kept
  <2>. QED
    BY <1>4, <1>6, <1>8, <2>1, <2>3, <2>5 DEF MarksInv, Basics
<1>9. CASE Delayed(worker.etag, worker.base) /\ WorkerDone
  <2>1. /\ late' = [ifMatch |-> worker.etag, bytes |-> worker.base] /\ UNCHANGED <<remoteFile, etags, drift>> /\ worker' = None
    BY <1>9 DEF Delayed, WorkerDone
  <2>2. late' \in Uploads /\ late' # None /\ late'.ifMatch = worker.etag /\ late'.bytes = worker.base
    BY <1>2, <2>1, NoneIsNoRecord DEF Uploads
  <2>3. FileTypes' /\ FileNumbers' /\ WorkerNumbers'
    BY <1>1, <1>2, <2>1, <2>2 DEF Basics, FileTypes, FileNumbers, WorkerNumbers
  <2>4. ASSUME ~drift PROVE Kept'
    <3>1. FileIsSound'
      BY <1>1, <1>5, <2>1, <2>2, <2>4 DEF Kept, FileIsSound, File
    <3>2. FileFollowsHead'
      BY <1>1, <1>4, <1>5, <2>1, <2>4 DEF Kept, FileFollowsHead, File, Snapshot
    <3>3. LateFollowsHead'
      BY <1>1, <1>3, <1>4, <1>5, <2>1, <2>2, <2>4 DEF LateFollowsHead, File
    <3>4. WorkerFollows' /\ PublisherFollows' /\ ImporterFollows'
      BY <1>2, <2>1 DEF WorkerFollows, PublisherFollows, ImporterFollows
    <3>5. EditsAreOnce'
      BY <1>1, <1>3, <1>4, <1>5, <2>4, NoneIsNoRecord DEF Kept, EditsAreOnce, SameHead
    <3>. QED
      BY <3>1, <3>2, <3>3, <3>4, <3>5 DEF Kept
  <2>. QED
    BY <1>4, <1>6, <1>9, <2>1, <2>3, <2>4 DEF MarksInv, Basics
<1>. QED
  BY <1>7, <1>8, <1>9 DEF putAnnotation

\* What was read back is confirmed.
LEMMA VerifyStep == ASSUME MarksInv, verifyAnnotation PROVE MarksInv'
<1>1. worker # None /\ worker.pc = "verify" /\ UNCHANGED remote /\ WorkerOnly
  BY DEF verifyAnnotation, WorkerAt
<1>2. /\ Basics /\ StoreTypes /\ Pointed /\ publisher' = None /\ importer' = None
      /\ UNCHANGED <<remoteFile, etags, late, drift, receipts, publishes>>
      /\ (LateMatters' <=> LateMatters) /\ File' = File
      /\ (~drift => Kept)
  BY <1>1, AtWork
<1>3. /\ head # None /\ head \in Heads /\ head.desired # head.confirmed /\ head.flight # 0 /\ head.republish = None
      /\ worker.desired = head.flight /\ Flight = Snapshot(worker.base)
  BY <1>1, InFlight
<1>4. CASE WorkerBlocks
  BY <1>1, <1>4, BlockStep
<1>5. CASE WorkerDone /\ UNCHANGED store
  <2>1. SameHead /\ StoreTypes' /\ Pointed' /\ accepted' = accepted
    BY <1>2, <1>5, HeadStays DEF store
  <2>. QED
    BY <1>2, <1>5, <2>1, LetGo DEF WorkerDone
<1>6. CASE /\ remoteFile # None /\ remoteFile.bytes = worker.base
           /\ head' = [head EXCEPT !.confirmed = worker.desired, !.flight = 0, !.blocked = FALSE]
           /\ WorkerDone /\ UNCHANGED <<snapshots, nextID, accepted>>
  <2>1. head' = [head EXCEPT !.confirmed = head.flight, !.flight = 0, !.blocked = FALSE]
        /\ lock' = "free" /\ worker' = None /\ UNCHANGED <<snapshots, nextID, accepted>> /\ Snapshot(File) = Flight
        /\ remoteFile # None
    BY <1>3, <1>6 DEF WorkerDone, File
  <2>2. head' \in Heads
    BY <1>3, <2>1 DEF Heads
  <2>3. head'.desired = head.desired /\ head'.confirmed = head.flight /\ head'.flight = 0
    BY <1>3, <2>1 DEF Heads
  <2>4. head'.republish = head.republish
    BY <1>3, <2>1 DEF Heads
  <2>5. StoreTypes' /\ Pointed' /\ Desired' = Desired /\ Confirmed' = Flight /\ head' # None
    BY <1>2, <1>3, <2>1, <2>2, <2>3, SameRowsFacts, NoneIsNoRecord
  <2>6. WorkerKnows' /\ WorkerFollows'
    BY <2>1 DEF WorkerKnows, WorkerFollows
  <2>7. ASSUME ~drift PROVE FileFollowsHead' /\ LateFollowsHead' /\ EditsAreOnce'
    <3>1. Kept /\ ~LateMatters
      BY <1>1, <1>2, <2>7 DEF Kept, WorkerFollows
    <3>2. head.desired = head.flight => Desired = Flight
      BY DEF Desired, Flight
    <3>3. FileFollowsHead'
      BY <1>2, <1>3, <2>1, <2>3, <2>4, <2>5, <3>1, <3>2 DEF Kept, FileFollowsHead
    <3>4. EditsAreOnce'
      BY <1>2, <1>3, <2>1, <2>5, <3>1 DEF Kept, EditsAreOnce
    <3>. QED
      BY <1>2, <3>1, <3>3, <3>4 DEF LateFollowsHead
  <2>. QED
    BY <1>2, <2>1, <2>5, <2>6, <2>7, HeadMoves
<1>. QED
  BY <1>4, <1>5, <1>6 DEF verifyAnnotation, confirmAnnotation

-----------------------------------------------------------------------------
(* The publisher, and observations of the archive.                         *)

LEMMA PublisherMoves ==
  ASSUME MarksInv, UNCHANGED <<remoteFile, etags, late, drift, receipts, accepted>>,
         worker' = None, importer' = None, lock' = "publisher", publisher' \in PublisherLocals,
         publishes' \in Nat, publishes' >= publishes,
         StoreTypes', Pointed', PublisherNumbers', ReplacementIsRecorded',
         ~drift => FileFollowsHead' /\ LateFollowsHead' /\ PublisherFollows' /\ EditsAreOnce'
  PROVE  MarksInv'
<1>1. FileTypes' /\ LocalTypes' /\ EditTypes'
  BY DEF MarksInv, Basics, FileTypes, LocalTypes, EditTypes, MaybeBytes
<1>2. FileNumbers'
  BY FileFacts DEF MarksInv, Basics, FileNumbers, Bytes, File
<1>3. OneAtATime' /\ WorkerNumbers' /\ WorkerKnows'
  BY NoneIsNoRecord DEF OneAtATime, WorkerNumbers, WorkerKnows
<1>4. ~drift => FileIsSound' /\ WorkerFollows' /\ ImporterFollows'
  BY DEF MarksInv, Kept, FileIsSound, WorkerFollows, ImporterFollows, File
<1>. QED
  BY <1>1, <1>2, <1>3, <1>4 DEF MarksInv, Basics, Kept

LEMMA DeliverStep == ASSUME MarksInv, DeliverSealed PROVE MarksInv'
<1>1. /\ lock = "free" /\ worker = None /\ publisher = None /\ importer = None /\ publishes' = publishes + 1
      /\ lock' = "publisher"
      /\ UNCHANGED <<remoteFile, etags, late, drift, head, snapshots, nextID, accepted, receipts, worker, importer>>
  BY OthersAreIdle DEF DeliverSealed, remote, store, PublishOnly
<1>2. PICK audio \in {1, 2}, keep \in BOOLEAN :
       publisher' = [pc |-> IF remoteFile = None THEN "prepare" ELSE "carry", keepMarks |-> keep,
                     attempt |-> 1, etag |-> ETagOf(remoteFile),
                     item |-> [audio |-> audio, doc |-> <<>>, build |-> publishes', ok |-> TRUE],
                     staged |-> [audio |-> audio, doc |-> <<>>, build |-> publishes', ok |-> TRUE]]
  BY DEF DeliverSealed
<1>. DEFINE sealed == [audio |-> audio, doc |-> <<>>, build |-> publishes', ok |-> TRUE]
            pc == IF remoteFile = None THEN "prepare" ELSE "carry"
            tag == ETagOf(remoteFile)
<1>3. Basics /\ StoreTypes /\ Pointed /\ etags \in Nat /\ publishes \in Nat /\ publishes' \in Nat
      /\ (remoteFile # None => remoteFile.etag \in 1..etags /\ File.build <= publishes /\ File \in Bytes)
      /\ (late # None => late.bytes.build <= publishes /\ late.bytes \in Bytes)
  BY <1>1, FileFacts DEF MarksInv, Basics, FileNumbers, File
<1>4. sealed \in Bytes /\ sealed.doc = <<>> /\ sealed.build = publishes' /\ sealed.ok
  <2>1. <<>> \in Docs
    BY DEF Docs
  <2>. QED
    BY <1>3, <2>1 DEF Bytes
<1>5. /\ pc \in {"prepare", "carry"} /\ tag \in Nat /\ tag <= etags
      /\ remoteFile = None => pc = "prepare" /\ tag = 0
      /\ remoteFile # None => pc = "carry" /\ tag # 0
  BY <1>3 DEF ETagOf
<1>. HIDE DEF sealed, pc, tag
<1>6. publisher' = [pc |-> pc, keepMarks |-> keep, attempt |-> 1, etag |-> tag, item |-> sealed, staged |-> sealed]
  BY <1>2 DEF sealed, pc, tag
<1>7. /\ publisher' \in PublisherLocals /\ publisher'.pc = pc /\ publisher'.etag = tag /\ publisher'.item = sealed
      /\ publisher'.staged = sealed
  BY <1>4, <1>5, <1>6 DEF PublisherLocals
<1>8. PublisherNumbers'
  BY <1>1, <1>3, <1>4, <1>5, <1>7 DEF PublisherNumbers, File, Bytes
<1>9. ReplacementIsRecorded'
  BY <1>5, <1>7 DEF ReplacementIsRecorded
<1>10. SameHead /\ StoreTypes' /\ Pointed'
  BY <1>1, <1>3, HeadStays
<1>11. ASSUME ~drift PROVE FileFollowsHead' /\ LateFollowsHead' /\ PublisherFollows' /\ EditsAreOnce'
  <2>1. Kept
    BY <1>11 DEF MarksInv
  <2>2. FileFollowsHead' /\ LateFollowsHead' /\ EditsAreOnce'
    BY <1>1, <1>10, <2>1, SameHeadFacts DEF Kept, FileFollowsHead, LateFollowsHead, LateMatters, EditsAreOnce, File, Snapshot
  <2>3. PublisherFollows'
    BY <1>1, <1>4, <1>5, <1>7 DEF PublisherFollows
  <2>. QED
    BY <2>2, <2>3
<1>. QED
  BY <1>1, <1>3, <1>7, <1>8, <1>9, <1>10, <1>11, PublisherMoves

\* Facts about the publisher at a step of its own.
LEMMA AtPublish ==
  ASSUME MarksInv, publisher # None, PublishOnly
  PROVE  /\ Basics /\ StoreTypes /\ Pointed /\ publisher \in PublisherLocals /\ publisher.staged \in Bytes /\ publisher.item \in Bytes
         /\ publisher.staged.doc \in Docs /\ publisher.etag \in Nat /\ publishes \in Nat /\ etags \in Nat
         /\ lock = "publisher" /\ worker' = None /\ importer' = None /\ receipts' = receipts
         /\ remoteFile # None => File \in Bytes /\ File.doc \in Docs /\ remoteFile.etag \in 1..etags
         /\ ~drift => Kept
  BY OthersAreIdle, FileFacts DEF MarksInv, Basics, PublishOnly, FileNumbers

\* The marks that are carried are those of the copy that was read.
LEMMA StageStep == ASSUME MarksInv, stageDeliveredMarks PROVE MarksInv'
<1>1. /\ publisher # None /\ publisher.pc = "carry" /\ PublishOnly
      /\ UNCHANGED <<remoteFile, etags, late, drift, head, snapshots, nextID, accepted, publishes>>
  BY DEF stageDeliveredMarks, PublishAt, remote, store
<1>2. /\ Basics /\ StoreTypes /\ Pointed /\ publisher \in PublisherLocals /\ publisher.staged \in Bytes /\ publisher.item \in Bytes
      /\ publisher.staged.doc \in Docs /\ publisher.etag \in Nat /\ publishes \in Nat /\ etags \in Nat
      /\ lock = "publisher" /\ worker' = None /\ importer' = None /\ receipts' = receipts
      /\ (remoteFile # None => File \in Bytes /\ File.doc \in Docs /\ remoteFile.etag \in 1..etags)
      /\ (~drift => Kept)
  BY <1>1, AtPublish
<1>3. SameHead /\ StoreTypes' /\ Pointed'
  BY <1>1, <1>2, HeadStays
<1>4. CASE PublishDone
  BY <1>1, <1>2, <1>3, <1>4, LetGo DEF PublishDone
<1>5. ASSUME NEW b \in Bytes, publisher' = [publisher EXCEPT !.pc = "prepare", !.staged = b], lock' = lock,
             b.build = publisher.item.build, b.ok = publisher.item.ok,
             ~drift => remoteFile # None /\ Prefix(b.doc, File.doc) /\ (b.audio = File.audio => b.doc = File.doc)
      PROVE  MarksInv'
  <2>1. /\ publisher' \in PublisherLocals /\ publisher'.pc = "prepare" /\ publisher'.staged = b
        /\ publisher'.item = publisher.item /\ publisher'.etag = publisher.etag
    BY <1>2, <1>5 DEF PublisherLocals
  <2>2. PublisherNumbers'
    BY <1>1, <1>2, <1>5, <2>1 DEF Basics, PublisherNumbers
  <2>3. ReplacementIsRecorded'
    BY <2>1 DEF ReplacementIsRecorded
  <2>4. ASSUME ~drift PROVE FileFollowsHead' /\ LateFollowsHead' /\ PublisherFollows' /\ EditsAreOnce'
    <3>1. Kept /\ publisher.etag # 0
      BY <1>1, <1>2, <2>4 DEF Basics, PublisherNumbers
    <3>2. FileFollowsHead' /\ LateFollowsHead' /\ EditsAreOnce'
      BY <1>1, <1>2, <1>3, <3>1, SameHeadFacts DEF Kept, FileFollowsHead, LateFollowsHead, LateMatters, EditsAreOnce, File, Snapshot
    <3>3. PublisherFollows'
      BY <1>1, <1>5, <2>1, <2>4, <3>1 DEF Kept, PublisherFollows, File
    <3>. QED
      BY <3>2, <3>3
  <2>. QED
    BY <1>1, <1>2, <1>3, <1>5, <2>1, <2>2, <2>3, <2>4, PublisherMoves
<1>6. CASE /\ remoteFile # None /\ remoteFile.bytes.ok /\ remoteFile.bytes.audio = publisher.item.audio
           /\ publisher' = [publisher EXCEPT !.pc = "prepare", !.staged = [publisher.item EXCEPT !.doc = remoteFile.bytes.doc]]
           /\ lock' = lock
  <2>. DEFINE b == [publisher.item EXCEPT !.doc = File.doc]
  <2>1. /\ b \in Bytes /\ b.build = publisher.item.build /\ b.ok = publisher.item.ok /\ b.doc = File.doc
    BY <1>2, <1>6 DEF Bytes
  <2>2. publisher' = [publisher EXCEPT !.pc = "prepare", !.staged = b]
    BY <1>6 DEF File
  <2>. HIDE DEF b
  <2>3. Prefix(b.doc, File.doc)
    BY <1>2, <1>6, <2>1, PrefixFacts
  <2>. QED
    BY <1>5, <1>6, <2>1, <2>2, <2>3
<1>7. CASE /\ remoteFile # None /\ ~(remoteFile.bytes.ok /\ remoteFile.bytes.audio = publisher.item.audio)
           /\ publisher' = [publisher EXCEPT !.pc = "prepare", !.staged = publisher.item] /\ lock' = lock
  <2>1. publisher.item.doc = <<>> /\ <<>> \in Docs
    BY <1>1, <1>2 DEF Basics, PublisherNumbers, Docs
  <2>2. Prefix(publisher.item.doc, File.doc)
    BY <1>2, <1>7, <2>1, PrefixFacts
  <2>3. ~drift => publisher.item.audio # File.audio
    BY <1>2, <1>7 DEF Kept, FileIsSound, File
  <2>. QED
    BY <1>2, <1>5, <1>7, <2>2, <2>3
<1>. QED
  BY <1>4, <1>6, <1>7 DEF stageDeliveredMarks

\* The replacement's build is newer than what Nextcloud holds.
LEMMA PrepareStep == ASSUME MarksInv, prepareReplacement PROVE MarksInv'
<1>1. /\ publisher # None /\ publisher.pc = "prepare" /\ PublishOnly
      /\ publisher' = [publisher EXCEPT !.pc = "put"]
      /\ UNCHANGED <<remoteFile, etags, late, drift, lock, snapshots, nextID, accepted, publishes>>
      /\ head = None => head' = None
      /\ head # None => head' = [head EXCEPT !.republish = publisher.staged, !.blocked = FALSE]
  BY DEF prepareReplacement, prepareAnnotationRepublish, PublishAt, remote
<1>2. /\ Basics /\ StoreTypes /\ Pointed /\ publisher \in PublisherLocals /\ publisher.staged \in Bytes /\ publisher.item \in Bytes
      /\ publisher.staged.doc \in Docs /\ publisher.etag \in Nat /\ publishes \in Nat /\ etags \in Nat
      /\ lock = "publisher" /\ worker' = None /\ importer' = None /\ receipts' = receipts
      /\ (remoteFile # None => File \in Bytes /\ File.doc \in Docs /\ remoteFile.etag \in 1..etags)
      /\ (~drift => Kept)
  BY <1>1, AtPublish
<1>3. /\ publisher' \in PublisherLocals /\ publisher'.pc = "put" /\ publisher'.staged = publisher.staged
      /\ publisher'.item = publisher.item /\ publisher'.etag = publisher.etag
  BY <1>1, <1>2 DEF PublisherLocals
<1>4. ASSUME head # None
      PROVE  /\ head' \in Heads /\ head' # None /\ head'.desired = head.desired /\ head'.confirmed = head.confirmed
             /\ head'.flight = head.flight /\ head'.republish = publisher.staged /\ StoreTypes' /\ Pointed'
             /\ Desired' = Desired /\ Confirmed' = Confirmed /\ Flight' = Flight
  <2>1. head \in Heads /\ publisher.staged \in MaybeBytes
    BY <1>2, <1>4 DEF StoreTypes, MaybeBytes
  <2>2. head' \in Heads
    BY <1>1, <1>4, <2>1 DEF Heads
  <2>3. head'.desired = head.desired /\ head'.confirmed = head.confirmed /\ head'.flight = head.flight
    BY <1>1, <1>4, <2>1 DEF Heads
  <2>4. head'.republish = publisher.staged
    BY <1>1, <1>4, <2>1 DEF Heads
  <2>. QED
    BY <1>1, <1>2, <1>4, <2>2, <2>3, <2>4, SameRowsFacts, NoneIsNoRecord
<1>5. StoreTypes' /\ Pointed'
  BY <1>1, <1>2, <1>4 DEF StoreTypes, Pointed
<1>6. PublisherNumbers'
  BY <1>1, <1>2, <1>3 DEF Basics, PublisherNumbers
<1>7. ReplacementIsRecorded'
  BY <1>1, <1>3, <1>4 DEF ReplacementIsRecorded
<1>8. ASSUME ~drift PROVE FileFollowsHead' /\ LateFollowsHead' /\ PublisherFollows' /\ EditsAreOnce'
  <2>1. Kept
    BY <1>2, <1>8
  <2>2. head # None => publisher.staged # None /\ publisher.staged.build # File.build
    <3>1. remoteFile # None => publisher.staged.build = publishes /\ File.build < publishes /\ File.build \in Nat
      BY <1>1, <1>2 DEF Basics, PublisherNumbers, Bytes, File
    <3>2. head # None => remoteFile # None
      BY <2>1 DEF Kept, FileFollowsHead
    <3>. QED
      BY <1>2, <3>1, <3>2, NoneIsNoRecord
  <2>3. FileFollowsHead'
    BY <1>1, <1>4, <2>1, <2>2 DEF Kept, FileFollowsHead, File
  <2>4. LateFollowsHead'
    BY <1>1, <1>4, <2>1, <2>2 DEF Kept, LateFollowsHead, LateMatters, File
  <2>5. PublisherFollows'
    BY <1>1, <1>3, <2>1 DEF Kept, PublisherFollows, File
  <2>6. EditsAreOnce'
    BY <1>1, <1>2, <1>4, <2>1 DEF Kept, EditsAreOnce, File
  <2>. QED
    BY <2>3, <2>4, <2>5, <2>6
<1>. QED
  BY <1>1, <1>2, <1>3, <1>5, <1>6, <1>7, <1>8, PublisherMoves

\* The replacement lands, gets lost, stays on its way, or starts over.
LEMMA ReplaceFileStep == ASSUME MarksInv, putOverDeliveredCopy PROVE MarksInv'
<1>1. /\ publisher # None /\ publisher.pc = "put" /\ PublishOnly
      /\ UNCHANGED <<head, snapshots, nextID, publishes>> /\ accepted' \subseteq accepted
  BY DEF putOverDeliveredCopy, PublishAt
<1>2. /\ Basics /\ StoreTypes /\ Pointed /\ publisher \in PublisherLocals /\ publisher.staged \in Bytes /\ publisher.item \in Bytes
      /\ publisher.staged.doc \in Docs /\ publisher.etag \in Nat /\ publishes \in Nat /\ etags \in Nat
      /\ lock = "publisher" /\ worker' = None /\ importer' = None /\ receipts' = receipts
      /\ (remoteFile # None => File \in Bytes /\ File.doc \in Docs /\ remoteFile.etag \in 1..etags)
      /\ (~drift => Kept)
  BY <1>1, AtPublish
<1>3. SameHead /\ StoreTypes' /\ Pointed' /\ Desired' = Desired /\ Confirmed' = Confirmed /\ Flight' = Flight
  BY <1>1, <1>2, HeadStays DEF Desired, Confirmed, Flight
<1>4. publisher.staged.build = publishes /\ publisher.item.build = publishes /\ publisher.etag <= etags
  BY <1>1, <1>2 DEF Basics, PublisherNumbers
<1>5. ASSUME ~drift
      PROVE  /\ Kept /\ publisher.item.ok /\ publisher.staged.ok
             /\ publisher.etag = 0 => remoteFile = None /\ publisher.staged.doc = <<>> /\ head = None
             /\ publisher.etag # 0 =>
                  /\ remoteFile # None /\ Prefix(publisher.staged.doc, File.doc)
                  /\ publisher.etag = remoteFile.etag /\ publisher.staged.audio = File.audio => publisher.staged.doc = File.doc
  BY <1>1, <1>2, <1>5 DEF Kept, PublisherFollows, FileFollowsHead
<1>6. CASE PublishDone /\ UNCHANGED <<remote, accepted>>
  BY <1>1, <1>2, <1>3, <1>6, LetGo DEF PublishDone, remote
<1>7. ASSUME PublishDone \/ (publisher' = [publisher EXCEPT !.pc = "verify"] /\ lock' = lock)
      PROVE  /\ OneAtATime' /\ LocalTypes' /\ EditTypes' /\ WorkerKnows' /\ WorkerNumbers' /\ ReplacementIsRecorded'
             /\ publisher' # None => /\ publisher'.pc = "verify" /\ publisher'.staged = publisher.staged
                                     /\ publisher'.item = publisher.item /\ publisher'.etag = publisher.etag
  <2>1. EditTypes' /\ WorkerKnows' /\ WorkerNumbers'
    BY <1>1, <1>2 DEF Basics, EditTypes, WorkerKnows, WorkerNumbers
  <2>2. CASE PublishDone
    <3>. lock' = "free" /\ publisher' = None
      BY <2>2 DEF PublishDone
    <3>. QED
      BY <1>1, <1>2, <2>1 DEF Basics, OneAtATime, LocalTypes, ReplacementIsRecorded, MaybeBytes
  <2>3. CASE publisher' = [publisher EXCEPT !.pc = "verify"] /\ lock' = lock
    <3>1. /\ publisher' \in PublisherLocals /\ publisher' # None /\ publisher'.pc = "verify"
          /\ publisher'.staged = publisher.staged /\ publisher'.item = publisher.item /\ publisher'.etag = publisher.etag
      BY <1>2, <2>3, NoneIsNoRecord DEF PublisherLocals
    <3>. QED
      BY <1>1, <1>2, <2>1, <2>3, <3>1 DEF Basics, OneAtATime, LocalTypes, ReplacementIsRecorded, MaybeBytes
  <2>. QED
    BY <1>7, <2>2, <2>3
<1>8. CASE Uploaded(publisher.etag, publisher.staged)
           /\ (head = None /\ remoteFile # None /\ remoteFile.bytes.audio # publisher.staged.audio => accepted' = {})
           /\ (PublishDone \/ (publisher' = [publisher EXCEPT !.pc = "verify"] /\ lock' = lock))
  <2>1. /\ remoteFile' = [etag |-> etags + 1, bytes |-> publisher.staged] /\ etags' = etags + 1 /\ late' = late /\ drift' = drift
        /\ publisher.etag = 0 \/ (remoteFile # None /\ remoteFile.etag = publisher.etag)
    BY <1>8 DEF Uploaded, Stored, Matches
  <2>2. remoteFile' \in Leaves /\ remoteFile' # None /\ File' = publisher.staged /\ remoteFile'.etag = etags + 1
    BY <1>2, <2>1, NoneIsNoRecord DEF Leaves, File
  <2>3. FileTypes' /\ FileNumbers'
    BY <1>1, <1>2, <1>4, <2>1, <2>2, FileFacts DEF Basics, FileTypes, FileNumbers, File
  <2>4. PublisherNumbers'
    BY <1>1, <1>2, <1>4, <1>7, <1>8, <2>1 DEF Basics, PublisherNumbers
  <2>5. ~LateMatters'
    BY <1>2, <2>1, <2>2, FileFacts DEF LateMatters, Basics, FileNumbers
  <2>6. ASSUME ~drift PROVE Kept'
    <3>1. /\ publisher.etag = 0 => publisher.staged.doc = <<>> /\ head = None
          /\ publisher.etag # 0 => remoteFile # None /\ Prefix(publisher.staged.doc, File.doc)
      BY <1>5, <2>6
    <3>2. Within(publisher.staged.doc, receipts)
      <4>1. CASE publisher.etag = 0
        BY <3>1, <4>1 DEF Within
      <4>2. CASE publisher.etag # 0
        BY <1>2, <1>5, <2>6, <3>1, <4>2, PrefixFacts DEF Kept, FileIsSound
      <4>. QED
        BY <4>1, <4>2
    <3>3. FileIsSound'
      BY <1>2, <1>5, <2>1, <2>2, <2>6, <3>2 DEF Kept, FileIsSound
    <3>4. head # None => /\ Prefix(publisher.staged.doc, Desired.doc)
                         /\ head.flight # 0 => Prefix(publisher.staged.doc, Flight.doc)
                         /\ head.republish = publisher.staged
      <4>1. ASSUME head # None
            PROVE  /\ Prefix(publisher.staged.doc, Desired.doc)
                   /\ head.flight # 0 => Prefix(publisher.staged.doc, Flight.doc)
        <5>1. /\ remoteFile # None /\ Prefix(publisher.staged.doc, File.doc) /\ Prefix(File.doc, Desired.doc)
              /\ head.flight # 0 => Prefix(File.doc, Flight.doc)
          BY <1>5, <2>6, <3>1, <4>1 DEF Kept, FileFollowsHead
        <5>2. File.doc \in Docs /\ Desired.doc \in Docs /\ (head.flight # 0 => Flight.doc \in Docs)
          BY <1>2, <4>1, <5>1, FileFacts
        <5>. QED
          BY <1>2, <5>1, <5>2, PrefixFacts
      <4>2. head # None => head.republish = publisher.staged
        BY <1>1, <1>2 DEF Basics, ReplacementIsRecorded
      <4>. QED
        BY <4>1, <4>2
    <3>5. FileFollowsHead'
      BY <1>1, <1>2, <1>3, <1>5, <2>2, <2>6, <3>4, NoneIsNoRecord DEF Kept, FileFollowsHead
    <3>6. LateFollowsHead'
      BY <2>5 DEF LateFollowsHead
    <3>7. PublisherFollows'
      BY <1>5, <1>7, <1>8, <2>2, <2>5, <2>6 DEF PublisherFollows
    <3>8. WorkerFollows' /\ ImporterFollows'
      BY <1>2 DEF WorkerFollows, ImporterFollows
    <3>9. EditsAreOnce'
      <4>1. CASE head # None
        BY <1>1, <1>2, <1>3, <1>5, <2>6, <4>1 DEF Kept, EditsAreOnce
      <4>2. CASE head = None
        <5>1. ASSUME accepted' # {} PROVE remoteFile # None /\ publisher.staged.doc = File.doc
          <6>1. remoteFile # None
            BY <1>1, <1>5, <2>6, <4>2, <5>1 DEF Kept, EditsAreOnce
          <6>2. publisher.staged.audio = File.audio
            BY <1>8, <4>2, <5>1, <6>1 DEF File
          <6>. QED
            BY <1>5, <2>1, <2>6, <6>1, <6>2
        <5>2. \A r \in accepted' : Occurrences(r, publisher.staged.doc) = 1
          BY <1>1, <1>5, <2>6, <4>2, <5>1 DEF Kept, EditsAreOnce
        <5>. QED
          BY <1>1, <2>2, <4>2, <5>2 DEF EditsAreOnce
      <4>. QED
        BY <4>1, <4>2
    <3>. QED
      BY <3>3, <3>5, <3>6, <3>7, <3>8, <3>9 DEF Kept
  <2>. QED
    BY <1>3, <1>7, <1>8, <2>1, <2>3, <2>4, <2>6 DEF MarksInv, Basics
<1>9. CASE Delayed(publisher.etag, publisher.staged) /\ PublishDone /\ accepted' = accepted
  <2>1. /\ late' = [ifMatch |-> publisher.etag, bytes |-> publisher.staged] /\ UNCHANGED <<remoteFile, etags, drift>>
        /\ publisher' = None
    BY <1>9 DEF Delayed, PublishDone
  <2>2. late' \in Uploads /\ late' # None /\ late'.ifMatch = publisher.etag /\ late'.bytes = publisher.staged
    BY <1>2, <2>1, NoneIsNoRecord DEF Uploads
  <2>3. FileTypes' /\ FileNumbers' /\ PublisherNumbers'
    BY <1>1, <1>2, <1>4, <2>1, <2>2 DEF Basics, FileTypes, FileNumbers, PublisherNumbers
  <2>4. ASSUME ~drift PROVE Kept'
    <3>1. ~LateMatters'
      BY <1>2, <1>5, <2>1, <2>2, <2>4 DEF LateMatters, File
    <3>2. FileIsSound'
      BY <1>1, <1>2, <1>5, <2>1, <2>2, <2>4 DEF Kept, FileIsSound, File
    <3>3. FileFollowsHead'
      BY <1>1, <1>3, <1>5, <2>1, <2>4 DEF Kept, FileFollowsHead, File, Snapshot
    <3>4. LateFollowsHead'
      BY <3>1 DEF LateFollowsHead
    <3>5. WorkerFollows' /\ PublisherFollows' /\ ImporterFollows'
      BY <1>2, <2>1 DEF WorkerFollows, PublisherFollows, ImporterFollows
    <3>6. EditsAreOnce'
      BY <1>1, <1>2, <1>3, <1>5, <1>9, <2>1, <2>4 DEF Kept, EditsAreOnce, File
    <3>. QED
      BY <3>2, <3>3, <3>4, <3>5, <3>6 DEF Kept
  <2>. QED
    BY <1>3, <1>7, <1>9, <2>1, <2>3, <2>4 DEF MarksInv, Basics
<1>10. CASE /\ remoteFile # None
            /\ publisher' = [publisher EXCEPT !.pc = "carry", !.attempt = @ + 1, !.etag = ETagOf(remoteFile)]
            /\ UNCHANGED <<remote, lock, accepted>>
  <2>. DEFINE tag == remoteFile.etag
              n == publisher.attempt + 1
  <2>1. tag \in Nat /\ tag # 0 /\ tag <= etags /\ n \in Nat
    BY <1>2, <1>10 DEF PublisherLocals
  <2>2. publisher' = [publisher EXCEPT !.pc = "carry", !.attempt = n, !.etag = tag]
    BY <1>10 DEF ETagOf
  <2>. HIDE DEF tag, n
  <2>3. /\ publisher' \in PublisherLocals /\ publisher'.pc = "carry" /\ publisher'.staged = publisher.staged
        /\ publisher'.item = publisher.item /\ publisher'.etag = tag
    BY <1>2, <2>1, <2>2 DEF PublisherLocals
  <2>4. UNCHANGED <<remoteFile, etags, late, drift, lock>>
    BY <1>10 DEF remote
  <2>5. PublisherNumbers'
    BY <1>1, <1>2, <2>1, <2>3, <2>4 DEF Basics, PublisherNumbers
  <2>6. ReplacementIsRecorded'
    BY <2>3 DEF ReplacementIsRecorded
  <2>7. ASSUME ~drift PROVE FileFollowsHead' /\ LateFollowsHead' /\ PublisherFollows' /\ EditsAreOnce'
    <3>1. FileFollowsHead' /\ LateFollowsHead' /\ EditsAreOnce'
      BY <1>1, <1>2, <1>3, <1>5, <1>10, <2>4, <2>7, SameHeadFacts DEF Kept, FileFollowsHead, LateFollowsHead, LateMatters, EditsAreOnce, File, Snapshot
    <3>2. PublisherFollows'
      BY <1>5, <1>10, <2>1, <2>3, <2>4, <2>7 DEF PublisherFollows
    <3>. QED
      BY <3>1, <3>2
  <2>. QED
    BY <1>1, <1>2, <1>3, <1>10, <2>3, <2>4, <2>5, <2>6, <2>7, PublisherMoves
<1>. QED
  BY <1>6, <1>8, <1>9, <1>10 DEF putOverDeliveredCopy

\* A delivery is recorded when its bytes were read back.
LEMMA VerifyReplacementStep == ASSUME MarksInv, verifyReplacement PROVE MarksInv'
<1>1. /\ publisher # None /\ publisher.pc = "verify" /\ PublishOnly /\ publisher' = None /\ lock' = "free"
      /\ UNCHANGED <<remoteFile, etags, late, drift, publishes>>
  BY DEF verifyReplacement, PublishAt, PublishDone, remote
<1>2. /\ Basics /\ StoreTypes /\ Pointed /\ publisher.staged \in Bytes
      /\ worker' = None /\ importer' = None /\ receipts' = receipts
      /\ (~drift => Kept)
  BY <1>1, AtPublish
<1>3. CASE UNCHANGED store
  <2>1. SameHead /\ StoreTypes' /\ Pointed' /\ accepted' = accepted
    BY <1>2, <1>3, HeadStays DEF store
  <2>. QED
    BY <1>1, <1>2, <2>1, LetGo
<1>4. CASE remoteFile # None /\ remoteFile.bytes = publisher.staged /\ recordAnnotationDelivery(publisher.staged)
  <2>1. StoreTypes' /\ Pointed' /\ accepted' \subseteq accepted
    BY <1>2, <1>4, RecordFacts
  <2>2. ASSUME ~drift PROVE FileFollowsHead' /\ LateFollowsHead' /\ EditsAreOnce'
    <3>1. ~LateMatters /\ Snapshot(publisher.staged) = Snapshot(File)
      BY <1>1, <1>2, <1>4, <2>2 DEF Kept, PublisherFollows, File
    <3>. QED
      BY <1>1, <1>2, <1>4, <2>2, <3>1, RecordKeeps
  <2>3. WorkerKnows' /\ WorkerFollows'
    BY <1>2 DEF WorkerKnows, WorkerFollows
  <2>. QED
    BY <1>1, <1>2, <2>1, <2>2, <2>3, HeadMoves
<1>. QED
  BY <1>3, <1>4 DEF verifyReplacement

LEMMA BackfillStep == ASSUME MarksInv, backfillOneAnnotation PROVE MarksInv'
<1>1. /\ lock = "free" /\ worker = None /\ publisher = None /\ importer = None /\ remoteFile # None
      /\ lock' = "importer" /\ importer' = File
      /\ UNCHANGED <<remoteFile, etags, late, drift, head, snapshots, nextID, accepted, receipts, worker, publisher, publishes>>
  BY OthersAreIdle DEF backfillOneAnnotation, remote, store, File
<1>2. Basics /\ StoreTypes /\ Pointed /\ File \in Bytes
  BY <1>1, FileFacts DEF MarksInv, Basics
<1>3. SameHead /\ StoreTypes' /\ Pointed'
  BY <1>1, <1>2, HeadStays
<1>4. /\ FileTypes' /\ LocalTypes' /\ EditTypes' /\ OneAtATime' /\ FileNumbers' /\ WorkerNumbers' /\ PublisherNumbers'
      /\ WorkerKnows' /\ ReplacementIsRecorded'
  BY <1>1, <1>2, NoneIsNoRecord DEF Basics, FileTypes, LocalTypes, EditTypes, OneAtATime, FileNumbers, WorkerNumbers,
     PublisherNumbers, WorkerKnows, ReplacementIsRecorded, MaybeBytes
<1>5. ASSUME ~drift PROVE Kept'
  <2>1. Kept
    BY <1>5 DEF MarksInv
  <2>2. FileIsSound' /\ FileFollowsHead' /\ LateFollowsHead' /\ EditsAreOnce'
    BY <1>1, <1>3, <2>1, SameHeadFacts DEF Kept, FileIsSound, FileFollowsHead, LateFollowsHead, LateMatters, EditsAreOnce, File, Snapshot
  <2>3. WorkerFollows' /\ PublisherFollows'
    BY <1>1 DEF WorkerFollows, PublisherFollows
  <2>4. ImporterFollows'
    BY <1>1, <2>1 DEF Kept, FileIsSound, ImporterFollows, File
  <2>. QED
    BY <2>2, <2>3, <2>4 DEF Kept
<1>. QED
  BY <1>1, <1>3, <1>4, <1>5 DEF MarksInv, Basics

\* What was observed replaces only a head nobody waits for, and then says the same.
LEMMA ObserveStep == ASSUME MarksInv, recordObservation PROVE MarksInv'
<1>1. /\ importer # None /\ replace(importer) /\ importer' = None /\ lock' = "free"
      /\ UNCHANGED <<remoteFile, etags, late, drift, receipts, worker, publisher, publishes>>
  BY DEF recordObservation, remote
<1>2. /\ Basics /\ StoreTypes /\ Pointed /\ importer \in Bytes /\ worker' = None /\ publisher' = None
      /\ (~drift => Kept)
  BY <1>1, OthersAreIdle, FileFacts DEF MarksInv, Basics
<1>3. StoreTypes' /\ Pointed' /\ accepted' = accepted /\ WorkerKnows' /\ WorkerFollows'
  BY <1>1, <1>2, ReplaceFacts DEF WorkerKnows, WorkerFollows
<1>4. /\ Pending /\ (head.republish # None \/ ~importer.ok \/ Desired.audio = importer.audio) => UNCHANGED <<head, snapshots, nextID>>
      /\ ~Pending /\ importer.ok => importAnnotationSnapshot(importer)
  BY <1>1, <1>2, ReplaceFacts
<1>5. CASE UNCHANGED <<head, snapshots, nextID>>
  BY <1>1, <1>2, <1>3, <1>5, HeadStays, LetGo
<1>6. ASSUME ~drift, ~UNCHANGED <<head, snapshots, nextID>> PROVE FileFollowsHead' /\ LateFollowsHead' /\ EditsAreOnce'
  <2>1. Kept /\ remoteFile # None /\ importer.ok /\ importer.audio = File.audio
    BY <1>1, <1>2, <1>6 DEF Kept, ImporterFollows
  <2>2. ~Pending
    BY <1>4, <1>6, <2>1 DEF Pending, Kept, FileFollowsHead
  <2>3. /\ head # None => head.desired = head.confirmed /\ head.republish = None
        /\ Snapshot(importer) = Snapshot(File) /\ ~LateMatters
    BY <1>1, <2>1, <2>2 DEF Pending, Kept, ImporterFollows, LateFollowsHead
  <2>4. importAnnotationSnapshot(importer)
    BY <1>4, <2>1, <2>2
  <2>5. /\ Insert(Snapshot(importer)) /\ head' # None /\ head'.desired = nextID /\ head'.confirmed = nextID
        /\ Confirmed' = Snapshot(File) /\ Desired' = Snapshot(File)
        /\ head = None => head'.flight = 0 /\ head'.republish = None
        /\ head # None => head'.flight = head.flight /\ head'.republish = head.republish
    BY <1>2, <2>3, <2>4, ImportFacts, NoneIsNoRecord
  <2>6. File \in Bytes /\ File.doc \in Docs /\ File' = File /\ Prefix(File.doc, File.doc)
        /\ Snapshot(File).audio = File.audio /\ Snapshot(File).doc = File.doc
    BY <1>1, <1>2, <2>1, FileFacts, SnapshotFacts, PrefixFacts DEF File
  <2>7. head # None => Desired' = Desired /\ Confirmed' = Confirmed /\ (head.flight # 0 => Flight' = Flight)
    <3>1. ASSUME head # None PROVE Desired' = Desired /\ Confirmed' = Confirmed
      BY <2>1, <2>3, <2>5, <3>1 DEF Kept, FileFollowsHead, Desired, Confirmed
    <3>2. ASSUME head # None, head.flight # 0 PROVE Flight' = Flight
      <4>1. head.flight \in DOMAIN snapshots /\ Snapshot(importer) \in SnapshotRows
        BY <1>2, <3>2, PointedFacts, SnapshotFacts
      <4>2. snapshots'[head.flight] = snapshots[head.flight]
        BY <1>2, <2>5, <4>1, InsertFacts
      <4>. QED
        BY <2>5, <3>2, <4>2 DEF Flight
    <3>. QED
      BY <3>1, <3>2
  <2>8. FileFollowsHead'
    <3>1. CASE head = None
      BY <1>1, <2>1, <2>5, <2>6, <3>1 DEF FileFollowsHead
    <3>2. CASE head # None
      BY <1>1, <2>1, <2>3, <2>5, <2>6, <2>7, <3>2 DEF Kept, FileFollowsHead
    <3>. QED
      BY <3>1, <3>2
  <2>9. LateFollowsHead'
    BY <1>1, <2>3 DEF LateFollowsHead, LateMatters, File
  <2>10. EditsAreOnce'
    <3>1. CASE head = None
      BY <1>1, <1>3, <2>1, <2>5, <2>6, <3>1 DEF Kept, EditsAreOnce, FileIsSound
    <3>2. CASE head # None
      BY <1>1, <1>3, <2>1, <2>5, <2>7, <3>2 DEF Kept, EditsAreOnce
    <3>. QED
      BY <3>1, <3>2
  <2>. QED
    BY <2>8, <2>9, <2>10
<1>7. CASE ~UNCHANGED <<head, snapshots, nextID>>
  BY <1>1, <1>2, <1>3, <1>6, <1>7, HeadMoves
<1>. QED
  BY <1>5, <1>7

-----------------------------------------------------------------------------
LEMMA MarksInvInit == MarksInit => MarksInv
<1>. SUFFICES ASSUME MarksInit PROVE MarksInv
  OBVIOUS
<1>1. /\ remoteFile = None /\ etags = 0 /\ head = None /\ snapshots = <<>> /\ nextID = 1 /\ receipts = {}
      /\ lock = "free" /\ worker = None /\ publisher = None /\ importer = None /\ late = None
      /\ publishes = 0 /\ accepted = {} /\ drift = FALSE
  BY DEF MarksInit
<1>2. DOMAIN snapshots = {}
  BY <1>1
<1>3. Basics
  BY <1>1, <1>2 DEF Basics, FileTypes, LocalTypes, StoreTypes, EditTypes, OneAtATime, Pointed, FileNumbers, WorkerNumbers,
     PublisherNumbers, WorkerKnows, ReplacementIsRecorded, MaybeBytes
<1>4. Kept
  BY <1>1 DEF Kept, FileIsSound, FileFollowsHead, LateFollowsHead, LateMatters, WorkerFollows, PublisherFollows,
     ImporterFollows, EditsAreOnce
<1>. QED
  BY <1>3, <1>4 DEF MarksInv

LEMMA MarksInvStep == MarksInv /\ [MarksNext]_marksVars => MarksInv'
<1>. SUFFICES ASSUME MarksInv, [MarksNext]_marksVars PROVE MarksInv'
  OBVIOUS
<1>1. CASE UNCHANGED marksVars
  <2>1. UNCHANGED <<remoteFile, etags, late, drift, head, snapshots, nextID, accepted, receipts, lock, worker, publisher,
                    importer, publishes>>
    BY <1>1 DEF marksVars
  <2>2. SameHead /\ StoreTypes' /\ Pointed'
    BY <2>1, HeadStays DEF MarksInv, Basics
  <2>. QED
    BY <2>1, <2>2, LetGo
<1>2. CASE MarksNext
  BY <1>2, CommitStep, RetryStep, CollectStep, LandsStep, OutsideStep, NextStep, SettleRepublishStep, SettleFlightStep,
     RefreshAudioStep, SelectStep, MarkInFlightStep, PutStep, VerifyStep, DeliverStep, StageStep, PrepareStep, ReplaceFileStep, VerifyReplacementStep,
     BackfillStep, ObserveStep, RebuildStep, ForgetVanishedStep, RestartSyncStep DEF MarksNext
<1>. QED
  BY <1>1, <1>2

LEMMA MarksInvKeeps == MarksInv => MarksAreKept
<1>. SUFFICES ASSUME MarksInv PROVE MarksAreKept
  OBVIOUS
<1>1. EditsSurvive
  BY DEF MarksInv, Basics, Pointed, Kept, EditsAreOnce, Desired, File, EditsSurvive
<1>2. SavedIsArchived
  BY DEF MarksInv, Kept, FileFollowsHead, Pending, Desired, File, SavedIsArchived
<1>. QED
  BY <1>1, <1>2 DEF MarksAreKept

(* No accepted edit is lost or applied twice, and none is said to be saved before Nextcloud  *)
(* holds it, for every set of edits and every number of deliveries and writes by others      *)
(* (commitDocument, recordAnnotationDelivery, syncAnnotation, putAssetBytes).                *)
THEOREM MarksAreAlwaysKept == MarksSpec => []MarksAreKept
  BY MarksInvInit, MarksInvStep, MarksInvKeeps, PTL DEF MarksSpec
=============================================================================
