----------------------------- MODULE SearchIndex ----------------------------
(***************************************************************************)
(* The search sidecar (search_store.go), filled by a publish               *)
(* (search_ingest.go) and by a backfill of the whole archive               *)
(* (search_backfill.go) that an administrator starts from the health panel *)
(* while publishes go on (search_repair.go).  The index is never the       *)
(* authority: what readers have is the archive's.                          *)
(*                                                                         *)
(* A recording is the attempt whose audio and words it carries and whether *)
(* it was marked since; the pair is its container digest.  A file sealed   *)
(* here is unmarked.  A meeting's rows are the words they were built from, *)
(* the digest they were recorded under and their granularity.              *)
(***************************************************************************)
EXTENDS Naturals, FiniteSets

CONSTANTS
  Meeting,
  MaxDeliveries,  \* bound: attempts delivered, over all meetings
  Silent,         \* attempts whose transcript has no segments
  MaxRuns,        \* bound: backfills
  MaxFaults       \* bound: failed reads and writes, and restarts

VARIABLES
  archive,   \* the published recording of each meeting; attempt 0: none
  bundle,    \* attempt in current/ of each meeting; 0: none
  index,     \* meeting_index and its segments
  attempts,  \* attempts delivered so far
  publish,   \* "idle"; the publish of the meeting delivered, or indexed, its attempt
  runs, faults,
  phase,     \* the backfill: "idle", "next", "delivered", "hash", "read", "write", "archive", "forget"
  targets,   \* meetings its listing of the archive named
  known,     \* index rows it read at its start
  todo,      \* targets still to look at
  item,      \* the target it looks at
  have,      \* what it found out about it: digest, words, source, copy downloaded
  failed,    \* targets it gave up on in this run
  disturbed, \* ghost: something else touched archive, bundle or index during this run
  dropped    \* ghost: it forgot a meeting the archive holds

searchVars == <<archive, bundle, index, attempts, publish, runs, faults,
          phase, targets, known, todo, item, have, failed, disturbed, dropped>>
backfill == <<runs, phase, targets, known, todo, item, have, failed, dropped>>

Absent  == [attempt |-> 0, marked |-> FALSE, checksum |-> FALSE]
Unindexed   == [state |-> "none", digest |-> <<0, FALSE>>, source |-> "", words |-> 0]
Nothing == [digest |-> <<0, FALSE>>, words |-> 0, source |-> "", copy |-> FALSE]

Digest(r)  == <<r.attempt, r.marked>>
Holds(m)   == archive[m].attempt # 0
Sealed(m)  == <<bundle[m], FALSE>>
Disturb    == disturbed' = (disturbed \/ phase # "idle")
Fault      == faults < MaxFaults /\ faults' = faults + 1

-----------------------------------------------------------------------------
(* The store: one transaction each.                                        *)

ReplaceMeeting(m, digest, source, words) ==
  index' = [index EXCEPT ![m] = [state |-> "indexed", digest |-> digest, source |-> source, words |-> words]]

\* The rows go, the row stays with a reason; its digest is not touched.
MarkUnavailable(m) ==
  index' = [index EXCEPT ![m] = [@ EXCEPT !.state = "unavailable", !.source = "", !.words = 0]]

ForgetMeeting(m) == index' = [index EXCEPT ![m] = Unindexed]

-----------------------------------------------------------------------------
(* A publish, and what else happens to the archive.                        *)

DeliverMeeting(m) ==
  /\ publish[m] = "idle" /\ attempts < MaxDeliveries
  /\ attempts' = attempts + 1
  /\ archive' = [archive EXCEPT ![m] = [attempt |-> attempts + 1, marked |-> FALSE, checksum |-> TRUE]]
  /\ publish' = [publish EXCEPT ![m] = "delivered"]
  /\ Disturb
  /\ UNCHANGED <<bundle, index, faults, backfill>>

\* indexPublishedMeeting: rows of the attempt's own bundle. A transcript that
\* has no segments, cannot be read or cannot be written is marked unavailable;
\* if that fails too, or the join key cannot be read, the old row stays.
indexPublishedMeeting(m) ==
  LET a == archive[m].attempt IN
  /\ publish[m] = "delivered" /\ Holds(m)
  /\ publish' = [publish EXCEPT ![m] = "indexed"]
  /\ \/ a \notin Silent /\ ReplaceMeeting(m, <<a, FALSE>>, "segments", a) /\ UNCHANGED faults
     \/ a \in Silent /\ MarkUnavailable(m) /\ UNCHANGED faults
     \/ Fault /\ (MarkUnavailable(m) \/ UNCHANGED index)
  /\ Disturb
  /\ UNCHANGED <<archive, bundle, attempts, backfill>>

\* promotePublishedPair: current/ follows, unless the promotion fails.
promotePublishedPair(m) ==
  /\ publish[m] = "indexed"
  /\ publish' = [publish EXCEPT ![m] = "idle"]
  /\ \/ bundle' = [bundle EXCEPT ![m] = archive[m].attempt] /\ UNCHANGED faults
     \/ Fault /\ UNCHANGED bundle
  /\ Disturb
  /\ UNCHANGED <<archive, index, attempts, backfill>>

\* Somebody's mark rewrites the tags of the recording, not its audio.
MarkRecording(m) ==
  /\ Holds(m) /\ ~archive[m].marked /\ publish[m] = "idle"
  /\ archive' = [archive EXCEPT ![m].marked = TRUE]
  /\ Disturb
  /\ UNCHANGED <<bundle, index, attempts, publish, faults, backfill>>

\* Somebody deletes the recording in Nextcloud.
DeleteRecording(m) ==
  /\ Holds(m) /\ publish[m] = "idle"
  /\ archive' = [archive EXCEPT ![m] = Absent]
  /\ Disturb
  /\ UNCHANGED <<bundle, index, attempts, publish, faults, backfill>>

\* A new process: publishes and the backfill are gone.
RestartSearch ==
  /\ Fault
  /\ publish' = [m \in Meeting |-> "idle"]
  /\ phase' = "idle" /\ disturbed' = FALSE
  /\ UNCHANGED <<archive, bundle, index, attempts, runs, targets, known, todo, item, have, failed,
                 dropped>>

-----------------------------------------------------------------------------
(* The backfill. Each read of Nextcloud, of a file and of the store is a   *)
(* step of its own.                                                        *)

others == <<archive, bundle, attempts, publish>>

\* startSearchBackfill: one run at a time; the archive is listed, then the
\* index. A listing without a meeting ends the run.
startSearchBackfill ==
  /\ phase = "idle" /\ runs < MaxRuns
  /\ \E m \in Meeting : Holds(m)
  /\ runs' = runs + 1
  /\ targets' = {m \in Meeting : Holds(m)} /\ todo' = targets'
  /\ known' = index
  /\ failed' = {}
  /\ disturbed' = (\E m \in Meeting : publish[m] # "idle")
  /\ phase' = "next"
  /\ UNCHANGED <<others, index, faults, item, have, dropped>>

backfillOneMeeting ==
  /\ phase = "next" /\ todo # {}
  /\ item' \in todo
  /\ todo' = todo \ {item'}
  /\ have' = Nothing
  /\ phase' = "delivered"
  /\ UNCHANGED <<others, index, faults, runs, targets, known, failed, disturbed, dropped>>

GiveUp == failed' = failed \cup {item} /\ phase' = "next" /\ UNCHANGED have
Keep   == phase' = "next" /\ UNCHANGED <<failed, have>>

\* The existing rows were built from this very recording, at this granularity.
sameIndexedArtifact(digest, source) ==
  known[item].state = "indexed" /\ known[item].digest = digest /\ known[item].source = source

\* archiveDeliveredState: one PROPFIND tells whether the recording is there
\* and, if it was uploaded with a checksum, its digest.
archiveDeliveredState ==
  /\ phase = "delivered"
  /\ \/ Fault /\ GiveUp
     \/ UNCHANGED faults /\ ~Holds(item) /\ GiveUp
     \/ /\ UNCHANGED faults /\ Holds(item) /\ archive[item].checksum
        /\ IF sameIndexedArtifact(Digest(archive[item]), "segments") THEN Keep
           ELSE /\ have' = [have EXCEPT !.digest = Digest(archive[item])]
                /\ phase' = "hash" /\ UNCHANGED failed
     \/ UNCHANGED faults /\ Holds(item) /\ ~archive[item].checksum /\ phase' = "archive"
        /\ UNCHANGED <<failed, have>>
  /\ UNCHANGED <<others, index, runs, targets, known, todo, item, disturbed, dropped>>

\* Mutant of BundleIsDelivered: a bundle is believed to be the delivered one.
AnyBundle == bundle[item] # 0

\* indexFromLocalBundle's check: equal container digests or, with the archive's
\* copy in hand, equal audio.
BundleIsDelivered ==
  bundle[item] # 0 /\ (Sealed(item) = have.digest \/ (have.copy /\ bundle[item] = have.digest[1]))

\* current/ cannot be used: the archive's own copy is, unless its words are
\* indexed already.
WithoutBundle ==
  IF sameIndexedArtifact(have.digest, "words") THEN Keep
  ELSE /\ phase' = (IF have.copy THEN "write" ELSE "archive")
       /\ UNCHANGED <<failed, have>>

indexFromLocalBundle ==
  /\ phase = "hash"
  /\ IF BundleIsDelivered THEN phase' = "read" /\ UNCHANGED <<failed, have>> ELSE WithoutBundle
  /\ UNCHANGED <<others, index, faults, runs, targets, known, todo, item, disturbed, dropped>>

\* Its transcript is read, or cannot be.
readBundleTranscript ==
  /\ phase = "read"
  /\ \/ /\ have' = [have EXCEPT !.words = bundle[item], !.source = "segments"]
        /\ phase' = "write" /\ UNCHANGED <<failed, faults>>
     \/ Fault /\ WithoutBundle
  /\ UNCHANGED <<others, index, runs, targets, known, todo, item, disturbed, dropped>>

\* indexFromArchive: the recording is downloaded; a failed read keeps the rows.
indexFromArchive ==
  /\ phase = "archive"
  /\ \/ Fault /\ GiveUp
     \/ UNCHANGED faults /\ ~Holds(item) /\ GiveUp
     \/ /\ UNCHANGED faults /\ Holds(item)
        /\ IF sameIndexedArtifact(Digest(archive[item]), "segments") THEN Keep
           ELSE /\ have' = [digest |-> Digest(archive[item]), words |-> archive[item].attempt,
                            source |-> "words", copy |-> TRUE]
                /\ phase' = "hash" /\ UNCHANGED failed
  /\ UNCHANGED <<others, index, runs, targets, known, todo, item, disturbed, dropped>>

\* The rows replace the old ones; no rows: the meeting is unavailable.
WriteRows ==
  /\ phase = "write"
  /\ \/ Fault /\ GiveUp /\ UNCHANGED index
     \/ /\ UNCHANGED faults /\ Keep
        /\ IF have.words \in Silent THEN MarkUnavailable(item)
           ELSE ReplaceMeeting(item, have.digest, have.source, have.words)
  /\ UNCHANGED <<others, runs, targets, known, todo, item, disturbed, dropped>>

TargetsLooked == phase = "next" /\ todo = {} /\ phase' = "forget"
                 /\ UNCHANGED <<others, index, faults, runs, targets, known, todo, item, have, failed,
                                disturbed, dropped>>

\* Rows of meetings the run's listing did not name.
Vanished == {m \in Meeting \ targets : index[m].state # "none"}

\* forgetVanishedMeetings: one row after the other, then the run ends.
forgetVanishedMeetings ==
  /\ phase = "forget"
  /\ \/ \E m \in Vanished : ForgetMeeting(m) /\ dropped' = (dropped \/ Holds(m)) /\ UNCHANGED phase
     \/ Vanished = {} /\ phase' = "ended" /\ UNCHANGED <<index, dropped>>
  /\ UNCHANGED <<others, faults, runs, targets, known, todo, item, have, failed, disturbed>>

\* The run's report is kept and the coverage is taken again.
RunEnds ==
  /\ phase = "ended"
  /\ phase' = "idle"
  /\ UNCHANGED <<others, index, faults, runs, targets, known, todo, item, have, failed, disturbed,
                 dropped>>

-----------------------------------------------------------------------------
SearchInit ==
  /\ archive \in [Meeting -> {Absent, [attempt |-> 1, marked |-> FALSE, checksum |-> FALSE]}]
  /\ bundle = [m \in Meeting |-> archive[m].attempt]
  /\ index = [m \in Meeting |-> Unindexed]
  /\ attempts = 1
  /\ publish = [m \in Meeting |-> "idle"]
  /\ runs = 0 /\ faults = 0
  /\ phase = "idle" /\ targets = {} /\ known = index /\ todo = {}
  /\ item = CHOOSE m \in Meeting : TRUE
  /\ have = Nothing /\ failed = {}
  /\ disturbed = FALSE /\ dropped = FALSE

Archive(m) ==
  \/ DeliverMeeting(m) \/ indexPublishedMeeting(m) \/ promotePublishedPair(m)
  \/ MarkRecording(m) \/ DeleteRecording(m)

Backfill ==
  \/ startSearchBackfill \/ backfillOneMeeting \/ archiveDeliveredState \/ indexFromLocalBundle
  \/ readBundleTranscript \/ indexFromArchive \/ WriteRows \/ TargetsLooked
  \/ forgetVanishedMeetings \/ RunEnds

SearchNext == (\E m \in Meeting : Archive(m)) \/ Backfill \/ RestartSearch

SearchSpec == SearchInit /\ [][SearchNext]_searchVars

-----------------------------------------------------------------------------
(* Properties.                                                             *)

\* A backfill nothing interfered with leaves an index that says of every
\* meeting what the archive holds now: its own words under its own digest, or
\* that it has none, and nothing of a meeting that is gone, whatever the index
\* and current/ held before (lost ingests, failed promotions, marks, bundles
\* of other attempts). What it could not read is left as it was.
BackfillConverges ==
  phase = "ended" /\ ~disturbed =>
    \A m \in Meeting \ failed :
      IF Holds(m)
      THEN \/ /\ index[m].state = "indexed"
              /\ index[m].digest = Digest(archive[m]) /\ index[m].words = archive[m].attempt
           \/ index[m].state = "unavailable" /\ archive[m].attempt \in Silent
      ELSE index[m].state = "none"

\* A backfill drops rows only of meetings the archive no longer holds
\* (forgetVanishedMeetings). What the code does refutes it: a meeting that is
\* published and indexed after the run listed the archive is dropped as well.
ForgetsOnlyVanished == ~dropped

=============================================================================
