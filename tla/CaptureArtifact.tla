--------------------------- MODULE CaptureArtifact ---------------------------
(***************************************************************************)
(* The session artifact of a recording: one packet log per stream, written *)
(* by the RTP reader of a track and by its RTCP reader, rotated when the   *)
(* track changes, and closed as a whole by the cleanup. The artifact's     *)
(* lock is not held during a write, an index or a session save.            *)
(***************************************************************************)
EXTENDS Naturals, Sequences, FiniteSets

CONSTANTS
  Track,       \* tracks with a reader
  MaxStreams,  \* bound: streams opened
  MaxRecords   \* bound: records per stream

ASSUME ArtifactAssumption == MaxStreams \in Nat /\ MaxRecords \in Nat

VARIABLES
  used,        \* streamSeq
  listed,      \* a.streams, and the streams of session.json
  closedFlag,  \* stream.closed
  writerOpen,  \* the stream's writer accepts records
  lastRecv,    \* lastRecvNS
  log,         \* receive times of the records written
  index,       \* how many records the index covers, <<n>>; NoIndex before it is built
  current,     \* streamCaptureID of each track; 0 none
  pc,          \* control point of each reader, <<track, kind>>
  job,         \* <<stream, receive time>> it works on
  transport,   \* the peer connections are open
  artifactClosed,
  captureErr,  \* firstCaptureErr is set
  lost,        \* media was lost to a failed open, write or close
  timedOut,    \* the join of the readers was given up
  cleanPc,     \* control point of the cleanup
  toClose,     \* streams close has still to visit
  result       \* what close returned

artVars == <<used, listed, closedFlag, writerOpen, lastRecv, log, index, current, pc, job, transport,
             artifactClosed, captureErr, lost, timedOut, cleanPc, toClose, result>>

Streams == 1..MaxStreams
Readers == Track \X {"rtp", "rtcp"}
rtp(t) == <<t, "rtp">>
NoIndex == <<>>
files   == <<used, listed, closedFlag, writerOpen, lastRecv, log, index>>
clean   == <<transport, artifactClosed, timedOut, cleanPc, toClose, result>>

noteCaptureFailure == captureErr' = TRUE /\ lost' = TRUE

-----------------------------------------------------------------------------
(* Streams.                                                                *)

\* openStream under the lock: refused once the artifact is closed.
openStream(t) ==
  /\ pc[rtp(t)] = "reading" /\ current[t] = 0 /\ used < MaxStreams /\ ~artifactClosed
  /\ used' = used + 1
  /\ \/ /\ listed' = listed \cup {used + 1}
        /\ writerOpen' = writerOpen \cup {used + 1}
        /\ pc' = [pc EXCEPT ![rtp(t)] = "opening"]
        /\ job' = [job EXCEPT ![rtp(t)] = <<used + 1, 0>>]
        /\ UNCHANGED <<captureErr, lost>>
     \/ noteCaptureFailure /\ UNCHANGED <<listed, writerOpen, pc, job>>
  /\ UNCHANGED <<closedFlag, lastRecv, log, index, current, clean>>

\* Its event and the session file are saved, or the stream is taken back.
OpenSaved(t) ==
  LET k == job[rtp(t)][1] IN
  /\ pc[rtp(t)] = "opening"
  /\ \/ current' = [current EXCEPT ![t] = k] /\ UNCHANGED <<listed, writerOpen, captureErr, lost>>
     \/ /\ listed' = listed \ {k} /\ writerOpen' = writerOpen \ {k}
        /\ noteCaptureFailure /\ UNCHANGED current
  /\ pc' = [pc EXCEPT ![rtp(t)] = "reading"]
  /\ UNCHANGED <<used, closedFlag, lastRecv, log, index, job, clean>>

\* clampMonoNS: later than every time handed out for the stream.
clampMonoNS(k) == lastRecv[k] + 1

\* writeRTP and writeRTCP up to the write: the stream is looked up and the
\* record gets its receive time under the lock.
WriteStarts(r) ==
  LET k == current[r[1]] IN
  /\ pc[r] = "reading" /\ k # 0
  /\ k \in listed /\ k \notin closedFlag /\ lastRecv[k] < MaxRecords
  /\ lastRecv' = [lastRecv EXCEPT ![k] = clampMonoNS(k)]
  /\ job' = [job EXCEPT ![r] = <<k, clampMonoNS(k)>>]
  /\ pc' = [pc EXCEPT ![r] = "writing"]
  /\ UNCHANGED <<used, listed, closedFlag, writerOpen, log, index, current, captureErr, lost, clean>>

\* A failed write counts as lost media unless the stream was closed meanwhile.
WriteEnds(r) ==
  LET k == job[r][1] IN
  /\ pc[r] = "writing"
  /\ \/ /\ k \in writerOpen
        /\ log' = [log EXCEPT ![k] = Append(@, job[r][2])]
        /\ UNCHANGED <<captureErr, lost>>
     \/ k \in writerOpen /\ k \notin closedFlag /\ noteCaptureFailure /\ UNCHANGED log
     \/ (k \notin writerOpen \/ k \in closedFlag) /\ UNCHANGED <<log, captureErr, lost>>
  /\ pc' = [pc EXCEPT ![r] = "reading"]
  /\ UNCHANGED <<used, listed, closedFlag, writerOpen, lastRecv, index, current, job, clean>>

\* Mutant of FinishStream: the index is built before the writer is closed.
IndexThenClose(k) ==
  /\ index' = [index EXCEPT ![k] = <<Len(log[k])>>]
  /\ UNCHANGED <<writerOpen, captureErr, lost>>

\* closeStream after its critical section: close the writer, build the index,
\* log the event. A failure means that the stream cannot be read back.
FinishStream(k) ==
  /\ writerOpen' = writerOpen \ {k}
  /\ \/ index' = [index EXCEPT ![k] = <<Len(log[k])>>] /\ UNCHANGED <<captureErr, lost>>
     \/ noteCaptureFailure /\ UNCHANGED index

\* The SSRC or the payload type changed, or the track ended: close the track's
\* stream, unless somebody else closed it.
LeaveStream(t) ==
  /\ pc[rtp(t)] = "reading" /\ current[t] # 0
  /\ closedFlag' = closedFlag \cup {current[t]}
  /\ \/ current[t] \in closedFlag /\ current' = [current EXCEPT ![t] = 0] /\ UNCHANGED <<pc, job>>
     \/ /\ current[t] \notin closedFlag
        /\ pc' = [pc EXCEPT ![rtp(t)] = "finishing"]
        /\ job' = [job EXCEPT ![rtp(t)] = <<current[t], 0>>]
        /\ UNCHANGED current
  /\ UNCHANGED <<used, listed, writerOpen, lastRecv, log, index, captureErr, lost, clean>>

LeaveFinishes(t) ==
  /\ pc[rtp(t)] = "finishing"
  /\ FinishStream(job[rtp(t)][1])
  /\ current' = [current EXCEPT ![t] = 0]
  /\ pc' = [pc EXCEPT ![rtp(t)] = "reading"]
  /\ UNCHANGED <<used, listed, closedFlag, lastRecv, log, job, clean>>

\* A read error ends the reader; the RTP reader leaves its stream first.
ReaderEnds(r) ==
  /\ pc[r] = "reading"
  /\ r[2] = "rtp" => current[r[1]] = 0
  /\ pc' = [pc EXCEPT ![r] = "ended"]
  /\ UNCHANGED <<files, current, job, captureErr, lost, clean>>

-----------------------------------------------------------------------------
(* The cleanup.                                                            *)

PeersClosed ==
  /\ transport
  /\ transport' = FALSE
  /\ UNCHANGED <<files, current, pc, job, captureErr, lost, artifactClosed, timedOut, cleanPc, toClose, result>>

TrackReadersJoined ==
  /\ ~transport /\ cleanPc = "running"
  /\ \/ (\A r \in Readers : pc[r] = "ended") /\ UNCHANGED timedOut
     \/ timedOut' = TRUE
  /\ cleanPc' = "joined"
  /\ UNCHANGED <<files, current, pc, job, captureErr, lost, transport, artifactClosed, toClose, result>>

closeBegins ==
  /\ cleanPc = "joined"
  /\ artifactClosed' = TRUE /\ toClose' = listed
  /\ cleanPc' = "closing"
  /\ UNCHANGED <<files, current, pc, job, captureErr, lost, transport, timedOut, result>>

\* close visits a stream: whoever set the flag first finishes it.
CloseVisits(k) ==
  /\ cleanPc = "closing" /\ k \in toClose
  /\ closedFlag' = closedFlag \cup {k}
  /\ \/ /\ k \in closedFlag \/ k \notin listed
        /\ UNCHANGED <<writerOpen, index, captureErr, lost>>
     \/ k \in listed \ closedFlag /\ FinishStream(k)
  /\ toClose' = toClose \ {k}
  /\ UNCHANGED <<used, listed, lastRecv, log, current, pc, job, transport, artifactClosed, timedOut, cleanPc, result>>

\* A recorded loss outranks everything else.
closeReturns ==
  /\ cleanPc = "closing" /\ toClose = {}
  /\ result' = IF captureErr THEN "lost media" ELSE "complete"
  /\ cleanPc' = "closed"
  /\ UNCHANGED <<files, current, pc, job, captureErr, lost, transport, artifactClosed, timedOut, toClose>>

-----------------------------------------------------------------------------
ArtifactInit ==
  /\ used = 0 /\ listed = {} /\ closedFlag = {} /\ writerOpen = {}
  /\ lastRecv = [k \in Streams |-> 0] /\ log = [k \in Streams |-> <<>>]
  /\ index = [k \in Streams |-> NoIndex]
  /\ current = [t \in Track |-> 0]
  /\ pc = [r \in Readers |-> "reading"] /\ job = [r \in Readers |-> <<0, 0>>]
  /\ transport = TRUE /\ artifactClosed = FALSE
  /\ captureErr = FALSE /\ lost = FALSE /\ timedOut = FALSE
  /\ cleanPc = "running" /\ toClose = {} /\ result = "none"

ArtifactNext ==
  \/ \E t \in Track : openStream(t) \/ OpenSaved(t) \/ LeaveStream(t) \/ LeaveFinishes(t)
  \/ \E r \in Readers : WriteStarts(r) \/ WriteEnds(r) \/ ReaderEnds(r)
  \/ PeersClosed \/ TrackReadersJoined \/ closeBegins
  \/ \E k \in Streams : CloseVisits(k)
  \/ closeReturns

ArtifactSpec == ArtifactInit /\ [][ArtifactNext]_artVars

-----------------------------------------------------------------------------
(* Properties.                                                             *)

\* Once a stream is indexed no record reaches its log any more, although
\* writers were handed out before it was closed.
IndexCoversLog == \A k \in Streams : index[k] # NoIndex => index[k] = <<Len(log[k])>>

\* When close returns, every stream of the session is closed and indexed, or
\* its loss is recorded; only a reader the join gave up on may still be
\* finishing one. No stream slips in behind the close.
CloseIsComplete ==
  cleanPc = "closed" =>
    \A k \in listed :
      \/ k \in closedFlag /\ (index[k] # NoIndex \/ captureErr)
      \/ timedOut /\ \E t \in Track : job[rtp(t)][1] = k /\ pc[rtp(t)] = "finishing"

\* The artifact is whole: indexes cover their logs, close leaves no stream
\* behind, and a recording that lost media never ends as complete.
CaptureIsWhole ==
  /\ IndexCoversLog
  /\ CloseIsComplete
  /\ cleanPc = "closed" /\ lost /\ ~timedOut => result = "lost media"

\* "per-stream receive timestamps are clamped to stay strictly monotonic across
\* mixed RTP/RTCP writes" (docs/formats.md): the records of a log are in the
\* order of their receive times.
ReceiveTimesIncrease == \A k \in Streams : \A i \in 1..Len(log[k]) - 1 : log[k][i] < log[k][i + 1]
=============================================================================
