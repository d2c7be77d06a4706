--------------------------- MODULE SignalingClient ---------------------------
(***************************************************************************)
(* The recorder's signaling websocket: concurrent requests, the receiver   *)
(* goroutine that reads, resumes a lost session on a new connection or     *)
(* reports that it cannot, and Close. Connections are numbered as dialled. *)
(***************************************************************************)
EXTENDS Naturals, FiniteSets

CONSTANTS
  Request,         \* goroutines calling Request
  ResumeAttempts,  \* resumeAttempts
  EventCap,        \* capacity of the events channel
  MaxDials         \* bound: connections dialled

VARIABLES
  conn,       \* c.conn; 0 is nil
  connReady,  \* whether c.connReady is closed
  sockets,    \* connections that are open on this side
  broken,     \* connections the network lost
  dials,      \* connections dialled so far
  clientClosed,  \* c.closed
  doneClosed,    \* c.done is closed
  closePc,    \* control point of Close
  recvPc,     \* control point of the receiver
  recvConn,   \* the connection it reads or is trying
  attempt,    \* resumption attempts left
  resumeID,   \* a resume id was learnt
  events,     \* messages in the events channel
  reported,   \* _connection_error was put there
  panicked,   \* a closed channel was closed again
  reqPc,      \* control point of each request
  reqConn,    \* the connection it last tried
  pending,    \* requests registered in c.pending
  replies     \* replies put in each request's channel

clientVars == <<conn, connReady, sockets, broken, dials, clientClosed, doneClosed, closePc,
                recvPc, recvConn, attempt, resumeID, events, reported, panicked,
                reqPc, reqConn, pending, replies>>

link  == <<conn, connReady, sockets, dials>>
ends  == <<clientClosed, doneClosed, closePc>>
recv  == <<recvPc, recvConn, attempt, resumeID>>
queue == <<events, reported>>
reqs  == <<reqPc, reqConn, pending, replies>>

-----------------------------------------------------------------------------
(* The network and the events' consumer.                                   *)

ConnectionLost ==
  /\ conn # 0 /\ conn \notin broken
  /\ broken' = broken \cup {conn}
  /\ UNCHANGED <<link, ends, recv, queue, panicked, reqs>>

NextEvent ==
  /\ events > 0 /\ ~doneClosed
  /\ events' = events - 1
  /\ UNCHANGED <<link, broken, ends, recv, reported, panicked, reqs>>

-----------------------------------------------------------------------------
(* The receiver.                                                           *)

Connect ==
  /\ recvPc = "start" /\ closePc = "open"
  /\ dials' = dials + 1 /\ conn' = dials + 1 /\ sockets' = sockets \cup {dials + 1}
  /\ connReady' = TRUE
  /\ recvPc' = "reading" /\ recvConn' = dials + 1
  /\ UNCHANGED <<broken, ends, attempt, resumeID, queue, panicked, reqs>>

\* readLoop got a message: a hello, which carries the resume id; the reply to a
\* registered request, whose caller may have given up; or an event, for which
\* there must be room.
ReceiveHello ==
  /\ recvPc = "reading" /\ recvConn \notin broken /\ recvConn \in sockets /\ ~resumeID
  /\ resumeID' = TRUE
  /\ UNCHANGED <<link, broken, ends, recvPc, recvConn, attempt, queue, panicked, reqs>>

dispatchReply(r) ==
  /\ recvPc = "reading" /\ recvConn \notin broken /\ recvConn \in sockets
  /\ r \in pending /\ reqPc[r] \in {"sent", "failed"}
  /\ pending' = pending \ {r}
  /\ replies' = [replies EXCEPT ![r] = @ + 1]
  /\ UNCHANGED <<link, broken, ends, recv, queue, panicked, reqPc, reqConn>>

dispatchEvent ==
  /\ recvPc = "reading" /\ recvConn \notin broken /\ recvConn \in sockets
  /\ \/ events < EventCap /\ events' = events + 1 /\ UNCHANGED recvPc
     \/ doneClosed /\ recvPc' = "unrecoverable" /\ UNCHANGED events
  /\ UNCHANGED <<link, broken, ends, recvConn, attempt, resumeID, reported, panicked, reqs>>

ReadFails ==
  /\ recvPc = "reading" /\ (recvConn \in broken \/ recvConn \notin sockets)
  /\ recvPc' = "lost"
  /\ UNCHANGED <<link, broken, ends, recvConn, attempt, resumeID, queue, panicked, reqs>>

UndecodableMessage ==
  /\ recvPc = "reading" /\ recvConn \notin broken /\ recvConn \in sockets
  /\ recvPc' = "unrecoverable"
  /\ UNCHANGED <<link, broken, ends, recvConn, attempt, resumeID, queue, panicked, reqs>>

\* readLoop returned: stop if the client is closed, report, or resume.
ReadLoopReturned ==
  /\ recvPc \in {"lost", "unrecoverable"}
  /\ recvPc' = IF clientClosed THEN "ended"
               ELSE IF recvPc = "lost" THEN "clearing" ELSE "reporting"
  /\ UNCHANGED <<link, broken, ends, recvConn, attempt, resumeID, queue, panicked, reqs>>

\* The old connection is dropped before anything else, so that writers wait
\* for the next one; without a resume id the loss is final.
clearConn ==
  /\ recvPc = "clearing"
  /\ conn' = IF conn = recvConn THEN 0 ELSE conn
  /\ connReady' = (connReady /\ conn # recvConn)
  /\ sockets' = sockets \ {recvConn}
  /\ recvPc' = IF resumeID THEN "dialling" ELSE "reporting"
  /\ attempt' = ResumeAttempts
  /\ UNCHANGED <<broken, dials, ends, recvConn, resumeID, queue, panicked, reqs>>

\* An attempt failed: back off and try again, give up on the last, or stop
\* because the client was closed meanwhile.
NextAttempt ==
  /\ attempt' = attempt - 1
  /\ recvPc' \in IF attempt = 1 THEN {"reporting"}
                 ELSE {"dialling"} \cup {s \in {"ended"} : doneClosed}

redial ==
  /\ recvPc = "dialling"
  /\ \/ /\ dials < MaxDials
        /\ dials' = dials + 1 /\ sockets' = sockets \cup {dials + 1}
        /\ recvConn' = dials + 1 /\ recvPc' = "greeting"
        /\ UNCHANGED attempt
     \/ NextAttempt /\ UNCHANGED <<dials, sockets, recvConn>>
  /\ UNCHANGED <<conn, connReady, broken, ends, resumeID, queue, panicked, reqs>>

\* The server resumes the session, refuses it for good, or the exchange fails.
resumeHello ==
  /\ recvPc = "greeting"
  /\ \/ recvPc' = "installing" /\ UNCHANGED <<sockets, attempt>>
     \/ sockets' = sockets \ {recvConn} /\ NextAttempt
     \/ sockets' = sockets \ {recvConn} /\ recvPc' = "reporting" /\ UNCHANGED attempt
  /\ UNCHANGED <<conn, connReady, broken, dials, ends, recvConn, resumeID, queue, panicked, reqs>>

\* Mutant of installConn: a closed client is not noticed.
InstallUnchecked ==
  /\ recvPc = "installing"
  /\ conn' = recvConn /\ connReady' = TRUE /\ panicked' = (panicked \/ connReady)
  /\ recvPc' = "reading" /\ UNCHANGED sockets
  /\ UNCHANGED <<broken, dials, ends, recvConn, attempt, resumeID, queue, reqs>>

\* Under connMu: publish the connection and wake the writers, unless closed.
installConn ==
  /\ recvPc = "installing"
  /\ \/ /\ doneClosed
        /\ sockets' = sockets \ {recvConn} /\ recvPc' = "ended"
        /\ UNCHANGED <<conn, connReady, panicked>>
     \/ /\ ~doneClosed
        /\ conn' = recvConn /\ connReady' = TRUE /\ panicked' = (panicked \/ connReady)
        /\ recvPc' = "reading" /\ UNCHANGED sockets
  /\ UNCHANGED <<broken, dials, ends, recvConn, attempt, resumeID, queue, reqs>>

emitConnectionError ==
  /\ recvPc = "reporting"
  /\ \/ doneClosed /\ UNCHANGED queue
     \/ events < EventCap /\ events' = events + 1 /\ reported' = TRUE
  /\ recvPc' = "ended"
  /\ UNCHANGED <<link, broken, ends, recvConn, attempt, resumeID, panicked, reqs>>

-----------------------------------------------------------------------------
(* Requests.                                                               *)

RequestRegisters(r) ==
  /\ reqPc[r] = "new" /\ recvPc # "start"
  /\ \/ clientClosed /\ reqPc' = [reqPc EXCEPT ![r] = "failed"] /\ UNCHANGED pending
     \/ ~clientClosed /\ reqPc' = [reqPc EXCEPT ![r] = "writing"] /\ pending' = pending \cup {r}
  /\ UNCHANGED <<link, broken, ends, recv, queue, panicked, reqConn, replies>>

\* writeJSON: use the connection there is, or wait for the next one, for Close
\* or for the write's deadline.
writeJSON(r) ==
  /\ reqPc[r] = "writing"
  /\ \/ /\ conn # 0
        /\ reqConn' = [reqConn EXCEPT ![r] = conn]
        /\ \E outcome \in {"sent", "broke"} : reqPc' = [reqPc EXCEPT ![r] = outcome]
        /\ UNCHANGED pending
     \/ /\ conn = 0
        /\ reqPc' = [reqPc EXCEPT ![r] = "failed"] /\ pending' = pending \ {r}
        /\ UNCHANGED reqConn
  /\ UNCHANGED <<link, broken, ends, recv, queue, panicked, replies>>

\* The write failed: retry it if the connection was replaced meanwhile.
WriteFailed(r) ==
  /\ reqPc[r] = "broke"
  /\ \/ conn # reqConn[r] /\ reqPc' = [reqPc EXCEPT ![r] = "writing"] /\ UNCHANGED pending
     \/ conn = reqConn[r] /\ reqPc' = [reqPc EXCEPT ![r] = "failed"] /\ pending' = pending \ {r}
  /\ UNCHANGED <<link, broken, ends, recv, queue, panicked, reqConn, replies>>

\* The reply, the client's end, the caller's or the timeout, whichever comes
\* first.  Only the timeout takes the request back.
RequestReturns(r) ==
  /\ reqPc[r] = "sent"
  /\ \/ replies[r] > 0 /\ reqPc' = [reqPc EXCEPT ![r] = "returned"] /\ UNCHANGED pending
     \/ reqPc' = [reqPc EXCEPT ![r] = "failed"]
        /\ pending' \in {pending, pending \ {r}}
  /\ UNCHANGED <<link, broken, ends, recv, queue, panicked, reqConn, replies>>

-----------------------------------------------------------------------------
(* Close.                                                                  *)

\* Every registered request gets an error, and none can register any more.
CloseFails ==
  /\ closePc = "open"
  /\ clientClosed' = TRUE
  /\ replies' = [r \in Request |-> IF r \in pending THEN replies[r] + 1 ELSE replies[r]]
  /\ pending' = {}
  /\ closePc' = "failed"
  /\ UNCHANGED <<link, broken, doneClosed, recv, queue, panicked, reqPc, reqConn>>

CloseDone ==
  /\ closePc = "failed"
  /\ doneClosed' = TRUE /\ closePc' = "done"
  /\ UNCHANGED <<link, broken, clientClosed, recv, queue, panicked, reqs>>

CloseConn ==
  /\ closePc = "done"
  /\ conn' = 0 /\ sockets' = sockets \ {conn}
  /\ closePc' = "returned"
  /\ UNCHANGED <<connReady, broken, dials, clientClosed, doneClosed, recv, queue, panicked, reqs>>

-----------------------------------------------------------------------------
ClientInit ==
  /\ conn = 0 /\ connReady = FALSE /\ sockets = {} /\ broken = {} /\ dials = 0
  /\ clientClosed = FALSE /\ doneClosed = FALSE /\ closePc = "open"
  /\ recvPc = "start" /\ recvConn = 0 /\ attempt = 0 /\ resumeID = FALSE
  /\ events = 0 /\ reported = FALSE /\ panicked = FALSE
  /\ reqPc = [r \in Request |-> "new"] /\ reqConn = [r \in Request |-> 0]
  /\ pending = {} /\ replies = [r \in Request |-> 0]

Receiver ==
  \/ ReadFails \/ ReadLoopReturned \/ clearConn \/ redial \/ resumeHello \/ installConn
  \/ emitConnectionError

ClientNext ==
  \/ ConnectionLost \/ NextEvent
  \/ Connect \/ ReceiveHello \/ dispatchEvent \/ UndecodableMessage \/ Receiver
  \/ \E r \in Request :
       \/ dispatchReply(r)
       \/ RequestRegisters(r) \/ writeJSON(r) \/ WriteFailed(r) \/ RequestReturns(r)
  \/ CloseFails \/ CloseDone \/ CloseConn

ClientSpec == ClientInit /\ [][ClientNext]_clientVars

-----------------------------------------------------------------------------
(* Properties.                                                             *)

\* A receiver never dies silently: when it is over, the client was closed or
\* the recorder was told that the connection is gone.
LossIsReported == recvPc = "ended" => clientClosed \/ reported

\* Resumption and Close never fight over the connection: connReady is closed
\* once per connection (closing it twice would crash the recorder), after Close
\* has returned and the receiver is over no socket is left open, and a
\* request's one-slot channel gets at most one reply, so that neither blocks on
\* it while it holds the client's lock.
CloseAndResumeAgree ==
  /\ ~panicked
  /\ closePc = "returned" /\ recvPc = "ended" => sockets = {} /\ conn = 0
  /\ \A r \in Request : replies[r] <= 1

\* The recorder and its callers can account for the connection.
ConnectionIsAccounted == LossIsReported /\ CloseAndResumeAgree
=============================================================================
