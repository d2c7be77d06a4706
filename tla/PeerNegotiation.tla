--------------------------- MODULE PeerNegotiation ---------------------------
(***************************************************************************)
(* One subscriber peer of the recorder: offers handled by the event loop,  *)
(* local ICE signals queued by pion's callbacks, answers retransmitted by  *)
(* the reconcile loop. Network writes are made with the peer's lock        *)
(* released, so each of the three may run between another one's write and  *)
(* what it does with the outcome. Negotiations are numbered in the order   *)
(* their offers arrive; the code tells them apart by SID only.             *)
(***************************************************************************)
EXTENDS Naturals, Sequences, FiniteSets

CONSTANTS
  MaxOffers,       \* bound: offers received
  MaxCandidates,   \* bound: candidates pion gathers for one offer
  MaxRetransmits,  \* maxAnswerRetransmits
  FreshSids        \* whether every offer carries a SID of its own

\* What is assumed of the constants.
ASSUME PeerAssumption ==
  /\ MaxOffers \in Nat /\ MaxCandidates \in Nat /\ MaxRetransmits \in Nat
  /\ FreshSids \in BOOLEAN

VARIABLES
  neg,            \* the latest negotiation begun; 0 before the first offer
  sidOf,          \* the SID of each negotiation begun
  answerSent,     \* the gate of the local ICE signals
  offerReceived,
  pendingAnswer,  \* negotiation whose failed answer is kept; 0 none
  retransmits,    \* answerRetransmits
  eocSent,        \* endOfCandidatesSent
  gathered,       \* candidates gathered since the latest offer
  signals,        \* pendingLocalICESignals: <<kind, negotiation>>
  flushing,       \* localICEFlushing
  held,           \* the signal a draining goroutine took out and is writing
  drainers,       \* goroutines inside flushLocalICESignals
  offerPc,        \* control point of the offer handler
  retryPc,        \* control point of retryPendingAnswer
  retryOf,        \* the negotiation whose answer it took
  wire            \* what was written to the signaling server, in order

peerVars == <<neg, sidOf, answerSent, offerReceived, pendingAnswer, retransmits, eocSent, gathered,
              signals, flushing, held, drainers, offerPc, retryPc, retryOf, wire>>

Goroutines == {"loop", "reconcile", "ice"}
NoSignal   == <<"none", 0>>
sid        == sidOf[neg]  \* currentSID

Free(g) == g \notin drainers

-----------------------------------------------------------------------------
(* Local ICE signals.                                                      *)

\* The caller leaves the critical section as the one drainer, or not.
StartFlush(g, start) ==
  /\ flushing' = (flushing \/ start)
  /\ drainers' = IF start THEN drainers \cup {g} ELSE drainers

enqueueLocalICESignalLocked(kind) ==
  /\ signals' = Append(signals, <<kind, neg>>)
  /\ StartFlush("ice", answerSent /\ ~flushing)

\* pion gathered a candidate; it gathers for an offer, until it says so.
sendLocalICESignal ==
  /\ Free("ice") /\ neg > 0 /\ ~eocSent /\ gathered < MaxCandidates
  /\ gathered' = gathered + 1
  /\ enqueueLocalICESignalLocked("candidate")
  /\ UNCHANGED <<neg, sidOf, answerSent, offerReceived, pendingAnswer, retransmits, eocSent,
                 held, offerPc, retryPc, retryOf, wire>>

sendEndOfCandidates ==
  /\ Free("ice") /\ neg > 0 /\ ~eocSent
  /\ eocSent' = TRUE
  /\ enqueueLocalICESignalLocked("endOfCandidates")
  /\ UNCHANGED <<neg, sidOf, answerSent, offerReceived, pendingAnswer, retransmits, gathered,
                 held, offerPc, retryPc, retryOf, wire>>

\* One turn of flushLocalICESignals under the lock: take a signal, or leave.
FlushTakes(g) ==
  /\ g \in drainers /\ held[g] = NoSignal
  /\ \/ /\ ~answerSent \/ signals = <<>>
        /\ flushing' = FALSE /\ drainers' = drainers \ {g}
        /\ UNCHANGED <<signals, held>>
     \/ /\ answerSent /\ signals # <<>>
        /\ held' = [held EXCEPT ![g] = Head(signals)] /\ signals' = Tail(signals)
        /\ UNCHANGED <<flushing, drainers>>
  /\ UNCHANGED <<neg, sidOf, answerSent, offerReceived, pendingAnswer, retransmits, eocSent, gathered,
                 offerPc, retryPc, retryOf, wire>>

\* Its write; a failure is logged and the signal is gone.
FlushWrites(g) ==
  /\ held[g] # NoSignal
  /\ wire' \in {wire, Append(wire, held[g])}
  /\ held' = [held EXCEPT ![g] = NoSignal]
  /\ UNCHANGED <<neg, sidOf, answerSent, offerReceived, pendingAnswer, retransmits, eocSent, gathered,
                 signals, flushing, drainers, offerPc, retryPc, retryOf>>

-----------------------------------------------------------------------------
(* Offers.                                                                 *)

beginNegotiation(s) ==
  /\ neg' = neg + 1 /\ sidOf' = [sidOf EXCEPT ![neg + 1] = s]
  /\ eocSent' = FALSE /\ gathered' = 0 /\ answerSent' = FALSE /\ signals' = <<>>
  /\ pendingAnswer' = 0 /\ retransmits' = 0

\* handleMessage(offer) up to the answer's write. The descriptions may be
\* refused, which ends the handler with an error.
handleOffer(s) ==
  /\ offerPc = "idle" /\ Free("loop") /\ neg < MaxOffers
  /\ beginNegotiation(s)
  /\ offerPc' \in {"idle", "answering"}
  /\ UNCHANGED <<offerReceived, flushing, held, drainers, retryPc, retryOf, wire>>

AnswerWritten ==
  /\ offerPc = "answering"
  /\ \/ offerPc' = "sent"   /\ wire' = Append(wire, <<"answer", neg>>)
     \/ offerPc' = "failed" /\ UNCHANGED wire
  /\ UNCHANGED <<neg, sidOf, answerSent, offerReceived, pendingAnswer, retransmits, eocSent, gathered,
                 signals, flushing, held, drainers, retryPc, retryOf>>

markAnswerSentLocked(g) ==
  /\ answerSent' = TRUE /\ offerReceived' = TRUE
  /\ pendingAnswer' = 0 /\ retransmits' = 0
  /\ StartFlush(g, signals # <<>> /\ ~flushing)

markAnswerSent ==
  /\ offerPc = "sent"
  /\ markAnswerSentLocked("loop")
  /\ offerPc' = "idle"
  /\ UNCHANGED <<neg, sidOf, eocSent, gathered, signals, held, retryPc, retryOf, wire>>

\* Offers are handled one at a time, so the handler's SID is the current one.
recordPendingAnswer ==
  /\ offerPc = "failed"
  /\ pendingAnswer' = neg /\ retransmits' = 0
  /\ offerPc' = "idle"
  /\ UNCHANGED <<neg, sidOf, answerSent, offerReceived, eocSent, gathered, signals, flushing, held,
                 drainers, retryPc, retryOf, wire>>

-----------------------------------------------------------------------------
(* The reconcile loop's retransmission.                                    *)

reconcileShouldRetryAnswer == offerReceived /\ pendingAnswer # 0 /\ retransmits < MaxRetransmits

takePendingAnswerForRetry ==
  /\ retryPc = "idle" /\ Free("reconcile")
  /\ reconcileShouldRetryAnswer /\ sidOf[pendingAnswer] = sid
  /\ retryPc' = "writing" /\ retryOf' = pendingAnswer
  /\ UNCHANGED <<neg, sidOf, answerSent, offerReceived, pendingAnswer, retransmits, eocSent, gathered,
                 signals, flushing, held, drainers, offerPc, wire>>

\* The write fails for want of a connection, which does not count, or otherwise.
RetryWritten ==
  /\ retryPc = "writing"
  /\ \/ retryPc' = "sent" /\ wire' = Append(wire, <<"answer", retryOf>>)
     \/ retryPc' \in {"failed", "unconnected"} /\ UNCHANGED wire
  /\ UNCHANGED <<neg, sidOf, answerSent, offerReceived, pendingAnswer, retransmits, eocSent, gathered,
                 signals, flushing, held, drainers, offerPc, retryOf>>

\* Mutant of StillPending: the outcome is applied whatever happened meanwhile.
StillPendingUnchecked == TRUE

StillPending == pendingAnswer # 0 /\ sidOf[pendingAnswer] = sidOf[retryOf] /\ sid = sidOf[retryOf]

completeAnswerRetransmit ==
  /\ retryPc \in {"sent", "failed", "unconnected"}
  /\ \/ /\ StillPending /\ retryPc = "sent"
        /\ markAnswerSentLocked("reconcile")
     \/ /\ StillPending /\ retryPc = "failed"
        /\ retransmits' = retransmits + 1
        /\ UNCHANGED <<answerSent, offerReceived, pendingAnswer, flushing, drainers>>
     \/ /\ ~StillPending \/ retryPc = "unconnected"
        /\ UNCHANGED <<answerSent, offerReceived, pendingAnswer, retransmits, flushing, drainers>>
  /\ retryPc' = "idle"
  /\ UNCHANGED <<neg, sidOf, eocSent, gathered, signals, held, offerPc, retryOf, wire>>

-----------------------------------------------------------------------------
PeerInit ==
  /\ neg = 0 /\ sidOf = [k \in 0..MaxOffers |-> 0]
  /\ answerSent = FALSE /\ offerReceived = FALSE
  /\ pendingAnswer = 0 /\ retransmits = 0 /\ eocSent = FALSE /\ gathered = 0
  /\ signals = <<>> /\ flushing = FALSE
  /\ held = [g \in Goroutines |-> NoSignal] /\ drainers = {}
  /\ offerPc = "idle" /\ retryPc = "idle" /\ retryOf = 0 /\ wire = <<>>

PeerNext ==
  \/ sendLocalICESignal \/ sendEndOfCandidates
  \/ \E g \in Goroutines : FlushTakes(g) \/ FlushWrites(g)
  \/ \E s \in IF FreshSids THEN {neg + 1} ELSE {neg + 1, sid} : handleOffer(s)
  \/ AnswerWritten \/ markAnswerSent \/ recordPendingAnswer
  \/ takePendingAnswerForRetry \/ RetryWritten \/ completeAnswerRetransmit

PeerSpec == PeerInit /\ [][PeerNext]_peerVars

-----------------------------------------------------------------------------
(* Properties.                                                             *)

\* "the gate can only ever open for the negotiation we just answered"
\* (completeAnswerRetransmit): when local ICE signals may flow, an answer of
\* the current negotiation is on the wire, and every signal written so far
\* came after an answer of its own negotiation.
GateFollowsAnswer ==
  LET Answered(k, n) == \E i \in 1..n : wire[i] = <<"answer", k>> IN
  /\ answerSent => Answered(neg, Len(wire))
  /\ \A i \in 1..Len(wire) : wire[i][1] # "answer" => Answered(wire[i][2], i - 1)

\* Nothing of a negotiation is written after its endOfCandidates.
SignalsInOrder ==
  \A i, j \in 1..Len(wire) :
    i < j /\ wire[i][1] = "endOfCandidates" /\ wire[j][1] # "answer" => wire[j][2] # wire[i][2]

\* Local ICE signals are drained by one goroutine: a signal behind an open gate
\* has somebody draining the queue (no lost wake-up), never two, and so they
\* leave in the order they were gathered.
OpenGateIsDrained ==
  /\ answerSent /\ signals # <<>> => drainers # {}
  /\ Cardinality(drainers) <= 1 /\ (flushing <=> drainers # {})
  /\ SignalsInOrder

\* Local ICE signals follow an answer of their negotiation, and are drained
\* once, in order, none stranded.
SignalsFollowAnswer == GateFollowsAnswer /\ OpenGateIsDrained
=============================================================================
