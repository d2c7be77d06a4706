----------------------------- MODULE CallProofs -----------------------------
(***************************************************************************)
(* Proofs about the recorder in a call: what one peer negotiates           *)
(* (PeerNegotiation), the websocket it does it over (SignalingClient), and *)
(* the peers of the whole call (CallRecorder).                             *)
(***************************************************************************)
EXTENDS PeerNegotiation, SignalingClient, CallRecorder, FiniteSetTheorems, TLAPS

-----------------------------------------------------------------------------
(***************************************************************************)
(* PeerNegotiation, for any number of offers, candidates and               *)
(* retransmissions.                                                        *)
(***************************************************************************)

(* Sequences.                                                              *)

\* What appending does to a queue or to the wire.
LEMMA Appending ==
  ASSUME NEW S, NEW s \in Seq(S), NEW e \in S
  PROVE  /\ Append(s, e) \in Seq(S) /\ Len(Append(s, e)) = Len(s) + 1 /\ Len(s) \in Nat
         /\ Append(s, e) # <<>>
         /\ \A i \in 1..Len(s) : Append(s, e)[i] = s[i]
         /\ Append(s, e)[Len(s) + 1] = e
  OBVIOUS

\* A sequence without elements.
LEMMA Nothing == ASSUME NEW S, NEW s \in Seq(S), Len(s) = 0 PROVE s = <<>>
  OBVIOUS

\* What taking the head off a queue leaves.
LEMMA Taking ==
  ASSUME NEW S, NEW s \in Seq(S), s # <<>>
  PROVE  /\ Tail(s) \in Seq(S) /\ Head(s) = s[1] /\ Head(s) \in S
         /\ Len(s) \in Nat /\ Len(s) >= 1 /\ Len(Tail(s)) = Len(s) - 1
         /\ \A i \in 1..Len(Tail(s)) : Tail(s)[i] = s[i + 1] /\ i + 1 \in 1..Len(s)
  OBVIOUS

-----------------------------------------------------------------------------
(* The inductive invariant.                                                *)

Local  == {"candidate", "endOfCandidates"}
Signal == Local \X Nat
Sent   == (Local \cup {"answer"}) \X Nat
Eoc(k) == <<"endOfCandidates", k>>

Types ==
  /\ neg \in 0..MaxOffers
  /\ sidOf \in [0..MaxOffers -> Nat]
  /\ pendingAnswer \in 0..neg /\ retryOf \in 0..neg
  /\ signals \in Seq(Signal)
  /\ held \in [Goroutines -> Signal \cup {NoSignal}]
  /\ drainers \subseteq Goroutines
  /\ wire \in Seq(Sent)

Flags == answerSent \in BOOLEAN /\ flushing \in BOOLEAN /\ eocSent \in BOOLEAN

\* The flag names the one drainer, and only a drainer holds a signal.
OneDrainer ==
  /\ flushing <=> drainers # {}
  /\ \A g, h \in drainers : g = h
  /\ \A g \in Goroutines : held[g] # NoSignal => g \in drainers
  /\ answerSent /\ signals # <<>> => drainers # {}

\* The queue is of the current negotiation, and its last entry is the end.
QueueIsCurrent ==
  \A i \in 1..Len(signals) :
    /\ signals[i][2] = neg
    /\ signals[i][1] = "endOfCandidates" => eocSent /\ i = Len(signals)

\* What is being written still comes before the end of its negotiation.
HeldInOrder ==
  \A g \in Goroutines : held[g] # NoSignal =>
    /\ held[g][2] <= neg
    /\ held[g] = Eoc(neg) => eocSent /\ signals = <<>>
    /\ \A i \in 1..Len(wire) : wire[i] # Eoc(held[g][2])

\* Once the end of the current negotiation is written, nothing of it is left.
WireInOrder ==
  \A i \in 1..Len(wire) :
    /\ wire[i][2] <= neg
    /\ wire[i] = Eoc(neg) => eocSent /\ signals = <<>>

DrainInv ==
  Types /\ Flags /\ OneDrainer /\ QueueIsCurrent /\ HeldInOrder /\ WireInOrder /\ SignalsInOrder

\* The inductive invariant holds at the start.
LEMMA DrainInvInit == ASSUME PeerAssumption PROVE PeerInit => DrainInv
<1>. SUFFICES ASSUME PeerInit PROVE DrainInv
  OBVIOUS
<1>1. Types
  BY PeerAssumption DEF PeerAssumption, PeerInit, Types
<1>3. Flags
  BY DEF PeerInit, Flags
<1>4. OneDrainer
  BY DEF PeerInit, OneDrainer
<1>2. QueueIsCurrent /\ HeldInOrder /\ WireInOrder /\ SignalsInOrder
  BY DEF PeerInit, QueueIsCurrent, HeldInOrder, WireInOrder, SignalsInOrder
<1>. QED
  BY <1>1, <1>2, <1>3, <1>4 DEF DrainInv

\* A signal joins the queue, and finds a drainer or becomes one.
LEMMA EnqueueStep ==
  ASSUME PeerAssumption, DrainInv, sendLocalICESignal \/ sendEndOfCandidates
  PROVE  DrainInv'
<1>. USE DEF DrainInv
<1>1. PICK kind \in Local :
        /\ enqueueLocalICESignalLocked(kind) /\ ~eocSent
        /\ UNCHANGED <<neg, sidOf, answerSent, pendingAnswer, retryOf, held, wire>>
        /\ IF kind = "endOfCandidates" THEN eocSent' = TRUE ELSE eocSent' = eocSent
  BY DEF sendLocalICESignal, sendEndOfCandidates, Local
<1>2. /\ signals' \in Seq(Signal) /\ Len(signals') = Len(signals) + 1 /\ Len(signals) \in Nat
      /\ signals' # <<>>
      /\ \A i \in 1..Len(signals) : signals'[i] = signals[i]
      /\ signals'[Len(signals) + 1] = <<kind, neg>>
  <2>1. <<kind, neg>> \in Signal
    BY DEF Types, Signal, Local
  <2>2. signals' = Append(signals, <<kind, neg>>)
    BY <1>1 DEF enqueueLocalICESignalLocked
  <2>3. signals \in Seq(Signal)
    BY DEF Types
  <2>. QED BY <2>1, <2>2, <2>3, Appending
<1>3. IF answerSent /\ ~flushing THEN flushing' = TRUE /\ drainers' = drainers \cup {"ice"}
                                 ELSE drainers' = drainers /\ flushing' = flushing
  BY <1>1 DEF enqueueLocalICESignalLocked, StartFlush, Flags
<1>4. Types'
  BY <1>1, <1>2, <1>3 DEF Types, Goroutines
<1>5. Flags'
  BY <1>1, <1>3 DEF Flags
<1>6. OneDrainer'
  BY <1>1, <1>2, <1>3 DEF OneDrainer, Flags
<1>7. QueueIsCurrent'
  BY <1>1, <1>2 DEF QueueIsCurrent
<1>8. HeldInOrder'
  BY <1>1 DEF HeldInOrder
<1>9. WireInOrder' /\ SignalsInOrder'
  BY <1>1 DEF WireInOrder, SignalsInOrder
<1>. QED
  BY <1>4, <1>5, <1>6, <1>7, <1>8, <1>9

\* The drainer leaves, or takes the head of the queue.
LEMMA FlushTakesStep ==
  ASSUME PeerAssumption, DrainInv, NEW g \in Goroutines, FlushTakes(g) PROVE DrainInv'
<1>. USE DEF DrainInv
<1>0. g \in drainers /\ held[g] = NoSignal
      /\ UNCHANGED <<neg, sidOf, answerSent, pendingAnswer, eocSent, retryOf, wire>>
  BY DEF FlushTakes
<1>1. CASE flushing' = FALSE /\ drainers' = drainers \ {g} /\ UNCHANGED <<signals, held>>
           /\ (~answerSent \/ signals = <<>>)
  <2>1. drainers' = {}
    BY <1>0, <1>1 DEF OneDrainer
  <2>2. Types' /\ Flags'
    BY <1>0, <1>1 DEF Types, Flags
  <2>3. OneDrainer'
    BY <1>0, <1>1, <2>1 DEF OneDrainer
  <2>4. QueueIsCurrent' /\ HeldInOrder' /\ WireInOrder' /\ SignalsInOrder'
    BY <1>0, <1>1 DEF QueueIsCurrent, HeldInOrder, WireInOrder, SignalsInOrder
  <2>. QED BY <2>2, <2>3, <2>4
<1>2. CASE /\ held' = [held EXCEPT ![g] = Head(signals)] /\ signals' = Tail(signals)
           /\ signals # <<>> /\ UNCHANGED <<flushing, drainers>>
  <2>1. /\ Tail(signals) \in Seq(Signal) /\ Head(signals) = signals[1] /\ Head(signals) \in Signal
        /\ Len(signals) \in Nat /\ Len(signals) >= 1 /\ Len(Tail(signals)) = Len(signals) - 1
        /\ \A i \in 1..Len(Tail(signals)) : Tail(signals)[i] = signals[i + 1] /\ i + 1 \in 1..Len(signals)
    <3>1. signals \in Seq(Signal)
      BY DEF Types
    <3>. QED BY <1>2, <3>1, Taking
  <2>2. Types' /\ Flags'
    BY <1>0, <1>2, <2>1 DEF Types, Flags
  <2>3. OneDrainer'
    BY <1>0, <1>2 DEF OneDrainer, Types
  <2>4. QueueIsCurrent'
    <3>1. \A i \in 1..Len(signals') : signals'[i] = signals[i + 1] /\ i + 1 \in 1..Len(signals)
      BY <1>2, <2>1
    <3>2. Len(signals') = Len(signals) - 1
      BY <1>2, <2>1
    <3>3. \A i \in 1..Len(signals') :
             /\ signals[i + 1][2] = neg
             /\ signals[i + 1][1] = "endOfCandidates" => eocSent /\ i + 1 = Len(signals)
      BY <3>1 DEF QueueIsCurrent
    <3>4. ASSUME NEW i \in 1..Len(signals')
          PROVE  /\ signals'[i][2] = neg'
                 /\ signals'[i][1] = "endOfCandidates" => eocSent' /\ i = Len(signals')
      <4>0. i \in Int /\ Len(signals) \in Nat
        BY <2>1
      <4>1. i + 1 = Len(signals) => i = Len(signals')
        BY <3>2, <4>0
      <4>2. signals'[i] = signals[i + 1]
        BY <3>1
      <4>3. signals[i + 1][1] = "endOfCandidates" => eocSent /\ i + 1 = Len(signals)
        BY <3>3
      <4>. QED BY <1>0, <3>3, <4>1, <4>2, <4>3
    <3>. QED BY <3>4 DEF QueueIsCurrent
  <2>5. Head(signals)[2] = neg /\ (Head(signals) = Eoc(neg) => eocSent /\ Tail(signals) = <<>>)
    <3>1. Head(signals)[2] = neg /\ (Head(signals)[1] = "endOfCandidates" => eocSent /\ Len(signals) = 1)
      <4>1. 1 \in 1..Len(signals)
        BY <2>1
      <4>2. signals[1][2] = neg /\ (signals[1][1] = "endOfCandidates" => eocSent /\ 1 = Len(signals))
        BY <4>1 DEF QueueIsCurrent
      <4>. QED BY <2>1, <4>2
    <3>2. Head(signals) = Eoc(neg) => Head(signals)[1] = "endOfCandidates"
      BY DEF Eoc
    <3>3. Len(Tail(signals)) = 0 => Tail(signals) = <<>>
      BY <2>1, Nothing
    <3>. QED BY <2>1, <3>1, <3>2, <3>3
  <2>6. \A i \in 1..Len(wire) : wire[i] # Eoc(neg)
    BY <1>2 DEF WireInOrder
  <2>7. HeldInOrder'
    <3>. SUFFICES ASSUME NEW h \in Goroutines, held'[h] # NoSignal
                  PROVE  /\ held'[h][2] <= neg
                         /\ held'[h] = Eoc(neg) => eocSent /\ signals' = <<>>
                         /\ \A i \in 1..Len(wire) : wire[i] # Eoc(held'[h][2])
      BY <1>0 DEF HeldInOrder, Eoc
    <3>1. h = g
      BY <1>0, <1>2 DEF OneDrainer, Types
    <3>2. held'[h] = Head(signals)
      BY <1>2, <3>1 DEF Types
    <3>. QED BY <1>2, <2>5, <2>6, <3>2 DEF Types
  <2>8. WireInOrder' /\ SignalsInOrder'
    BY <1>0, <1>2 DEF WireInOrder, SignalsInOrder, Eoc
  <2>. QED BY <2>2, <2>3, <2>4, <2>7, <2>8
<1>. QED
  BY <1>1, <1>2 DEF FlushTakes

\* The drainer writes what it took, or loses it.
LEMMA FlushWritesStep ==
  ASSUME PeerAssumption, DrainInv, NEW g \in Goroutines, FlushWrites(g) PROVE DrainInv'
<1>. USE DEF DrainInv
<1>0. /\ held[g] # NoSignal /\ held[g] \in Signal /\ g \in drainers
      /\ held' = [held EXCEPT ![g] = NoSignal]
      /\ UNCHANGED <<neg, sidOf, answerSent, pendingAnswer, eocSent, signals, flushing, drainers, retryOf>>
  BY DEF FlushWrites, Types, OneDrainer
<1>1. \A h \in Goroutines : held'[h] = NoSignal
  BY <1>0 DEF OneDrainer, Types
<1>2. Flags' /\ QueueIsCurrent'
  BY <1>0 DEF Flags, QueueIsCurrent
<1>3. OneDrainer'
  BY <1>0, <1>1 DEF OneDrainer
<1>4. HeldInOrder'
  BY <1>1 DEF HeldInOrder
<1>5. CASE wire' = wire
  <2>1. Types' /\ WireInOrder' /\ SignalsInOrder'
    BY <1>0, <1>5 DEF Types, WireInOrder, SignalsInOrder, Eoc
  <2>. QED BY <1>2, <1>3, <1>4, <2>1
<1>6. CASE wire' = Append(wire, held[g])
  <2>1. /\ wire' \in Seq(Sent) /\ Len(wire') = Len(wire) + 1 /\ Len(wire) \in Nat
        /\ \A i \in 1..Len(wire) : wire'[i] = wire[i]
        /\ wire'[Len(wire) + 1] = held[g]
    <3>1. wire \in Seq(Sent) /\ held[g] \in Sent
      BY <1>0 DEF Types, Signal, Sent
    <3>. QED BY <1>6, <3>1, Appending
  <2>2. Types'
    BY <1>0, <2>1 DEF Types
  <2>3. WireInOrder'
    BY <1>0, <2>1 DEF WireInOrder, HeldInOrder, Eoc
  <2>4. SignalsInOrder'
    <3>. SUFFICES ASSUME NEW i \in 1..Len(wire'), NEW j \in 1..Len(wire'), i < j,
                         wire'[i][1] = "endOfCandidates", wire'[j][1] # "answer"
                  PROVE  wire'[j][2] # wire'[i][2]
      BY DEF SignalsInOrder
    <3>1. i \in 1..Len(wire) /\ wire'[i] = wire[i] /\ wire[i] \in Sent
      BY <2>1 DEF Types
    <3>2. CASE j \in 1..Len(wire)
      BY <2>1, <3>1, <3>2 DEF SignalsInOrder
    <3>3. CASE j = Len(wire) + 1
      <4>1. wire[i] # Eoc(held[g][2])
        BY <1>0, <3>1 DEF HeldInOrder
      <4>2. wire[i] = <<"endOfCandidates", wire[i][2]>>
        BY <3>1 DEF Sent
      <4>. QED BY <2>1, <3>1, <3>3, <4>1, <4>2 DEF Eoc
    <3>. QED BY <2>1, <3>2, <3>3
  <2>. QED BY <1>2, <1>3, <1>4, <2>2, <2>3, <2>4
<1>. QED
  BY <1>5, <1>6 DEF FlushWrites

\* A new offer empties the queue and shuts the gate.
LEMMA OfferStep ==
  ASSUME PeerAssumption, DrainInv, NEW s \in Nat, handleOffer(s) PROVE DrainInv'
<1>. USE DEF DrainInv
<1>1. /\ neg' = neg + 1 /\ neg < MaxOffers /\ sidOf' = [sidOf EXCEPT ![neg + 1] = s]
      /\ eocSent' = FALSE /\ answerSent' = FALSE /\ signals' = <<>> /\ pendingAnswer' = 0
      /\ UNCHANGED <<flushing, held, drainers, retryOf, wire>>
  BY DEF handleOffer, beginNegotiation
<1>2. Types'
  BY <1>1, PeerAssumption DEF PeerAssumption, Types
<1>3. Flags'
  BY <1>1 DEF Flags
<1>7. OneDrainer'
  BY <1>1 DEF OneDrainer
<1>8. QueueIsCurrent'
  BY <1>1 DEF QueueIsCurrent
<1>4. HeldInOrder'
  <2>1. \A g \in Goroutines : held[g] # NoSignal =>
           held[g] \in Signal /\ held[g][2] \in Nat /\ held[g][2] <= neg
    BY DEF HeldInOrder, Types, Signal
  <2>2. \A g \in Goroutines : held[g] # NoSignal => held[g] # Eoc(neg + 1)
    BY <2>1 DEF Types, Eoc
  <2>3. neg \in Nat
    BY DEF Types
  <2>. QED BY <1>1, <2>1, <2>2, <2>3 DEF HeldInOrder, Eoc
<1>5. WireInOrder'
  <2>1. \A i \in 1..Len(wire) : wire[i][2] \in Nat /\ wire[i][2] <= neg
    <3>1. \A i \in 1..Len(wire) : wire[i] \in Sent
      BY DEF Types
    <3>. QED BY <3>1 DEF WireInOrder, Sent
  <2>2. \A i \in 1..Len(wire) : wire[i] # Eoc(neg + 1)
    BY <2>1 DEF Types, Eoc
  <2>3. \A i \in 1..Len(wire) : wire[i][2] <= neg + 1
    <3>1. neg \in Nat
      BY DEF Types
    <3>. QED BY <2>1, <3>1
  <2>. QED BY <1>1, <2>2, <2>3 DEF WireInOrder, Eoc
<1>6. SignalsInOrder'
  BY <1>1 DEF SignalsInOrder
<1>. QED
  BY <1>2, <1>3, <1>4, <1>5, <1>6, <1>7, <1>8

\* An answer on the wire disturbs no signal.
LEMMA AnswerOnWire ==
  ASSUME PeerAssumption, DrainInv, NEW k \in 0..neg, wire' = Append(wire, <<"answer", k>>),
         UNCHANGED <<neg, sidOf, answerSent, pendingAnswer, eocSent, signals, flushing, held, drainers, retryOf>>
  PROVE  DrainInv'
<1>. USE DEF DrainInv
<1>1. /\ wire' \in Seq(Sent) /\ Len(wire') = Len(wire) + 1 /\ Len(wire) \in Nat
      /\ \A i \in 1..Len(wire) : wire'[i] = wire[i]
      /\ wire'[Len(wire) + 1] = <<"answer", k>>
  <2>1. wire \in Seq(Sent) /\ <<"answer", k>> \in Sent
    BY DEF Types, Sent
  <2>. QED BY <2>1, Appending
<1>2. Types' /\ Flags' /\ OneDrainer' /\ QueueIsCurrent'
  BY <1>1 DEF Types, Flags, OneDrainer, QueueIsCurrent
<1>3. HeldInOrder'
  <2>1. \A m : wire'[Len(wire) + 1] # Eoc(m)
    BY <1>1 DEF Eoc
  <2>. QED BY <1>1, <2>1 DEF HeldInOrder, Eoc
<1>4. WireInOrder'
  <2>1. \A m : wire'[Len(wire) + 1] # Eoc(m)
    BY <1>1 DEF Eoc
  <2>. SUFFICES ASSUME NEW i \in 1..Len(wire')
       PROVE  wire'[i][2] <= neg /\ (wire'[i] = Eoc(neg) => eocSent /\ signals = <<>>)
    BY DEF WireInOrder, Eoc
  <2>2. CASE i \in 1..Len(wire)
    BY <1>1, <2>2 DEF WireInOrder
  <2>3. CASE i = Len(wire) + 1
    <3>1. wire'[i] = <<"answer", k>> /\ wire'[i] # Eoc(neg) /\ k <= neg
      BY <1>1, <2>1, <2>3 DEF Types
    <3>. QED BY <3>1
  <2>. QED BY <1>1, <2>2, <2>3
<1>5. SignalsInOrder'
  <2>. SUFFICES ASSUME NEW i \in 1..Len(wire'), NEW j \in 1..Len(wire'), i < j,
                       wire'[i][1] = "endOfCandidates", wire'[j][1] # "answer"
       PROVE  wire'[j][2] # wire'[i][2]
    BY DEF SignalsInOrder
  <2>1. j # Len(wire) + 1
    BY <1>1
  <2>2. i \in 1..Len(wire) /\ j \in 1..Len(wire)
    BY <1>1, <2>1
  <2>. QED BY <1>1, <2>2 DEF SignalsInOrder
<1>. QED
  BY <1>2, <1>3, <1>4, <1>5

\* Marking the answer as sent opens the gate, with a drainer if one is needed.
LEMMA MarkingStep ==
  ASSUME PeerAssumption, DrainInv, NEW g \in Goroutines, markAnswerSentLocked(g),
         UNCHANGED <<neg, sidOf, eocSent, signals, held, retryOf, wire>>
  PROVE  DrainInv'
<1>. USE DEF DrainInv
<1>1. /\ answerSent' = TRUE /\ pendingAnswer' = 0
      /\ IF signals # <<>> /\ ~flushing THEN flushing' = TRUE /\ drainers' = drainers \cup {g}
                                        ELSE drainers' = drainers /\ flushing' = flushing
  BY DEF markAnswerSentLocked, StartFlush, Flags
<1>2. Types'
  BY <1>1 DEF Types
<1>5. Flags'
  BY <1>1 DEF Flags
<1>3. OneDrainer'
  BY <1>1 DEF OneDrainer, Flags
<1>4. QueueIsCurrent' /\ HeldInOrder' /\ WireInOrder' /\ SignalsInOrder'
  BY DEF QueueIsCurrent, HeldInOrder, WireInOrder, SignalsInOrder, Eoc
<1>. QED
  BY <1>2, <1>3, <1>4, <1>5

\* Steps that only move control points, the kept answer or its count.
LEMMA BookkeepingStep ==
  ASSUME PeerAssumption, DrainInv, pendingAnswer' \in {pendingAnswer, neg},
         retryOf' \in {retryOf, pendingAnswer},
         UNCHANGED <<neg, sidOf, answerSent, eocSent, signals, flushing, held, drainers, wire>>
  PROVE  DrainInv'
<1>. USE DEF DrainInv
<1>1. Types'
  BY DEF Types
<1>2. Flags' /\ OneDrainer' /\ QueueIsCurrent' /\ HeldInOrder' /\ WireInOrder' /\ SignalsInOrder'
  BY DEF Flags, OneDrainer, QueueIsCurrent, HeldInOrder, WireInOrder, SignalsInOrder, Eoc
<1>. QED
  BY <1>1, <1>2

\* The SIDs an offer may carry are numbers.
LEMMA OfferedSids ==
  ASSUME Types, PeerAssumption
  PROVE  (IF FreshSids THEN {neg + 1} ELSE {neg + 1, sid}) \subseteq Nat
  BY DEF Types, PeerAssumption, sid

\* Every step keeps the inductive invariant.
LEMMA DrainInvStep == ASSUME PeerAssumption PROVE DrainInv /\ [PeerNext]_peerVars => DrainInv'
<1>. SUFFICES ASSUME DrainInv, [PeerNext]_peerVars PROVE DrainInv'
  OBVIOUS
<1>1. CASE sendLocalICESignal \/ sendEndOfCandidates
  BY <1>1, EnqueueStep
<1>2. ASSUME NEW g \in Goroutines, FlushTakes(g) \/ FlushWrites(g) PROVE DrainInv'
  BY <1>2, FlushTakesStep, FlushWritesStep
<1>3. ASSUME NEW s \in IF FreshSids THEN {neg + 1} ELSE {neg + 1, sid}, handleOffer(s) PROVE DrainInv'
  <2>1. s \in Nat
    BY OfferedSids DEF DrainInv
  <2>. QED BY <1>3, <2>1, OfferStep
<1>4. CASE AnswerWritten
  <2>1. neg \in 0..neg
    BY DEF DrainInv, Types
  <2>2. CASE wire' = Append(wire, <<"answer", neg>>)
    BY <1>4, <2>1, <2>2, AnswerOnWire DEF AnswerWritten
  <2>3. CASE wire' = wire
    BY <1>4, <2>3, BookkeepingStep DEF AnswerWritten
  <2>. QED BY <1>4, <2>2, <2>3 DEF AnswerWritten
<1>5. CASE markAnswerSent
  BY <1>5, MarkingStep DEF markAnswerSent, Goroutines
<1>6. CASE recordPendingAnswer
  BY <1>6, BookkeepingStep DEF recordPendingAnswer
<1>7. CASE takePendingAnswerForRetry
  BY <1>7, BookkeepingStep DEF takePendingAnswerForRetry
<1>8. CASE RetryWritten
  <2>1. retryOf \in 0..neg
    BY DEF DrainInv, Types
  <2>2. CASE wire' = Append(wire, <<"answer", retryOf>>)
    BY <1>8, <2>1, <2>2, AnswerOnWire DEF RetryWritten
  <2>3. CASE wire' = wire
    BY <1>8, <2>3, BookkeepingStep DEF RetryWritten
  <2>. QED BY <1>8, <2>2, <2>3 DEF RetryWritten
<1>9. CASE completeAnswerRetransmit
  <2>1. CASE markAnswerSentLocked("reconcile")
    BY <1>9, <2>1, MarkingStep DEF completeAnswerRetransmit, Goroutines
  <2>2. CASE ~markAnswerSentLocked("reconcile")
    BY <1>9, <2>2, BookkeepingStep DEF completeAnswerRetransmit
  <2>. QED BY <2>1, <2>2
<1>10. CASE UNCHANGED peerVars
  BY <1>10, BookkeepingStep DEF peerVars
<1>. QED
  BY <1>1, <1>2, <1>3, <1>4, <1>5, <1>6, <1>7, <1>8, <1>9, <1>10 DEF PeerNext

\* Whatever SIDs the offers carry: a signal behind an open gate has somebody
\* draining the queue, never two, and nothing of a negotiation is written after
\* its endOfCandidates (enqueueLocalICESignalLocked, flushLocalICESignals).
THEOREM GateIsAlwaysDrained == PeerSpec => []OpenGateIsDrained
<1>1. DrainInv => OpenGateIsDrained
  <2>. SUFFICES ASSUME DrainInv PROVE OpenGateIsDrained
    OBVIOUS
  <2>1. Cardinality(drainers) <= 1
    <3>1. CASE drainers = {}
      BY <3>1, FS_EmptySet
    <3>2. CASE drainers # {}
      <4>1. PICK g : g \in drainers
        BY <3>2
      <4>2. drainers = {g}
        BY <4>1 DEF DrainInv, OneDrainer
      <4>. QED BY <4>2, FS_Singleton
    <3>. QED BY <3>1, <3>2
  <2>. QED BY <2>1 DEF DrainInv, OneDrainer, OpenGateIsDrained
<1>. QED
  BY PeerAssumption, DrainInvInit, DrainInvStep, <1>1, PTL DEF PeerSpec

-----------------------------------------------------------------------------
(* The gate, when every offer carries a SID of its own.                     *)

OnWire(k) == \E i \in 1..Len(wire) : wire[i] = <<"answer", k>>

\* SIDs tell the negotiations apart.
SidsAreFresh == \A k \in 0..neg : sidOf[k] = k

\* Whoever may open the gate, or has a signal in hand, has an answer behind it.
GateInv ==
  /\ SidsAreFresh
  /\ answerSent => OnWire(neg)
  /\ offerPc = "sent" => OnWire(neg)
  /\ retryPc = "sent" => OnWire(retryOf)
  /\ \A g \in Goroutines : held[g] # NoSignal => OnWire(held[g][2])
  /\ \A i \in 1..Len(wire) :
       wire[i][1] # "answer" => \E j \in 1..(i - 1) : wire[j] = <<"answer", wire[i][2]>>

\* The wire only grows, so what is on it stays, and a signal finds its answer
\* before it.
LEMMA WireGrows ==
  ASSUME DrainInv, NEW e \in Sent, wire' = Append(wire, e),
         e[1] # "answer" => OnWire(e[2]),
         \A i \in 1..Len(wire) :
           wire[i][1] # "answer" => \E j \in 1..(i - 1) : wire[j] = <<"answer", wire[i][2]>>
  PROVE  /\ \A k : OnWire(k) => OnWire(k)'
         /\ \A k : e = <<"answer", k>> => OnWire(k)'
         /\ \A i \in 1..Len(wire') :
              wire'[i][1] # "answer" => \E j \in 1..(i - 1) : wire'[j] = <<"answer", wire'[i][2]>>
<1>1. /\ wire' \in Seq(Sent) /\ Len(wire') = Len(wire) + 1 /\ Len(wire) \in Nat
      /\ \A i \in 1..Len(wire) : wire'[i] = wire[i]
      /\ wire'[Len(wire) + 1] = e
  <2>1. wire \in Seq(Sent)
    BY DEF DrainInv, Types
  <2>. QED BY <2>1, Appending
<1>2. ASSUME NEW i \in 1..Len(wire'), wire'[i][1] # "answer"
      PROVE  \E j \in 1..(i - 1) : wire'[j] = <<"answer", wire'[i][2]>>
  <2>1. CASE i \in 1..Len(wire)
    <3>1. PICK j \in 1..(i - 1) : wire[j] = <<"answer", wire[i][2]>>
      BY <1>1, <1>2, <2>1
    <3>2. j \in 1..Len(wire) /\ wire'[j] = wire[j] /\ wire'[i] = wire[i]
      BY <1>1, <2>1, <3>1
    <3>. QED BY <3>1, <3>2
  <2>2. CASE i = Len(wire) + 1
    <3>1. PICK j \in 1..Len(wire) : wire[j] = <<"answer", e[2]>>
      BY <1>1, <1>2, <2>2 DEF OnWire
    <3>2. j \in 1..(i - 1) /\ wire'[j] = wire[j] /\ wire'[i] = e
      BY <1>1, <2>2, <3>1
    <3>. QED BY <3>1, <3>2
  <2>3. i \in 1..Len(wire) \/ i = Len(wire) + 1
    BY <1>1
  <2>. QED BY <2>1, <2>2, <2>3
<1>3. \A k : OnWire(k) => OnWire(k)'
  BY <1>1 DEF OnWire
<1>4. \A k : e = <<"answer", k>> => OnWire(k)'
  BY <1>1 DEF OnWire
<1>. QED
  BY <1>2, <1>3, <1>4

\* Every step keeps the gate's invariant, given that of the drain.
LEMMA GateInvStep ==
  ASSUME PeerAssumption, FreshSids
  PROVE  DrainInv /\ GateInv /\ [PeerNext]_peerVars => GateInv'
<1>. SUFFICES ASSUME DrainInv, GateInv, [PeerNext]_peerVars PROVE GateInv'
  OBVIOUS
<1>1. CASE sendLocalICESignal \/ sendEndOfCandidates
  <2>1. UNCHANGED <<neg, sidOf, answerSent, held, offerPc, retryPc, retryOf, wire>>
    BY <1>1 DEF sendLocalICESignal, sendEndOfCandidates
  <2>. QED BY <2>1 DEF GateInv, SidsAreFresh, OnWire
<1>2. ASSUME NEW g \in Goroutines, FlushTakes(g) PROVE GateInv'
  <2>1. UNCHANGED <<neg, sidOf, answerSent, offerPc, retryPc, retryOf, wire>>
    BY <1>2 DEF FlushTakes
  <2>2. CASE held' = held
    BY <2>1, <2>2 DEF GateInv, SidsAreFresh, OnWire
  <2>3. CASE held' = [held EXCEPT ![g] = Head(signals)] /\ answerSent /\ signals # <<>>
    <3>1. Head(signals)[2] = neg
      <4>1. signals \in Seq(Signal)
        BY DEF DrainInv, Types
      <4>. QED BY <2>3, <4>1, Taking DEF DrainInv, QueueIsCurrent
    <3>2. \A h \in Goroutines : held'[h] # NoSignal => OnWire(held'[h][2])
      BY <2>3, <3>1 DEF GateInv, DrainInv, Types
    <3>. QED BY <2>1, <3>2 DEF GateInv, SidsAreFresh, OnWire
  <2>. QED BY <1>2, <2>2, <2>3 DEF FlushTakes
<1>3. ASSUME NEW g \in Goroutines, FlushWrites(g) PROVE GateInv'
  <2>1. /\ held[g] # NoSignal /\ held[g] \in Sent /\ OnWire(held[g][2])
        /\ held' = [held EXCEPT ![g] = NoSignal]
        /\ UNCHANGED <<neg, sidOf, answerSent, offerPc, retryPc, retryOf>>
    BY <1>3 DEF FlushWrites, GateInv, DrainInv, Types, Signal, Sent
  <2>2. CASE wire' = wire
    BY <2>1, <2>2 DEF GateInv, SidsAreFresh, OnWire, DrainInv, Types
  <2>3. CASE wire' = Append(wire, held[g])
    <3>1. \A k : OnWire(k) => OnWire(k)'
      BY <2>1, <2>3, WireGrows DEF GateInv
    <3>2. \A i \in 1..Len(wire') :
            wire'[i][1] # "answer" => \E j \in 1..(i - 1) : wire'[j] = <<"answer", wire'[i][2]>>
      BY <2>1, <2>3, WireGrows DEF GateInv
    <3>3. \A h \in Goroutines : held'[h] # NoSignal => held'[h] = held[h]
      BY <2>1 DEF DrainInv, Types
    <3>. QED BY <2>1, <3>1, <3>2, <3>3 DEF GateInv, SidsAreFresh
  <2>. QED BY <1>3, <2>2, <2>3 DEF FlushWrites
<1>4. ASSUME NEW s \in IF FreshSids THEN {neg + 1} ELSE {neg + 1, sid}, handleOffer(s) PROVE GateInv'
  <2>1. /\ s = neg + 1 /\ neg' = neg + 1 /\ neg < MaxOffers /\ sidOf' = [sidOf EXCEPT ![neg + 1] = s]
        /\ answerSent' = FALSE /\ offerPc' \in {"idle", "answering"}
        /\ UNCHANGED <<held, retryPc, retryOf, wire>>
    BY <1>4 DEF handleOffer, beginNegotiation
  <2>2. SidsAreFresh'
    BY <2>1, PeerAssumption DEF PeerAssumption, GateInv, SidsAreFresh, DrainInv, Types
  <2>. QED BY <2>1, <2>2 DEF GateInv, OnWire
<1>5. CASE AnswerWritten
  <2>1. UNCHANGED <<neg, sidOf, answerSent, held, retryPc, retryOf>>
    BY <1>5 DEF AnswerWritten
  <2>2. CASE offerPc' = "sent" /\ wire' = Append(wire, <<"answer", neg>>)
    <3>1. <<"answer", neg>> \in Sent /\ <<"answer", neg>>[1] = "answer"
      BY DEF DrainInv, Types, Sent
    <3>2. (\A k : OnWire(k) => OnWire(k)') /\ OnWire(neg)'
      BY <2>1, <2>2, <3>1, WireGrows DEF GateInv, OnWire
    <3>3. \A i \in 1..Len(wire') :
            wire'[i][1] # "answer" => \E j \in 1..(i - 1) : wire'[j] = <<"answer", wire'[i][2]>>
      BY <2>2, <3>1, WireGrows DEF GateInv
    <3>. QED BY <2>1, <3>2, <3>3 DEF GateInv, SidsAreFresh
  <2>3. CASE offerPc' = "failed" /\ wire' = wire
    BY <2>1, <2>3 DEF GateInv, SidsAreFresh, OnWire
  <2>. QED BY <1>5, <2>2, <2>3 DEF AnswerWritten
<1>6. CASE markAnswerSent
  BY <1>6 DEF markAnswerSent, markAnswerSentLocked, GateInv, SidsAreFresh, OnWire
<1>7. CASE recordPendingAnswer
  BY <1>7 DEF recordPendingAnswer, GateInv, SidsAreFresh, OnWire
<1>8. CASE takePendingAnswerForRetry
  BY <1>8 DEF takePendingAnswerForRetry, GateInv, SidsAreFresh, OnWire
<1>9. CASE RetryWritten
  <2>1. UNCHANGED <<neg, sidOf, answerSent, held, offerPc, retryOf>>
    BY <1>9 DEF RetryWritten
  <2>2. CASE retryPc' = "sent" /\ wire' = Append(wire, <<"answer", retryOf>>)
    <3>1. <<"answer", retryOf>> \in Sent /\ <<"answer", retryOf>>[1] = "answer"
      BY DEF DrainInv, Types, Sent
    <3>2. (\A k : OnWire(k) => OnWire(k)') /\ OnWire(retryOf)'
      BY <2>1, <2>2, <3>1, WireGrows DEF GateInv, OnWire
    <3>3. \A i \in 1..Len(wire') :
            wire'[i][1] # "answer" => \E j \in 1..(i - 1) : wire'[j] = <<"answer", wire'[i][2]>>
      BY <2>2, <3>1, WireGrows DEF GateInv
    <3>. QED BY <2>1, <3>2, <3>3 DEF GateInv, SidsAreFresh
  <2>3. CASE retryPc' \in {"failed", "unconnected"} /\ wire' = wire
    BY <2>1, <2>3 DEF GateInv, SidsAreFresh, OnWire
  <2>. QED BY <1>9, <2>2, <2>3 DEF RetryWritten
<1>10. CASE completeAnswerRetransmit
  <2>1. UNCHANGED <<neg, sidOf, held, offerPc, retryOf, wire>> /\ retryPc' = "idle"
    BY <1>10 DEF completeAnswerRetransmit
  <2>2. CASE StillPending /\ retryPc = "sent"
    <3>1. retryOf \in 0..neg /\ neg \in 0..neg
      BY PeerAssumption DEF DrainInv, Types, PeerAssumption
    <3>2. sidOf[retryOf] = retryOf /\ sidOf[neg] = neg
      BY <3>1 DEF GateInv, SidsAreFresh
    <3>3. retryOf = neg
      BY <2>2, <3>2 DEF StillPending, sid
    <3>. QED BY <2>1, <2>2, <3>3 DEF GateInv, SidsAreFresh, OnWire
  <2>3. CASE answerSent' = answerSent
    BY <2>1, <2>3 DEF GateInv, SidsAreFresh, OnWire
  <2>. QED BY <1>10, <2>2, <2>3 DEF completeAnswerRetransmit
<1>11. CASE UNCHANGED peerVars
  BY <1>11 DEF peerVars, GateInv, SidsAreFresh, OnWire
<1>. QED
  BY <1>1, <1>2, <1>3, <1>4, <1>5, <1>6, <1>7, <1>8, <1>9, <1>10, <1>11 DEF PeerNext

\* When every offer carries a SID of its own, the gate of the local ICE signals
\* only ever opens for a negotiation that was answered, and no candidate reaches
\* the wire before an answer of its own negotiation, whichever of the offer
\* handler and the retransmission comes first (markAnswerSentLocked,
\* completeAnswerRetransmit).
THEOREM SignalsAlwaysFollowAnswer ==
  ASSUME FreshSids PROVE PeerSpec => []SignalsFollowAnswer
<1>1. PeerInit => GateInv
  BY PeerAssumption DEF PeerAssumption, PeerInit, GateInv, SidsAreFresh
<1>2. DrainInv /\ GateInv => GateFollowsAnswer
  BY DEF GateInv, GateFollowsAnswer, OnWire
<1>3. PeerSpec => []OpenGateIsDrained
  BY GateIsAlwaysDrained
<1>. QED
  BY PeerAssumption, DrainInvInit, DrainInvStep, GateInvStep, <1>1, <1>2, <1>3, PTL DEF PeerSpec, SignalsFollowAnswer

-----------------------------------------------------------------------------
(***************************************************************************)
(* SignalingClient, for any set of requests.                               *)
(***************************************************************************)

(* The inductive invariant.                                                *)

ReceiverPcs == {"start", "reading", "lost", "unrecoverable", "clearing", "dialling", "greeting",
                "installing", "reporting", "ended"}
ClosePcs == {"open", "failed", "done", "returned"}

\* Connections are numbered as dialled, and 0 is none.
ConnectionsAreNumbered ==
  /\ dials \in Nat
  /\ recvPc \in ReceiverPcs /\ closePc \in ClosePcs
  /\ recvPc # "start" => recvConn # 0

\* Close goes through its three steps in order, and once it has gone through the
\* first no request is registered.
CloseGoesOn ==
  /\ clientClosed <=> closePc # "open"
  /\ doneClosed <=> closePc \in {"done", "returned"}
  /\ clientClosed => pending = {}
  /\ closePc = "returned" => conn = 0

\* A request that may still be answered has not been.
OneReplyEach ==
  /\ pending \subseteq Request
  /\ reqPc \in [Request -> {"new", "writing", "broke", "sent", "failed", "returned"}]
  /\ replies \in [Request -> {0, 1}]
  /\ \A r \in Request : r \in pending \/ reqPc[r] = "new" => replies[r] = 0
  /\ \A r \in pending : reqPc[r] # "new"

\* What is open at each point of the receiver: the connection it reads, unless Close took
\* it; nothing while it dials; the one it tries; the one that nobody will read.
LinkIsKnown ==
  /\ recvPc = "start" => conn = 0 /\ sockets = {} /\ ~connReady
  /\ recvPc \in {"reading", "lost", "clearing", "unrecoverable"} =>
       \/ conn = recvConn /\ sockets \subseteq {recvConn}
       \/ closePc = "returned" /\ sockets = {}
  /\ recvPc = "dialling" => conn = 0 /\ sockets = {}
  /\ recvPc \in {"greeting", "installing"} => conn = 0 /\ sockets \subseteq {recvConn}
  /\ recvPc \in {"reporting", "ended"} => sockets \subseteq {conn} \ {0}
  /\ recvPc \in {"dialling", "greeting", "installing"} => ~connReady \/ doneClosed

ClientInv == ConnectionsAreNumbered /\ CloseGoesOn /\ OneReplyEach /\ LinkIsKnown /\ LossIsReported /\ ~panicked

-----------------------------------------------------------------------------
(* Steps.                                                                  *)

LEMMA ClientStarts == ClientInit => ClientInv
<1>. SUFFICES ASSUME ClientInit PROVE ClientInv
  OBVIOUS
<1>1. ConnectionsAreNumbered
  BY DEF ClientInit, ConnectionsAreNumbered, ReceiverPcs, ClosePcs
<1>2. CloseGoesOn
  BY DEF ClientInit, CloseGoesOn
<1>3. OneReplyEach
  BY DEF ClientInit, OneReplyEach
<1>4. LinkIsKnown
  BY DEF ClientInit, LinkIsKnown
<1>. QED BY <1>1, <1>2, <1>3, <1>4 DEF ClientInv, ClientInit, LossIsReported

\* A request, or the reply to it, does not touch the connection.
LEMMA RequestKeepsClient ==
  ASSUME ClientInv, NEW r \in Request,
         dispatchReply(r) \/ RequestRegisters(r) \/ writeJSON(r) \/ WriteFailed(r) \/ RequestReturns(r)
  PROVE  ClientInv'
<1>. USE DEF ClientInv, link, ends, recv, queue
<1>1. UNCHANGED <<link, ends, recv, queue, panicked>>
  BY DEF dispatchReply, RequestRegisters, writeJSON, WriteFailed, RequestReturns
<1>2. ConnectionsAreNumbered' /\ LinkIsKnown' /\ LossIsReported' /\ ~panicked'
  BY <1>1 DEF ConnectionsAreNumbered, LinkIsKnown, LossIsReported
<1>3. CASE dispatchReply(r)
  <2>1. /\ r \in pending /\ pending' = pending \ {r} /\ replies[r] = 0
        /\ replies' = [replies EXCEPT ![r] = replies[r] + 1] /\ reqPc' = reqPc
    BY <1>3 DEF dispatchReply, OneReplyEach
  <2>2. replies' = [replies EXCEPT ![r] = 1]
    BY <2>1
  <2>3. OneReplyEach'
    BY <2>1, <2>2 DEF OneReplyEach
  <2>4. CloseGoesOn'
    BY <1>1, <2>1 DEF CloseGoesOn
  <2>. QED BY <1>2, <2>3, <2>4
<1>4. CASE RequestRegisters(r)
  <2>1. OneReplyEach'
    BY <1>4 DEF RequestRegisters, OneReplyEach
  <2>2. CloseGoesOn'
    BY <1>1, <1>4 DEF RequestRegisters, CloseGoesOn
  <2>. QED BY <1>2, <2>1, <2>2
<1>5. CASE writeJSON(r) \/ WriteFailed(r) \/ RequestReturns(r)
  <2>1. /\ reqPc' \in [Request -> {"new", "writing", "broke", "sent", "failed", "returned"}]
        /\ reqPc[r] # "new" /\ \A q \in Request : reqPc'[q] = "new" => reqPc[q] = "new"
    BY <1>5 DEF writeJSON, WriteFailed, RequestReturns, OneReplyEach
  <2>2. pending' \subseteq pending /\ replies' = replies
    BY <1>5 DEF writeJSON, WriteFailed, RequestReturns
  <2>3. OneReplyEach'
    BY <2>1, <2>2 DEF OneReplyEach
  <2>4. CloseGoesOn'
    BY <1>1, <2>2 DEF CloseGoesOn
  <2>. QED BY <1>2, <2>3, <2>4
<1>. QED BY <1>3, <1>4, <1>5

\* Close takes the connection in its last step, and the requests in its first.
LEMMA CloseKeepsClient ==
  ASSUME ClientInv, CloseFails \/ CloseDone \/ CloseConn
  PROVE  ClientInv'
<1>. USE DEF ClientInv, link, recv, queue, reqs
<1>1. ConnectionsAreNumbered'
  BY DEF ConnectionsAreNumbered, ClosePcs, CloseFails, CloseDone, CloseConn
<1>2. CloseGoesOn'
  BY DEF CloseGoesOn, CloseFails, CloseDone, CloseConn
<1>3. OneReplyEach'
  <2>1. CASE CloseFails
    <3>1. \A r \in Request : r \in pending => replies[r] + 1 = 1
      BY DEF OneReplyEach
    <3>2. replies' \in [Request -> {0, 1}]
      BY <2>1, <3>1 DEF CloseFails, OneReplyEach
    <3>3. \A r \in Request : reqPc'[r] = "new" => replies'[r] = 0
      <4>1. \A r \in pending : reqPc[r] # "new"
        BY DEF OneReplyEach
      <4>. QED BY <4>1, <2>1 DEF CloseFails, OneReplyEach
    <3>. QED BY <2>1, <3>2, <3>3 DEF CloseFails, OneReplyEach
  <2>. QED BY <2>1 DEF OneReplyEach, CloseDone, CloseConn
<1>4. LinkIsKnown'
  <2>1. CASE CloseFails \/ CloseDone
    BY <2>1 DEF LinkIsKnown, CloseGoesOn, CloseFails, CloseDone
  <2>2. CASE CloseConn
    BY <2>2 DEF LinkIsKnown, CloseGoesOn, CloseConn, ConnectionsAreNumbered
  <2>. QED BY <2>1, <2>2
<1>5. LossIsReported' /\ ~panicked'
  BY DEF LossIsReported, CloseFails, CloseDone, CloseConn
<1>. QED BY <1>1, <1>2, <1>3, <1>4, <1>5

\* The receiver has at most one connection open, and wakes the writers once for each.
LEMMA ReceiverKeepsClient ==
  ASSUME ClientInv,
         Connect \/ ReceiveHello \/ dispatchEvent \/ UndecodableMessage \/ Receiver
  PROVE  ClientInv'
<1>. USE DEF ClientInv, link, ends, recv, queue, reqs, Receiver
<1>0. UNCHANGED <<ends, reqs>>
  BY DEF Connect, ReceiveHello, dispatchEvent, UndecodableMessage, ReadFails, ReadLoopReturned, clearConn,
         redial, resumeHello, installConn, emitConnectionError
<1>1. OneReplyEach'
  BY <1>0 DEF OneReplyEach
<1>2. CASE Connect
  BY <1>0, <1>1, <1>2 DEF Connect, ConnectionsAreNumbered, CloseGoesOn, LinkIsKnown, LossIsReported, ReceiverPcs
<1>3. CASE ReceiveHello \/ dispatchEvent \/ UndecodableMessage \/ ReadFails
  BY <1>0, <1>1, <1>3 DEF ReceiveHello, dispatchEvent, UndecodableMessage, ReadFails, ConnectionsAreNumbered,
     CloseGoesOn, LinkIsKnown, LossIsReported, ReceiverPcs
<1>4. CASE ReadLoopReturned
  BY <1>0, <1>1, <1>4 DEF ReadLoopReturned, ConnectionsAreNumbered,
     CloseGoesOn, LinkIsKnown, LossIsReported, ReceiverPcs
<1>5. CASE clearConn
  <2>1. recvPc' \in {"dialling", "reporting"} /\ UNCHANGED <<recvConn, panicked, dials>> /\ recvPc = "clearing"
    BY <1>5 DEF clearConn
  <2>2. conn' = 0 /\ sockets' = {}
    BY <1>5, <2>1 DEF clearConn, CloseGoesOn, LinkIsKnown
  <2>3. ~connReady' \/ doneClosed'
    <3>1. conn = recvConn \/ doneClosed
      BY <2>1 DEF CloseGoesOn, LinkIsKnown
    <3>2. connReady' = (connReady /\ conn # recvConn) /\ doneClosed' = doneClosed
      BY <1>0, <1>5 DEF clearConn
    <3>. QED BY <3>1, <3>2, Zenon
  <2>4. LinkIsKnown'
    BY <2>1, <2>2, <2>3 DEF LinkIsKnown
  <2>5. ConnectionsAreNumbered'
    BY <1>0, <2>1 DEF ConnectionsAreNumbered, ReceiverPcs
  <2>6. CloseGoesOn'
    BY <1>0, <2>2 DEF CloseGoesOn
  <2>. QED BY <1>1, <2>1, <2>4, <2>5, <2>6 DEF LossIsReported
<1>6. CASE redial
  BY <1>0, <1>1, <1>6 DEF redial, NextAttempt, ConnectionsAreNumbered,
     CloseGoesOn, LinkIsKnown, LossIsReported, ReceiverPcs
<1>7. CASE resumeHello
  BY <1>0, <1>1, <1>7 DEF resumeHello, NextAttempt, ConnectionsAreNumbered,
     CloseGoesOn, LinkIsKnown, LossIsReported, ReceiverPcs
<1>8. CASE installConn
  <2>1. recvPc = "installing" /\ recvPc' \in {"reading", "ended"} /\ UNCHANGED <<recvConn, dials>>
        /\ conn = 0 /\ sockets \subseteq {recvConn} /\ (~connReady \/ doneClosed)
    BY <1>8 DEF installConn, LinkIsKnown
  <2>2. ConnectionsAreNumbered'
    BY <1>0, <2>1 DEF ConnectionsAreNumbered, ReceiverPcs
  <2>3. CASE /\ doneClosed /\ sockets' = sockets \ {recvConn} /\ recvPc' = "ended"
             /\ UNCHANGED <<conn, connReady, panicked>>
    <3>1. LinkIsKnown'
      BY <2>1, <2>3 DEF LinkIsKnown
    <3>2. CloseGoesOn' /\ LossIsReported'
      BY <1>0, <2>3 DEF CloseGoesOn, LossIsReported
    <3>. QED BY <1>1, <2>2, <2>3, <3>1, <3>2
  <2>4. CASE /\ ~doneClosed /\ conn' = recvConn /\ connReady' = TRUE
             /\ panicked' = (panicked \/ connReady) /\ recvPc' = "reading" /\ UNCHANGED sockets
    <3>1. LinkIsKnown'
      BY <2>1, <2>4 DEF LinkIsKnown
    <3>2. CloseGoesOn' /\ LossIsReported'
      BY <1>0, <2>4 DEF CloseGoesOn, LossIsReported
    <3>3. ~panicked'
      BY <2>1, <2>4
    <3>. QED BY <1>1, <2>2, <3>1, <3>2, <3>3
  <2>. QED BY <1>8, <2>3, <2>4 DEF installConn
<1>9. CASE emitConnectionError
  BY <1>0, <1>1, <1>9 DEF emitConnectionError, ConnectionsAreNumbered,
     CloseGoesOn, LinkIsKnown, LossIsReported, ReceiverPcs
<1>. QED BY <1>2, <1>3, <1>4, <1>5, <1>6, <1>7, <1>8, <1>9

LEMMA ClientHoldsAlways == ClientSpec => []ClientInv
<1>1. ASSUME ClientInv, [ClientNext]_clientVars
      PROVE  ClientInv'
  <2>1. CASE ConnectionLost \/ NextEvent
    BY <1>1, <2>1 DEF ConnectionLost, NextEvent, ClientInv, ConnectionsAreNumbered, CloseGoesOn, OneReplyEach,
       LinkIsKnown, LossIsReported, link, ends, recv, queue, reqs
  <2>2. CASE UNCHANGED clientVars
    BY <1>1, <2>2 DEF clientVars, ClientInv, ConnectionsAreNumbered, CloseGoesOn, OneReplyEach,
       LinkIsKnown, LossIsReported
  <2>. QED BY <1>1, <2>1, <2>2, RequestKeepsClient, CloseKeepsClient, ReceiverKeepsClient DEF ClientNext
<1>. QED BY <1>1, ClientStarts, PTL DEF ClientSpec

-----------------------------------------------------------------------------
(* The theorem.                                                            *)

\* However the network fails, requests come and Close interrupts a resumption: a loss is
\* reported, no channel is closed twice, no socket is left open and no request is
\* answered twice.
THEOREM ConnectionIsAlwaysAccounted == ClientSpec => []ConnectionIsAccounted
<1>1. ClientInv => ConnectionIsAccounted
  <2>. SUFFICES ASSUME ClientInv PROVE ConnectionIsAccounted
    OBVIOUS
  <2>. USE DEF ClientInv
  <2>1. closePc = "returned" /\ recvPc = "ended" => sockets = {} /\ conn = 0
    BY DEF CloseGoesOn, LinkIsKnown
  <2>2. \A r \in Request : replies[r] <= 1
    BY DEF OneReplyEach
  <2>. QED BY <2>1, <2>2 DEF ConnectionIsAccounted, CloseAndResumeAgree
<1>. QED BY <1>1, ClientHoldsAlways, PTL

-----------------------------------------------------------------------------
(***************************************************************************)
(* CallRecorder, for any set of sessions, any number of peers and of       *)
(* rebuilds.                                                               *)
(***************************************************************************)

(* The inductive invariant.                                                *)

CallPcs == {"running", "cancelled", "joining", "finalizing", "ended"}

\* Peers are numbered as they are built.
PeersAreNumbered ==
  /\ built \in Nat
  /\ openPeers \subseteq 1..built
  /\ subscribers \in [Session -> 0..built]
  /\ evPeer = NoPeer \/ \E s \in Session, p \in 1..built : evPeer = <<s, p>>
  /\ rcSwap = NoPeer \/ \E s \in Session, old, new \in 1..built : rcSwap = <<s, old, new>>
  /\ evTodo \subseteq Session /\ present \subseteq Session
  /\ runPc \in CallPcs

Registered(p) == \E s \in Session : subscribers[s] = p
InEventHand(p) == evPeer # NoPeer /\ evPeer[2] = p
InSwapHand(p) == rcSwap # NoPeer /\ rcSwap[3] = p

\* An open peer is registered or in a loop's hands, and a loop's hands hold an open
\* peer that nobody else has.
PeersAreOwned ==
  /\ \A p \in openPeers : Registered(p) \/ InEventHand(p) \/ InSwapHand(p)
  /\ \A p \in 1..built : InEventHand(p) \/ InSwapHand(p) => p \in openPeers /\ ~Registered(p)
  /\ \A p \in 1..built : ~(InEventHand(p) /\ InSwapHand(p))

\* A registered peer is open and is nobody else's, and its session is in the call;
\* so are the sessions the event loop is subscribing to.
SessionsArePresent ==
  /\ \A s \in Session : subscribers[s] # 0 => subscribers[s] \in openPeers /\ s \in present
  /\ \A s, t \in Session : subscribers[s] # 0 /\ subscribers[s] = subscribers[t] => s = t
  /\ evTodo \subseteq present
  /\ evPeer # NoPeer => evPeer[1] \in present

\* A loop that returned left nothing in its hands, and after the cleanup both have
\* returned and nobody is registered.
LoopsAreDone ==
  /\ "event" \notin loops => evTodo = {} /\ evPeer = NoPeer
  /\ "reconcile" \notin loops => rcSwap = NoPeer
  /\ runPc \notin {"running", "cancelled"} => /\ "event" \notin loops /\ "reconcile" \notin loops
                                              /\ \A s \in Session : subscribers[s] = 0

CallInv == PeersAreNumbered /\ PeersAreOwned /\ SessionsArePresent /\ LoopsAreDone

-----------------------------------------------------------------------------
(* Steps.                                                                  *)

\* The sessions that leave take their peers with them.
LEMMA RemovalKeepsPeers ==
  ASSUME CallInv, NEW gone \in SUBSET Session, removeSubscribers(gone), EventLoopIdle,
         present' \in SUBSET Session, (Session \ gone) \cap present \subseteq present',
         evTodo' = {} \/ evTodo' = present', UNCHANGED <<evPeer, rcSwap, loops, runPc>>
  PROVE  CallInv'
<1>. USE DEF CallInv
<1>a. \A s \in Session : subscribers'[s] = IF s \in gone THEN 0 ELSE subscribers[s]
  BY DEF removeSubscribers
<1>b. \A p : p \in openPeers' <=> p \in openPeers /\ ~(\E s \in gone : subscribers[s] = p)
  BY DEF removeSubscribers
<1>c. built' = built /\ built \in Nat /\ \A p \in 1..built : p # 0
  BY DEF removeSubscribers, PeersAreNumbered
<1>1. PeersAreNumbered'
  <2>1. subscribers' \in [Session -> 0..built]
    <3>1. subscribers \in [Session -> 0..built] /\ 0 \in 0..built
      BY <1>c DEF PeersAreNumbered
    <3>. QED BY <3>1 DEF removeSubscribers
  <2>. QED BY <2>1, <1>b, <1>c DEF PeersAreNumbered
<1>2. PeersAreOwned'
  <2>1. ASSUME NEW p \in openPeers'
        PROVE  Registered(p)' \/ InEventHand(p)' \/ InSwapHand(p)'
    <3>1. p \in openPeers /\ ~(\E s \in gone : subscribers[s] = p)
      BY <1>b
    <3>2. Registered(p) => Registered(p)'
      BY <1>a, <3>1 DEF Registered
    <3>. QED BY <3>1, <3>2 DEF PeersAreOwned, InEventHand, InSwapHand
  <2>2. ASSUME NEW p \in 1..built, InEventHand(p) \/ InSwapHand(p)
        PROVE  p \in openPeers' /\ ~Registered(p)'
    <3>1. p \in openPeers /\ \A s \in Session : subscribers[s] # p
      BY <2>2 DEF PeersAreOwned, Registered
    <3>. QED BY <3>1, <1>a, <1>b, <1>c DEF Registered
  <2>. QED BY <2>1, <2>2, <1>c DEF PeersAreOwned, InEventHand, InSwapHand
<1>3. SessionsArePresent'
  <2>1. ASSUME NEW s \in Session, subscribers'[s] # 0
        PROVE  subscribers'[s] \in openPeers' /\ s \in present'
    <3>1. s \notin gone /\ subscribers'[s] = subscribers[s]
      BY <2>1, <1>a
    <3>2. subscribers[s] \in openPeers /\ s \in present
      BY <2>1, <3>1 DEF SessionsArePresent
    <3>3. \A t \in gone : subscribers[t] # subscribers[s]
      BY <2>1, <3>1 DEF SessionsArePresent
    <3>. QED BY <3>1, <3>2, <3>3, <1>b
  <2>2. \A s, t \in Session : subscribers'[s] # 0 /\ subscribers'[s] = subscribers'[t] => s = t
    BY <1>a DEF SessionsArePresent
  <2>. QED BY <2>1, <2>2 DEF SessionsArePresent, EventLoopIdle
<1>4. LoopsAreDone'
  BY <1>a DEF LoopsAreDone, EventLoopIdle
<1>. QED BY <1>1, <1>2, <1>3, <1>4

\* A loop that builds a peer holds it alone.
LEMMA BuildKeepsPeers ==
  ASSUME CallInv, built' = built + 1, openPeers' = openPeers \cup {built + 1},
         UNCHANGED <<subscribers, present, loops, runPc>>,
         \/ /\ evPeer = NoPeer /\ UNCHANGED rcSwap
            /\ \E s \in evTodo : evPeer' = <<s, built + 1>> /\ evTodo' = evTodo \ {s}
         \/ /\ rcSwap = NoPeer /\ "reconcile" \in loops /\ UNCHANGED <<evPeer, evTodo>>
            /\ \E s \in Session : subscribers[s] # 0 /\ rcSwap' = <<s, subscribers[s], built + 1>>
  PROVE  CallInv'
<1>. USE DEF CallInv
<1>a. built \in Nat /\ built + 1 \in 1..(built + 1) /\ built + 1 \notin 0..built /\ 1..built \subseteq 1..(built + 1)
  BY DEF PeersAreNumbered
<1>b. \A p \in 1..(built + 1) : p \in 1..built \/ p = built + 1
  BY <1>a
<1>c. ~Registered(built + 1) /\ built + 1 \notin openPeers
  BY <1>a DEF PeersAreNumbered, Registered
<1>d. ~InEventHand(built + 1) /\ ~InSwapHand(built + 1)
  BY <1>a DEF PeersAreNumbered, InEventHand, InSwapHand
<1>e. \A p : Registered(p)' <=> Registered(p)
  BY DEF Registered
<1>1. CASE /\ evPeer = NoPeer /\ UNCHANGED rcSwap
           /\ \E s \in evTodo : evPeer' = <<s, built + 1>> /\ evTodo' = evTodo \ {s}
  <2>1. PICK s \in evTodo : evPeer' = <<s, built + 1>> /\ evTodo' = evTodo \ {s}
    BY <1>1
  <2>2. s \in Session /\ s \in present /\ evPeer' # NoPeer /\ evPeer'[1] = s /\ evPeer'[2] = built + 1
    BY <2>1 DEF PeersAreNumbered, SessionsArePresent, NoPeer
  <2>3. \A p : (InEventHand(p)' <=> p = built + 1) /\ ~InEventHand(p) /\ (InSwapHand(p)' <=> InSwapHand(p))
    BY <1>1, <2>2 DEF InEventHand, InSwapHand
  <2>4. PeersAreNumbered'
    BY <1>1, <1>a, <2>1, <2>2 DEF PeersAreNumbered
  <2>5. PeersAreOwned'
    BY <1>a, <1>b, <1>c, <1>d, <1>e, <2>3 DEF PeersAreOwned
  <2>6. SessionsArePresent'
    BY <2>1, <2>2 DEF SessionsArePresent
  <2>7. LoopsAreDone'
    BY <1>1, <2>1 DEF LoopsAreDone
  <2>. QED BY <2>4, <2>5, <2>6, <2>7
<1>2. CASE /\ rcSwap = NoPeer /\ "reconcile" \in loops /\ UNCHANGED <<evPeer, evTodo>>
           /\ \E s \in Session : subscribers[s] # 0 /\ rcSwap' = <<s, subscribers[s], built + 1>>
  <2>1. PICK s \in Session : subscribers[s] # 0 /\ rcSwap' = <<s, subscribers[s], built + 1>>
    BY <1>2
  <2>2. subscribers[s] \in 1..built /\ rcSwap' # NoPeer /\ rcSwap'[3] = built + 1
    BY <2>1, <1>a DEF PeersAreNumbered, NoPeer
  <2>3. \A p : (InSwapHand(p)' <=> p = built + 1) /\ ~InSwapHand(p) /\ (InEventHand(p)' <=> InEventHand(p))
    BY <1>2, <2>2 DEF InEventHand, InSwapHand
  <2>4. PeersAreNumbered'
    BY <1>2, <1>a, <2>1, <2>2 DEF PeersAreNumbered
  <2>5. PeersAreOwned'
    BY <1>a, <1>b, <1>c, <1>d, <1>e, <2>3 DEF PeersAreOwned
  <2>6. SessionsArePresent'
    BY <1>2 DEF SessionsArePresent
  <2>7. LoopsAreDone'
    BY <1>2 DEF LoopsAreDone
  <2>. QED BY <2>4, <2>5, <2>6, <2>7
<1>. QED BY <1>1, <1>2

\* Registering makes the event loop's peer the session's, or closes it.
LEMMA RegisteringKeepsPeers ==
  ASSUME CallInv, registerPeer
  PROVE  CallInv'
<1>. USE DEF CallInv, calls, runs
<1>1. PICK s \in Session, p \in 1..built : evPeer = <<s, p>>
  BY DEF registerPeer, PeersAreNumbered
<1>2. /\ evPeer[1] = s /\ evPeer[2] = p /\ evPeer # NoPeer /\ evPeer' = NoPeer /\ InEventHand(p)
      /\ \A q : ~InEventHand(q)' /\ (InSwapHand(q)' <=> InSwapHand(q)) /\ (InEventHand(q) => q = p)
  BY <1>1 DEF registerPeer, NoPeer, InEventHand, InSwapHand
<1>3. p \in openPeers /\ ~Registered(p) /\ ~InSwapHand(p) /\ s \in present /\ "event" \in loops
  BY <1>2 DEF PeersAreOwned, SessionsArePresent, LoopsAreDone
<1>4. built \in Nat /\ p # 0
  BY DEF PeersAreNumbered
<1>5. CASE openPeers' = openPeers \ {p} /\ UNCHANGED subscribers
  <2>1. \A q : Registered(q)' <=> Registered(q)
    BY <1>5 DEF Registered
  <2>2. PeersAreNumbered'
    BY <1>2, <1>5 DEF PeersAreNumbered, registerPeer
  <2>3. PeersAreOwned'
    BY <1>2, <1>3, <1>5, <2>1 DEF PeersAreOwned, registerPeer
  <2>4. SessionsArePresent'
    BY <1>2, <1>3, <1>5 DEF SessionsArePresent, registerPeer, Registered
  <2>5. LoopsAreDone'
    BY <1>2, <1>5 DEF LoopsAreDone, registerPeer
  <2>. QED BY <2>2, <2>3, <2>4, <2>5
<1>6. CASE subscribers' = [subscribers EXCEPT ![s] = p] /\ subscribers[s] = 0 /\ UNCHANGED openPeers
  <2>0. subscribers \in [Session -> 0..built] /\ p \in 0..built
    BY <1>4 DEF PeersAreNumbered
  <2>1. \A t \in Session : subscribers'[t] = IF t = s THEN p ELSE subscribers[t]
    BY <1>6, <2>0
  <2>a. \A q : q # 0 => (Registered(q)' <=> Registered(q) \/ q = p)
    BY <1>6, <2>1 DEF Registered
  <2>b. \A q \in 1..built : q # 0
    BY <1>4
  <2>2. PeersAreNumbered'
    <3>1. subscribers' \in [Session -> 0..built]
      BY <1>6, <2>0
    <3>. QED BY <3>1, <1>2, <1>6 DEF PeersAreNumbered, registerPeer
  <2>3. PeersAreOwned'
    <3>1. openPeers \subseteq 1..built /\ built' = built
      BY DEF PeersAreNumbered, registerPeer
    <3>. QED BY <3>1, <1>2, <1>3, <1>6, <2>a, <2>b DEF PeersAreOwned
  <2>4. SessionsArePresent'
    <3>1. \A t \in Session : subscribers[t] # p
      BY <1>3 DEF Registered
    <3>. QED BY <3>1, <1>2, <1>3, <1>6, <2>1 DEF SessionsArePresent, registerPeer
  <2>5. LoopsAreDone'
    BY <1>2, <1>3, <1>6 DEF LoopsAreDone, registerPeer
  <2>. QED BY <2>2, <2>3, <2>4, <2>5
<1>. QED BY <1>2, <1>5, <1>6 DEF registerPeer

\* The swap puts the new peer in the place of the old one, or closes it.
LEMMA SwapKeepsPeers ==
  ASSUME CallInv, SwapPeer
  PROVE  CallInv'
<1>. USE DEF CallInv, calls, runs
<1>1. PICK s \in Session, old \in 1..built, p \in 1..built : rcSwap = <<s, old, p>>
  BY DEF SwapPeer, PeersAreNumbered
<1>2. /\ rcSwap[1] = s /\ rcSwap[2] = old /\ rcSwap[3] = p /\ rcSwap # NoPeer /\ rcSwap' = NoPeer
      /\ InSwapHand(p)
      /\ \A q : ~InSwapHand(q)' /\ (InEventHand(q)' <=> InEventHand(q)) /\ (InSwapHand(q) => q = p)
  BY <1>1 DEF SwapPeer, NoPeer, InEventHand, InSwapHand
<1>3. p \in openPeers /\ ~Registered(p) /\ ~InEventHand(p) /\ "reconcile" \in loops
  BY <1>2 DEF PeersAreOwned, LoopsAreDone
<1>4. built \in Nat /\ p # 0 /\ old # 0
  BY DEF PeersAreNumbered
<1>5. CASE openPeers' = openPeers \ {p} /\ UNCHANGED subscribers
  <2>1. \A q : Registered(q)' <=> Registered(q)
    BY <1>5 DEF Registered
  <2>2. PeersAreNumbered'
    BY <1>2, <1>5 DEF PeersAreNumbered, SwapPeer
  <2>3. PeersAreOwned'
    BY <1>2, <1>3, <1>5, <2>1 DEF PeersAreOwned, SwapPeer
  <2>4. SessionsArePresent'
    BY <1>2, <1>3, <1>5 DEF SessionsArePresent, SwapPeer, Registered
  <2>5. LoopsAreDone'
    BY <1>2, <1>5 DEF LoopsAreDone, SwapPeer
  <2>. QED BY <2>2, <2>3, <2>4, <2>5
<1>6. CASE /\ subscribers' = [subscribers EXCEPT ![s] = p] /\ subscribers[s] = old
           /\ openPeers' = openPeers \ {old}
  <2>0. subscribers \in [Session -> 0..built] /\ p \in 0..built
    BY <1>4 DEF PeersAreNumbered
  <2>1. \A t \in Session : subscribers'[t] = IF t = s THEN p ELSE subscribers[t]
    BY <1>6, <2>0
  <2>a. Registered(old) /\ old # p /\ ~InEventHand(old)
    BY <1>3, <1>6 DEF Registered, PeersAreOwned
  <2>b. \A t \in Session : t # s => subscribers[t] # old
    BY <1>4, <1>6 DEF SessionsArePresent
  <2>c. \A q : Registered(q)' <=> (Registered(q) /\ q # old) \/ q = p
    BY <1>6, <2>1, <2>a, <2>b DEF Registered
  <2>2. PeersAreNumbered'
    <3>1. subscribers' \in [Session -> 0..built]
      BY <1>6, <2>0
    <3>. QED BY <3>1, <1>2, <1>6 DEF PeersAreNumbered, SwapPeer
  <2>3. PeersAreOwned'
    <3>1. built' = built
      BY DEF SwapPeer
    <3>. QED BY <3>1, <1>2, <1>3, <1>6, <2>a, <2>c DEF PeersAreOwned
  <2>4. SessionsArePresent'
    <3>1. \A t \in Session : subscribers[t] # p
      BY <1>3 DEF Registered
    <3>2. s \in present
      BY <1>4, <1>6 DEF SessionsArePresent
    <3>3. ASSUME NEW t \in Session, subscribers'[t] # 0
          PROVE  subscribers'[t] \in openPeers' /\ t \in present'
      BY <3>2, <3>3, <1>3, <1>6, <2>1, <2>a, <2>b DEF SessionsArePresent, SwapPeer
    <3>4. \A t, u \in Session : subscribers'[t] # 0 /\ subscribers'[t] = subscribers'[u] => t = u
      BY <3>1, <2>1 DEF SessionsArePresent
    <3>. QED BY <3>3, <3>4 DEF SessionsArePresent, SwapPeer
  <2>5. LoopsAreDone'
    BY <1>2, <1>3, <1>6 DEF LoopsAreDone, SwapPeer
  <2>. QED BY <2>2, <2>3, <2>4, <2>5
<1>. QED BY <1>2, <1>5, <1>6 DEF SwapPeer

\* The cleanup closes every registered peer, and no other one is open by then.
LEMMA CleanupKeepsPeers ==
  ASSUME CallInv, cleanup
  PROVE  CallInv'
<1>. USE DEF CallInv, cleanup, calls
<1>1. evPeer = NoPeer /\ rcSwap = NoPeer /\ evTodo = {}
  BY DEF LoopsAreDone
<1>2. openPeers' = {} /\ \A s \in Session : subscribers'[s] = 0
  BY <1>1 DEF PeersAreOwned, Registered, InEventHand, InSwapHand
<1>3. PeersAreNumbered'
  <2>1. built \in Nat /\ 0 \in 0..built
    BY DEF PeersAreNumbered
  <2>2. subscribers' \in [Session -> 0..built]
    BY <2>1
  <2>. QED BY <2>1, <2>2, <1>1, <1>2 DEF PeersAreNumbered, CallPcs
<1>4. PeersAreOwned'
  BY <1>1, <1>2 DEF PeersAreOwned, InEventHand, InSwapHand
<1>5. SessionsArePresent'
  BY <1>1, <1>2 DEF SessionsArePresent
<1>6. LoopsAreDone'
  BY <1>1, <1>2 DEF LoopsAreDone
<1>. QED BY <1>3, <1>4, <1>5, <1>6

\* Nothing else touches a peer: loops and sessions to visit only get fewer.
LEMMA QuietStepKeepsPeers ==
  ASSUME CallInv, UNCHANGED <<subscribers, openPeers, built, evPeer, rcSwap>>,
         present \subseteq present', present' \subseteq Session,
         evTodo' \subseteq evTodo \/ (evTodo' \subseteq present' /\ evTodo' \subseteq Session /\ "event" \in loops'),
         "event" \notin loops' => evTodo' = {} /\ evPeer = NoPeer,
         "reconcile" \notin loops' => rcSwap = NoPeer,
         loops' \subseteq loops,
         runPc' \in CallPcs,
         runPc' \notin {"running", "cancelled"} => runPc \notin {"running", "cancelled"}
  PROVE  CallInv'
<1>. USE DEF CallInv
<1>1. PeersAreNumbered'
  BY DEF PeersAreNumbered
<1>2. PeersAreOwned'
  BY DEF PeersAreOwned, Registered, InEventHand, InSwapHand
<1>3. SessionsArePresent'
  BY DEF SessionsArePresent
<1>4. LoopsAreDone'
  BY DEF LoopsAreDone
<1>. QED BY <1>1, <1>2, <1>3, <1>4

LEMMA CallStarts == CallInit => CallInv
<1>. SUFFICES ASSUME CallInit PROVE CallInv
  OBVIOUS
<1>1. PeersAreNumbered
  BY DEF CallInit, PeersAreNumbered, CallPcs
<1>2. PeersAreOwned
  BY DEF CallInit, PeersAreOwned, InEventHand, InSwapHand
<1>3. SessionsArePresent
  BY DEF CallInit, SessionsArePresent
<1>4. LoopsAreDone
  BY DEF CallInit, LoopsAreDone
<1>. QED BY <1>1, <1>2, <1>3, <1>4 DEF CallInv

\* What one session, or the set of them, makes the event loop do.
LEMMA EventLoopKeepsPeers ==
  ASSUME CallInv,
         \/ \E s \in Session : SessionAppears(s) \/ removeParticipantSessions(s) \/ ensureSubscriber(s)
         \/ \E active \in SUBSET Session : syncRemoteParticipants(active)
         \/ EventLoopReturns
  PROVE  CallInv'
<1>. USE DEF calls, runs, peers
<1>0. /\ evTodo \subseteq Session /\ present \subseteq Session /\ evTodo \subseteq present /\ runPc \in CallPcs
      /\ "event" \notin loops => evTodo = {} /\ evPeer = NoPeer
      /\ "reconcile" \notin loops => rcSwap = NoPeer
  BY DEF CallInv, PeersAreNumbered, SessionsArePresent, LoopsAreDone
<1>1. ASSUME NEW s \in Session, SessionAppears(s)  PROVE CallInv'
  <2>1. "event" \in loops /\ evTodo' = {s} /\ present' = present \cup {s} /\ evPeer = NoPeer
    BY <1>1 DEF SessionAppears, EventLoopIdle
  <2>. QED BY <1>0, <1>1, <2>1, QuietStepKeepsPeers DEF SessionAppears
<1>2. ASSUME NEW s \in Session, removeParticipantSessions(s)  PROVE CallInv'
  <2>1. {s} \in SUBSET Session /\ removeSubscribers({s}) /\ EventLoopIdle
    BY <1>2 DEF removeParticipantSessions
  <2>2. evTodo' = {} /\ present' \in SUBSET Session /\ (Session \ {s}) \cap present \subseteq present'
    BY <1>0, <1>2 DEF removeParticipantSessions, EventLoopIdle
  <2>. QED BY <1>2, <2>1, <2>2, RemovalKeepsPeers DEF removeParticipantSessions
<1>3. ASSUME NEW active \in SUBSET Session, syncRemoteParticipants(active)  PROVE CallInv'
  <2>1. Session \ active \in SUBSET Session /\ removeSubscribers(Session \ active) /\ EventLoopIdle
    BY <1>3 DEF syncRemoteParticipants
  <2>2. evTodo' = present' /\ present' \in SUBSET Session
        /\ (Session \ (Session \ active)) \cap present \subseteq present'
    BY <1>3 DEF syncRemoteParticipants
  <2>. QED BY <1>3, <2>1, <2>2, RemovalKeepsPeers DEF syncRemoteParticipants
<1>4. ASSUME NEW s \in Session, ensureSubscriber(s)  PROVE CallInv'
  <2>1. s \in evTodo /\ evPeer = NoPeer /\ "event" \in loops
    BY <1>0, <1>4 DEF ensureSubscriber
  <2>2. CASE evTodo' = evTodo \ {s} /\ UNCHANGED <<peers, evPeer, loops>>
    BY <1>0, <1>4, <2>1, <2>2, QuietStepKeepsPeers DEF ensureSubscriber
  <2>3. CASE /\ built' = built + 1 /\ openPeers' = openPeers \cup {built + 1}
             /\ evPeer' = <<s, built + 1>> /\ evTodo' = evTodo \ {s}
             /\ UNCHANGED <<subscribers, rebuilds, loops>>
    BY <1>4, <2>1, <2>3, BuildKeepsPeers DEF ensureSubscriber
  <2>4. CASE loops' = loops \ {"event"} /\ evTodo' = {} /\ UNCHANGED <<peers, evPeer>>
    <3>1. "reconcile" \notin loops' => rcSwap = NoPeer
      BY <1>0, <2>4
    <3>. QED BY <1>0, <1>4, <2>1, <2>4, <3>1, QuietStepKeepsPeers DEF ensureSubscriber
  <2>. QED BY <1>4, <2>2, <2>3, <2>4 DEF ensureSubscriber
<1>5. ASSUME EventLoopReturns  PROVE CallInv'
  <2>1. "reconcile" \notin loops' => rcSwap = NoPeer
    BY <1>0, <1>5 DEF EventLoopReturns
  <2>. QED BY <1>0, <1>5, <2>1, QuietStepKeepsPeers DEF EventLoopReturns
<1>. QED BY <1>1, <1>2, <1>3, <1>4, <1>5

\* The reconcile loop, the tracks and the run loop.
LEMMA OtherLoopsKeepPeers ==
  ASSUME CallInv,
         \/ \E s \in Session : addTrackReader(s) \/ \E failure \in BOOLEAN : replaceSubscriber(s, failure)
         \/ ReconcileReturns \/ \E p \in readers : TrackEnds(p)
         \/ RunLoop \/ RunStops \/ waitForTrackReaders \/ FinalizeAndReport
  PROVE  CallInv'
<1>. USE DEF calls, runs, peers
<1>0. /\ evTodo \subseteq Session /\ present \subseteq Session /\ runPc \in CallPcs
      /\ "event" \notin loops => evTodo = {} /\ evPeer = NoPeer
      /\ "reconcile" \notin loops => rcSwap = NoPeer
  BY DEF CallInv, PeersAreNumbered, LoopsAreDone
<1>1. ASSUME NEW s \in Session, NEW failure \in BOOLEAN, replaceSubscriber(s, failure)  PROVE CallInv'
  BY <1>1, BuildKeepsPeers DEF replaceSubscriber
<1>2. CASE \/ \E s \in Session : addTrackReader(s)
           \/ \E p \in readers : TrackEnds(p)
  BY <1>0, <1>2, QuietStepKeepsPeers DEF addTrackReader, TrackEnds
<1>3. CASE ReconcileReturns
  <2>1. "event" \notin loops' => evTodo' = {} /\ evPeer = NoPeer
    BY <1>0, <1>3 DEF ReconcileReturns
  <2>. QED BY <1>0, <1>3, <2>1, QuietStepKeepsPeers DEF ReconcileReturns
<1>4. CASE RunLoop \/ RunStops
  <2>1. UNCHANGED <<peers, calls, evTodo, evPeer, rcSwap, loops>> /\ runPc' \in CallPcs
        /\ (runPc' \notin {"running", "cancelled"} => runPc \notin {"running", "cancelled"})
    BY <1>0, <1>4 DEF RunLoop, SubscribersChanged, RoomEmptyTimerFires, RunStops, CallPcs
  <2>. QED BY <1>0, <2>1, QuietStepKeepsPeers
<1>5. CASE waitForTrackReaders \/ FinalizeAndReport
  <2>1. UNCHANGED <<peers, calls, evTodo, evPeer, rcSwap, loops>> /\ runPc' \in CallPcs
        /\ (runPc' \notin {"running", "cancelled"} => runPc \notin {"running", "cancelled"})
    BY <1>5 DEF waitForTrackReaders, FinalizeAndReport, CallPcs
  <2>. QED BY <1>0, <2>1, QuietStepKeepsPeers
<1>. QED BY <1>1, <1>2, <1>3, <1>4, <1>5

LEMMA CallHoldsAlways == CallSpec => []CallInv
<1>1. ASSUME CallInv, [CallNext]_callVars
      PROVE  CallInv'
  <2>1. CASE CallNext
    BY <1>1, <2>1, EventLoopKeepsPeers, OtherLoopsKeepPeers, RegisteringKeepsPeers, SwapKeepsPeers,
       CleanupKeepsPeers DEF CallNext
  <2>2. CASE UNCHANGED callVars
    BY <1>1, <2>2 DEF callVars, CallInv, PeersAreNumbered, PeersAreOwned, SessionsArePresent, LoopsAreDone,
       Registered, InEventHand, InSwapHand
  <2>. QED BY <1>1, <2>1, <2>2
<1>. QED BY <1>1, CallStarts, PTL DEF CallSpec

-----------------------------------------------------------------------------
(* The theorem.                                                            *)

\* However participants come and go, loops fail and replacements race with departures,
\* no peer connection is leaked and none is kept for somebody who left.
THEOREM PeersAreAlwaysOwned == CallSpec => []OpenPeersAreOwned
<1>1. CallInv => OpenPeersAreOwned
  <2>. SUFFICES ASSUME CallInv PROVE OpenPeersAreOwned
    OBVIOUS
  <2>. USE DEF CallInv
  <2>1. ASSUME NEW p \in openPeers
        PROVE  p \in {subscribers[s] : s \in Session} \/ (evPeer # NoPeer /\ p = evPeer[2])
               \/ (rcSwap # NoPeer /\ p = rcSwap[3])
    BY DEF PeersAreOwned, Registered, InEventHand, InSwapHand
  <2>2. \A s \in Session : subscribers[s] # 0 => subscribers[s] \in openPeers /\ s \in present
    BY DEF SessionsArePresent
  <2>3. ASSUME runPc = "ended"
        PROVE  openPeers = {}
    <3>1. evPeer = NoPeer /\ rcSwap = NoPeer /\ \A s \in Session : subscribers[s] = 0
      BY <2>3 DEF LoopsAreDone
    <3>2. 0 \notin openPeers
      BY DEF PeersAreNumbered
    <3>. QED BY <2>1, <3>1, <3>2
  <2>. QED BY <2>1, <2>2, <2>3 DEF OpenPeersAreOwned
<1>. QED BY <1>1, CallHoldsAlways, PTL
=============================================================================
