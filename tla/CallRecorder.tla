---------------------------- MODULE CallRecorder ----------------------------
(***************************************************************************)
(* One recording of a call: the event loop that follows who is in the call *)
(* and keeps one subscriber peer per participant, the reconcile loop that  *)
(* replaces a peer that brings no media, the run loop that decides when to *)
(* stop, the track readers and the cleanup. Peers are built and closed     *)
(* outside the recorder's lock. What one peer negotiates is in module      *)
(* PeerNegotiation; elapsed time is a nondeterministic choice.             *)
(***************************************************************************)
EXTENDS Naturals, FiniteSets

CONSTANTS
  Session,      \* remote sessions of the call
  MaxPeers,     \* bound: peers built
  MaxRebuilds   \* maxCaptureRebuilds

VARIABLES
  subscribers,  \* r.subscribers: the peer of each session; 0 none
  openPeers,    \* peer connections that are not closed
  built,        \* peers built so far
  rebuilds,     \* rebuildCount of each peer
  inCallEver,   \* sessions that ever had a subscriber
  present,      \* sessions the server's latest event puts in the call
  media,        \* sessions packets were captured from
  evTodo,       \* sessions the event loop has still to subscribe to
  evPeer,       \* <<session, peer>> the event loop built and has not registered
  rcSwap,       \* <<session, old, new>> the reconcile loop is replacing
  loops,        \* loops still running
  notified,     \* the slot of subscriberUpdates
  seenRemote,   \* roomHasSeenRemote
  timerArmed,   \* roomEmptyTimerArmed
  runPc,        \* control point of run and cleanup
  stopping,
  readers,      \* peers with a registered track reader
  gaps          \* sessions reported as capture gaps

callVars == <<subscribers, openPeers, built, rebuilds, inCallEver, present, media, evTodo, evPeer,
              rcSwap, loops, notified, seenRemote, timerArmed, runPc, stopping,
              readers, gaps>>

peers == <<subscribers, openPeers, built, rebuilds>>
calls == <<inCallEver, present, media>>
runs  == <<seenRemote, timerArmed, runPc, stopping, gaps>>

NoPeer == <<>>
subscriberCount == Cardinality({s \in Session : subscribers[s] # 0})
EventLoopIdle == "event" \in loops /\ runPc = "running" /\ evTodo = {} /\ evPeer = NoPeer

-----------------------------------------------------------------------------
(* The event loop.                                                         *)

\* Mutant of removeSubscribers: nobody is told.
RemoveSilently(gone) ==
  /\ subscribers' = [s \in Session |-> IF s \in gone THEN 0 ELSE subscribers[s]]
  /\ openPeers' = openPeers \ {subscribers[s] : s \in gone}
  /\ UNCHANGED <<built, rebuilds, notified>>

\* removeSubscriber for each session of gone: forget, notify and close.
removeSubscribers(gone) ==
  /\ subscribers' = [s \in Session |-> IF s \in gone THEN 0 ELSE subscribers[s]]
  /\ openPeers' = openPeers \ {subscribers[s] : s \in gone}
  /\ notified' = (notified \/ \E s \in gone : subscribers[s] # 0)
  /\ UNCHANGED <<built, rebuilds>>

\* One participant is in the call, or an offer or a candidate came from it.
SessionAppears(s) ==
  /\ EventLoopIdle
  /\ present' = present \cup {s}
  /\ evTodo' = {s}
  /\ UNCHANGED <<peers, inCallEver, media, evPeer, rcSwap, loops, notified, runs, readers>>

\* A leave, or an update that says the session is not in the call.
removeParticipantSessions(s) ==
  /\ EventLoopIdle
  /\ present' = present \ {s}
  /\ removeSubscribers({s})
  /\ UNCHANGED <<inCallEver, media, evTodo, evPeer, rcSwap, loops, runs, readers>>

\* An update of everyone: those not in it are removed, those in it subscribed.
\* The end of the call for all is the empty one.
syncRemoteParticipants(active) ==
  /\ EventLoopIdle
  /\ present' = active
  /\ removeSubscribers(Session \ active)
  /\ evTodo' = active
  /\ UNCHANGED <<inCallEver, media, evPeer, rcSwap, loops, runs, readers>>

\* ensureSubscriber up to the building: nothing to do once stopping or when
\* there is a peer. Failing to build one ends the loop with an error.
ensureSubscriber(s) ==
  /\ s \in evTodo /\ evPeer = NoPeer
  /\ \/ /\ stopping \/ subscribers[s] # 0
        /\ evTodo' = evTodo \ {s}
        /\ UNCHANGED <<peers, evPeer, loops>>
     \/ /\ ~stopping /\ subscribers[s] = 0 /\ built < MaxPeers
        /\ built' = built + 1 /\ openPeers' = openPeers \cup {built + 1}
        /\ evPeer' = <<s, built + 1>> /\ evTodo' = evTodo \ {s}
        /\ UNCHANGED <<subscribers, rebuilds, loops>>
     \/ /\ ~stopping /\ subscribers[s] = 0
        /\ loops' = loops \ {"event"} /\ evTodo' = {}
        /\ UNCHANGED <<peers, evPeer>>
  /\ UNCHANGED <<calls, rcSwap, notified, runs, readers>>

\* The rest of it: register, or close what was built for nothing.
registerPeer ==
  /\ evPeer # NoPeer
  /\ \/ /\ stopping \/ subscribers[evPeer[1]] # 0
        /\ openPeers' = openPeers \ {evPeer[2]}
        /\ UNCHANGED <<subscribers, inCallEver, notified>>
     \/ /\ ~stopping /\ subscribers[evPeer[1]] = 0
        /\ subscribers' = [subscribers EXCEPT ![evPeer[1]] = evPeer[2]]
        /\ inCallEver' = inCallEver \cup {evPeer[1]} /\ notified' = TRUE
        /\ UNCHANGED openPeers
  /\ evPeer' = NoPeer
  /\ UNCHANGED <<built, rebuilds, present, media, evTodo, rcSwap, loops, runs, readers>>

\* A connection error, or an event loop told to stop once it is idle.
EventLoopReturns ==
  /\ "event" \in loops /\ evTodo = {} /\ evPeer = NoPeer
  /\ loops' = loops \ {"event"}
  /\ UNCHANGED <<peers, calls, evTodo, evPeer, rcSwap, notified, runs, readers>>

-----------------------------------------------------------------------------
(* The reconcile loop.                                                     *)

\* What the loop may decide for a peer once its time is up: to rebuild it after
\* a transport failure, if it brought no packets and the budget is not spent, or
\* to refresh a subscription that was offered no audio.
reconcileActionFor(s, failure) ==
  failure => s \notin media /\ rebuilds[subscribers[s]] < MaxRebuilds

\* replaceSubscriber up to the swap; an audio refresh is not counted.
replaceSubscriber(s, failure) ==
  /\ "reconcile" \in loops /\ rcSwap = NoPeer /\ ~stopping /\ runPc = "running"
  /\ subscribers[s] # 0 /\ reconcileActionFor(s, failure) /\ built < MaxPeers
  /\ built' = built + 1 /\ openPeers' = openPeers \cup {built + 1}
  /\ rebuilds' = [rebuilds EXCEPT ![built + 1] = rebuilds[subscribers[s]] + (IF failure THEN 1 ELSE 0)]
  /\ rcSwap' = <<s, subscribers[s], built + 1>>
  /\ UNCHANGED <<subscribers, calls, evTodo, evPeer, loops, notified, runs, readers>>

\* Mutant of SwapPeer: the old peer's registration is not looked at again.
SwapUnchecked ==
  /\ rcSwap # NoPeer
  /\ subscribers' = [subscribers EXCEPT ![rcSwap[1]] = rcSwap[3]]
  /\ openPeers' = openPeers \ {rcSwap[2]}
  /\ rcSwap' = NoPeer
  /\ UNCHANGED <<built, rebuilds, calls, evTodo, evPeer, loops, notified, runs, readers>>

\* Its compare-and-swap: close the loser, the old peer or the new one.
SwapPeer ==
  /\ rcSwap # NoPeer
  /\ \/ /\ stopping \/ subscribers[rcSwap[1]] # rcSwap[2]
        /\ openPeers' = openPeers \ {rcSwap[3]}
        /\ UNCHANGED subscribers
     \/ /\ ~stopping /\ subscribers[rcSwap[1]] = rcSwap[2]
        /\ subscribers' = [subscribers EXCEPT ![rcSwap[1]] = rcSwap[3]]
        /\ openPeers' = openPeers \ {rcSwap[2]}
  /\ rcSwap' = NoPeer
  /\ UNCHANGED <<built, rebuilds, calls, evTodo, evPeer, loops, notified, runs, readers>>

ReconcileReturns ==
  /\ "reconcile" \in loops /\ rcSwap = NoPeer /\ runPc = "cancelled"
  /\ loops' = loops \ {"reconcile"}
  /\ UNCHANGED <<peers, calls, evTodo, evPeer, rcSwap, notified, runs, readers>>

-----------------------------------------------------------------------------
(* Tracks.                                                                 *)

\* A track starts on an open peer; no reader is added once stopping.
addTrackReader(s) ==
  /\ subscribers[s] \in openPeers /\ ~stopping /\ subscribers[s] \notin readers
  /\ readers' = readers \cup {subscribers[s]}
  /\ media' \in {media, media \cup {s}}
  /\ UNCHANGED <<peers, inCallEver, present, evTodo, evPeer, rcSwap, loops, notified, runs>>

\* Its transport is gone.
TrackEnds(p) ==
  /\ p \in readers \ openPeers
  /\ readers' = readers \ {p}
  /\ UNCHANGED <<peers, calls, evTodo, evPeer, rcSwap, loops, notified, runs>>

-----------------------------------------------------------------------------
(* The run loop and the cleanup.                                           *)

nextRoomEmptyTimerAction(seen, armed, count) ==
  [seen |-> seen \/ count > 0, arm |-> count = 0 /\ seen]

SubscribersChanged ==
  LET next == nextRoomEmptyTimerAction(seenRemote, timerArmed, subscriberCount) IN
  /\ runPc = "running" /\ notified
  /\ notified' = FALSE
  /\ seenRemote' = next.seen /\ timerArmed' = next.arm
  /\ UNCHANGED <<peers, calls, evTodo, evPeer, rcSwap, loops, runPc, stopping, readers, gaps>>

RoomEmptyTimerFires ==
  /\ runPc = "running" /\ timerArmed
  /\ \/ subscriberCount = 0 /\ runPc' = "cancelled" /\ UNCHANGED timerArmed
     \/ subscriberCount > 0 /\ timerArmed' = FALSE /\ UNCHANGED runPc
  /\ UNCHANGED <<peers, calls, evTodo, evPeer, rcSwap, loops, notified, seenRemote,
                 stopping, readers, gaps>>

\* The duration is over, a stop was asked for, or the event loop failed.
RunStops ==
  /\ runPc = "running"
  /\ runPc' = "cancelled"
  /\ UNCHANGED <<peers, calls, evTodo, evPeer, rcSwap, loops, notified, seenRemote,
                 timerArmed, stopping, readers, gaps>>

\* cleanup after both loops are joined: take every peer and close it.
cleanup ==
  /\ runPc = "cancelled" /\ loops = {}
  /\ stopping' = TRUE
  /\ openPeers' = openPeers \ {subscribers[s] : s \in Session}
  /\ subscribers' = [s \in Session |-> 0]
  /\ runPc' = "joining"
  /\ UNCHANGED <<built, rebuilds, calls, evTodo, evPeer, rcSwap, loops, notified,
                 seenRemote, timerArmed, readers, gaps>>

\* Readers are joined, or given up on after a while.
waitForTrackReaders ==
  /\ runPc = "joining"
  /\ runPc' = "finalizing"
  /\ UNCHANGED <<peers, calls, evTodo, evPeer, rcSwap, loops, notified, seenRemote,
                 timerArmed, stopping, readers, gaps>>

detectCaptureGaps == inCallEver \ media

FinalizeAndReport ==
  /\ runPc = "finalizing"
  /\ gaps' = detectCaptureGaps
  /\ runPc' = "ended"
  /\ UNCHANGED <<peers, calls, evTodo, evPeer, rcSwap, loops, notified, seenRemote,
                 timerArmed, stopping, readers>>

-----------------------------------------------------------------------------
CallInit ==
  /\ subscribers = [s \in Session |-> 0] /\ openPeers = {} /\ built = 0
  /\ rebuilds = [p \in 0..MaxPeers |-> 0]
  /\ inCallEver = {} /\ present = {} /\ media = {}
  /\ evTodo = {} /\ evPeer = NoPeer /\ rcSwap = NoPeer
  /\ loops = {"event", "reconcile"}
  /\ notified = TRUE /\ seenRemote = FALSE /\ timerArmed = FALSE
  /\ runPc = "running" /\ stopping = FALSE /\ readers = {} /\ gaps = {}

RunLoop == SubscribersChanged \/ RoomEmptyTimerFires

CallNext ==
  \/ \E s \in Session :
       \/ SessionAppears(s) \/ removeParticipantSessions(s) \/ ensureSubscriber(s)
       \/ addTrackReader(s) \/ \E failure \in BOOLEAN : replaceSubscriber(s, failure)
  \/ \E active \in SUBSET Session : syncRemoteParticipants(active)
  \/ registerPeer \/ EventLoopReturns \/ SwapPeer \/ ReconcileReturns
  \/ \E p \in readers : TrackEnds(p)
  \/ RunLoop \/ RunStops \/ cleanup \/ waitForTrackReaders \/ FinalizeAndReport

CallSpec == CallInit /\ [][CallNext]_callVars

\* The run loop's select is served again and again: an update in the slot and
\* an expired timer are each picked eventually.
CallFairSpec == CallSpec /\ WF_callVars(SubscribersChanged) /\ WF_callVars(RoomEmptyTimerFires)

-----------------------------------------------------------------------------
(* Properties.                                                             *)

\* A peer connection is never leaked: an open one is registered or in the
\* hands of the loop that built it, and none is left after the recording. Nor
\* does a replacement bring back somebody who left: a registered peer is open
\* and belongs to a session the latest event put in the call.
OpenPeersAreOwned ==
  LET InHand == (IF evPeer = NoPeer THEN {} ELSE {evPeer[2]})
                \cup (IF rcSwap = NoPeer THEN {} ELSE {rcSwap[3]})
  IN /\ openPeers \subseteq {subscribers[s] : s \in Session} \cup InHand
     /\ \A s \in Session : subscribers[s] # 0 => subscribers[s] \in openPeers /\ s \in present
     /\ runPc = "ended" => openPeers = {}

\* With stop_when_room_empty, a room that empties after somebody was seen in it
\* stops the recording, unless somebody comes back: the one-slot notification
\* and the timer together lose no departure.
EmptyRoomStops == (seenRemote /\ subscriberCount = 0) ~> (subscriberCount > 0 \/ runPc # "running")
=============================================================================
