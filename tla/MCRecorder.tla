----------------------------- MODULE MCRecorder -----------------------------
(***************************************************************************)
(* Instance for TLC of the recorder's components: a call, one of its       *)
(* peers, the websocket, the session artifact, and the model cache of the  *)
(* same program. They share no state, so a behaviour of the recorder is    *)
(* any merge of theirs, and looking at one component at a time loses none  *)
(* of the states they reach.                                               *)
(***************************************************************************)
EXTENDS PeerNegotiation, SignalingClient, CallRecorder, CaptureArtifact, ModelStore

CONSTANTS i1, i2

VARIABLE part  \* the component this behaviour is about

vars == <<part, peerVars, clientVars, callVars, artVars, storeVars>>

Init ==
  /\ part \in {"peer", "client", "call", "artifact", "models"}
  /\ PeerInit /\ ClientInit /\ CallInit /\ ArtifactInit /\ StoreInit

PeerStep ==
  part = "peer" /\ PeerNext /\ UNCHANGED <<part, clientVars, callVars, artVars, storeVars>>
ClientStep ==
  part = "client" /\ ClientNext /\ UNCHANGED <<part, peerVars, callVars, artVars, storeVars>>
CallStep ==
  part = "call" /\ CallNext /\ UNCHANGED <<part, peerVars, clientVars, artVars, storeVars>>
ArtifactStep ==
  part = "artifact" /\ ArtifactNext /\ UNCHANGED <<part, peerVars, clientVars, callVars, storeVars>>
ModelsStep ==
  part = "models" /\ StoreNext /\ UNCHANGED <<part, peerVars, clientVars, callVars, artVars>>

Next == PeerStep \/ ClientStep \/ CallStep \/ ArtifactStep \/ ModelsStep

Spec ==
  /\ Init /\ [][Next]_vars
  /\ WF_vars(CallStep /\ SubscribersChanged)
  /\ WF_vars(CallStep /\ RoomEmptyTimerFires)
=============================================================================
