-------------------------- MODULE RecordingProofs ---------------------------
(***************************************************************************)
(* Proofs about recording: what decides whether a recording runs, the stop *)
(* protocol (RecordStop) and its priority over other work                  *)
(* (RecordingPriority); and the files of the recorder program, the session *)
(* artifact (CaptureArtifact) and the cache of speech models (ModelStore). *)
(***************************************************************************)
EXTENDS RecordStop, RecordingPriority, CaptureArtifact, ModelStore, FiniteSetTheorems, TLAPS

-----------------------------------------------------------------------------
(***************************************************************************)
(* RecordStop, for any set of concurrent stop requests and with or without *)
(* store failures.                                                         *)
(***************************************************************************)

(* The inductive invariant. TypeOK is not inductive as it stands: that two  *)
(* enforcers are the most rests on who may still start one.                 *)

\* TypeOK without the bound on the enforcers.
StopTypes ==
  /\ stage \in {"start", "registered", "marked", "started", "pending", "waiting",
                "returned", "left", "ended"}
  /\ store \in {"queued", "running", "left"}
  /\ reg \in BOOLEAN /\ attached \in BOOLEAN /\ signalled \in BOOLEAN
  /\ stopInProgress \in BOOLEAN /\ done \in BOOLEAN
  /\ termed \in BOOLEAN /\ talkFailed \in BOOLEAN /\ shutdown \in BOOLEAN
  /\ proc \in {"none", "live", "acked", "gone"}
  /\ sent \in Nat
  /\ enforcers \in Nat
  /\ watch \in {"none", "armed", "fired"}
  /\ hpc \in [Stopper -> {"new", "gated", "begun", "claimed", "unclaimed", "signalled", "answered"}]
  /\ answer \in [Stopper -> {0, 202, 409, 410, 500}]

\* The registration brackets the stage: it is there from the first step to the
\* last, and the row says running only inside it.
Bracketed ==
  /\ reg <=> stage \notin {"start", "ended"}
  /\ store = "running" => stage \notin {"start", "registered"}
  /\ stage \in {"start", "registered", "marked", "started", "pending"} => watch = "none"

\* The latch: nothing is sent, owed or about to be sent before it is closed,
\* and whoever closed it is the only one who sends.
SignalIsClaimed ==
  /\ ~signalled => sent = 0 /\ stage # "pending"
  /\ stage = "pending" => sent = 0
  /\ \A h \in Stopper :
       /\ hpc[h] \in {"claimed", "signalled"} =>
            /\ signalled /\ stage # "pending"
            /\ \A g \in Stopper : g # h => hpc[g] \notin {"claimed", "signalled"}
       /\ hpc[h] = "claimed" => sent = 0
       /\ hpc[h] = "signalled" => sent = 1
  /\ sent <= 1

\* Enforcers there may be: one of the shutdown watch once it fired, and one of
\* the claim once its signal is sent and its handler has gone past the mark.
OfShutdown == IF watch = "fired" THEN 1 ELSE 0
OfClaim == IF sent = 1 /\ \A h \in Stopper : hpc[h] # "signalled" THEN 1 ELSE 0
EnforcersAccounted == enforcers <= OfShutdown + OfClaim

StopInv ==
  StopTypes /\ Bracketed /\ SignalIsClaimed /\ EnforcersAccounted /\ StopNotLost

\* The inductive invariant holds at the start.
LEMMA StopInvInit == StopInit => StopInv
<1>. SUFFICES ASSUME StopInit PROVE StopInv
  OBVIOUS
<1>1. StopTypes
  BY DEF StopInit, StopTypes
<1>2. Bracketed
  BY DEF StopInit, Bracketed
<1>3. SignalIsClaimed
  BY DEF StopInit, SignalIsClaimed
<1>4. EnforcersAccounted
  BY DEF StopInit, EnforcersAccounted, OfShutdown, OfClaim
<1>5. StopNotLost
  BY DEF StopInit, StopNotLost
<1>. QED
  BY <1>1, <1>2, <1>3, <1>4, <1>5 DEF StopInv

\* Every step of the record goroutine, of the recorder, of a request, of an
\* enforcer and of the shutdown keeps the types and the bracket.
LEMMA TypesStep == StopInv /\ [StopNext]_stopVars => StopTypes' /\ Bracketed'
<1>. SUFFICES ASSUME StopInv, [StopNext]_stopVars PROVE StopTypes' /\ Bracketed'
  OBVIOUS
<1>. USE DEF StopInv, StopTypes, Bracketed, flags, procs, stops
<1>1. CASE RecordGoroutine
  <2>1. CASE registerRecordJob
    BY <2>1 DEF registerRecordJob
  <2>2. CASE MarkRecordRunning
    BY <2>2 DEF MarkRecordRunning
  <2>3. CASE RecordNotSpawned
    BY <2>3 DEF RecordNotSpawned
  <2>4. CASE CmdStart
    BY <2>4 DEF CmdStart
  <2>5. CASE attachRecordProcess
    BY <2>5 DEF attachRecordProcess
  <2>6. CASE DeliverPendingStop
    BY <2>6 DEF DeliverPendingStop
  <2>7. CASE RecordReturns
    BY <2>7 DEF RecordReturns
  <2>8. CASE LeaveRecordRunning
    <3>1. stage = "returned" /\ stage' = "left" /\ UNCHANGED <<reg, flags, procs, enforcers, watch, shutdown, stops>>
      BY <2>8 DEF LeaveRecordRunning
    <3>2. store' \in {store, "left"}
      BY <2>8 DEF LeaveRecordRunning
    <3>. QED BY <3>1, <3>2
  <2>9. CASE unregisterRecordJob
    <3>1. StopTypes'
      <4>1. reg' = FALSE /\ done' = TRUE
        BY <2>9 DEF unregisterRecordJob
      <4>2. reg' \in BOOLEAN /\ done' \in BOOLEAN
        BY <4>1
      <4>. HIDE DEF Bracketed
      <4>. QED BY <2>9, <4>2 DEF unregisterRecordJob
    <3>2. Bracketed'
      BY <2>9 DEF unregisterRecordJob
    <3>. QED BY <3>1, <3>2
  <2>. QED BY <1>1, <2>1, <2>2, <2>3, <2>4, <2>5, <2>6, <2>7, <2>8, <2>9 DEF RecordGoroutine
<1>2. CASE TalkStartedFails \/ RecorderAcks \/ RecorderExits
  <2>1. CASE TalkStartedFails
    BY <2>1 DEF TalkStartedFails
  <2>2. CASE RecorderAcks
    BY <2>2 DEF RecorderAcks
  <2>3. CASE RecorderExits
    BY <2>3 DEF RecorderExits
  <2>. QED BY <1>2, <2>1, <2>2, <2>3
<1>3. ASSUME NEW h \in Stopper, StopGate(h) \/ StopHandler(h) PROVE StopTypes' /\ Bracketed'
  <2>1. CASE StopGate(h)
    BY <2>1 DEF StopGate
  <2>2. CASE beginRecordStop(h)
    BY <2>2 DEF beginRecordStop
  <2>3. CASE claimStopSignal(h)
    BY <2>3 DEF claimStopSignal, SignalFree
  <2>4. CASE SendStopSignal(h)
    BY <2>4 DEF SendStopSignal
  <2>5. CASE MarkRecordStopRequested(h)
    BY <2>5 DEF MarkRecordStopRequested
  <2>. QED BY <1>3, <2>1, <2>2, <2>3, <2>4, <2>5 DEF StopHandler
<1>4. CASE Enforcer \/ Shutdown \/ stopRecordProcessOnShutdown
  <2>1. CASE EnforceEnds
    BY <2>1 DEF EnforceEnds
  <2>2. CASE hardKillRecordProcess
    BY <2>2 DEF hardKillRecordProcess
  <2>3. CASE Shutdown
    BY <2>3 DEF Shutdown
  <2>4. CASE stopRecordProcessOnShutdown
    BY <2>4 DEF stopRecordProcessOnShutdown
  <2>. QED BY <1>4, <2>1, <2>2, <2>3, <2>4 DEF Enforcer
<1>5. CASE UNCHANGED stopVars
  BY <1>5 DEF stopVars
<1>. QED
  BY <1>1, <1>2, <1>3, <1>4, <1>5 DEF StopNext

\* Nobody opens the latch again, and only who closed it sends.
LEMMA SignalStep == StopInv /\ [StopNext]_stopVars => SignalIsClaimed'
<1>. SUFFICES ASSUME StopInv, [StopNext]_stopVars PROVE SignalIsClaimed'
  OBVIOUS
<1>. USE DEF StopInv, SignalIsClaimed, flags, procs, stops
<1>1. CASE RecordGoroutine
  BY <1>1 DEF StopTypes, RecordGoroutine, registerRecordJob, MarkRecordRunning, RecordNotSpawned, CmdStart,
              attachRecordProcess, DeliverPendingStop, RecordReturns, LeaveRecordRunning,
              unregisterRecordJob
<1>2. CASE TalkStartedFails \/ RecorderAcks \/ RecorderExits
  BY <1>2 DEF TalkStartedFails, RecorderAcks, RecorderExits
<1>3. ASSUME NEW h \in Stopper, StopGate(h) \/ StopHandler(h) PROVE SignalIsClaimed'
  <2>1. CASE StopGate(h) \/ beginRecordStop(h)
    BY <2>1 DEF StopTypes, StopGate, beginRecordStop
  <2>2. CASE claimStopSignal(h)
    BY <2>2 DEF StopTypes, claimStopSignal, SignalFree
  <2>3. CASE SendStopSignal(h)
    BY <2>3 DEF StopTypes, SendStopSignal
  <2>4. CASE MarkRecordStopRequested(h)
    BY <2>4 DEF StopTypes, MarkRecordStopRequested
  <2>. QED BY <1>3, <2>1, <2>2, <2>3, <2>4 DEF StopHandler
<1>4. CASE Enforcer \/ Shutdown \/ stopRecordProcessOnShutdown
  BY <1>4 DEF Enforcer, EnforceEnds, hardKillRecordProcess, Shutdown, stopRecordProcessOnShutdown
<1>5. CASE UNCHANGED stopVars
  BY <1>5 DEF stopVars
<1>. QED
  BY <1>1, <1>2, <1>3, <1>4, <1>5 DEF StopNext

\* Each enforcer that starts is the one of the claim or of the shutdown.
LEMMA EnforcersStep == StopInv /\ [StopNext]_stopVars => EnforcersAccounted'
<1>. SUFFICES ASSUME StopInv, [StopNext]_stopVars PROVE EnforcersAccounted'
  OBVIOUS
<1>. USE DEF StopInv, EnforcersAccounted, OfShutdown, OfClaim, flags, procs, stops
<1>1. CASE RecordGoroutine
  BY <1>1 DEF StopTypes, Bracketed, SignalIsClaimed,
              RecordGoroutine, registerRecordJob, MarkRecordRunning, RecordNotSpawned, CmdStart,
              attachRecordProcess, DeliverPendingStop, RecordReturns, LeaveRecordRunning,
              unregisterRecordJob
<1>2. CASE TalkStartedFails \/ RecorderAcks \/ RecorderExits
  BY <1>2 DEF TalkStartedFails, RecorderAcks, RecorderExits
<1>3. ASSUME NEW h \in Stopper, StopGate(h) \/ StopHandler(h) PROVE EnforcersAccounted'
  <2>1. CASE StopGate(h) \/ beginRecordStop(h) \/ claimStopSignal(h)
    BY <2>1 DEF StopTypes, StopGate, beginRecordStop, claimStopSignal
  <2>2. CASE SendStopSignal(h)
    BY <2>2 DEF StopTypes, SignalIsClaimed, SendStopSignal
  <2>3. CASE MarkRecordStopRequested(h)
    BY <2>3 DEF StopTypes, SignalIsClaimed, MarkRecordStopRequested
  <2>. QED BY <1>3, <2>1, <2>2, <2>3 DEF StopHandler
<1>4. CASE Enforcer \/ Shutdown \/ stopRecordProcessOnShutdown
  BY <1>4 DEF StopTypes, Enforcer, EnforceEnds, hardKillRecordProcess, Shutdown, stopRecordProcessOnShutdown
<1>5. CASE UNCHANGED stopVars
  BY <1>5 DEF stopVars
<1>. QED
  BY <1>1, <1>2, <1>3, <1>4, <1>5 DEF StopNext

\* Publishing the process claims a stop that came before it, and a request
\* that begins later claims the published process itself.
LEMMA NotLostStep == StopInv /\ [StopNext]_stopVars => StopNotLost'
<1>. SUFFICES ASSUME StopInv, [StopNext]_stopVars PROVE StopNotLost'
  OBVIOUS
<1>. USE DEF StopInv, StopTypes, StopNotLost, flags, procs, stops
<1>1. CASE RecordGoroutine
  <2>1. CASE registerRecordJob
    BY <2>1 DEF registerRecordJob
  <2>2. CASE MarkRecordRunning
    BY <2>2 DEF MarkRecordRunning
  <2>3. CASE RecordNotSpawned
    BY <2>3 DEF RecordNotSpawned
  <2>4. CASE CmdStart
    BY <2>4 DEF CmdStart
  <2>5. CASE attachRecordProcess
    BY <2>5 DEF attachRecordProcess
  <2>6. CASE DeliverPendingStop
    BY <2>6 DEF DeliverPendingStop
  <2>7. CASE RecordReturns
    BY <2>7 DEF RecordReturns
  <2>8. CASE LeaveRecordRunning
    BY <2>8 DEF LeaveRecordRunning
  <2>9. CASE unregisterRecordJob
    BY <2>9 DEF unregisterRecordJob
  <2>. QED BY <1>1, <2>1, <2>2, <2>3, <2>4, <2>5, <2>6, <2>7, <2>8, <2>9 DEF RecordGoroutine
<1>2. CASE TalkStartedFails \/ RecorderAcks \/ RecorderExits
  <2>1. CASE TalkStartedFails
    BY <2>1 DEF TalkStartedFails
  <2>2. CASE RecorderAcks
    BY <2>2 DEF RecorderAcks
  <2>3. CASE RecorderExits
    BY <2>3 DEF RecorderExits
  <2>. QED BY <1>2, <2>1, <2>2, <2>3
<1>3. ASSUME NEW h \in Stopper, StopGate(h) \/ StopHandler(h) PROVE StopNotLost'
  <2>1. CASE StopGate(h)
    BY <2>1 DEF StopGate
  <2>2. CASE beginRecordStop(h)
    BY <2>2 DEF beginRecordStop
  <2>3. CASE claimStopSignal(h)
    BY <2>3 DEF claimStopSignal, SignalFree
  <2>4. CASE SendStopSignal(h)
    BY <2>4 DEF SendStopSignal
  <2>5. CASE MarkRecordStopRequested(h)
    BY <2>5 DEF MarkRecordStopRequested
  <2>. QED BY <1>3, <2>1, <2>2, <2>3, <2>4, <2>5 DEF StopHandler
<1>4. CASE Enforcer \/ Shutdown \/ stopRecordProcessOnShutdown
  <2>1. CASE EnforceEnds
    BY <2>1 DEF EnforceEnds
  <2>2. CASE hardKillRecordProcess
    BY <2>2 DEF hardKillRecordProcess
  <2>3. CASE Shutdown
    BY <2>3 DEF Shutdown
  <2>4. CASE stopRecordProcessOnShutdown
    BY <2>4 DEF stopRecordProcessOnShutdown
  <2>. QED BY <1>4, <2>1, <2>2, <2>3, <2>4 DEF Enforcer
<1>5. CASE UNCHANGED stopVars
  BY <1>5 DEF stopVars
<1>. QED
  BY <1>1, <1>2, <1>3, <1>4, <1>5 DEF StopNext

\* The inductive invariant gives what is promised of a stop.
LEMMA StopInvSuffices == StopInv => StopIsSafe
<1>. SUFFICES ASSUME StopInv PROVE StopIsSafe
  OBVIOUS
<1>. USE DEF StopInv, StopTypes
<1>1. enforcers \in 0..2
  BY DEF EnforcersAccounted, OfShutdown, OfClaim
<1>2. {reg, attached, signalled, stopInProgress, done, termed, talkFailed, shutdown} \subseteq BOOLEAN
  OBVIOUS
<1>3. StopTypeOK
  BY <1>1, <1>2 DEF StopTypeOK
<1>4. BracketHolds
  BY DEF Bracketed, BracketHolds
<1>5. StopSignalledOnce
  BY DEF SignalIsClaimed, StopSignalledOnce
<1>. QED
  BY <1>3, <1>4, <1>5 DEF StopIsSafe

\* However many stop requests race with the spawn, with each other and with the
\* recorder's own end: a stop the API accepts finds its registration, at most
\* one SIGTERM is sent on behalf of all of them, and a stop accepted before the
\* process is published is not lost (claimStopSignal, attachRecordProcess).
THEOREM StopsAreSafe == StopSpec => []StopIsSafe
<1>1. StopInv /\ [StopNext]_stopVars => StopInv'
  BY TypesStep, SignalStep, EnforcersStep, NotLostStep DEF StopInv
<1>. QED
  BY StopInvInit, <1>1, StopInvSuffices, PTL DEF StopSpec

-----------------------------------------------------------------------------
(***************************************************************************)
(* RecordingPriority, for any recordings, builders, installs and any number *)
(* of record slots.                                                        *)
(***************************************************************************)

(* Counting the slots.                                                     *)

HeldBy(f) == {r \in Recording : f[r] = "held"}

\* A recording that gets a slot adds itself to the holders, and one that gives
\* it back takes itself out.
LEMMA HoldersCount ==
  ASSUME PriorityAssumption, NEW f, NEW g, NEW r \in Recording,
         \A q \in Recording : q # r => g[q] = f[q]
  PROVE  /\ Cardinality(HeldBy(f)) \in Nat
         /\ f[r] # "held" /\ g[r] = "held" => Cardinality(HeldBy(g)) = Cardinality(HeldBy(f)) + 1
         /\ f[r] = "held" /\ g[r] # "held" => Cardinality(HeldBy(g)) = Cardinality(HeldBy(f)) - 1
         /\ f[r] # "held" /\ g[r] # "held" => HeldBy(g) = HeldBy(f)
<1>1. IsFiniteSet(HeldBy(f))
  BY FS_Subset DEF PriorityAssumption, HeldBy
<1>2. Cardinality(HeldBy(f)) \in Nat
  BY <1>1, FS_CardinalityType
<1>3. ASSUME f[r] # "held", g[r] = "held"
      PROVE  Cardinality(HeldBy(g)) = Cardinality(HeldBy(f)) + 1
  <2>1. HeldBy(g) = HeldBy(f) \cup {r} /\ r \notin HeldBy(f)
    BY <1>3 DEF HeldBy
  <2>. QED BY <2>1, <1>1, FS_AddElement
<1>4. ASSUME f[r] = "held", g[r] # "held"
      PROVE  Cardinality(HeldBy(g)) = Cardinality(HeldBy(f)) - 1
  <2>1. HeldBy(g) = HeldBy(f) \ {r} /\ r \in HeldBy(f)
    BY <1>4 DEF HeldBy
  <2>2. Cardinality(HeldBy(f) \ {r}) = Cardinality(HeldBy(f)) - 1
    BY <2>1, <1>1, FS_RemoveElement
  <2>. QED BY <2>1, <2>2
<1>5. ASSUME f[r] # "held", g[r] # "held" PROVE HeldBy(g) = HeldBy(f)
  BY <1>5 DEF HeldBy
<1>. QED
  BY <1>2, <1>3, <1>4, <1>5

-----------------------------------------------------------------------------
(* The inductive invariant.                                                *)

PriorityTypes ==
  /\ policy \in {"recording-first", "concurrent", "auto"}
  /\ slots \in 0..MaxRecordWorkers
  /\ rec \in [Recording -> {"new", "held", "post", "ended"}]
  /\ gate \in Builder \cup {NoBuilder}
  /\ build \in [Builder -> {"off", "waiting", "running", "cancelled"}]
  /\ priorityBuildCancel \in Builder \cup {NoBuilder}
  /\ startSamples \in 0..StartNeeds
  /\ badSamples \in 0..BadLimit

Flags ==
  /\ quiet \in BOOLEAN /\ fresh \in BOOLEAN
  /\ autoCanStart \in BOOLEAN /\ autoCanContinue \in BOOLEAN

\* The gate holds at most one builder, and the cancel function that is
\* published is that of the build inside it.
GateIsExclusive ==
  \A b \in Builder :
    /\ build[b] # "off" => gate = b
    /\ build[b] \in {"running", "cancelled"} => priorityBuildCancel = b /\ b \notin Installer
    /\ priorityBuildCancel = b => build[b] \in {"running", "cancelled"}

\* A verdict of the monitor never outlives the samples it rests on.
VerdictsFollowSamples ==
  /\ autoCanStart => autoCanContinue
  /\ autoCanContinue => badSamples = 0

PriorityInv ==
  /\ PriorityTypes /\ Flags
  /\ GateIsExclusive /\ VerdictsFollowSamples
  /\ RecordingComesFirst /\ StarvedBuildYields /\ SlotsAreHeld

\* The inductive invariant holds at the start.
LEMMA PriorityInvInit == ASSUME PriorityAssumption PROVE PriorityInit => PriorityInv
<1>. SUFFICES ASSUME PriorityInit PROVE PriorityInv
  OBVIOUS
<1>. USE DEF PriorityAssumption, PriorityInit
<1>1. PriorityTypes
  BY DEF PriorityTypes, StartNeeds, BadLimit
<1>2. Flags
  BY DEF Flags
<1>3. GateIsExclusive
  BY DEF GateIsExclusive
<1>4. VerdictsFollowSamples
  BY DEF VerdictsFollowSamples
<1>5. RecordingComesFirst /\ StarvedBuildYields
  BY DEF RecordingComesFirst, StarvedBuildYields, Capturing
<1>6. SlotsAreHeld
  <2>1. {r \in Recording : rec[r] = "held"} = {}
    OBVIOUS
  <2>. QED BY <2>1, FS_EmptySet DEF SlotsAreHeld
<1>. QED
  BY <1>1, <1>2, <1>3, <1>4, <1>5, <1>6 DEF PriorityInv

\* A recording takes a slot, gives it back or ends.
LEMMA RecordingStep ==
  ASSUME PriorityAssumption, PriorityInv, NEW r \in Recording,
         reserveRecordSlot(r) \/ releaseRecordSlot(r) \/ RecordingEnds(r)
  PROVE  PriorityInv'
<1>. USE DEF PriorityInv, PriorityTypes, samples
<1>1. CASE reserveRecordSlot(r)
  <2>1. PriorityTypes'
    BY <1>1 DEF reserveRecordSlot, Cancelled, PriorityAssumption
  <2>2. Flags' /\ VerdictsFollowSamples'
    BY <1>1 DEF reserveRecordSlot, Flags, VerdictsFollowSamples
  <2>3. GateIsExclusive'
    BY <1>1 DEF reserveRecordSlot, Cancelled, GateIsExclusive
  <2>4. RecordingComesFirst'
    BY <1>1 DEF reserveRecordSlot, Cancelled, GateIsExclusive, RecordingComesFirst, RecordingPreempts,
                Building, PriorityAssumption
  <2>5. StarvedBuildYields'
    BY <1>1 DEF reserveRecordSlot, Cancelled, GateIsExclusive, StarvedBuildYields, RecordingPreempts,
                Building, PriorityAssumption, VerdictsFollowSamples, BadLimit
  <2>6. SlotsAreHeld'
    <3>1. rec[r] # "held" /\ rec'[r] = "held" /\ \A q \in Recording : q # r => rec'[q] = rec[q]
      BY <1>1 DEF reserveRecordSlot
    <3>2. Cardinality(HeldBy(rec')) = Cardinality(HeldBy(rec)) + 1
      BY <3>1, HoldersCount
    <3>. QED BY <1>1, <3>2 DEF reserveRecordSlot, SlotsAreHeld, HeldBy
  <2>. QED BY <2>1, <2>2, <2>3, <2>4, <2>5, <2>6
<1>2. CASE releaseRecordSlot(r)
  <2>1. PriorityTypes'
    BY <1>2 DEF releaseRecordSlot, PriorityAssumption
  <2>2. Flags' /\ VerdictsFollowSamples'
    BY <1>2 DEF releaseRecordSlot, Flags, VerdictsFollowSamples
  <2>3. GateIsExclusive'
    BY <1>2 DEF releaseRecordSlot, GateIsExclusive
  <2>4. RecordingComesFirst' /\ StarvedBuildYields'
    BY <1>2 DEF releaseRecordSlot, RecordingComesFirst, StarvedBuildYields, Capturing, Building,
                PriorityAssumption
  <2>5. SlotsAreHeld'
    <3>1. rec[r] = "held" /\ rec'[r] # "held" /\ \A q \in Recording : q # r => rec'[q] = rec[q]
      BY <1>2 DEF releaseRecordSlot
    <3>2. Cardinality(HeldBy(rec')) = Cardinality(HeldBy(rec)) - 1
      BY <3>1, HoldersCount
    <3>. QED BY <1>2, <3>2 DEF releaseRecordSlot, SlotsAreHeld, HeldBy
  <2>. QED BY <2>1, <2>2, <2>3, <2>4, <2>5
<1>3. CASE RecordingEnds(r)
  <2>1. PriorityTypes'
    BY <1>3 DEF RecordingEnds
  <2>2. Flags' /\ VerdictsFollowSamples'
    BY <1>3 DEF RecordingEnds, Flags, VerdictsFollowSamples
  <2>3. GateIsExclusive'
    BY <1>3 DEF RecordingEnds, GateIsExclusive
  <2>4. RecordingComesFirst' /\ StarvedBuildYields'
    BY <1>3 DEF RecordingEnds, RecordingComesFirst, StarvedBuildYields, Capturing, Building
  <2>5. SlotsAreHeld'
    <3>1. rec[r] # "held" /\ rec'[r] # "held" /\ \A q \in Recording : q # r => rec'[q] = rec[q]
      BY <1>3 DEF RecordingEnds
    <3>2. HeldBy(rec') = HeldBy(rec)
      BY <3>1, HoldersCount
    <3>. QED BY <1>3, <3>2 DEF RecordingEnds, SlotsAreHeld, HeldBy
  <2>. QED BY <2>1, <2>2, <2>3, <2>4, <2>5
<1>. QED
  BY <1>1, <1>2, <1>3

\* A build takes the gate, is admitted, or ends.
LEMMA BuildingStep ==
  ASSUME PriorityAssumption, PriorityInv, NEW b \in Builder, BuilderStep(b)
  PROVE  PriorityInv'
<1>. USE DEF PriorityInv, PriorityTypes, samples
<1>1. CASE TakeBuildGate(b)
  <2>1. PriorityTypes'
    BY <1>1 DEF TakeBuildGate
  <2>2. Flags' /\ VerdictsFollowSamples' /\ SlotsAreHeld'
    BY <1>1 DEF TakeBuildGate, Flags, VerdictsFollowSamples, SlotsAreHeld
  <2>3. GateIsExclusive'
    BY <1>1 DEF TakeBuildGate, GateIsExclusive, PriorityAssumption
  <2>4. RecordingComesFirst' /\ StarvedBuildYields'
    BY <1>1 DEF TakeBuildGate, RecordingComesFirst, StarvedBuildYields, Capturing, Building
  <2>. QED BY <2>1, <2>2, <2>3, <2>4
<1>2. CASE beginBackgroundBuild(b)
  <2>1. PriorityTypes'
    BY <1>2 DEF beginBackgroundBuild
  <2>2. Flags' /\ VerdictsFollowSamples' /\ SlotsAreHeld'
    BY <1>2 DEF beginBackgroundBuild, Flags, VerdictsFollowSamples, SlotsAreHeld
  <2>3. GateIsExclusive'
    BY <1>2 DEF beginBackgroundBuild, GateIsExclusive
  <2>4. RecordingComesFirst'
    BY <1>2 DEF beginBackgroundBuild, BuildAdmitted, recordingIdleLocked, RecordingComesFirst, Capturing
  <2>5. StarvedBuildYields'
    BY <1>2 DEF beginBackgroundBuild, BuildAdmitted, recordingIdleLocked, StarvedBuildYields, Capturing,
                VerdictsFollowSamples, BadLimit
  <2>. QED BY <2>1, <2>2, <2>3, <2>4, <2>5
<1>3. CASE BuildEnds(b)
  <2>1. PriorityTypes'
    BY <1>3 DEF BuildEnds
  <2>2. Flags' /\ VerdictsFollowSamples' /\ SlotsAreHeld'
    BY <1>3 DEF BuildEnds, Flags, VerdictsFollowSamples, SlotsAreHeld
  <2>3. GateIsExclusive'
    BY <1>3 DEF BuildEnds, GateIsExclusive, PriorityAssumption
  <2>4. RecordingComesFirst' /\ StarvedBuildYields'
    BY <1>3 DEF BuildEnds, RecordingComesFirst, StarvedBuildYields, Capturing, Building
  <2>. QED BY <2>1, <2>2, <2>3, <2>4
<1>. QED
  BY <1>1, <1>2, <1>3 DEF BuilderStep

\* What CountTo counts to.
LEMMA CountToRange ==
  ASSUME NEW limit \in Nat, NEW n \in 0..limit, NEW hit \in BOOLEAN
  PROVE  /\ CountTo(limit, n, hit) \in 0..limit
         /\ ~hit => CountTo(limit, n, hit) = 0
  BY DEF CountTo

\* The monitor samples: it publishes its verdict and makes a starved build yield.
LEMMA SampleStep ==
  ASSUME PriorityAssumption, PriorityInv, NEW start \in BOOLEAN, NEW keep \in BOOLEAN,
         Sample(start, keep)
  PROVE  PriorityInv'
<1>. USE DEF PriorityInv, PriorityTypes, samples
<1>1. startSamples' \in 0..StartNeeds /\ badSamples' \in 0..BadLimit
  BY CountToRange DEF Sample, StartNeeds, BadLimit
<1>2. PriorityTypes'
  BY <1>1 DEF Sample, Cancelled
<1>3. autoCanStart' = (startSamples' >= StartNeeds) /\ autoCanContinue' = keep /\ fresh' = TRUE
  BY DEF Sample
<1>4. Flags'
  <2>1. (startSamples' >= StartNeeds) \in BOOLEAN
    OBVIOUS
  <2>. QED BY <1>3, <2>1 DEF Sample, Flags
<1>5. VerdictsFollowSamples'
  <2>1. ~start => startSamples' = 0
    BY CountToRange DEF Sample, StartNeeds
  <2>2. keep => badSamples' = 0
    BY CountToRange DEF Sample, BadLimit
  <2>. QED BY <1>3, <2>1, <2>2 DEF Sample, VerdictsFollowSamples, StartNeeds
<1>6. SlotsAreHeld'
  BY DEF Sample, SlotsAreHeld
<1>7. GateIsExclusive'
  BY DEF Sample, Cancelled, GateIsExclusive
<1>8. RecordingComesFirst'
  BY DEF Sample, Cancelled, RecordingComesFirst
<1>9. StarvedBuildYields'
  BY DEF Sample, Cancelled, GateIsExclusive, StarvedBuildYields, Capturing, Building, PriorityAssumption
<1>. QED
  BY <1>2, <1>4, <1>5, <1>6, <1>7, <1>8, <1>9

\* Time passes: the idle grace ends, or a sample goes stale.
LEMMA TimeStep ==
  ASSUME PriorityInv, GracePasses \/ SampleAges \/ UNCHANGED priorityVars PROVE PriorityInv'
<1>. USE DEF PriorityInv, samples
<1>1. PriorityTypes' /\ SlotsAreHeld' /\ GateIsExclusive' /\ RecordingComesFirst' /\ StarvedBuildYields'
  BY DEF GracePasses, SampleAges, priorityVars, PriorityTypes, SlotsAreHeld, GateIsExclusive, RecordingComesFirst,
         StarvedBuildYields, Capturing, Building
<1>2. Flags' /\ VerdictsFollowSamples'
  <2>1. CASE GracePasses
    BY <2>1 DEF GracePasses, Flags, VerdictsFollowSamples
  <2>2. CASE SampleAges
    BY <2>2 DEF SampleAges, Flags, VerdictsFollowSamples
  <2>3. CASE UNCHANGED priorityVars
    BY <2>3 DEF priorityVars, Flags, VerdictsFollowSamples
  <2>. QED BY <2>1, <2>2, <2>3
<1>. QED
  BY <1>1, <1>2

\* Every step keeps the inductive invariant.
LEMMA PriorityInvStep ==
  ASSUME PriorityAssumption PROVE PriorityInv /\ [PriorityNext]_priorityVars => PriorityInv'
  BY RecordingStep, BuildingStep, SampleStep, TimeStep DEF PriorityNext

\* Recordings come before builds under each policy, and slots are neither
\* leaked nor given back twice, for any number of slots, recordings and builds
\* (reserveRecordSlot, beginBackgroundBuild, startProcessingMonitor).
THEOREM PriorityIsAlwaysKept == PrioritySpec => []PriorityIsKept
<1>1. PriorityInv => PriorityIsKept
  <2>. SUFFICES ASSUME PriorityInv PROVE PriorityIsKept
    OBVIOUS
  <2>1. {quiet, fresh, autoCanStart, autoCanContinue} \subseteq BOOLEAN
    BY DEF PriorityInv, Flags
  <2>. QED BY <2>1 DEF PriorityInv, PriorityTypes, PriorityIsKept, PriorityTypeOK
<1>. QED
  BY PriorityAssumption, PriorityInvInit, PriorityInvStep, <1>1, PTL DEF PrioritySpec

\* Under auto a build and a recording begin to overlap only on a fresh sample
\* that found headroom, whichever of the two comes second (BuildAdmitted,
\* RecordingPreempts).
THEOREM OverlapAlwaysNeedsHeadroom == PrioritySpec => OverlapNeedsHeadroom
<1>. DEFINE Begins == policy = "auto" /\ ~(Capturing /\ Building) /\ (Capturing /\ Building)'
<1>1. ASSUME PriorityInv, PriorityNext, Begins PROVE fresh /\ autoCanContinue
  <2>. USE <1>1 DEF PriorityInv, PriorityTypes, Capturing, Building, samples
  <2>1. ASSUME NEW r \in Recording, reserveRecordSlot(r) PROVE fresh /\ autoCanContinue
    <3>1. PICK b \in Builder : build'[b] = "running"
      OBVIOUS
    <3>2. build[b] = "running" /\ priorityBuildCancel = b
      BY <2>1, <3>1 DEF reserveRecordSlot, Cancelled, GateIsExclusive
    <3>3. build' = build
      BY <2>1, <3>1, <3>2 DEF reserveRecordSlot, Cancelled
    <3>4. ~RecordingPreempts
      BY <2>1, <3>1, <3>2, <3>3, PriorityAssumption DEF reserveRecordSlot, Cancelled, PriorityAssumption
    <3>. QED BY <3>4 DEF RecordingPreempts
  <2>2. ASSUME NEW r \in Recording, releaseRecordSlot(r) \/ RecordingEnds(r) PROVE FALSE
    BY <2>2 DEF releaseRecordSlot, RecordingEnds
  <2>3. ASSUME NEW b \in Builder, beginBackgroundBuild(b) PROVE fresh /\ autoCanContinue
    BY <2>3 DEF beginBackgroundBuild, BuildAdmitted, recordingIdleLocked, VerdictsFollowSamples
  <2>4. ASSUME NEW b \in Builder, TakeBuildGate(b) \/ BuildEnds(b) PROVE FALSE
    BY <2>4 DEF TakeBuildGate, BuildEnds
  <2>5. ASSUME NEW start \in BOOLEAN, NEW keep \in BOOLEAN, Sample(start, keep) PROVE FALSE
    BY <2>5 DEF Sample, Cancelled
  <2>6. CASE GracePasses \/ SampleAges
    BY <2>6 DEF GracePasses, SampleAges
  <2>. QED BY <2>1, <2>2, <2>3, <2>4, <2>5, <2>6 DEF PriorityNext, BuilderStep
<1>2. PriorityInv /\ [PriorityNext]_priorityVars => [Begins => fresh /\ autoCanContinue]_priorityVars
  BY <1>1
<1>. QED
  BY PriorityAssumption, PriorityInvInit, PriorityInvStep, <1>2, PTL DEF PrioritySpec, OverlapNeedsHeadroom

-----------------------------------------------------------------------------
(***************************************************************************)
(* CaptureArtifact, for any set of tracks, any number of streams and of    *)
(* records.                                                                *)
(***************************************************************************)

(* The inductive invariant.                                                *)

ReaderPcs == {"reading", "opening", "writing", "finishing", "ended"}
Finishing(k) == \E t \in Track : job[rtp(t)][1] = k /\ pc[rtp(t)] = "finishing"

\* Streams are numbered as they are opened.
StreamsAreNumbered ==
  /\ used \in Nat /\ used <= MaxStreams
  /\ listed \subseteq 1..used /\ closedFlag \subseteq 1..used
  /\ writerOpen \subseteq 1..used /\ toClose \subseteq 1..used
  /\ lastRecv \in [Streams -> Nat]
  /\ log \in [Streams -> Seq(Nat)]
  /\ index \in [Streams -> Seq(Nat)]

\* A reader works on a stream that was opened.
ReadersAreKnown ==
  /\ pc \in [Readers -> ReaderPcs]
  /\ current \in [Track -> 0..used]
  /\ job \in [Readers -> (0..used) \X Nat]
  /\ \A r \in Readers : pc[r] # "reading" /\ pc[r] # "ended" => job[r][1] \in 1..used
  /\ \A t \in Track : pc[<<t, "rtcp">>] \notin {"opening", "finishing"}

\* An indexed stream takes no more records.
IndexedIsClosed ==
  \A k \in Streams : index[k] # NoIndex => index[k] = <<Len(log[k])>> /\ k \notin writerOpen /\ k \in 1..used

\* Whoever set a stream's flag has finished it, or is about to.
FlaggedIsFinished == \A k \in closedFlag \cap listed : index[k] # NoIndex \/ captureErr \/ Finishing(k)

\* The close leaves out no stream, and no reader that was joined goes on.
CloseGoesThrough ==
  /\ cleanPc \in {"running", "joined", "closing", "closed"}
  /\ cleanPc \in {"closing", "closed"} => artifactClosed /\ listed \subseteq toClose \cup closedFlag
  /\ cleanPc = "closed" => toClose = {}
  /\ cleanPc # "running" /\ ~timedOut => \A r \in Readers : pc[r] = "ended"

\* What was lost is told.
LossIsKept ==
  /\ lost => captureErr
  /\ cleanPc = "closed" /\ captureErr /\ ~timedOut => result = "lost media"

ArtifactInv ==
  /\ StreamsAreNumbered /\ ReadersAreKnown
  /\ IndexedIsClosed /\ FlaggedIsFinished
  /\ CloseGoesThrough /\ LossIsKept


-----------------------------------------------------------------------------
(* Steps.                                                                  *)

LEMMA RtpReaders ==
  /\ \A t \in Track : rtp(t) \in Readers /\ <<t, "rtcp">> \in Readers
  /\ \A t, u \in Track : (rtp(t) = rtp(u) => t = u) /\ rtp(t) # <<u, "rtcp">>
  BY DEF rtp, Readers

LEMMA OpenedAreStreams == StreamsAreNumbered => 1..used \subseteq Streams
  BY ArtifactAssumption DEF StreamsAreNumbered, Streams

LEMMA ArtifactStarts == ArtifactInit => ArtifactInv
<1>. SUFFICES ASSUME ArtifactInit PROVE ArtifactInv
  OBVIOUS
<1>1. StreamsAreNumbered
  BY ArtifactAssumption DEF ArtifactInit, StreamsAreNumbered, NoIndex
<1>2. ReadersAreKnown
  BY RtpReaders DEF ArtifactInit, ReadersAreKnown, ReaderPcs
<1>3. IndexedIsClosed /\ FlaggedIsFinished /\ CloseGoesThrough /\ LossIsKept
  BY DEF ArtifactInit, IndexedIsClosed, FlaggedIsFinished, CloseGoesThrough, LossIsKept
<1>. QED BY <1>1, <1>2, <1>3 DEF ArtifactInv

\* A reader that goes on was not joined: the join gave up on it, or has not come yet.
LEMMA ReaderIsNotJoined ==
  ASSUME ArtifactInv, NEW r \in Readers, pc[r] # "ended", UNCHANGED <<artifactClosed, timedOut, cleanPc, toClose, result>>,
         lost' => captureErr', artifactClosed => listed' \subseteq listed, closedFlag \subseteq closedFlag'
  PROVE  CloseGoesThrough' /\ LossIsKept'
<1>1. cleanPc = "running" \/ timedOut
  BY DEF ArtifactInv, CloseGoesThrough
<1>2. CloseGoesThrough'
  BY <1>1 DEF ArtifactInv, CloseGoesThrough
<1>3. LossIsKept'
  BY <1>1 DEF LossIsKept
<1>. QED BY <1>2, <1>3

\* A stream that is opened is new.
LEMMA OpenKeepsArtifact ==
  ASSUME ArtifactInv, NEW t \in Track, openStream(t)
  PROVE  ArtifactInv'
<1>. USE DEF ArtifactInv, clean, noteCaptureFailure
<1>0. /\ used \in Nat /\ used + 1 \in Nat /\ used + 1 <= MaxStreams /\ used + 1 \in Streams
      /\ used' = used + 1 /\ 1..used \subseteq 1..(used + 1) /\ 0..used \subseteq 0..(used + 1)
      /\ used + 1 \in 1..(used + 1) /\ used + 1 \in 0..(used + 1) /\ used + 1 \notin 1..used
  BY ArtifactAssumption DEF StreamsAreNumbered, openStream, Streams
<1>1. rtp(t) \in Readers /\ pc[rtp(t)] = "reading" /\ ~artifactClosed
      /\ UNCHANGED <<closedFlag, lastRecv, log, index, current, clean>>
  BY RtpReaders DEF openStream
<1>2. listed' \subseteq listed \cup {used + 1} /\ writerOpen' \subseteq writerOpen \cup {used + 1}
  BY DEF openStream
<1>3. StreamsAreNumbered'
  BY <1>0, <1>1, <1>2 DEF StreamsAreNumbered
<1>4. \/ /\ pc' = [pc EXCEPT ![rtp(t)] = "opening"] /\ job' = [job EXCEPT ![rtp(t)] = <<used + 1, 0>>]
         /\ UNCHANGED <<captureErr, lost>>
      \/ UNCHANGED <<pc, job>> /\ captureErr' = TRUE
  BY DEF openStream
<1>5. ReadersAreKnown'
  <2>1. current' \in [Track -> 0..used']
    BY <1>0, <1>1 DEF ReadersAreKnown
  <2>2. job \in [Readers -> (0..(used + 1)) \X Nat] /\ <<used + 1, 0>> \in (0..(used + 1)) \X Nat
    BY <1>0 DEF ReadersAreKnown
  <2>3. pc' \in [Readers -> ReaderPcs] /\ job' \in [Readers -> (0..used') \X Nat]
    <3>1. pc \in [Readers -> ReaderPcs] /\ "opening" \in ReaderPcs
      BY DEF ReadersAreKnown, ReaderPcs
    <3>2. pc' \in [Readers -> ReaderPcs]
      BY <3>1, <1>4
    <3>3. job' \in [Readers -> (0..(used + 1)) \X Nat]
      BY <2>2, <1>4
    <3>. QED BY <3>2, <3>3, <1>0
  <2>4. \A r \in Readers : (pc'[r] = pc[r] /\ job'[r] = job[r]) \/ (r = rtp(t) /\ job'[r][1] = used + 1)
    BY <1>4, <1>1 DEF ReadersAreKnown
  <2>5. \A r \in Readers : pc'[r] # "reading" /\ pc'[r] # "ended" => job'[r][1] \in 1..used'
    BY <1>0, <2>4 DEF ReadersAreKnown
  <2>6. ASSUME NEW u \in Track  PROVE pc'[<<u, "rtcp">>] \notin {"opening", "finishing"}
    <3>1. <<u, "rtcp">> \in Readers /\ <<u, "rtcp">> # rtp(t)
      BY RtpReaders
    <3>2. pc'[<<u, "rtcp">>] = pc[<<u, "rtcp">>]
      BY <2>4, <3>1
    <3>. QED BY <3>2 DEF ReadersAreKnown
  <2>. QED BY <2>1, <2>3, <2>5, <2>6 DEF ReadersAreKnown
<1>6. IndexedIsClosed'
  BY <1>0, <1>1, <1>2 DEF IndexedIsClosed
<1>7. FlaggedIsFinished'
  <2>1. \A k : Finishing(k) => Finishing(k)'
    BY <1>1, <1>4, RtpReaders DEF Finishing, ReadersAreKnown
  <2>2. closedFlag' \cap listed' \subseteq closedFlag \cap listed
    BY <1>0, <1>1, <1>2 DEF StreamsAreNumbered
  <2>3. captureErr => captureErr'
    BY <1>4
  <2>. QED BY <1>1, <2>1, <2>2, <2>3 DEF FlaggedIsFinished
<1>8. lost' => captureErr'
  BY <1>4 DEF LossIsKept
<1>9. CloseGoesThrough' /\ LossIsKept'
  BY <1>1, <1>8, ReaderIsNotJoined
<1>. QED BY <1>3, <1>5, <1>6, <1>7, <1>9

\* A reader that has nothing to finish moves on, and leaves every index alone.
LEMMA ReaderKeepsArtifact ==
  ASSUME ArtifactInv, NEW r \in Readers, pc[r] \in {"reading", "opening", "writing"},
         NEW point \in ReaderPcs, point # "opening", point = "finishing" => job'[r][1] # 0 /\ \E t \in Track : r = rtp(t),
         point = "writing" => job'[r][1] # 0,
         NEW work \in (0..used) \X Nat,
         pc' = [pc EXCEPT ![r] = point], job' = [job EXCEPT ![r] = work],
         current' \in [Track -> 0..used],
         UNCHANGED <<used, index, artifactClosed, timedOut, cleanPc, toClose, result>>,
         listed' \subseteq listed, writerOpen' \subseteq writerOpen,
         closedFlag' = closedFlag \/ (point = "finishing" /\ closedFlag' = closedFlag \cup {work[1]}),
         lastRecv' \in [Streams -> Nat], log' \in [Streams -> Seq(Nat)],
         \A k \in Streams : log'[k] = log[k] \/ k \in writerOpen,
         UNCHANGED <<captureErr, lost>> \/ noteCaptureFailure
  PROVE  ArtifactInv'
<1>. USE DEF ArtifactInv, noteCaptureFailure
<1>0. job'[r] = work /\ pc'[r] = point /\ \A q \in Readers : q # r => pc'[q] = pc[q] /\ job'[q] = job[q]
  BY DEF ReadersAreKnown
<1>1. StreamsAreNumbered'
  <2>1. closedFlag' \subseteq 1..used
    <3>1. work[1] \in 0..used /\ used \in Nat
      BY DEF StreamsAreNumbered
    <3>2. point = "finishing" => work[1] \in 1..used
      BY <1>0, <3>1
    <3>. QED BY <3>2 DEF StreamsAreNumbered
  <2>. QED BY <2>1 DEF StreamsAreNumbered
<1>2. ReadersAreKnown'
  <2>1. \A q \in Readers : pc'[q] # "reading" /\ pc'[q] # "ended" => job'[q][1] \in 1..used
    BY <1>0 DEF ReadersAreKnown, StreamsAreNumbered, ReaderPcs
  <2>2. ASSUME NEW u \in Track  PROVE pc'[<<u, "rtcp">>] \notin {"opening", "finishing"}
    <3>1. <<u, "rtcp">> \in Readers /\ \A t \in Track : <<u, "rtcp">> # rtp(t)
      BY RtpReaders
    <3>2. pc'[<<u, "rtcp">>] = pc[<<u, "rtcp">>] \/ pc'[<<u, "rtcp">>] \in ReaderPcs \ {"opening", "finishing"}
      BY <1>0, <3>1
    <3>. QED BY <3>2 DEF ReadersAreKnown
  <2>. QED BY <2>1, <2>2 DEF ReadersAreKnown
<1>3. IndexedIsClosed'
  BY DEF IndexedIsClosed
<1>4. FlaggedIsFinished'
  <2>1. \A k : Finishing(k) => Finishing(k)'
    BY <1>0, RtpReaders DEF Finishing
  <2>2. point = "finishing" => Finishing(work[1])'
    BY <1>0 DEF Finishing
  <2>. QED BY <2>1, <2>2 DEF FlaggedIsFinished
<1>5. CloseGoesThrough' /\ LossIsKept'
  <2>1. lost' => captureErr'
    BY DEF LossIsKept
  <2>. QED BY <2>1, ReaderIsNotJoined
<1>. QED BY <1>1, <1>2, <1>3, <1>4, <1>5

\* What the readers do between opening a stream and finishing it.
LEMMA ReadersKeepArtifact ==
  ASSUME ArtifactInv, NEW t \in Track, NEW r \in Readers,
         OpenSaved(t) \/ WriteStarts(r) \/ WriteEnds(r) \/ LeaveStream(t) \/ ReaderEnds(r)
  PROVE  ArtifactInv'
<1>. USE DEF clean, files
<1>a. /\ used \in Nat /\ current \in [Track -> 0..used] /\ job \in [Readers -> (0..used) \X Nat]
      /\ pc \in [Readers -> ReaderPcs] /\ lastRecv \in [Streams -> Nat] /\ log \in [Streams -> Seq(Nat)]
  BY DEF ArtifactInv, StreamsAreNumbered, ReadersAreKnown
<1>b. /\ rtp(t) \in Readers /\ 0 \in 0..used
      /\ \A q \in Readers : job[q] \in (0..used) \X Nat /\ job[q][1] \in 0..used /\ job[q][2] \in Nat
  <2>1. ASSUME NEW q \in Readers  PROVE job[q] \in (0..used) \X Nat
    BY <1>a
  <2>2. ASSUME NEW q \in Readers  PROVE job[q][1] \in 0..used /\ job[q][2] \in Nat
    BY <2>1
  <2>3. 0 \in 0..used
    BY <1>a
  <2>. QED BY <2>1, <2>2, <2>3, RtpReaders
<1>c. {"reading", "writing", "finishing", "ended"} \subseteq ReaderPcs
  BY DEF ReaderPcs
<1>1. CASE OpenSaved(t)
  <2>1. pc[rtp(t)] = "opening" /\ pc' = [pc EXCEPT ![rtp(t)] = "reading"] /\ job' = [job EXCEPT ![rtp(t)] = job[rtp(t)]]
    BY <1>a, <1>b, <1>c, <1>1 DEF OpenSaved
  <2>2. current' \in [Track -> 0..used] /\ listed' \subseteq listed /\ writerOpen' \subseteq writerOpen
        /\ (UNCHANGED <<captureErr, lost>> \/ noteCaptureFailure)
    BY <1>a, <1>b, <1>c, <1>1 DEF OpenSaved
  <2>. QED BY <1>a, <1>b, <1>c, <1>1, <2>1, <2>2, ReaderKeepsArtifact DEF OpenSaved
<1>2. CASE WriteStarts(r)
  <2>. DEFINE k == current[r[1]]
              at == lastRecv[k] + 1
  <2>1. /\ pc[r] = "reading" /\ k # 0 /\ pc' = [pc EXCEPT ![r] = "writing"]
        /\ job' = [job EXCEPT ![r] = <<k, at>>] /\ lastRecv' = [lastRecv EXCEPT ![k] = at] /\ k \in listed
        /\ UNCHANGED <<used, listed, closedFlag, writerOpen, log, index, current, captureErr, lost, clean>>
    BY <1>2 DEF WriteStarts, clampMonoNS
  <2>2. k \in Streams
    <3>1. listed \subseteq 1..used /\ used \in Nat /\ used <= MaxStreams
      BY DEF ArtifactInv, StreamsAreNumbered
    <3>2. k \in listed
      BY <2>1
    <3>. HIDE DEF k, at
    <3>. QED
      BY <3>1, <3>2, ArtifactAssumption DEF Streams
  <2>3. r[1] \in Track
    BY DEF Readers
  <2>4. k \in 0..used /\ at \in Nat
    BY <1>a, <1>b, <1>c, <2>2, <2>3
  <2>. HIDE DEF k, at
  <2>5. <<k, at>> \in (0..used) \X Nat /\ lastRecv' \in [Streams -> Nat] /\ job'[r][1] # 0
    BY <1>a, <1>b, <1>c, <2>1, <2>4
  <2>. QED BY <1>a, <1>b, <1>c, <2>1, <2>5, ReaderKeepsArtifact
<1>3. CASE WriteEnds(r)
  <2>. DEFINE k == job[r][1]
  <2>1. /\ pc[r] = "writing" /\ pc' = [pc EXCEPT ![r] = "reading"] /\ job' = [job EXCEPT ![r] = job[r]]
        /\ log' = log \/ (k \in writerOpen /\ log' = [log EXCEPT ![k] = Append(log[k], job[r][2])])
        /\ (UNCHANGED <<captureErr, lost>> \/ noteCaptureFailure)
        /\ UNCHANGED <<used, listed, closedFlag, writerOpen, lastRecv, index, current, clean>>
    BY <1>a, <1>b, <1>c, <1>3 DEF WriteEnds
  <2>2. k \in writerOpen => k \in Streams
    BY OpenedAreStreams DEF ArtifactInv, StreamsAreNumbered
  <2>3. job[r] \in (0..used) \X Nat /\ job[r][2] \in Nat
    BY <1>a, <1>b, <1>c
  <2>. HIDE DEF k
  <2>4. log' \in [Streams -> Seq(Nat)] /\ \A n \in Streams : log'[n] = log[n] \/ n \in writerOpen
    <3>1. CASE log' = log
      BY <1>a, <3>1
    <3>2. CASE k \in writerOpen /\ log' = [log EXCEPT ![k] = Append(log[k], job[r][2])]
      <4>1. log[k] \in Seq(Nat)
        BY <1>a, <2>2, <3>2
      <4>2. Append(log[k], job[r][2]) \in Seq(Nat)
        BY <2>3, <4>1
      <4>. QED BY <1>a, <2>2, <3>2, <4>2
    <3>. QED BY <2>1, <3>1, <3>2
  <2>. QED BY <1>a, <1>b, <1>c, <2>1, <2>3, <2>4, ReaderKeepsArtifact
<1>4. CASE LeaveStream(t)
  <2>1. pc[rtp(t)] = "reading" /\ current[t] # 0 /\ closedFlag' = closedFlag \cup {current[t]}
        /\ UNCHANGED <<used, listed, writerOpen, lastRecv, log, index, captureErr, lost, clean>>
    BY <1>4 DEF LeaveStream
  <2>2. CASE current[t] \in closedFlag /\ current' = [current EXCEPT ![t] = 0] /\ UNCHANGED <<pc, job>>
    <3>1. pc' = [pc EXCEPT ![rtp(t)] = "reading"] /\ job' = [job EXCEPT ![rtp(t)] = job[rtp(t)]]
      BY <1>a, <1>b, <1>c, <2>1, <2>2
    <3>2. current' \in [Track -> 0..used] /\ closedFlag' = closedFlag
      BY <1>a, <1>b, <1>c, <2>1, <2>2
    <3>. QED BY <1>a, <1>b, <1>c, <2>1, <3>1, <3>2, ReaderKeepsArtifact
  <2>3. CASE /\ pc' = [pc EXCEPT ![rtp(t)] = "finishing"] /\ job' = [job EXCEPT ![rtp(t)] = <<current[t], 0>>]
             /\ UNCHANGED current
    <3>. DEFINE work == <<current[t], 0>>
    <3>1. work \in (0..used) \X Nat /\ work[1] = current[t] /\ job'[rtp(t)][1] # 0
      BY <1>a, <1>b, <1>c, <2>1, <2>3
    <3>2. job' = [job EXCEPT ![rtp(t)] = work] /\ closedFlag' = closedFlag \cup {work[1]}
      BY <2>1, <2>3
    <3>. HIDE DEF work
    <3>. QED BY <1>a, <1>b, <1>c, <2>1, <2>3, <3>1, <3>2, ReaderKeepsArtifact
  <2>. QED BY <1>4, <2>2, <2>3 DEF LeaveStream
<1>5. CASE ReaderEnds(r)
  <2>1. pc[r] = "reading" /\ pc' = [pc EXCEPT ![r] = "ended"] /\ job' = [job EXCEPT ![r] = job[r]]
        /\ UNCHANGED <<files, current, captureErr, lost, clean>>
    BY <1>a, <1>b, <1>c, <1>5 DEF ReaderEnds
  <2>. QED BY <1>a, <1>b, <1>c, <2>1, ReaderKeepsArtifact
<1>. QED BY <1>1, <1>2, <1>3, <1>4, <1>5

\* Closing a stream and indexing it, or noting that this failed.
LEMMA FinishingKeepsIndexes ==
  ASSUME ArtifactInv, NEW k \in 1..used, FinishStream(k), UNCHANGED <<used, log>>
  PROVE  /\ writerOpen' \subseteq writerOpen /\ index' \in [Streams -> Seq(Nat)]
         /\ IndexedIsClosed'
         /\ \A n \in Streams : index[n] # NoIndex => index'[n] # NoIndex
         /\ index'[k] # NoIndex \/ captureErr'
         /\ UNCHANGED <<captureErr, lost>> \/ noteCaptureFailure
<1>. USE DEF ArtifactInv, FinishStream
<1>1. k \in Streams /\ index \in [Streams -> Seq(Nat)] /\ log[k] \in Seq(Nat)
  BY ArtifactAssumption DEF StreamsAreNumbered, Streams
<1>2. <<Len(log[k])>> \in Seq(Nat) /\ <<Len(log[k])>> # NoIndex
  BY <1>1 DEF NoIndex
<1>3. CASE index' = [index EXCEPT ![k] = <<Len(log[k])>>] /\ UNCHANGED <<captureErr, lost>>
  <2>1. \A n \in Streams : index'[n] = IF n = k THEN <<Len(log[k])>> ELSE index[n]
    BY <1>1, <1>3
  <2>. QED BY <1>1, <1>2, <1>3, <2>1 DEF IndexedIsClosed
<1>4. CASE noteCaptureFailure /\ UNCHANGED index
  BY <1>1, <1>4 DEF IndexedIsClosed, noteCaptureFailure
<1>. QED BY <1>3, <1>4

\* The reader that left a stream closes it.
LEMMA LeaveFinishKeepsArtifact ==
  ASSUME ArtifactInv, NEW t \in Track, LeaveFinishes(t)
  PROVE  ArtifactInv'
<1>. USE DEF ArtifactInv, clean
<1>0. PICK k \in 1..used : k = job[rtp(t)][1]
  BY RtpReaders DEF LeaveFinishes, ReadersAreKnown
<1>1. /\ FinishStream(k) /\ pc[rtp(t)] = "finishing" /\ rtp(t) \in Readers
      /\ current' = [current EXCEPT ![t] = 0] /\ pc' = [pc EXCEPT ![rtp(t)] = "reading"]
      /\ UNCHANGED <<used, listed, closedFlag, lastRecv, log, job, clean>>
  BY <1>0, RtpReaders DEF LeaveFinishes
<1>2. /\ writerOpen' \subseteq writerOpen /\ index' \in [Streams -> Seq(Nat)] /\ IndexedIsClosed'
      /\ \A n \in Streams : index[n] # NoIndex => index'[n] # NoIndex
      /\ index'[k] # NoIndex \/ captureErr'
      /\ UNCHANGED <<captureErr, lost>> \/ (captureErr' = TRUE /\ lost' = TRUE)
  BY <1>0, <1>1, FinishingKeepsIndexes DEF noteCaptureFailure
<1>3. StreamsAreNumbered'
  BY <1>1, <1>2 DEF StreamsAreNumbered
<1>4. \A q \in Readers : pc'[q] = IF q = rtp(t) THEN "reading" ELSE pc[q]
  BY <1>1 DEF ReadersAreKnown
<1>5. ReadersAreKnown'
  BY <1>1, <1>4, RtpReaders DEF ReadersAreKnown, StreamsAreNumbered, ReaderPcs
<1>6. FlaggedIsFinished'
  <2>1. ASSUME NEW n \in closedFlag \cap listed  PROVE index'[n] # NoIndex \/ captureErr' \/ Finishing(n)'
    <3>1. n \in Streams
      BY <1>1, OpenedAreStreams DEF StreamsAreNumbered
    <3>2. n # k /\ Finishing(n) => Finishing(n)'
      BY <1>0, <1>1, <1>4, RtpReaders DEF Finishing
    <3>. QED BY <1>2, <3>1, <3>2 DEF FlaggedIsFinished
  <2>. QED BY <1>1, <2>1 DEF FlaggedIsFinished
<1>7. CloseGoesThrough' /\ LossIsKept'
  <2>1. (lost => captureErr) /\ (UNCHANGED <<captureErr, lost>> \/ captureErr' = TRUE)
    BY <1>2 DEF LossIsKept
  <2>2. lost' => captureErr'
    BY <2>1
  <2>. QED BY <1>1, <2>2, ReaderIsNotJoined
<1>. QED BY <1>2, <1>3, <1>5, <1>6, <1>7

\* The close finishes a stream, or leaves it to whoever began.
LEMMA VisitKeepsArtifact ==
  ASSUME ArtifactInv, NEW k \in Streams, CloseVisits(k)
  PROVE  ArtifactInv'
<1>. USE DEF ArtifactInv
<1>1. /\ cleanPc = "closing" /\ k \in toClose /\ k \in 1..used
      /\ closedFlag' = closedFlag \cup {k} /\ toClose' = toClose \ {k}
      /\ UNCHANGED <<used, listed, lastRecv, log, current, pc, job, artifactClosed, timedOut, cleanPc, result>>
  BY DEF CloseVisits, StreamsAreNumbered
<1>2. /\ writerOpen' \subseteq writerOpen /\ index' \in [Streams -> Seq(Nat)] /\ IndexedIsClosed'
      /\ \A n \in Streams : index[n] # NoIndex => index'[n] # NoIndex
      /\ k \in closedFlag \/ k \notin listed \/ index'[k] # NoIndex \/ captureErr'
      /\ UNCHANGED <<captureErr, lost>> \/ (captureErr' = TRUE /\ lost' = TRUE)
  <2>1. CASE (k \in closedFlag \/ k \notin listed) /\ UNCHANGED <<writerOpen, index, captureErr, lost>>
    BY <1>1, <2>1 DEF StreamsAreNumbered, IndexedIsClosed
  <2>2. CASE FinishStream(k)
    BY <1>1, <2>2, FinishingKeepsIndexes DEF noteCaptureFailure
  <2>. QED BY <2>1, <2>2 DEF CloseVisits
<1>3. StreamsAreNumbered'
  BY <1>1, <1>2 DEF StreamsAreNumbered
<1>4. ReadersAreKnown'
  BY <1>1 DEF ReadersAreKnown
<1>5. FlaggedIsFinished'
  <2>1. ASSUME NEW n \in closedFlag' \cap listed  PROVE index'[n] # NoIndex \/ captureErr' \/ Finishing(n)'
    <3>1. n \in Streams
      BY <1>1, OpenedAreStreams DEF StreamsAreNumbered
    <3>2. Finishing(n) => Finishing(n)'
      BY <1>1 DEF Finishing
    <3>. QED BY <1>1, <1>2, <3>1, <3>2 DEF FlaggedIsFinished
  <2>. QED BY <1>1, <2>1 DEF FlaggedIsFinished
<1>6. CloseGoesThrough'
  BY <1>1 DEF CloseGoesThrough
<1>7. LossIsKept'
  BY <1>1, <1>2 DEF LossIsKept
<1>. QED BY <1>2, <1>3, <1>4, <1>5, <1>6, <1>7

\* The cleanup joins the readers, begins the close once and reports what it knows.
LEMMA CleanupKeepsArtifact ==
  ASSUME ArtifactInv, PeersClosed \/ TrackReadersJoined \/ closeBegins \/ closeReturns
  PROVE  ArtifactInv'
<1>. USE DEF ArtifactInv, files
<1>1. UNCHANGED <<used, listed, closedFlag, writerOpen, lastRecv, log, index, current, pc, job, captureErr, lost>>
  BY DEF PeersClosed, TrackReadersJoined, closeBegins, closeReturns
<1>2. StreamsAreNumbered'
  BY <1>1 DEF StreamsAreNumbered, PeersClosed, TrackReadersJoined, closeBegins, closeReturns
<1>3. ReadersAreKnown' /\ IndexedIsClosed'
  BY <1>1 DEF ReadersAreKnown, IndexedIsClosed
<1>4. FlaggedIsFinished'
  <2>1. \A n : Finishing(n) => Finishing(n)'
    BY <1>1 DEF Finishing
  <2>. QED BY <1>1, <2>1 DEF FlaggedIsFinished
<1>5. CloseGoesThrough'
  BY <1>1 DEF CloseGoesThrough, PeersClosed, TrackReadersJoined, closeBegins, closeReturns
<1>6. LossIsKept'
  BY <1>1 DEF LossIsKept, CloseGoesThrough, PeersClosed, TrackReadersJoined, closeBegins, closeReturns
<1>. QED BY <1>2, <1>3, <1>4, <1>5, <1>6

LEMMA ArtifactHoldsAlways == ArtifactSpec => []ArtifactInv
<1>1. ASSUME ArtifactInv, [ArtifactNext]_artVars
      PROVE  ArtifactInv'
  <2>1. CASE UNCHANGED artVars
    <3>1. StreamsAreNumbered' /\ ReadersAreKnown' /\ IndexedIsClosed'
      BY <1>1, <2>1 DEF artVars, ArtifactInv, StreamsAreNumbered, ReadersAreKnown, IndexedIsClosed
    <3>2. FlaggedIsFinished'
      BY <1>1, <2>1 DEF artVars, ArtifactInv, FlaggedIsFinished, Finishing
    <3>3. CloseGoesThrough' /\ LossIsKept'
      BY <1>1, <2>1 DEF artVars, ArtifactInv, CloseGoesThrough, LossIsKept
    <3>. QED BY <3>1, <3>2, <3>3 DEF ArtifactInv
  <2>2. ASSUME NEW t \in Track, OpenSaved(t) \/ LeaveStream(t)  PROVE ArtifactInv'
    <3>1. rtp(t) \in Readers
      BY RtpReaders
    <3>. QED BY <1>1, <2>2, <3>1, ReadersKeepArtifact
  <2>3. ASSUME NEW r \in Readers, WriteStarts(r) \/ WriteEnds(r) \/ ReaderEnds(r)  PROVE ArtifactInv'
    <3>1. PICK t \in Track : TRUE
      BY DEF Readers
    <3>. QED BY <1>1, <2>3, <3>1, ReadersKeepArtifact
  <2>. QED BY <1>1, <2>1, <2>2, <2>3, OpenKeepsArtifact, LeaveFinishKeepsArtifact, VisitKeepsArtifact,
       CleanupKeepsArtifact DEF ArtifactNext
<1>. QED BY <1>1, ArtifactStarts, PTL DEF ArtifactSpec

-----------------------------------------------------------------------------
(* The theorem.                                                            *)

\* However writes, track changes and the close interleave: an index covers its log, the
\* close leaves no stream behind, and a loss is never told as a complete recording.
THEOREM CaptureIsAlwaysWhole == ArtifactSpec => []CaptureIsWhole
<1>1. ArtifactInv => CaptureIsWhole
  <2>. SUFFICES ASSUME ArtifactInv PROVE CaptureIsWhole
    OBVIOUS
  <2>. USE DEF ArtifactInv
  <2>1. IndexCoversLog
    BY DEF IndexCoversLog, IndexedIsClosed
  <2>2. CloseIsComplete
    <3>. SUFFICES ASSUME cleanPc = "closed", NEW k \in listed
                  PROVE  \/ k \in closedFlag /\ (index[k] # NoIndex \/ captureErr)
                         \/ timedOut /\ \E t \in Track : job[rtp(t)][1] = k /\ pc[rtp(t)] = "finishing"
      BY DEF CloseIsComplete
    <3>1. k \in closedFlag /\ (index[k] # NoIndex \/ captureErr \/ Finishing(k))
      BY DEF CloseGoesThrough, FlaggedIsFinished
    <3>2. Finishing(k) => timedOut
      BY RtpReaders DEF Finishing, CloseGoesThrough
    <3>. QED BY <3>1, <3>2 DEF Finishing
  <2>3. cleanPc = "closed" /\ lost /\ ~timedOut => result = "lost media"
    BY DEF LossIsKept
  <2>. QED BY <2>1, <2>2, <2>3 DEF CaptureIsWhole
<1>. QED BY <1>1, ArtifactHoldsAlways, PTL

-----------------------------------------------------------------------------
(***************************************************************************)
(* ModelStore, for any set of processes and any file size.                 *)
(***************************************************************************)

InstallPcs == {"idle", "component", "request", "response", "open", "copy", "verify", "unpacked",
               "publish", "import"}

\* Only the holder of the lock is at work.
HolderWorks ==
  /\ installPc \in [Process -> InstallPcs]
  /\ \A p \in Process : installPc[p] # "idle" => lock = p

\* A file gets into place whole and right, or not at all.
Placed == [bytes : {Empty, Good}, touched : BOOLEAN]
PlacedIsGood == dest \in [Component -> Placed]

StoreInv == HolderWorks /\ PlacedIsGood

\* A process moves on with the lock it has, takes the lock nobody has, or leaves.
LEMMA HolderKeepsLock ==
  ASSUME HolderWorks, NEW p \in Process, NEW step \in InstallPcs,
         installPc' = [installPc EXCEPT ![p] = step],
         \/ installPc[p] # "idle" /\ UNCHANGED lock
         \/ lock = Nobody /\ lock' = p
         \/ installPc[p] # "idle" /\ lock' = Nobody /\ step = "idle"
  PROVE  HolderWorks'
<1>1. \A q \in Process : installPc'[q] = IF q = p THEN step ELSE installPc[q]
  BY DEF HolderWorks
<1>2. ASSUME NEW q \in Process, installPc'[q] # "idle"  PROVE lock' = q
  BY <1>1, <1>2, ModelStoreAssumption DEF HolderWorks
<1>. QED BY <1>2 DEF HolderWorks

\* A process fetches, checks and cleans up.
FetchStep(p) ==
  \/ locked(p) \/ Acquire(p) \/ downloadOnce(p) \/ Retry(p)
  \/ Resumes(p) \/ RangeRefused(p) \/ StartsOver(p) \/ ResponseRefused(p)
  \/ Truncate(p) \/ Copy(p) \/ RejectDownload(p) \/ decompress(p) \/ RemovePart(p) \/ Kill(p)
PlaceStep(p) == publish(p) \/ Import(p)

LEMMA ProcessKeepsLock ==
  ASSUME HolderWorks, NEW p \in Process, FetchStep(p) \/ PlaceStep(p)
  PROVE  HolderWorks'
<1>. USE DEF Go, Leave, Fail, NextComponent
<1>1. ASSUME NEW step \in InstallPcs, Go(p, step), installPc[p] # "idle", UNCHANGED lock  PROVE HolderWorks'
  BY <1>1, HolderKeepsLock
<1>2. ASSUME Leave(p), installPc[p] # "idle"  PROVE HolderWorks'
  BY <1>2, HolderKeepsLock DEF InstallPcs
<1>3. ASSUME NextComponent(p), installPc[p] # "idle"  PROVE HolderWorks'
  BY <1>1, <1>2, <1>3 DEF InstallPcs
<1>4. CASE locked(p)
  <2>1. PICK step \in {"component", "import"} : Go(p, step)
    BY <1>4 DEF locked
  <2>. QED BY <1>4, <2>1, HolderKeepsLock DEF locked, InstallPcs
<1>5. CASE Acquire(p)
  BY <1>1, <1>3, <1>5 DEF Acquire, InstallPcs
<1>6. CASE downloadOnce(p)
  BY <1>1, <1>6 DEF downloadOnce, InstallPcs
<1>7. CASE Retry(p)
  BY <1>1, <1>2, <1>7 DEF Retry, InstallPcs
<1>8. CASE Resumes(p) \/ StartsOver(p) \/ Truncate(p) \/ decompress(p) \/ RemovePart(p)
  BY <1>1, <1>8 DEF Resumes, StartsOver, Truncate, decompress, RemovePart, InstallPcs
<1>9. CASE Copy(p)
  BY <1>1, <1>9 DEF Copy, InstallPcs
<1>10. CASE RangeRefused(p)
  BY <1>10 DEF RangeRefused, HolderWorks
<1>11. CASE ResponseRefused(p) \/ RejectDownload(p) \/ Kill(p)
  BY <1>2, <1>11 DEF ResponseRefused, RejectDownload, Kill
<1>12. CASE publish(p)
  BY <1>2, <1>3, <1>12 DEF publish
<1>13. CASE Import(p)
  BY <1>2, <1>13 DEF Import
<1>. QED BY <1>4, <1>5, <1>6, <1>7, <1>8, <1>9, <1>10, <1>11, <1>12, <1>13 DEF FetchStep, PlaceStep

\* Only what the catalogue knows gets into place.
LEMMA PlacingKeepsGood ==
  ASSUME PlacedIsGood, NEW p \in Process, PlaceStep(p)
  PROVE  PlacedIsGood'
<1>. DEFINE genuine == [bytes |-> Good, touched |-> FALSE]
<1>0. genuine \in Placed
  BY DEF Placed
<1>. USE DEF PlacedIsGood, verifyFile
<1>1. CASE publish(p)
  <2>1. \/ UNCHANGED dest
        \/ dest' = [dest EXCEPT ![component[p]] = IF dest[component[p]] = None THEN genuine ELSE @]
    BY <1>1 DEF publish
  <2>. HIDE DEF genuine
  <2>. QED BY <1>0, <2>1
<1>2. CASE Import(p)
  <2>1. \/ UNCHANGED dest
        \/ dest' = [dest EXCEPT !["vad"] = genuine]
        \/ dest' = [c \in Component |-> IF dest[c] = None THEN genuine ELSE dest[c]]
    BY <1>2 DEF Import
  <2>. HIDE DEF genuine
  <2>. QED BY <1>0, <2>1
<1>. QED BY <1>1, <1>2 DEF PlaceStep

LEMMA StoreHoldsAlways == StoreSpec => []StoreInv
<1>1. StoreInit => StoreInv
  BY DEF StoreInit, StoreInv, HolderWorks, PlacedIsGood, Placed, None, InstallPcs
<1>2. ASSUME StoreInv, [StoreNext]_storeVars
      PROVE  StoreInv'
  <2>1. ASSUME NEW p \in Process, FetchStep(p)  PROVE StoreInv'
    <3>1. UNCHANGED dest
      BY <2>1 DEF FetchStep, locked, Acquire, downloadOnce, Retry, Resumes, RangeRefused, StartsOver,
         ResponseRefused, Truncate, Copy, RejectDownload, decompress, RemovePart, Kill, Fail
    <3>. QED BY <1>2, <2>1, <3>1, ProcessKeepsLock DEF StoreInv, PlacedIsGood
  <2>2. ASSUME NEW p \in Process, PlaceStep(p)  PROVE StoreInv'
    BY <1>2, <2>2, ProcessKeepsLock, PlacingKeepsGood DEF StoreInv
  <2>3. CASE Change
    <3>1. \/ UNCHANGED dest
          \/ \E c \in Component : dest' \in {[dest EXCEPT ![c] = None], [dest EXCEPT ![c].touched = TRUE]}
      BY <2>3 DEF Change
    <3>2. None \in Placed /\ \A c \in Component : [dest[c] EXCEPT !.touched = TRUE] \in Placed
      BY <1>2 DEF StoreInv, PlacedIsGood, None, Placed
    <3>3. PlacedIsGood'
      BY <1>2, <3>1, <3>2 DEF StoreInv, PlacedIsGood
    <3>. QED BY <1>2, <2>3, <3>3 DEF Change, StoreInv, HolderWorks
  <2>4. CASE UNCHANGED storeVars
    BY <1>2, <2>4 DEF storeVars, StoreInv, HolderWorks, PlacedIsGood
  <2>. QED BY <1>2, <2>1, <2>2, <2>3, <2>4 DEF StoreNext, FetchStep, PlaceStep
<1>. QED BY <1>1, <1>2, PTL DEF StoreSpec

\* Whatever was resumed, replaced, killed or changed by hand, what counts as installed has
\* the catalogue's bytes, and two processes are never at work at once.
THEOREM InstalledIsAlwaysGenuine == StoreSpec => []InstalledIsGenuine
<1>1. StoreInv => InstalledIsGenuine
  <2>. SUFFICES ASSUME StoreInv PROVE InstalledIsGenuine
    OBVIOUS
  <2>1. \A c \in Component : Installed(c) => dest[c].bytes = Good
    BY DEF StoreInv, PlacedIsGood, Placed, Installed
  <2>2. \A p, q \in Process : installPc[p] # "idle" /\ installPc[q] # "idle" => p = q
    BY DEF StoreInv, HolderWorks
  <2>. QED BY <2>1, <2>2 DEF InstalledIsGenuine
<1>. QED BY <1>1, StoreHoldsAlways, PTL
=============================================================================
