------------------------- MODULE RecordingPriority -------------------------
(***************************************************************************)
(* How recordings and background builds share the host: record slots, the  *)
(* process-wide build gate, the admission of a build under each processing *)
(* policy, its cancellation when a recording arrives, and the monitor that *)
(* samples headroom for the auto policy.                                   *)
(***************************************************************************)
EXTENDS Naturals, FiniteSets

CONSTANTS
  Recording,         \* recordings that may be asked for
  Builder,           \* build workers, and the model installer that takes their gate
  Installer,         \* the builders that are model installs: they take only the gate
  MaxRecordWorkers,  \* capacity of recordSlots
  NoBuilder          \* nobody

\* What is assumed of the constants.
ASSUME PriorityAssumption ==
  /\ IsFiniteSet(Recording)
  /\ Installer \subseteq Builder
  /\ MaxRecordWorkers \in Nat \ {0}
  /\ NoBuilder \notin Builder

StartNeeds == 2   \* sufficient samples before a build may start during capture
BadLimit   == 3   \* insufficient samples that make a running build yield

VARIABLES
  policy,              \* processingPolicy(), fixed by the configuration
  slots,               \* len(recordSlots)
  rec,                 \* each recording: "new", "held", "post" (slot freed), "ended"
  quiet,               \* no recording finished within RecordingIdleGrace
  gate,                \* holder of buildExecutionMu
  build,               \* each builder: "off", "waiting", "running", "cancelled"
  priorityBuildCancel, \* the build whose cancel function is published
  fresh,               \* the last sample is less than five seconds old
  autoCanStart, autoCanContinue,
  startSamples, badSamples

priorityVars == <<policy, slots, rec, quiet, gate, build, priorityBuildCancel, fresh,
          autoCanStart, autoCanContinue, startSamples, badSamples>>

samples == <<fresh, autoCanStart, autoCanContinue, startSamples, badSamples>>

-----------------------------------------------------------------------------
(* Record slots.                                                           *)

\* The published build is cancelled by cancelling its context.
Cancelled == [build EXCEPT ![priorityBuildCancel] = "cancelled"]

\* Under which policies a recording that gets a slot cancels the build.
RecordingPreempts ==
  \/ policy = "recording-first"
  \/ policy = "auto" /\ (~fresh \/ ~autoCanContinue)

\* A full recordSlots refuses the recording (errRecordBusy): nothing changes.
reserveRecordSlot(r) ==
  /\ rec[r] = "new"
  /\ slots < MaxRecordWorkers
  /\ slots' = slots + 1
  /\ rec' = [rec EXCEPT ![r] = "held"]
  /\ build' = IF priorityBuildCancel # NoBuilder /\ RecordingPreempts THEN Cancelled ELSE build
  /\ UNCHANGED <<policy, quiet, gate, priorityBuildCancel, samples>>

\* Mutant of releaseRecordSlot: the explicit and the deferred release both run.
ReleaseTwice(r) ==
  /\ rec[r] \in {"held", "post"}
  /\ slots > 0
  /\ slots' = slots - 1
  /\ quiet' = FALSE
  /\ rec' = [rec EXCEPT ![r] = IF @ = "held" THEN "post" ELSE "ended"]
  /\ UNCHANGED <<policy, gate, build, priorityBuildCancel, samples>>

\* The recorder exited, or the job could not be stored: the slot is given back
\* once, before the post-record bookkeeping.
releaseRecordSlot(r) ==
  /\ rec[r] = "held"
  /\ slots > 0
  /\ slots' = slots - 1
  /\ quiet' = FALSE
  /\ rec' = [rec EXCEPT ![r] = "post"]
  /\ UNCHANGED <<policy, gate, build, priorityBuildCancel, samples>>

\* The goroutine ends; its deferred release does nothing any more.
RecordingEnds(r) ==
  /\ rec[r] = "post"
  /\ rec' = [rec EXCEPT ![r] = "ended"]
  /\ UNCHANGED <<policy, slots, quiet, gate, build, priorityBuildCancel, samples>>

GracePasses ==
  /\ ~quiet
  /\ quiet' = TRUE
  /\ UNCHANGED <<policy, slots, rec, gate, build, priorityBuildCancel, samples>>

-----------------------------------------------------------------------------
(* Builds.                                                                 *)

TakeBuildGate(b) ==
  /\ build[b] = "off"
  /\ gate = NoBuilder
  /\ gate' = b
  /\ build' = [build EXCEPT ![b] = "waiting"]
  /\ UNCHANGED <<policy, slots, rec, quiet, priorityBuildCancel, samples>>

recordingIdleLocked == slots = 0 /\ quiet

\* Mutant of BuildAdmitted: idle periods do not admit a build.
AdmittedByPolicyOnly == policy = "concurrent" \/ (policy = "auto" /\ fresh /\ autoCanStart)

BuildAdmitted ==
  \/ policy = "concurrent"
  \/ recordingIdleLocked
  \/ policy = "auto" /\ fresh /\ autoCanStart

beginBackgroundBuild(b) ==
  /\ build[b] = "waiting"
  /\ b \notin Installer
  /\ BuildAdmitted
  /\ build' = [build EXCEPT ![b] = "running"]
  /\ priorityBuildCancel' = b
  /\ UNCHANGED <<policy, slots, rec, quiet, gate, samples>>

\* The build ended or its cancelled process group exited: release, then the
\* gate.  A model install probes its model under the gate and gives it back.
BuildEnds(b) ==
  /\ build[b] \in {"running", "cancelled"} \/ (build[b] = "waiting" /\ b \in Installer)
  /\ build' = [build EXCEPT ![b] = "off"]
  /\ priorityBuildCancel' = IF b \in Installer THEN priorityBuildCancel ELSE NoBuilder
  /\ gate' = NoBuilder
  /\ UNCHANGED <<policy, slots, rec, quiet, samples>>

-----------------------------------------------------------------------------
(* The monitor of the auto policy.                                         *)

CountTo(limit, n, hit) == IF ~hit THEN 0 ELSE IF n < limit THEN n + 1 ELSE n

\* One tick of startProcessingMonitor. overlapHeadroom makes start imply keep;
\* an unreadable observation is neither.
Sample(start, keep) ==
  /\ policy = "auto"
  /\ start => keep
  /\ startSamples' = CountTo(StartNeeds, startSamples, start)
  /\ badSamples' = CountTo(BadLimit, badSamples, ~keep)
  /\ fresh' = TRUE
  /\ autoCanStart' = (startSamples' >= StartNeeds)
  /\ autoCanContinue' = keep
  /\ build' = IF slots > 0 /\ badSamples' >= BadLimit /\ priorityBuildCancel # NoBuilder
              THEN Cancelled ELSE build
  /\ UNCHANGED <<policy, slots, rec, quiet, gate, priorityBuildCancel>>

\* Five seconds pass without a sample.
SampleAges ==
  /\ fresh
  /\ fresh' = FALSE
  /\ UNCHANGED <<policy, slots, rec, quiet, gate, build, priorityBuildCancel,
                 autoCanStart, autoCanContinue, startSamples, badSamples>>

-----------------------------------------------------------------------------
PriorityInit ==
  /\ policy \in {"recording-first", "concurrent", "auto"}
  /\ slots = 0
  /\ rec = [r \in Recording |-> "new"]
  /\ quiet = TRUE
  /\ gate = NoBuilder
  /\ build = [b \in Builder |-> "off"]
  /\ priorityBuildCancel = NoBuilder
  /\ fresh = FALSE /\ autoCanStart = FALSE /\ autoCanContinue = FALSE
  /\ startSamples = 0 /\ badSamples = 0

BuilderStep(b) == TakeBuildGate(b) \/ beginBackgroundBuild(b) \/ BuildEnds(b)

PriorityNext ==
  \/ \E r \in Recording : reserveRecordSlot(r) \/ releaseRecordSlot(r) \/ RecordingEnds(r)
  \/ GracePasses
  \/ \E b \in Builder : BuilderStep(b)
  \/ \E start, keep \in BOOLEAN : Sample(start, keep)
  \/ SampleAges

PrioritySpec == PriorityInit /\ [][PriorityNext]_priorityVars

\* Recordings end, time passes, builds end and the gate's mutex is fair.
PriorityFairSpec ==
  /\ PrioritySpec
  /\ \A r \in Recording : WF_priorityVars(releaseRecordSlot(r))
  /\ WF_priorityVars(GracePasses)
  /\ \A b \in Builder : SF_priorityVars(TakeBuildGate(b)) /\ WF_priorityVars(beginBackgroundBuild(b)) /\ WF_priorityVars(BuildEnds(b))

-----------------------------------------------------------------------------
(* Properties.                                                             *)

\* Every variable has its type.
PriorityTypeOK ==
  /\ policy \in {"recording-first", "concurrent", "auto"}
  /\ slots \in 0..MaxRecordWorkers
  /\ rec \in [Recording -> {"new", "held", "post", "ended"}]
  /\ gate \in Builder \cup {NoBuilder}
  /\ build \in [Builder -> {"off", "waiting", "running", "cancelled"}]
  /\ priorityBuildCancel \in Builder \cup {NoBuilder}
  /\ {quiet, fresh, autoCanStart, autoCanContinue} \subseteq BOOLEAN
  /\ startSamples \in 0..StartNeeds
  /\ badSamples \in 0..BadLimit

Capturing == slots > 0
Building  == \E b \in Builder : build[b] = "running"

\* recording-first: while a recording holds a slot no build runs that has not
\* been told to stop, whichever of the two came first.
RecordingComesFirst == policy = "recording-first" /\ Capturing => ~Building

\* auto: once the monitor has published three insufficient samples in a row,
\* no build keeps running beside a recording; one that arrives, starts or was
\* there before is cancelled.
StarvedBuildYields == policy = "auto" /\ Capturing /\ badSamples >= BadLimit => ~Building

\* A slot is held by exactly the recordings whose recorder has not exited: it
\* is neither leaked, nor given back twice.
SlotsAreHeld == slots = Cardinality({r \in Recording : rec[r] = "held"})

\* Recordings come before builds, under each policy, and slots balance.
PriorityIsKept == PriorityTypeOK /\ RecordingComesFirst /\ StarvedBuildYields /\ SlotsAreHeld

\* "Unknown/stale telemetry prevents overlap": a build and a recording begin to
\* overlap under auto only on a fresh sample that found headroom.
OverlapNeedsHeadroom ==
  [][policy = "auto" /\ ~(Capturing /\ Building) /\ (Capturing /\ Building)'
     => fresh /\ autoCanContinue]_priorityVars

\* "no-recording periods can drain the queue": a build that took the gate is
\* admitted and ends once recordings stop coming, and lets the next one in.
BuildsDrain == \A b \in Builder : build[b] # "off" ~> build[b] = "off"
=============================================================================
