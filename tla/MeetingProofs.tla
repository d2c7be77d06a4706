--------------------------- MODULE MeetingProofs ----------------------------
(***************************************************************************)
(* Proofs about what happens to a published meeting, and to the speech     *)
(* model that transcribes it: its shares (MeetingSharing), corrections of  *)
(* its speakers (SpeakerEdits), the search index (SearchIndex) and the     *)
(* models in the operator (SpeechModels).                                  *)
(***************************************************************************)
EXTENDS MeetingSharing, SpeakerEdits, SearchIndex, SpeechModels, FiniteSetTheorems, TLAPS

-----------------------------------------------------------------------------
(***************************************************************************)
(* MeetingSharing, for any principals, refusals, publishes and reshares.   *)
(***************************************************************************)

(* The inductive invariant.                                                *)

Sharing == {"audience", "list", "share", "record"}
Runs ==
  [mode : {"none", "publish", "reapply"},
   pc : {"idle", "put_over", "put_new", "deliver"} \cup Sharing,
   todo : SUBSET Principal, audience : SUBSET Principal, required : SUBSET Principal,
   refused : SUBSET Principal, deferred : SUBSET Principal, limited : BOOLEAN]
Outcomes ==
  [status : {"none", "starter_refused", "complete", "partial", "deferred"},
   refused : SUBSET Principal, deferred : SUBSET Principal, about : SUBSET Principal]

SharingTypes == run \in Runs /\ outcome \in Outcomes /\ vanished \in Nat /\ roster \subseteq Guest

\* The delivery that was never deleted: nothing below is said of a later one.
Intact == vanished = 0

\* What was put is there, for the run that put it or found it and ever after.
FileIsThere == Intact /\ (published \/ run.pc \in Sharing \cup {"put_over", "deliver"}) => file

\* A publication that shares is the first to complete, or that of another file.
SharesAreMadeOnce == run.mode = "publish" /\ run.pc \in Sharing \cup {"put_new"} => ~published \/ ~Intact

\* It has forgotten the earlier outcome, and none that completes ends in the
\* refusal of its starter.
OutcomeIsForgotten ==
  /\ run.mode = "publish" /\ run.pc \in {"list", "share", "record"} => outcome = NoOutcome
  /\ Intact /\ (published \/ run.pc = "deliver") => outcome.status # "starter_refused"

\* Only a completed publication's shares count as withdrawn.
WithdrawnWasPublished == withdrawn # {} => published /\ Intact

\* While shares are made, everyone of the audience is somewhere.
AudienceIsAccounted ==
  /\ run.pc = "share" => run.audience \subseteq run.todo \cup run.required \cup run.refused \cup run.deferred
  /\ run.pc = "record" /\ Intact => run.audience \subseteq got \cup run.refused \cup run.deferred

SharingInv ==
  /\ SharingTypes /\ FileIsThere /\ SharesAreMadeOnce /\ OutcomeIsForgotten /\ WithdrawnWasPublished
  /\ AudienceIsAccounted /\ SharesAreAccounted

LEMMA SharingInvInit == SharingInit => SharingInv
<1>. SUFFICES ASSUME SharingInit PROVE SharingInv
  OBVIOUS
<1>1. SharingTypes
  BY DEF SharingInit, SharingTypes, Runs, Outcomes, NoRun, NoOutcome
<1>2. SharesAreAccounted
  BY DEF SharingInit, SharesAreAccounted, WithdrawnStaysOut, OutcomeNamesEveryone, NoOutcome
<1>. QED
  BY <1>1, <1>2 DEF SharingInv, SharingInit, FileIsThere, SharesAreMadeOnce, OutcomeIsForgotten,
     WithdrawnWasPublished, AudienceIsAccounted, NoRun, NoOutcome, Sharing

-----------------------------------------------------------------------------
(* Steps.                                                                  *)

\* A run that ends, wherever it is, leaves nothing to account for.
LEMMA EndKeeps ==
  ASSUME SharingInv, EndRun, UNCHANGED <<outcome, vanished, roster, published, withdrawn, restored, got>>,
         file => file'
  PROVE  SharingInv'
<1>1. SharingTypes'
  BY DEF SharingInv, SharingTypes, EndRun, NoRun, Runs
<1>2. SharesAreAccounted'
  BY DEF SharingInv, SharesAreAccounted, WithdrawnStaysOut, OutcomeNamesEveryone
<1>. QED
  BY <1>1, <1>2 DEF SharingInv, EndRun, NoRun, FileIsThere, SharesAreMadeOnce, OutcomeIsForgotten,
     WithdrawnWasPublished, AudienceIsAccounted, Sharing, Intact

\* The room's roster, Nextcloud's policy and an administrator's request touch no run.
LEMMA AsideStep ==
  ASSUME SharingInv, (\E c \in captures : MergeJobRoomAudience(c)) \/ ChangePolicy \/ handleReshareJob
  PROVE  SharingInv'
<1>1. /\ UNCHANGED <<file, run, outcome, vanished, published, withdrawn, restored, got>>
      /\ roster' \subseteq Guest
  BY DEF SharingInv, SharingTypes, MergeJobRoomAudience, ChangePolicy, handleReshareJob, env, counts
<1>2. SharingTypes'
  BY <1>1 DEF SharingInv, SharingTypes
<1>. QED
  BY <1>1, <1>2 DEF SharingInv, FileIsThere, SharesAreMadeOnce, OutcomeIsForgotten, WithdrawnWasPublished,
     AudienceIsAccounted, SharesAreAccounted, WithdrawnStaysOut, OutcomeNamesEveryone, Intact

\* Nobody has withdrawn anything, and nothing is accounted for, when a run begins.
LEMMA BeginStep == ASSUME SharingInv, BeginDelivery \/ reshare PROVE SharingInv'
<1>1. /\ UNCHANGED <<file, outcome, vanished, published, withdrawn, restored, got, roster>>
      /\ run'.pc \in {"idle", "put_over", "put_new", "audience"} /\ run' \in Runs
      /\ run'.pc \in {"put_over", "audience"} => file
      /\ run'.pc = "put_new" => ~file
      /\ run'.pc = "audience" => run'.mode = "reapply"
  <2>1. CASE BeginDelivery
    <3>1. PICK where \in {"put_over", "put_new"} :
             /\ run' = [NoRun EXCEPT !.mode = "publish", !.pc = where]
             /\ where = "put_over" <=> file
      BY <2>1 DEF BeginDelivery
    <3>. QED
      BY <2>1, <3>1 DEF BeginDelivery, env, NoRun, Runs
  <2>2. CASE reshare
    <3>1. (run' = [NoRun EXCEPT !.mode = "reapply", !.pc = "audience"] /\ file) \/ run' = NoRun
      BY <2>2 DEF reshare
    <3>. QED
      BY <2>2, <3>1 DEF reshare, env, counts, NoRun, Runs, Sharing
  <2>. QED
    BY <2>1, <2>2
<1>2. SharingTypes'
  BY <1>1 DEF SharingInv, SharingTypes
<1>. QED
  BY <1>1, <1>2 DEF SharingInv, FileIsThere, SharesAreMadeOnce, OutcomeIsForgotten, WithdrawnWasPublished,
     AudienceIsAccounted, SharesAreAccounted, WithdrawnStaysOut, OutcomeNamesEveryone, Intact, Sharing

\* The put decides whether this publication shares.
LEMMA PutStep == ASSUME SharingInv, Put PROVE SharingInv'
<1>0. /\ UNCHANGED <<outcome, vanished, published, withdrawn, restored, got, roster>> /\ file'
      /\ run \in Runs
  BY DEF Put, env, counts, SharingInv, SharingTypes
<1>1. CASE EndRun
  BY <1>0, <1>1, EndKeeps
<1>2. ASSUME NEW where \in {"audience", "deliver"},
             run.pc = "put_over" => file, SharesNow(run.pc = "put_over") <=> where = "audience",
             run' = [run EXCEPT !.pc = where]
      PROVE  SharingInv'
  <2>1. run' \in Runs /\ run'.pc = where /\ run'.mode = run.mode /\ run.pc \in {"put_over", "put_new"}
    BY <1>0, <1>2 DEF Runs, Sharing, Put
  <2>2. SharesAreMadeOnce'
    <3>1. CASE where = "audience" /\ run.pc = "put_over"
      <4>1. ~published \/ outcome.status = "starter_refused"
        BY <1>2, <3>1 DEF SharesNow
      <4>. QED
        BY <1>0, <2>1, <4>1 DEF SharingInv, SharesAreMadeOnce, OutcomeIsForgotten, Intact
    <3>2. CASE run.pc = "put_new"
      BY <1>0, <2>1, <3>2 DEF SharingInv, SharesAreMadeOnce, Intact, Sharing
    <3>3. CASE where = "deliver"
      BY <2>1, <3>3 DEF SharesAreMadeOnce, Sharing
    <3>. QED
      BY <1>2, <2>1, <3>1, <3>2, <3>3
  <2>3. OutcomeIsForgotten'
    <3>1. CASE where = "deliver"
      BY <1>0, <1>2, <2>1, <3>1 DEF SharesNow, OutcomeIsForgotten, SharingInv, Intact
    <3>2. CASE where = "audience"
      BY <1>0, <2>1, <3>2 DEF OutcomeIsForgotten, SharingInv, Intact
    <3>. QED
      BY <1>2, <3>1, <3>2
  <2>. QED
    BY <1>0, <1>2, <2>1, <2>2, <2>3 DEF SharingInv, SharingTypes, FileIsThere, WithdrawnWasPublished,
       AudienceIsAccounted, SharesAreAccounted, WithdrawnStaysOut, OutcomeNamesEveryone, Intact, Sharing
<1>. QED
  BY <1>1, <1>2 DEF Put

\* The audience is settled, and then what of it is to be done.
LEMMA AudienceStep == ASSUME SharingInv, audienceForJob \/ ownerSharesForPath PROVE SharingInv'
<1>0. /\ UNCHANGED <<file, vanished, published, withdrawn, restored, got, roster>>
      /\ run \in Runs
  BY DEF audienceForJob, ownerSharesForPath, env, counts, SharingInv, SharingTypes
<1>1. CASE EndRun /\ UNCHANGED outcome
  BY <1>0, <1>1, EndKeeps
<1>2. ASSUME NEW now \in SUBSET Guest, run.pc = "audience",
             run' = [run EXCEPT !.pc = "list", !.audience = {Starter} \cup now],
             outcome' = IF run.mode = "publish" THEN NoOutcome ELSE outcome
      PROVE  SharingInv'
  <2>1. run' \in Runs /\ run'.pc = "list" /\ run'.mode = run.mode
    BY <1>0, <1>2 DEF Runs, Sharing, Principal
  <2>2. outcome' \in Outcomes
    BY <1>2 DEF SharingInv, SharingTypes, Outcomes, NoOutcome
  <2>3. OutcomeIsForgotten'
    BY <1>0, <1>2, <2>1 DEF OutcomeIsForgotten, SharingInv, Intact, NoOutcome
  <2>4. OutcomeNamesEveryone'
    BY <1>0, <1>2 DEF OutcomeNamesEveryone, SharingInv, SharesAreAccounted, NoOutcome
  <2>. QED
    BY <1>0, <1>2, <2>1, <2>2, <2>3, <2>4 DEF SharingInv, SharingTypes, FileIsThere, SharesAreMadeOnce,
       WithdrawnWasPublished, AudienceIsAccounted, SharesAreAccounted, WithdrawnStaysOut, Intact, Sharing
<1>3. ASSUME run.pc = "list", UNCHANGED outcome,
             run' = [run EXCEPT !.pc = "share", !.todo = run.audience \ shares,
                                !.required = run.audience \cap shares]
      PROVE  SharingInv'
  <2>1. /\ run' \in Runs /\ run'.pc = "share" /\ run'.mode = run.mode /\ run'.audience = run.audience
        /\ run'.todo = run.audience \ shares /\ run'.required = run.audience \cap shares
    BY <1>0, <1>3 DEF Runs, Sharing
  <2>2. AudienceIsAccounted'
    BY <2>1 DEF AudienceIsAccounted
  <2>. QED
    BY <1>0, <1>3, <2>1, <2>2 DEF SharingInv, SharingTypes, FileIsThere, SharesAreMadeOnce, OutcomeIsForgotten,
       WithdrawnWasPublished, SharesAreAccounted, WithdrawnStaysOut, OutcomeNamesEveryone, Intact, Sharing
<1>. QED
  BY <1>1, <1>2, <1>3 DEF audienceForJob, ownerSharesForPath

\* A share made by a publication is nobody's that withdrew one.
LEMMA GivesNothingBack ==
  ASSUME SharingInv, NEW p \in Principal, run.pc = "share", Give(p)
  PROVE  withdrawn' \subseteq withdrawn /\ ~restored'
<1>1. ~(run.mode = "publish" /\ p \in withdrawn)
  BY DEF SharingInv, SharesAreMadeOnce, WithdrawnWasPublished, Sharing
<1>2. ~restored
  BY DEF SharingInv, SharesAreAccounted, WithdrawnStaysOut
<1>. QED
  BY <1>1, <1>2, Zenon DEF Give

\* One recipient: whatever the answer, it is accounted for.
LEMMA ShareStep ==
  ASSUME SharingInv, NEW p \in Principal, createRecordingShare(p)
  PROVE  SharingInv'
<1>0. /\ UNCHANGED <<file, vanished, published, got, roster>> /\ run \in Runs /\ run.pc = "share" /\ file
      /\ ~restored
  BY DEF createRecordingShare, NextRecipient, env, counts, SharingInv, SharingTypes, SharesAreAccounted,
     WithdrawnStaysOut
<1>1. withdrawn' \subseteq withdrawn /\ ~restored'
  <2>1. CASE Give(p)
    BY <1>0, <2>1, GivesNothingBack
  <2>2. CASE UNCHANGED <<withdrawn, restored>>
    BY <1>0, <2>2
  <2>. QED
    BY <2>1, <2>2 DEF createRecordingShare
<1>2. CASE EndRun /\ UNCHANGED outcome
  <2>1. SharingTypes'
    BY <1>0, <1>2 DEF SharingInv, SharingTypes, EndRun, NoRun, Runs
  <2>. QED
    BY <1>0, <1>1, <1>2, <2>1 DEF SharingInv, EndRun, NoRun, FileIsThere, SharesAreMadeOnce,
       OutcomeIsForgotten, WithdrawnWasPublished, AudienceIsAccounted, SharesAreAccounted,
       WithdrawnStaysOut, OutcomeNamesEveryone, Sharing, Intact
<1>3. ASSUME run.mode = "publish", EndRun,
             outcome' = [NoOutcome EXCEPT !.status = "starter_refused", !.refused = {p}]
      PROVE  SharingInv'
  <2>1. outcome' \in Outcomes /\ outcome'.status = "starter_refused"
    BY <1>3 DEF Outcomes, NoOutcome
  <2>2. ~published \/ ~Intact
    BY <1>0, <1>3 DEF SharingInv, SharesAreMadeOnce, Sharing
  <2>3. SharingTypes'
    BY <1>0, <1>3, <2>1 DEF SharingInv, SharingTypes, EndRun, NoRun, Runs
  <2>. QED
    BY <1>0, <1>1, <1>3, <2>1, <2>2, <2>3 DEF SharingInv, EndRun, NoRun, FileIsThere, SharesAreMadeOnce,
       OutcomeIsForgotten, WithdrawnWasPublished, AudienceIsAccounted, SharesAreAccounted,
       WithdrawnStaysOut, OutcomeNamesEveryone, Sharing, Intact
<1>4. ASSUME UNCHANGED outcome, run' \in Runs, run'.mode = run.mode, run'.pc = "share",
             run'.audience = run.audience, run.todo \ {p} \subseteq run'.todo,
             run.required \subseteq run'.required, run.refused \subseteq run'.refused,
             run.deferred \subseteq run'.deferred,
             p \in run'.required \cup run'.refused \cup run'.deferred
      PROVE  SharingInv'
  <2>1. AudienceIsAccounted'
    BY <1>0, <1>4 DEF SharingInv, AudienceIsAccounted
  <2>2. WithdrawnWasPublished' /\ SharesAreAccounted'
    BY <1>0, <1>1, <1>4 DEF SharingInv, WithdrawnWasPublished, SharesAreAccounted, WithdrawnStaysOut,
       OutcomeNamesEveryone, Intact
  <2>3. SharingTypes' /\ FileIsThere' /\ SharesAreMadeOnce' /\ OutcomeIsForgotten'
    BY <1>0, <1>4 DEF SharingInv, SharingTypes, FileIsThere, SharesAreMadeOnce, OutcomeIsForgotten, Intact, Sharing
  <2>. QED
    BY <2>1, <2>2, <2>3 DEF SharingInv
<1>5. CASE run' = Done(p, [run EXCEPT !.required = @ \cup {p}]) /\ UNCHANGED outcome
  BY <1>0, <1>4, <1>5 DEF Done, Runs
<1>6. CASE run' = Done(p, [run EXCEPT !.limited = TRUE, !.deferred = @ \cup {p}]) /\ UNCHANGED outcome
  BY <1>0, <1>4, <1>6 DEF Done, Runs
<1>7. CASE run' = Done(p, [run EXCEPT !.refused = @ \cup {p}]) /\ UNCHANGED outcome
  BY <1>0, <1>4, <1>7 DEF Done, Runs
<1>. QED
  BY <1>2, <1>3, <1>5, <1>6, <1>7 DEF createRecordingShare

\* What is listed is what the audience was given.
LEMMA VerifyStep == ASSUME SharingInv, Verify PROVE SharingInv'
<1>0. /\ UNCHANGED <<file, outcome, vanished, published, withdrawn, restored, roster>> /\ run \in Runs
      /\ run.pc = "share" /\ run.todo = {}
  BY DEF Verify, env, counts, SharingInv, SharingTypes
<1>1. CASE EndRun /\ UNCHANGED <<got, handled>>
  BY <1>0, <1>1, EndKeeps
<1>2. ASSUME got' = got \cup run.required, run' = [run EXCEPT !.pc = "record"]
      PROVE  SharingInv'
  <2>1. /\ run' \in Runs /\ run'.pc = "record" /\ run'.mode = run.mode /\ run'.audience = run.audience
        /\ run'.refused = run.refused /\ run'.deferred = run.deferred
    BY <1>0, <1>2 DEF Runs, Sharing
  <2>2. AudienceIsAccounted'
    BY <1>0, <1>2, <2>1 DEF SharingInv, AudienceIsAccounted
  <2>3. SharesAreAccounted'
    BY <1>0, <1>2 DEF SharingInv, SharesAreAccounted, WithdrawnStaysOut, OutcomeNamesEveryone
  <2>. QED
    BY <1>0, <2>1, <2>2, <2>3 DEF SharingInv, SharingTypes, FileIsThere, SharesAreMadeOnce, OutcomeIsForgotten,
       WithdrawnWasPublished, Intact, Sharing
<1>. QED
  BY <1>1, <1>2 DEF Verify

\* What is recorded names the audience the run accounted for.
LEMMA RecordStep == ASSUME SharingInv, RecordJobShareOutcome PROVE SharingInv'
<1>0. /\ UNCHANGED <<file, vanished, published, withdrawn, restored, got, roster>> /\ run \in Runs
      /\ run.pc = "record" /\ run' = IF run.mode = "publish" THEN [run EXCEPT !.pc = "deliver"] ELSE NoRun
  BY DEF RecordJobShareOutcome, env, counts, SharingInv, SharingTypes
<1>1. run' \in Runs /\ run'.pc \in {"deliver", "idle"} /\ (run'.pc = "deliver" => run.mode = "publish")
  BY <1>0 DEF Runs, Sharing, NoRun
<1>2. outcome' \in Outcomes
  BY <1>0 DEF RecordJobShareOutcome, SharingInv, SharingTypes, Outcomes, shareOutcomeStatus, Runs
<1>3. OutcomeIsForgotten'
  <2>1. outcome'.status # "starter_refused" \/ outcome' = outcome
    BY DEF RecordJobShareOutcome, shareOutcomeStatus
  <2>2. run.mode = "publish" => outcome.status # "starter_refused"
    BY <1>0 DEF SharingInv, OutcomeIsForgotten, NoOutcome
  <2>. QED
    BY <1>0, <1>1, <2>1, <2>2 DEF SharingInv, OutcomeIsForgotten, Intact
<1>4. OutcomeNamesEveryone'
  <2>1. CASE UNCHANGED outcome
    BY <1>0, <2>1 DEF SharingInv, SharesAreAccounted, OutcomeNamesEveryone
  <2>2. CASE /\ outcome'.refused = run.refused /\ outcome'.deferred = run.deferred
             /\ outcome'.about = run.audience
    BY <1>0, <2>2 DEF SharingInv, AudienceIsAccounted, OutcomeNamesEveryone, Intact
  <2>. QED
    BY <2>1, <2>2 DEF RecordJobShareOutcome
<1>. QED
  BY <1>0, <1>1, <1>2, <1>3, <1>4 DEF SharingInv, SharingTypes, FileIsThere, SharesAreMadeOnce,
     WithdrawnWasPublished, AudienceIsAccounted, SharesAreAccounted, WithdrawnStaysOut, Intact, Sharing

\* The first publication to be marked has its file, and its starter.
LEMMA PublishedStep == ASSUME SharingInv, MarkPublished PROVE SharingInv'
<1>1. SharingTypes'
  BY DEF MarkPublished, SharingInv, SharingTypes, EndRun, NoRun, Runs, env, counts
<1>2. SharesAreAccounted'
  BY DEF MarkPublished, SharingInv, SharesAreAccounted, WithdrawnStaysOut, OutcomeNamesEveryone, counts
<1>. QED
  BY <1>1, <1>2 DEF MarkPublished, SharingInv, EndRun, NoRun, FileIsThere, SharesAreMadeOnce,
     OutcomeIsForgotten, WithdrawnWasPublished, AudienceIsAccounted, Sharing, Intact, counts

LEMMA CrashStep == ASSUME SharingInv, Crash PROVE SharingInv'
  BY EndKeeps DEF Crash, env, counts

\* Shares withdrawn, and a file that goes with its shares.
LEMMA OutsideStep == ASSUME SharingInv, (\E p \in Principal : Withdraw(p)) \/ Vanish PROVE SharingInv'
<1>1. CASE \E p \in Principal : Withdraw(p)
  <2>1. /\ UNCHANGED <<file, outcome, vanished, published, run, restored, got, roster>>
        /\ withdrawn' # withdrawn => published /\ vanished = 0
    BY <1>1 DEF Withdraw, env, counts
  <2>2. WithdrawnWasPublished'
    BY <2>1 DEF SharingInv, WithdrawnWasPublished, Intact
  <2>. QED
    BY <2>1, <2>2 DEF SharingInv, SharingTypes, FileIsThere, SharesAreMadeOnce, OutcomeIsForgotten,
       AudienceIsAccounted, SharesAreAccounted, WithdrawnStaysOut, OutcomeNamesEveryone, Intact
<1>2. CASE Vanish
  <2>1. /\ vanished' \in Nat /\ vanished' # 0 /\ withdrawn' = {}
        /\ UNCHANGED <<outcome, published, run, restored, roster>>
    BY <1>2 DEF Vanish, SharingInv, SharingTypes, env, counts
  <2>. QED
    BY <2>1 DEF SharingInv, SharingTypes, FileIsThere, SharesAreMadeOnce, OutcomeIsForgotten,
       WithdrawnWasPublished, AudienceIsAccounted, SharesAreAccounted, WithdrawnStaysOut,
       OutcomeNamesEveryone, Intact
<1>. QED
  BY <1>1, <1>2

LEMMA SharingInvStep == SharingInv /\ [SharingNext]_sharingVars => SharingInv'
<1>. SUFFICES ASSUME SharingInv, [SharingNext]_sharingVars PROVE SharingInv'
  OBVIOUS
<1>1. CASE UNCHANGED sharingVars
  BY <1>1 DEF sharingVars, env, counts, SharingInv, SharingTypes, FileIsThere, SharesAreMadeOnce,
     OutcomeIsForgotten, WithdrawnWasPublished, AudienceIsAccounted, SharesAreAccounted,
     WithdrawnStaysOut, OutcomeNamesEveryone, Intact
<1>2. CASE SharingNext
  BY <1>2, AsideStep, BeginStep, PutStep, AudienceStep, ShareStep, VerifyStep, RecordStep, PublishedStep,
     CrashStep, OutsideStep DEF SharingNext
<1>. QED
  BY <1>1, <1>2

\* Whatever reruns, refusals, interrupted runs and reshares a meeting goes
\* through, no publication gives back a share that somebody withdrew from it, and
\* a recorded outcome leaves nobody of its audience out.
THEOREM SharesAreAlwaysAccounted == SharingSpec => []SharesAreAccounted
<1>1. SharingInv => SharesAreAccounted
  BY DEF SharingInv
<1>. QED
  BY SharingInvInit, SharingInvStep, <1>1, PTL DEF SharingSpec

-----------------------------------------------------------------------------
(***************************************************************************)
(* SpeakerEdits, for any people, versions, revisions and staging faults.   *)
(***************************************************************************)

(* The inductive invariant.                                                *)

Kinds == {"create", "rerun", "refine", "summarize"}
Bundles == [edits : Nat, summary : Nat, by : Nat]
Rows ==
  [kind : Kinds \cup {"none"}, snap : Nat, rewrite : BOOLEAN, published : BOOLEAN,
   ended : Resting \cup {"none"}]
Documents == [revision : 0..MaxRevisions, applied : Nat, error : BOOLEAN]

AtWork == state \notin Resting
Built == state \in {"seal", "publish", "delivered"}

SpeakerTypes ==
  /\ state \in Resting \cup {"queued", "build", "seal", "publish", "delivered"}
  /\ cur \in AttemptNumbers
  /\ versions \in [AttemptNumbers -> Rows] /\ own \in [AttemptNumbers -> Bundles]
  /\ edits \in Documents
  /\ current \in Bundles /\ readers \in Bundles
  /\ promoting \in {"none", "tail", "pending"}
  /\ DOMAIN basis = 1..MaxRevisions

\* The published attempts are earlier than the one at work, and one is the latest.
PublishedIsOrdered ==
  /\ \A a \in Published : a <= cur /\ (AtWork => a < cur)
  /\ Published # {} => Latest(Published) \in Published /\ \A b \in Published : b <= Latest(Published)
  /\ promoted \in Published \cup {0}

\* What readers are told is published carries the edits recorded as applied,
\* wherever it is.
MeetingIsApplied ==
  /\ edits.applied <= edits.revision
  /\ Published = {} => current = NoBundle /\ edits.applied = 0
  /\ Published # {} /\ promoted = Latest(Published) => current.edits = edits.applied
  /\ Published # {} /\ promoted # Latest(Published) =>
       own[Latest(Published)].edits = edits.applied /\ own[Latest(Published)].by > 0

\* A promotion is under way only of what is not in current/, and while nothing is at work.
PromotionIsDue ==
  promoting # "none" => ~AtWork /\ Published # {} /\ promoted # Latest(Published)

\* The attempt at work was queued for what its kind says.
RowIsAsQueued ==
  AtWork =>
    /\ Row.kind \in Kinds
    /\ Row.snap <= edits.revision
    /\ Row.kind \in {"rerun", "refine"} => Row.snap >= edits.applied
    /\ Row.kind = "create" => Row.snap = 0 /\ edits.applied = 0
    /\ Row.kind = "summarize" => Row.snap = 0
    /\ Row.kind = "summarize" /\ ~Row.rewrite => publishedSpeakerMeeting.summary = 0

\* Once built, it carries what will be recorded as applied, and the summary it was to keep.
BuiltIsWhole ==
  Built =>
    /\ own[cur].by > 0
    /\ own[cur].edits = IF Row.snap > edits.applied THEN Row.snap ELSE edits.applied
    /\ Row.kind = "refine" /\ ~Row.rewrite => own[cur].summary = publishedSpeakerMeeting.summary
    /\ state = "delivered" => readers = own[cur]

SpeakersInv ==
  /\ SpeakerTypes /\ PublishedIsOrdered /\ MeetingIsApplied /\ PromotionIsDue
  /\ RowIsAsQueued /\ BuiltIsWhole /\ CorrectionsAreKept

-----------------------------------------------------------------------------
(* The latest published attempt, and the meeting readers have.             *)

LEMMA LatestIs ==
  ASSUME NEW S \in SUBSET Nat, NEW m \in S, \A b \in S : b <= m
  PROVE  Latest(S) = m
<1>1. \A a \in S : (\A b \in S : b <= a) => a = m
  BY SMT
<1>. QED
  BY <1>1 DEF Latest

\* The published meeting carries the applied edits.
LEMMA MeetingCarriesApplied ==
  ASSUME SpeakersInv
  PROVE  publishedSpeakerMeeting \in Bundles /\ publishedSpeakerMeeting.edits = edits.applied
<1>1. Published # {} => Latest(Published) \in AttemptNumbers
  BY DEF SpeakersInv, PublishedIsOrdered, Published
<1>2. \A a \in AttemptNumbers : own[a].by > 0 => own[a] # NoBundle
  BY DEF NoBundle
<1>. QED
  BY <1>1, <1>2 DEF SpeakersInv, SpeakerTypes, MeetingIsApplied, publishedSpeakerMeeting, NoBundle

\* It is the same as long as the same attempts are published and promoted and
\* the bundle of the latest is left alone.
LEMMA MeetingStays ==
  ASSUME UNCHANGED <<current, promoted>>, Published' = Published,
         Published # {} => own'[Latest(Published)] = own[Latest(Published)]
  PROVE  publishedSpeakerMeeting' = publishedSpeakerMeeting
<1>1. Latest(Published') = Latest(Published)
  BY DEF Latest
<1>. QED
  BY <1>1 DEF publishedSpeakerMeeting

LEMMA SpeakersInvInit == SpeakersInit => SpeakersInv
<1>. SUFFICES ASSUME SpeakersInit PROVE SpeakersInv
  OBVIOUS
<1>1. Published = {}
  BY DEF SpeakersInit, Published, NoAttempt
<1>2. cur = 1 /\ cur \in AttemptNumbers /\ Row.kind = "create" /\ Row.snap = 0
  BY SpeakersAssumption DEF SpeakersInit, AttemptNumbers, Row, NoAttempt
<1>3. SpeakerTypes
  <2>1. NoBundle \in Bundles /\ NoAttempt \in Rows /\ [NoAttempt EXCEPT !.kind = "create"] \in Rows
    BY DEF NoBundle, NoAttempt, Bundles, Rows, Kinds
  <2>2. versions \in [AttemptNumbers -> Rows] /\ own \in [AttemptNumbers -> Bundles]
    BY <2>1 DEF SpeakersInit
  <2>3. edits \in Documents /\ DOMAIN basis = 1..MaxRevisions
    BY SpeakersAssumption DEF SpeakersInit, Documents
  <2>. QED
    BY <1>2, <2>1, <2>2, <2>3 DEF SpeakersInit, SpeakerTypes
<1>4. CorrectionsAreKept
  BY <1>1 DEF SpeakersInit, CorrectionsAreKept, EditsAreKept, SummaryReplacedOnlyWhenAsked, NoBundle
<1>5. PublishedIsOrdered /\ MeetingIsApplied /\ PromotionIsDue
  BY <1>1 DEF SpeakersInit, PublishedIsOrdered, MeetingIsApplied, PromotionIsDue
<1>6. RowIsAsQueued /\ BuiltIsWhole
  BY <1>1, <1>2 DEF SpeakersInit, RowIsAsQueued, BuiltIsWhole, Kinds, Built
<1>. QED
  BY <1>3, <1>4, <1>5, <1>6 DEF SpeakersInv

-----------------------------------------------------------------------------
(* New attempts.                                                           *)

\* A queued attempt is not published, and nobody publishes while the job is at rest.
LEMMA QueueKeeps ==
  ASSUME SpeakersInv, NEW kind \in Kinds, NEW snap \in Nat, NEW rewrite \in BOOLEAN,
         queueAttempt(kind, snap, rewrite), UNCHANGED <<own, current, promoted>>
  PROVE  /\ versions' \in [AttemptNumbers -> Rows] /\ cur' \in AttemptNumbers /\ cur' = cur + 1
         /\ Row'.kind = kind /\ Row'.snap = snap /\ Row'.rewrite = rewrite
         /\ Published' = Published /\ publishedSpeakerMeeting' = publishedSpeakerMeeting
         /\ PublishedIsOrdered'
<1>0. cur \in Nat /\ cur' = cur + 1 /\ cur' \in AttemptNumbers /\ state \in Resting
  BY SpeakersAssumption DEF queueAttempt, MayQueue, SpeakersInv, SpeakerTypes, AttemptNumbers
<1>. DEFINE new == [NoAttempt EXCEPT !.kind = kind, !.snap = snap, !.rewrite = rewrite]
            left == [versions[cur] EXCEPT !.ended = state]
<1>1. versions' = [versions EXCEPT ![cur] = left, ![cur + 1] = new]
  BY <1>0 DEF queueAttempt, SpeakersInv, SpeakerTypes
<1>2. new \in Rows /\ ~new.published /\ new.kind = kind /\ new.snap = snap /\ new.rewrite = rewrite
  BY DEF NoAttempt, Rows
<1>3. left \in Rows /\ left.published = versions[cur].published
  BY <1>0 DEF SpeakersInv, SpeakerTypes, Rows
<1>. HIDE DEF new, left
<1>4. versions' \in [AttemptNumbers -> Rows] /\ versions'[cur + 1] = new /\ versions'[cur] = left
      /\ \A a \in AttemptNumbers : a \notin {cur, cur + 1} => versions'[a] = versions[a]
  BY <1>0, <1>1, <1>2, <1>3 DEF SpeakersInv, SpeakerTypes
<1>5. ~versions[cur + 1].published
  <2>1. cur + 1 \notin Published
    BY <1>0 DEF SpeakersInv, PublishedIsOrdered
  <2>. QED
    BY <1>0, <2>1, Zenon DEF Published
<1>6. Published' = Published
  <2>1. ASSUME NEW a \in AttemptNumbers PROVE versions'[a].published <=> versions[a].published
    <3>1. CASE a = cur
      BY <1>3, <1>4, <3>1, Zenon
    <3>2. CASE a = cur + 1
      BY <1>2, <1>4, <1>5, <3>2, Zenon
    <3>3. CASE a \notin {cur, cur + 1}
      BY <1>4, <3>3, Zenon
    <3>. QED
      BY <3>1, <3>2, <3>3
  <2>. QED
    BY <2>1, Zenon DEF Published
<1>7. publishedSpeakerMeeting' = publishedSpeakerMeeting
  BY <1>6, MeetingStays
<1>8. PublishedIsOrdered'
  <2>1. \A a \in Published : a \in Nat /\ a < cur + 1
    BY <1>0 DEF SpeakersInv, PublishedIsOrdered, Published, AttemptNumbers
  <2>2. Latest(Published') = Latest(Published)
    BY <1>6 DEF Latest
  <2>. QED
    BY <1>0, <1>6, <2>1, <2>2 DEF SpeakersInv, PublishedIsOrdered
<1>. QED
  BY <1>0, <1>2, <1>4, <1>6, <1>7, <1>8 DEF Row

\* What every new attempt leaves behind.
LEMMA QueuedKeeps ==
  ASSUME SpeakersInv, NEW kind \in Kinds \ {"create"}, NEW snap \in Nat, NEW rewrite \in BOOLEAN,
         queueAttempt(kind, snap, rewrite),
         UNCHANGED <<own, current, promoted, promoting, readers, unasked>>,
         edits' \in Documents, edits'.applied = edits.applied, edits.revision <= edits'.revision,
         snap <= edits'.revision,
         kind \in {"rerun", "refine"} => snap >= edits.applied,
         kind = "summarize" => snap = 0 /\ (rewrite \/ publishedSpeakerMeeting.summary = 0),
         DOMAIN basis' = 1..MaxRevisions, \A r \in 1..edits'.revision : basis'[r] = r - 1
  PROVE  SpeakersInv'
<1>1. /\ versions' \in [AttemptNumbers -> Rows] /\ cur' \in AttemptNumbers
      /\ Row'.kind = kind /\ Row'.snap = snap /\ Row'.rewrite = rewrite /\ PublishedIsOrdered'
      /\ Published' = Published /\ publishedSpeakerMeeting' = publishedSpeakerMeeting
  BY QueueKeeps
<1>2. state' = "queued" /\ promoting = "none"
  BY DEF queueAttempt, MayQueue
<1>3. SpeakerTypes'
  BY <1>1, <1>2 DEF SpeakersInv, SpeakerTypes
<1>4. MeetingIsApplied'
  <2>1. Latest(Published') = Latest(Published)
    BY <1>1 DEF Latest
  <2>2. edits.applied \in Nat /\ edits.revision \in Nat /\ edits'.revision \in Nat
    BY SpeakersAssumption DEF SpeakersInv, SpeakerTypes, Documents
  <2>. QED
    BY <1>1, <2>1, <2>2 DEF SpeakersInv, MeetingIsApplied
<1>5. RowIsAsQueued'
  <2>1. Row'.kind = "summarize" /\ ~Row'.rewrite => publishedSpeakerMeeting.summary = 0
    BY <1>1, Zenon
  <2>. QED
    BY <1>1, <2>1 DEF RowIsAsQueued
<1>6. PromotionIsDue' /\ BuiltIsWhole'
  BY <1>2 DEF PromotionIsDue, BuiltIsWhole, Built
<1>7. CorrectionsAreKept'
  BY <1>1 DEF SpeakersInv, CorrectionsAreKept, EditsAreKept, SummaryReplacedOnlyWhenAsked
<1>. QED
  BY <1>1, <1>3, <1>4, <1>5, <1>6, <1>7 DEF SpeakersInv

\* A save queues the refine of its own revision, over the one its author saw.
LEMMA SaveStep == ASSUME SpeakersInv, NEW p \in Person, writeSpeakers(p) PROVE SpeakersInv'
<1>. DEFINE r == edits.revision + 1
<1>0. /\ UNCHANGED <<own, current, promoted, promoting, readers, unasked>>
      /\ edits.revision \in Nat /\ edits.applied \in Nat /\ edits.revision < MaxRevisions
      /\ page[p] = edits.revision /\ edits.applied <= edits.revision /\ edits \in Documents
  BY SpeakersAssumption DEF writeSpeakers, ExpectedRevision, SpeakersInv, SpeakerTypes, Documents, MeetingIsApplied
<1>1. PICK rewrite \in BOOLEAN : queueAttempt("refine", r, rewrite)
  BY DEF writeSpeakers
<1>2. edits' \in Documents /\ edits'.revision = r /\ edits'.applied = edits.applied
  <2>1. edits' = [edits EXCEPT !.revision = @ + 1, !.error = FALSE]
    BY DEF writeSpeakers
  <2>2. edits.revision + 1 \in 0..MaxRevisions
    BY <1>0, SpeakersAssumption
  <2>. QED
    BY <1>0, <2>1, <2>2 DEF Documents
<1>3. DOMAIN basis' = 1..MaxRevisions /\ \A n \in 1..edits'.revision : basis'[n] = n - 1
  <2>1. basis' = [basis EXCEPT ![r] = page[p]]
    BY DEF writeSpeakers
  <2>2. \A n \in 1..edits.revision : basis[n] = n - 1
    BY DEF SpeakersInv, CorrectionsAreKept, EditsAreKept
  <2>3. DOMAIN basis = 1..MaxRevisions
    BY DEF SpeakersInv, SpeakerTypes
  <2>4. r \in 1..MaxRevisions /\ r - 1 = edits.revision
    BY <1>0, SpeakersAssumption
  <2>5. \A n \in 1..r : n = r \/ n \in 1..edits.revision
    BY <1>0
  <2>6. DOMAIN basis' = 1..MaxRevisions /\ basis'[r] = page[p] /\ \A n \in 1..MaxRevisions : n # r => basis'[n] = basis[n]
    BY <2>1, <2>3, <2>4
  <2>7. \A n \in 1..edits.revision : n \in 1..MaxRevisions
    BY <1>0, SpeakersAssumption
  <2>. QED
    BY <1>0, <1>2, <2>2, <2>4, <2>5, <2>6, <2>7
<1>4. r \in Nat /\ edits.revision <= r /\ edits.applied <= r
  BY <1>0
<1>. QED
  BY <1>0, <1>1, <1>2, <1>3, <1>4, QueuedKeeps DEF Kinds

\* A rerun replays what is applied; a summary is queued for a meeting without one, or on request.
LEMMA RerunStep ==
  ASSUME SpeakersInv, QueueRerunAttempt \/ \E p \in Person, b \in BOOLEAN : queueSummarizeAttempt(p, b)
  PROVE  SpeakersInv'
<1>0. /\ UNCHANGED <<own, current, promoted, promoting, readers, unasked, edits, basis>>
      /\ edits \in Documents /\ edits.revision \in Nat /\ edits.applied \in Nat
      /\ edits.applied <= edits.revision
      /\ DOMAIN basis = 1..MaxRevisions /\ \A r \in 1..edits.revision : basis[r] = r - 1
      /\ edits' \in Documents /\ \A r \in 1..edits'.revision : basis'[r] = r - 1
  <2>1. UNCHANGED <<own, current, promoted, promoting, readers, unasked, edits, basis>>
    BY DEF QueueRerunAttempt, queueSummarizeAttempt
  <2>. QED
    BY <2>1, SpeakersAssumption DEF SpeakersInv, SpeakerTypes, Documents,
       MeetingIsApplied, CorrectionsAreKept, EditsAreKept
<1>1. CASE QueueRerunAttempt
  <2>1. PICK b \in BOOLEAN : queueAttempt("rerun", edits.applied, b)
    BY <1>1, Zenon DEF QueueRerunAttempt, speakerEditsReplay
  <2>. QED
    BY <1>0, <2>1, QueuedKeeps DEF Kinds
<1>2. ASSUME NEW p \in Person, NEW b \in BOOLEAN, queueSummarizeAttempt(p, b) PROVE SpeakersInv'
  <2>1. queueAttempt("summarize", 0, b) /\ (b \/ publishedSpeakerMeeting.summary = 0)
    BY <1>2 DEF queueSummarizeAttempt
  <2>. QED
    BY <1>0, <2>1, QueuedKeeps DEF Kinds
<1>. QED
  BY <1>1, <1>2

-----------------------------------------------------------------------------
(* The stages.                                                             *)

\* Pages, plans and steps from one stage to the next that build and publish nothing.
LEMMA StageKeeps ==
  ASSUME SpeakersInv,
         UNCHANGED <<cur, versions, own, current, promoted, promoting, basis, unasked>>,
         edits' \in Documents, edits'.applied = edits.applied, edits'.revision = edits.revision,
         readers' \in Bundles, readers'.edits >= edits.applied,
         state' \in Resting \cup {"queued", "build", "seal", "publish", "delivered"},
         state \in Resting => state' \in Resting,
         promoting # "none" => state' \in Resting,
         state' \in {"seal", "publish", "delivered"} => Built,
         state' = "delivered" => readers' = own[cur]
  PROVE  SpeakersInv'
<1>1. Published' = Published /\ Row' = Row
  BY DEF Published, Row
<1>2. publishedSpeakerMeeting' = publishedSpeakerMeeting /\ Latest(Published') = Latest(Published)
  BY <1>1, MeetingStays DEF Latest
<1>3. SpeakerTypes'
  BY DEF SpeakersInv, SpeakerTypes
<1>4. PublishedIsOrdered' /\ MeetingIsApplied' /\ PromotionIsDue'
  BY <1>1, <1>2 DEF SpeakersInv, PublishedIsOrdered, MeetingIsApplied, PromotionIsDue, AtWork
<1>5. RowIsAsQueued' /\ BuiltIsWhole'
  BY <1>1, <1>2 DEF SpeakersInv, RowIsAsQueued, BuiltIsWhole, AtWork, Built
<1>6. CorrectionsAreKept'
  BY <1>1, <1>2 DEF SpeakersInv, CorrectionsAreKept, EditsAreKept, SummaryReplacedOnlyWhenAsked
<1>. QED
  BY <1>3, <1>4, <1>5, <1>6 DEF SpeakersInv

\* The people's steps that queue nothing, and the stages up to the delivery of what was built.
LEMMA QuietStep ==
  ASSUME SpeakersInv,
         \/ \E p \in Person : readSpeakers(p) \/ summaryPlanFor(p)
         \/ ClaimVersion \/ BuildFails \/ VersionYields \/ SealSucceeds \/ DeliverVersion \/ VersionFails
  PROVE  SpeakersInv'
<1>0. /\ edits \in Documents /\ readers \in Bundles /\ readers.edits >= edits.applied
      /\ promoting # "none" => state \in Resting
      /\ state \in Resting \cup {"queued", "build", "seal", "publish", "delivered"}
      /\ state = "delivered" => readers = own[cur]
  BY DEF SpeakersInv, SpeakerTypes, CorrectionsAreKept, EditsAreKept, PromotionIsDue, AtWork, BuiltIsWhole, Built
<1>1. CASE \E p \in Person : readSpeakers(p) \/ summaryPlanFor(p)
  BY <1>0, <1>1, StageKeeps DEF readSpeakers, summaryPlanFor, Built
<1>2. CASE ClaimVersion \/ VersionYields \/ SealSucceeds \/ VersionFails
  BY <1>0, <1>2, StageKeeps DEF ClaimVersion, VersionYields, SealSucceeds, VersionFails, ToStage, Resting, Built
<1>3. CASE BuildFails
  <2>1. edits' \in Documents /\ edits'.applied = edits.applied /\ edits'.revision = edits.revision
    BY <1>0, <1>3 DEF BuildFails, Documents
  <2>. QED
    BY <1>0, <1>3, <2>1, StageKeeps DEF BuildFails, ToStage, Resting, Built
<1>4. CASE DeliverVersion
  <2>1. own[cur] \in Bundles /\ own[cur].edits >= edits.applied
    <3>1. Row.snap \in Nat /\ edits.applied \in Nat /\ own[cur] \in Bundles
      BY <1>0 DEF SpeakersInv, SpeakerTypes, Row, Rows, Documents
    <3>2. own[cur].edits = IF Row.snap > edits.applied THEN Row.snap ELSE edits.applied
      BY <1>4 DEF SpeakersInv, BuiltIsWhole, Built, DeliverVersion
    <3>. QED
      BY <3>1, <3>2
  <2>. QED
    BY <1>0, <1>4, <2>1, StageKeeps DEF DeliverVersion, ToStage, Resting, Built
<1>. QED
  BY <1>1, <1>2, <1>3, <1>4

\* A build writes the bundle of its own attempt, which nobody has published.
LEMMA BuildStep == ASSUME SpeakersInv, withSpeakerEdits PROVE SpeakersInv'
<1>. DEFINE M == publishedSpeakerMeeting
<1>0. /\ state = "build" /\ state' = "seal" /\ promoting = "none"
      /\ UNCHANGED <<cur, versions, edits, current, promoted, promoting, readers, basis, unasked>>
      /\ cur \in AttemptNumbers /\ cur > 0 /\ cur \in Nat /\ Row \in Rows /\ Row.kind \in Kinds
      /\ edits \in Documents /\ edits.applied \in Nat
  BY SpeakersAssumption DEF withSpeakerEdits, ToStage, SpeakersInv, SpeakerTypes, PromotionIsDue, AtWork, Resting,
     AttemptNumbers, Row, RowIsAsQueued, Documents
<1>1. M \in Bundles /\ M.edits = edits.applied
  BY MeetingCarriesApplied
<1>2. PICK s \in {0, cur} :
        own' = [own EXCEPT ![cur] = CASE Row.kind = "refine"    -> executeRefineCLI(s)
                                      [] Row.kind = "summarize" -> executeSummarizeCLI
                                      [] OTHER                  -> applySpeakerEdits(s)]
  BY DEF withSpeakerEdits
<1>3. PICK b : own' = [own EXCEPT ![cur] = b] /\ b \in Bundles /\ b.by > 0
               /\ b.edits = (IF Row.snap > edits.applied THEN Row.snap ELSE edits.applied)
               /\ (Row.kind = "refine" /\ ~Row.rewrite => b.summary = M.summary)
  <2>1. Row.snap \in Nat
    BY <1>0 DEF Rows
  <2>2. CASE Row.kind = "refine"
    <3>1. /\ executeRefineCLI(s) \in Bundles /\ executeRefineCLI(s).by > 0
          /\ executeRefineCLI(s).edits = Row.snap
      BY <1>0, <1>1, <2>1 DEF executeRefineCLI, Bundles
    <3>2. ~Row.rewrite => executeRefineCLI(s).summary = M.summary
      BY DEF executeRefineCLI
    <3>3. Row.snap >= edits.applied
      BY <1>0, <2>2 DEF SpeakersInv, RowIsAsQueued, AtWork, Resting
    <3>4. own' = [own EXCEPT ![cur] = executeRefineCLI(s)]
      BY <1>2, <2>2
    <3>8. /\ executeRefineCLI(s) \in Bundles /\ executeRefineCLI(s).by > 0
          /\ executeRefineCLI(s).edits = (IF Row.snap > edits.applied THEN Row.snap ELSE edits.applied)
      BY <1>0, <2>1, <3>1, <3>3
    <3>9. Row.kind = "refine" /\ ~Row.rewrite => executeRefineCLI(s).summary = M.summary
      BY <3>2
    <3>. QED
      BY <3>4, <3>8, <3>9, Zenon
  <2>3. CASE Row.kind = "summarize"
    <3>1. Row.snap = 0
      BY <1>0, <2>3 DEF SpeakersInv, RowIsAsQueued, AtWork, Resting
    <3>2. executeSummarizeCLI \in Bundles /\ executeSummarizeCLI.by > 0 /\ executeSummarizeCLI.edits = edits.applied
      BY <1>0, <1>1 DEF executeSummarizeCLI, Bundles
    <3>3. own' = [own EXCEPT ![cur] = executeSummarizeCLI]
      BY <1>2, <2>3
    <3>8. /\ executeSummarizeCLI \in Bundles /\ executeSummarizeCLI.by > 0
          /\ executeSummarizeCLI.edits = (IF Row.snap > edits.applied THEN Row.snap ELSE edits.applied)
      BY <1>0, <3>1, <3>2
    <3>9. Row.kind = "refine" /\ ~Row.rewrite => executeSummarizeCLI.summary = M.summary
      BY <2>3
    <3>. QED
      BY <3>3, <3>8, <3>9, Zenon
  <2>4. CASE Row.kind \in {"create", "rerun"}
    <3>1. Row.snap >= edits.applied
      BY <1>0, <2>4 DEF SpeakersInv, RowIsAsQueued, AtWork, Resting
    <3>2. /\ applySpeakerEdits(s) \in Bundles /\ applySpeakerEdits(s).by > 0
          /\ applySpeakerEdits(s).edits = Row.snap
      BY <1>0, <2>1 DEF applySpeakerEdits, Bundles
    <3>3. own' = [own EXCEPT ![cur] = applySpeakerEdits(s)]
      BY <1>2, <2>4
    <3>8. /\ applySpeakerEdits(s) \in Bundles /\ applySpeakerEdits(s).by > 0
          /\ applySpeakerEdits(s).edits = (IF Row.snap > edits.applied THEN Row.snap ELSE edits.applied)
      BY <1>0, <2>1, <3>1, <3>2
    <3>9. Row.kind = "refine" /\ ~Row.rewrite => applySpeakerEdits(s).summary = M.summary
      BY <2>4
    <3>. QED
      BY <3>3, <3>8, <3>9, Zenon
  <2>. QED
    BY <1>0, <2>2, <2>3, <2>4 DEF Kinds
<1>4. own' \in [AttemptNumbers -> Bundles] /\ own'[cur] = b /\ \A a \in AttemptNumbers : a # cur => own'[a] = own[a]
  BY <1>0, <1>3 DEF SpeakersInv, SpeakerTypes
<1>5. Published' = Published /\ Row' = Row /\ Latest(Published') = Latest(Published)
  BY <1>0 DEF Published, Row
<1>6. Published # {} => Latest(Published) \in AttemptNumbers /\ Latest(Published) # cur
  <2>1. \A a \in Published : a < cur /\ a \in AttemptNumbers
    BY <1>0 DEF SpeakersInv, PublishedIsOrdered, AtWork, Resting, Published
  <2>. QED
    BY <1>0, <2>1 DEF SpeakersInv, PublishedIsOrdered
<1>7. M' = M
  BY <1>0, <1>4, <1>5, <1>6, MeetingStays
<1>8. SpeakerTypes' /\ PublishedIsOrdered' /\ MeetingIsApplied' /\ PromotionIsDue'
  BY <1>0, <1>4, <1>5, <1>6 DEF SpeakersInv, SpeakerTypes, PublishedIsOrdered, MeetingIsApplied, PromotionIsDue,
     AtWork, Resting
<1>9. RowIsAsQueued'
  BY <1>0, <1>5, <1>7 DEF SpeakersInv, RowIsAsQueued, AtWork, Resting
<1>10. BuiltIsWhole'
  BY <1>0, <1>3, <1>4, <1>5, <1>7 DEF BuiltIsWhole, Built
<1>11. CorrectionsAreKept'
  BY <1>0, <1>5, <1>7 DEF SpeakersInv, CorrectionsAreKept, EditsAreKept, SummaryReplacedOnlyWhenAsked
<1>. QED
  BY <1>8, <1>9, <1>10, <1>11 DEF SpeakersInv

-----------------------------------------------------------------------------
(* Publication and promotion.                                              *)

\* The attempt that is marked is the latest from then on, and its bundle
\* carries the edits recorded with it.
LEMMA MarkStep == ASSUME SpeakersInv, MarkVersionPublished PROVE SpeakersInv'
<1>. DEFINE M == publishedSpeakerMeeting
<1>0. /\ state = "delivered" /\ state' = "succeeded" /\ promoting = "none" /\ promoting' = "tail"
      /\ UNCHANGED <<cur, own, current, promoted, readers, basis>>
      /\ cur \in AttemptNumbers /\ cur > 0 /\ cur \in Nat /\ Row \in Rows /\ Row.kind \in Kinds
      /\ edits \in Documents /\ edits.applied \in Nat /\ edits.revision \in Nat
      /\ versions' = [versions EXCEPT ![cur].published = TRUE]
  BY SpeakersAssumption DEF MarkVersionPublished, ToStage, SpeakersInv, SpeakerTypes, PromotionIsDue, AtWork, Resting,
     AttemptNumbers, Row, RowIsAsQueued, Documents
<1>1. /\ edits' \in Documents /\ edits'.revision = edits.revision
      /\ edits'.applied = IF Row.snap > edits.applied THEN Row.snap ELSE edits.applied
  BY <1>0 DEF MarkVersionPublished, markSpeakerEditsPublished, Documents, Rows
<1>2. /\ own[cur].by > 0 /\ own[cur].edits = edits'.applied /\ readers = own[cur]
      /\ Row.snap <= edits.revision /\ Row.snap \in Nat /\ edits.applied <= edits.revision
  BY <1>0, <1>1 DEF SpeakersInv, BuiltIsWhole, Built, RowIsAsQueued, AtWork, Resting, MeetingIsApplied, Rows
<1>3. versions' \in [AttemptNumbers -> Rows]
  BY <1>0 DEF SpeakersInv, SpeakerTypes, Rows
<1>4. Published' = Published \cup {cur}
  <2>1. versions'[cur].published
    BY <1>0 DEF SpeakersInv, SpeakerTypes, Rows
  <2>2. \A a \in AttemptNumbers : a # cur => versions'[a] = versions[a]
    BY <1>0 DEF SpeakersInv, SpeakerTypes
  <2>. QED
    BY <1>0, <2>1, <2>2, Zenon DEF Published
<1>5. \A a \in Published : a \in Nat /\ a < cur
  BY <1>0 DEF SpeakersInv, PublishedIsOrdered, AtWork, Resting, Published, AttemptNumbers
<1>6. Latest(Published') = cur
  BY <1>0, <1>4, <1>5, LatestIs
<1>7. promoted # cur
  BY <1>0, <1>5 DEF SpeakersInv, PublishedIsOrdered
<1>8. SpeakerTypes'
  BY <1>0, <1>1, <1>3 DEF SpeakersInv, SpeakerTypes, Resting
<1>9. PublishedIsOrdered'
  BY <1>0, <1>4, <1>5, <1>6 DEF SpeakersInv, PublishedIsOrdered, AtWork, Resting
<1>10. MeetingIsApplied' /\ PromotionIsDue'
  BY <1>0, <1>1, <1>2, <1>4, <1>6, <1>7 DEF MeetingIsApplied, PromotionIsDue, AtWork, Resting
<1>11. RowIsAsQueued' /\ BuiltIsWhole'
  BY <1>0 DEF RowIsAsQueued, BuiltIsWhole, AtWork, Built, Resting
<1>12. ~unasked'
  <2>1. Row.kind = "refine" /\ ~Row.rewrite => own[cur].summary = M.summary
    BY <1>0, Zenon DEF SpeakersInv, BuiltIsWhole, Built
  <2>2. Row.kind = "summarize" /\ ~Row.rewrite => M.summary = 0
    <3>1. AtWork
      BY <1>0 DEF AtWork, Resting
    <3>. QED
      BY <3>1, Zenon DEF SpeakersInv, RowIsAsQueued
  <2>3. ~unasked
    BY DEF SpeakersInv, CorrectionsAreKept, SummaryReplacedOnlyWhenAsked
  <2>. QED
    BY <2>1, <2>2, <2>3, Zenon DEF MarkVersionPublished
<1>13. EditsAreKept'
  <2>1. publishedSpeakerMeeting' = own[cur]
    <3>1. own[cur] # NoBundle
      BY <1>2 DEF NoBundle
    <3>. QED
      BY <1>0, <1>4, <1>6, <1>7, <3>1 DEF publishedSpeakerMeeting
  <2>2. own[cur].edits \in Nat
    BY <1>0 DEF SpeakersInv, SpeakerTypes, Bundles
  <2>. QED
    BY <1>0, <1>1, <1>2, <2>1, <2>2 DEF SpeakersInv, CorrectionsAreKept, EditsAreKept
<1>. QED
  BY <1>8, <1>9, <1>10, <1>11, <1>12, <1>13 DEF SpeakersInv, CorrectionsAreKept, SummaryReplacedOnlyWhenAsked

\* The promotion starts, or does not.
LEMMA PromotionStartStep == ASSUME SpeakersInv, PromotionStarts PROVE SpeakersInv'
<1>1. /\ UNCHANGED <<state, cur, versions, own, edits, current, promoted, readers, basis, unasked>>
      /\ promoting # "none" /\ promoting' \in {"none", "pending"}
  BY DEF PromotionStarts
<1>2. Published' = Published /\ Row' = Row
  BY <1>1 DEF Published, Row
<1>3. publishedSpeakerMeeting' = publishedSpeakerMeeting /\ Latest(Published') = Latest(Published)
  BY <1>1, <1>2, MeetingStays DEF Latest
<1>. QED
  BY <1>1, <1>2, <1>3 DEF SpeakersInv, SpeakerTypes, PublishedIsOrdered, MeetingIsApplied, PromotionIsDue,
     RowIsAsQueued, BuiltIsWhole, AtWork, Built, CorrectionsAreKept, EditsAreKept, SummaryReplacedOnlyWhenAsked

\* It ends with the latest bundle in current/, which is what readers are told of.
LEMMA PromotionEndStep == ASSUME SpeakersInv, PromotionEnds PROVE SpeakersInv'
<1>. DEFINE L == Latest(Published)
<1>1. /\ UNCHANGED <<state, cur, versions, edits, readers, basis, unasked>>
      /\ promoting' = "none" /\ current' = own[L] /\ promoted' = L
      /\ own' = [b \in AttemptNumbers |-> IF b <= L THEN NoBundle ELSE own[b]]
      /\ ~AtWork /\ Published # {} /\ promoted # L
  BY DEF PromotionEnds, SpeakersInv, PromotionIsDue
<1>2. Published' = Published /\ Latest(Published') = L
  BY <1>1 DEF Published, Latest
<1>3. L \in Published /\ L \in AttemptNumbers /\ own[L].edits = edits.applied
  BY <1>1 DEF SpeakersInv, PublishedIsOrdered, MeetingIsApplied, Published
<1>4. SpeakerTypes'
  <2>1. NoBundle \in Bundles
    BY DEF NoBundle, Bundles
  <2>. QED
    BY <1>1, <1>3, <2>1 DEF SpeakersInv, SpeakerTypes
<1>5. PublishedIsOrdered' /\ MeetingIsApplied' /\ PromotionIsDue'
  BY <1>1, <1>2, <1>3 DEF SpeakersInv, PublishedIsOrdered, MeetingIsApplied, PromotionIsDue, AtWork
<1>6. RowIsAsQueued' /\ BuiltIsWhole'
  BY <1>1 DEF RowIsAsQueued, BuiltIsWhole, AtWork, Built, Resting
<1>7. publishedSpeakerMeeting' = own[L]
  BY <1>1, <1>2 DEF publishedSpeakerMeeting
<1>8. CorrectionsAreKept'
  BY <1>1, <1>2, <1>3, <1>7 DEF SpeakersInv, CorrectionsAreKept, EditsAreKept, SummaryReplacedOnlyWhenAsked
<1>. QED
  BY <1>4, <1>5, <1>6, <1>8 DEF SpeakersInv

\* A new process takes up what is due and goes on with nothing.
LEMMA RestartStep == ASSUME SpeakersInv, RestartSpeakers PROVE SpeakersInv'
<1>1. /\ UNCHANGED <<cur, versions, own, edits, current, promoted, readers, basis, unasked>>
      /\ state' = IF state \in Resting \cup {"queued"} THEN state ELSE "interrupted"
      /\ promoting' \in {"none", "pending"}
      /\ promoting' = "pending" => promoting = "pending" \/ (state \in {"succeeded", "failed"}
                                     /\ Published # {} /\ promoted # Latest(Published))
  BY DEF RestartSpeakers
<1>2. Published' = Published /\ Row' = Row
  BY <1>1 DEF Published, Row
<1>3. publishedSpeakerMeeting' = publishedSpeakerMeeting /\ Latest(Published') = Latest(Published)
  BY <1>1, <1>2, MeetingStays DEF Latest
<1>4. SpeakerTypes' /\ PublishedIsOrdered' /\ MeetingIsApplied'
  BY <1>1, <1>2, <1>3 DEF SpeakersInv, SpeakerTypes, PublishedIsOrdered, MeetingIsApplied, AtWork, Resting
<1>5. PromotionIsDue'
  BY <1>1, <1>2, <1>3 DEF SpeakersInv, PromotionIsDue, AtWork, Resting
<1>6. RowIsAsQueued' /\ BuiltIsWhole'
  BY <1>1, <1>2, <1>3 DEF SpeakersInv, RowIsAsQueued, BuiltIsWhole, AtWork, Built, Resting
<1>7. CorrectionsAreKept'
  BY <1>1, <1>2, <1>3 DEF SpeakersInv, CorrectionsAreKept, EditsAreKept, SummaryReplacedOnlyWhenAsked
<1>. QED
  BY <1>4, <1>5, <1>6, <1>7 DEF SpeakersInv

LEMMA SpeakersInvStep == SpeakersInv /\ [SpeakersNext]_speakersVars => SpeakersInv'
<1>. SUFFICES ASSUME SpeakersInv, [SpeakersNext]_speakersVars PROVE SpeakersInv'
  OBVIOUS
<1>1. CASE UNCHANGED speakersVars
  <2>1. Published' = Published /\ Row' = Row
    BY <1>1 DEF Published, Row, speakersVars
  <2>2. publishedSpeakerMeeting' = publishedSpeakerMeeting /\ Latest(Published') = Latest(Published)
    BY <1>1, <2>1, MeetingStays DEF Latest, speakersVars
  <2>. QED
    BY <1>1, <2>1, <2>2 DEF speakersVars, SpeakersInv, SpeakerTypes, PublishedIsOrdered, MeetingIsApplied,
       PromotionIsDue, RowIsAsQueued, BuiltIsWhole, AtWork, Built, CorrectionsAreKept, EditsAreKept,
       SummaryReplacedOnlyWhenAsked
<1>2. CASE SpeakersNext
  <2>1. CASE \E p \in Person : ByPerson(p)
    BY <2>1, QuietStep, SaveStep, RerunStep DEF ByPerson
  <2>2. CASE ~\E p \in Person : ByPerson(p)
    BY <1>2, <2>2, RerunStep, QuietStep, BuildStep, MarkStep, PromotionStartStep, PromotionEndStep, RestartStep
       DEF SpeakersNext, Stage
  <2>. QED
    BY <2>1, <2>2
<1>. QED
  BY <1>1, <1>2

\* Corrections that were recorded as applied stay in what readers have and in what
\* every new attempt starts from, whatever mix of reruns, refines, summaries, failed
\* stages, late promotions and restarts follows; no save overwrites one its author
\* had not seen; and a summary is replaced only by an attempt that was asked to.
THEOREM CorrectionsAreAlwaysKept == SpeakersSpec => []CorrectionsAreKept
<1>1. SpeakersInv => CorrectionsAreKept
  BY DEF SpeakersInv
<1>. QED
  BY SpeakersInvInit, SpeakersInvStep, <1>1, PTL DEF SpeakersSpec

-----------------------------------------------------------------------------
(***************************************************************************)
(* SearchIndex, for any meetings, deliveries, backfill runs and faults.    *)
(***************************************************************************)

(* The inductive invariant.                                                *)

AtTarget == {"delivered", "hash", "read", "write", "archive"}
Digests == Nat \X BOOLEAN
Recordings == [attempt : Nat, marked : BOOLEAN, checksum : BOOLEAN]
IndexRows ==
  [state : {"none", "indexed", "unavailable"}, digest : Digests,
   source : {"", "segments", "words"}, words : Nat]
Findings == [digest : Digests, words : Nat, source : {"", "segments", "words"}, copy : BOOLEAN]

SearchTypes ==
  /\ archive \in [Meeting -> Recordings] /\ bundle \in [Meeting -> Nat]
  /\ index \in [Meeting -> IndexRows] /\ attempts \in Nat
  /\ phase \in {"idle", "next", "forget", "ended"} \cup AtTarget
  /\ targets \subseteq Meeting /\ todo \subseteq targets /\ have \in Findings
  /\ phase \in AtTarget => item \in targets \ todo

\* Attempt numbers are not used twice.
AttemptsAreCounted == \A m \in Meeting : archive[m].attempt <= attempts

\* Attempt a was delivered, and is not what the archive has of m now or ever again.
Outdated(m, a) == a \in 1..attempts /\ a # archive[m].attempt
Genuine(m, digest, words) == digest[1] \in 1..attempts /\ (words = digest[1] \/ Outdated(m, digest[1]))

GenuineNext(m, digest, words) ==
  digest[1] \in 1..attempts' /\ (words = digest[1] \/ digest[1] # archive'[m].attempt)

\* The rows of a digest are the words of its attempt, while it can be the archive's.
RowsAreGenuine ==
  \A m \in Meeting : index[m].state = "indexed" => Genuine(m, index[m].digest, index[m].words)

\* So is what the backfill is about to write.
FindingsAreGenuine ==
  /\ phase \in {"hash", "read", "write"} => have.digest[1] \in 1..attempts
  /\ phase = "delivered" => ~have.copy
  /\ phase \in {"hash", "read"} => ~have.copy \/ have.words = have.digest[1]
  /\ phase = "read" => Genuine(item, have.digest, bundle[item])
  /\ phase = "write" => Genuine(item, have.digest, have.words)

\* A run nothing interferes with.
Undisturbed == phase # "idle" /\ ~disturbed
ToLook == todo \cup (IF phase \in AtTarget THEN {item} ELSE {})
Right(m) ==
  \/ /\ index[m].state = "indexed"
     /\ index[m].digest = Digest(archive[m]) /\ index[m].words = archive[m].attempt
  \/ index[m].state = "unavailable" /\ archive[m].attempt \in Silent

\* It looks at what the archive holds and compares with the rows that are there.
RunSeesWhatIs ==
  Undisturbed =>
    /\ targets = {m \in Meeting : Holds(m)}
    /\ \A m \in ToLook : known[m] = index[m]
    /\ phase \in {"hash", "read", "write"} => have.digest = Digest(archive[item])

\* What it has looked at is right, and what it has left behind is forgotten.
LookedIsRight ==
  Undisturbed =>
    /\ \A m \in targets \ (ToLook \cup failed) : Right(m)
    /\ phase \in {"forget", "ended"} => todo = {}
    /\ phase = "ended" => \A m \in Meeting \ targets : index[m].state = "none"

SearchInv ==
  /\ SearchTypes /\ AttemptsAreCounted /\ RowsAreGenuine /\ FindingsAreGenuine
  /\ RunSeesWhatIs /\ LookedIsRight

LEMMA SearchInvInit == SearchInit => SearchInv
<1>. SUFFICES ASSUME SearchInit PROVE SearchInv
  OBVIOUS
<1>1. /\ archive \in [Meeting -> Recordings] /\ \A m \in Meeting : archive[m].attempt \in {0, 1}
  <2>. DEFINE First == [attempt |-> 1, marked |-> FALSE, checksum |-> FALSE]
  <2>1. Absent \in Recordings /\ Absent.attempt = 0 /\ First \in Recordings /\ First.attempt = 1
    BY DEF Absent, Recordings
  <2>2. archive \in [Meeting -> {Absent, First}]
    BY DEF SearchInit
  <2>. HIDE DEF First
  <2>. QED
    BY <2>1, <2>2
<1>2. bundle \in [Meeting -> Nat]
  BY <1>1 DEF SearchInit
<1>3. index \in [Meeting -> IndexRows] /\ have \in Findings
  BY DEF SearchInit, Unindexed, Nothing, IndexRows, Findings, Digests
<1>4. \A m \in Meeting : index[m].state = "none"
  BY DEF SearchInit, Unindexed
<1>. QED
  BY <1>1, <1>2, <1>3, <1>4 DEF SearchInit, SearchInv, SearchTypes, AttemptsAreCounted, RowsAreGenuine,
     FindingsAreGenuine, RunSeesWhatIs, LookedIsRight, Undisturbed, AtTarget

-----------------------------------------------------------------------------
(* Publishes, marks and deletions: they disturb the run, if there is one.  *)

LEMMA DisturbedKeeps ==
  ASSUME SearchInv, Disturb, UNCHANGED <<backfill>>,
         archive' \in [Meeting -> Recordings], bundle' \in [Meeting -> Nat],
         index' \in [Meeting -> IndexRows], attempts' \in Nat, attempts <= attempts',
         AttemptsAreCounted',
         \A m \in Meeting : 
           \/ archive'[m].attempt \in {archive[m].attempt, 0}
           \/ archive'[m].attempt = attempts' /\ attempts' # attempts,
         \A m \in Meeting : index'[m].state = "indexed" =>
           index'[m] = index[m] \/ GenuineNext(m, index'[m].digest, index'[m].words),
         \A m \in Meeting : bundle'[m] \in {bundle[m], archive'[m].attempt}
  PROVE  SearchInv'
<1>1. ~Undisturbed'
  BY DEF Disturb, Undisturbed, backfill
<1>2. ASSUME NEW m \in Meeting, NEW a, Outdated(m, a) PROVE Outdated(m, a)'
  <2>1. a \in 1..attempts' /\ a # 0
    BY <1>2 DEF Outdated, SearchInv, SearchTypes
  <2>2. a # attempts' \/ attempts' = attempts
    BY <1>2 DEF Outdated, SearchInv, SearchTypes
  <2>. QED
    BY <1>2, <2>1, <2>2 DEF Outdated
<1>3. ASSUME NEW m \in Meeting, NEW d, NEW w, Genuine(m, d, w) PROVE GenuineNext(m, d, w)
  BY <1>2, <1>3 DEF Genuine, GenuineNext, Outdated, SearchInv, SearchTypes
<1>4. RowsAreGenuine'
  <2>1. SUFFICES ASSUME NEW m \in Meeting, index'[m].state = "indexed"
                 PROVE  GenuineNext(m, index'[m].digest, index'[m].words)
    BY <2>1 DEF RowsAreGenuine, GenuineNext, Genuine, Outdated
  <2>2. CASE index'[m] = index[m]
    <3>1. Genuine(m, index[m].digest, index[m].words)
      BY <2>1, <2>2 DEF SearchInv, RowsAreGenuine
    <3>. QED
      BY <1>3, <2>2, <3>1
  <2>. QED
    BY <2>1, <2>2
<1>5. UNCHANGED <<phase, have, item, targets, todo, failed, known>>
  BY DEF backfill
<1>6. FindingsAreGenuine'
  <2>1. phase \in AtTarget => item \in Meeting
    BY DEF SearchInv, SearchTypes
  <2>2. phase \in {"hash", "read", "write"} => have.digest[1] \in 1..attempts'
    BY DEF SearchInv, FindingsAreGenuine, SearchTypes
  <2>3. ASSUME phase = "read" PROVE Genuine(item, have.digest, bundle[item])'
    <3>1. Genuine(item, have.digest, bundle[item]) /\ item \in Meeting
      BY <2>1, <2>3 DEF SearchInv, FindingsAreGenuine, AtTarget
    <3>2. CASE bundle'[item] = bundle[item]
      BY <1>3, <1>5, <3>1, <3>2 DEF Genuine, GenuineNext, Outdated
    <3>3. CASE bundle'[item] = archive'[item].attempt
      BY <1>5, <2>2, <2>3, <3>3 DEF Genuine, Outdated
    <3>. QED
      BY <3>1, <3>2, <3>3
  <2>4. ASSUME phase = "write" PROVE Genuine(item, have.digest, have.words)'
    <3>1. Genuine(item, have.digest, have.words) /\ item \in Meeting
      BY <2>1, <2>4 DEF SearchInv, FindingsAreGenuine, AtTarget
    <3>. QED
      BY <1>3, <1>5, <3>1 DEF Genuine, GenuineNext, Outdated
  <2>. QED
    BY <1>5, <2>2, <2>3, <2>4 DEF SearchInv, FindingsAreGenuine
<1>7. SearchTypes'
  BY <1>5 DEF SearchInv, SearchTypes
<1>. QED
  BY <1>1, <1>4, <1>6, <1>7 DEF SearchInv, RunSeesWhatIs, LookedIsRight

\* The file of a new attempt, a mark on one, a deletion.
LEMMA ArchiveStep ==
  ASSUME SearchInv, NEW m \in Meeting, DeliverMeeting(m) \/ MarkRecording(m) \/ DeleteRecording(m)
  PROVE  SearchInv'
<1>0. archive \in [Meeting -> Recordings] /\ attempts \in Nat /\ AttemptsAreCounted
      /\ bundle \in [Meeting -> Nat] /\ index \in [Meeting -> IndexRows]
  BY DEF SearchInv, SearchTypes
<1>1. CASE DeliverMeeting(m)
  <2>1. archive' = [archive EXCEPT ![m] = [attempt |-> attempts + 1, marked |-> FALSE, checksum |-> TRUE]]
        /\ attempts' = attempts + 1 /\ UNCHANGED <<bundle, index, backfill>> /\ Disturb
    BY <1>1 DEF DeliverMeeting
  <2>2. archive' \in [Meeting -> Recordings] /\ archive'[m].attempt = attempts'
        /\ \A n \in Meeting : n # m => archive'[n] = archive[n]
    BY <1>0, <2>1 DEF Recordings
  <2>3. AttemptsAreCounted'
    BY <1>0, <2>1, <2>2 DEF AttemptsAreCounted, Recordings
  <2>. QED
    BY <1>0, <2>1, <2>2, <2>3, DisturbedKeeps
<1>2. CASE MarkRecording(m)
  <2>1. archive' = [archive EXCEPT ![m].marked = TRUE] /\ UNCHANGED <<bundle, index, attempts, backfill>> /\ Disturb
    BY <1>2 DEF MarkRecording
  <2>2. archive' \in [Meeting -> Recordings] /\ \A n \in Meeting : archive'[n].attempt = archive[n].attempt
    BY <1>0, <2>1 DEF Recordings
  <2>3. AttemptsAreCounted'
    BY <1>0, <2>1, <2>2 DEF AttemptsAreCounted
  <2>. QED
    BY <1>0, <2>1, <2>2, <2>3, DisturbedKeeps
<1>3. CASE DeleteRecording(m)
  <2>1. archive' = [archive EXCEPT ![m] = Absent] /\ UNCHANGED <<bundle, index, attempts, backfill>> /\ Disturb
    BY <1>3 DEF DeleteRecording
  <2>2. archive' \in [Meeting -> Recordings] /\ \A n \in Meeting : archive'[n].attempt \in {archive[n].attempt, 0}
    BY <1>0, <2>1 DEF Recordings, Absent
  <2>3. AttemptsAreCounted'
    BY <1>0, <2>1, <2>2 DEF AttemptsAreCounted, Recordings
  <2>. QED
    BY <1>0, <2>1, <2>2, <2>3, DisturbedKeeps
<1>. QED
  BY <1>1, <1>2, <1>3

\* The publish's own rows, and its bundle.
LEMMA PublishStep ==
  ASSUME SearchInv, NEW m \in Meeting, indexPublishedMeeting(m) \/ promotePublishedPair(m)
  PROVE  SearchInv'
<1>0. /\ archive \in [Meeting -> Recordings] /\ attempts \in Nat /\ AttemptsAreCounted
      /\ bundle \in [Meeting -> Nat] /\ index \in [Meeting -> IndexRows]
      /\ UNCHANGED <<archive, attempts, backfill>> /\ Disturb /\ AttemptsAreCounted'
  BY DEF SearchInv, SearchTypes, AttemptsAreCounted, indexPublishedMeeting, promotePublishedPair
<1>1. CASE indexPublishedMeeting(m)
  <2>1. UNCHANGED bundle /\ Holds(m)
    BY <1>1 DEF indexPublishedMeeting
  <2>. DEFINE a == archive[m].attempt
  <2>2. a \in 1..attempts /\ a \in Nat
    BY <1>0, <2>1 DEF Holds, AttemptsAreCounted, Recordings
  <2>3. ASSUME ReplaceMeeting(m, <<a, FALSE>>, "segments", a) PROVE SearchInv'
    <3>. DEFINE found == [state |-> "indexed", digest |-> <<a, FALSE>>, source |-> "segments", words |-> a]
    <3>1. found \in IndexRows /\ found.digest[1] = a /\ found.words = a
      BY <2>2 DEF IndexRows, Digests
    <3>2. index' = [index EXCEPT ![m] = found]
      BY <2>3 DEF ReplaceMeeting
    <3>3. GenuineNext(m, found.digest, found.words)
      BY <1>0, <2>2, <3>1 DEF GenuineNext
    <3>. HIDE DEF found
    <3>4. index' \in [Meeting -> IndexRows] /\ index'[m] = found /\ \A n \in Meeting : n # m => index'[n] = index[n]
      BY <1>0, <3>1, <3>2
    <3>5. \A n \in Meeting : index'[n] = index[n] \/ GenuineNext(n, index'[n].digest, index'[n].words)
      BY <3>3, <3>4
    <3>. QED
      BY <1>0, <2>1, <3>4, <3>5, DisturbedKeeps
  <2>4. ASSUME MarkUnavailable(m) PROVE SearchInv'
    <3>1. index' \in [Meeting -> IndexRows] /\ index'[m].state = "unavailable"
          /\ \A n \in Meeting : n # m => index'[n] = index[n]
      BY <1>0, <2>4 DEF MarkUnavailable, IndexRows
    <3>. QED
      BY <1>0, <2>1, <3>1, DisturbedKeeps
  <2>5. ASSUME UNCHANGED index PROVE SearchInv'
    BY <1>0, <2>1, <2>5, DisturbedKeeps
  <2>. QED
    BY <1>1, <2>3, <2>4, <2>5 DEF indexPublishedMeeting
<1>2. CASE promotePublishedPair(m)
  <2>1. UNCHANGED index /\ (bundle' = bundle \/ bundle' = [bundle EXCEPT ![m] = archive[m].attempt])
    BY <1>2 DEF promotePublishedPair
  <2>2. bundle' \in [Meeting -> Nat] /\ \A n \in Meeting : bundle'[n] \in {bundle[n], archive'[n].attempt}
    BY <1>0, <2>1 DEF Recordings
  <2>. QED
    BY <1>0, <2>1, <2>2, DisturbedKeeps
<1>. QED
  BY <1>1, <1>2

\* A new process runs no backfill.
LEMMA RestartSearchStep == ASSUME SearchInv, RestartSearch PROVE SearchInv'
<1>1. UNCHANGED <<archive, bundle, index, attempts, targets, todo, have>> /\ phase' = "idle"
  BY DEF RestartSearch
<1>2. ~Undisturbed'
  BY <1>1 DEF Undisturbed
<1>. QED
  BY <1>1, <1>2 DEF SearchInv, SearchTypes, AttemptsAreCounted, RowsAreGenuine, FindingsAreGenuine, Genuine,
     Outdated, RunSeesWhatIs, LookedIsRight, AtTarget

-----------------------------------------------------------------------------
(* The backfill.                                                           *)

\* Between the writes of rows a run changes no row and no recording.
LEMMA ReadsKeepRows ==
  ASSUME SearchInv, UNCHANGED <<others, index>>
  PROVE  /\ archive' \in [Meeting -> Recordings] /\ bundle' \in [Meeting -> Nat]
         /\ index' \in [Meeting -> IndexRows] /\ attempts' \in Nat
         /\ AttemptsAreCounted' /\ RowsAreGenuine'
  BY DEF SearchInv, SearchTypes, AttemptsAreCounted, RowsAreGenuine, Genuine, Outdated, others

\* A run that starts has looked at nothing, and reads the rows as they are.
LEMMA StartStep == ASSUME SearchInv, startSearchBackfill PROVE SearchInv'
<1>1. /\ targets' = {m \in Meeting : Holds(m)} /\ todo' = targets' /\ known' = index /\ failed' = {}
      /\ phase' = "next" /\ UNCHANGED <<others, index, item, have>>
  BY DEF startSearchBackfill
<1>2. /\ archive' \in [Meeting -> Recordings] /\ bundle' \in [Meeting -> Nat]
      /\ index' \in [Meeting -> IndexRows] /\ attempts' \in Nat /\ AttemptsAreCounted' /\ RowsAreGenuine'
  BY <1>1, ReadsKeepRows
<1>3. SearchTypes' /\ FindingsAreGenuine'
  BY <1>1, <1>2 DEF SearchInv, SearchTypes, FindingsAreGenuine, AtTarget
<1>4. RunSeesWhatIs' /\ LookedIsRight'
  BY <1>1 DEF RunSeesWhatIs, LookedIsRight, ToLook, AtTarget, Holds, others
<1>. QED
  BY <1>2, <1>3, <1>4 DEF SearchInv

\* It takes up one of the meetings it has still to look at.
LEMMA TakeStep == ASSUME SearchInv, backfillOneMeeting PROVE SearchInv'
<1>1. /\ phase = "next" /\ item' \in todo /\ todo' = todo \ {item'} /\ have' = Nothing /\ phase' = "delivered"
      /\ UNCHANGED <<others, index, targets, known, failed, disturbed>>
  BY DEF backfillOneMeeting
<1>2. /\ archive' \in [Meeting -> Recordings] /\ bundle' \in [Meeting -> Nat]
      /\ index' \in [Meeting -> IndexRows] /\ attempts' \in Nat /\ AttemptsAreCounted' /\ RowsAreGenuine'
  BY <1>1, ReadsKeepRows
<1>3. have' \in Findings /\ ~have'.copy
  BY <1>1 DEF Nothing, Findings, Digests
<1>4. SearchTypes'
  BY <1>1, <1>2, <1>3 DEF SearchInv, SearchTypes, AtTarget
<1>5. FindingsAreGenuine'
  BY <1>1, <1>3 DEF FindingsAreGenuine
<1>6. ToLook' = ToLook /\ ToLook = todo
  BY <1>1 DEF ToLook, AtTarget
<1>7. Undisturbed' => Undisturbed
  BY <1>1 DEF Undisturbed
<1>8. RunSeesWhatIs'
  BY <1>1, <1>6, <1>7 DEF SearchInv, RunSeesWhatIs, Holds, others
<1>9. LookedIsRight'
  BY <1>1, <1>6, <1>7 DEF SearchInv, LookedIsRight, Right, Digest, others
<1>. QED
  BY <1>2, <1>4, <1>5, <1>8, <1>9 DEF SearchInv

\* Rows recorded under the archive's own digest are the archive's words.
LEMMA KeptIsRight ==
  ASSUME SearchInv, Undisturbed, phase \in AtTarget, NEW source,
         sameIndexedArtifact(Digest(archive[item]), source)
  PROVE  Right(item)
<1>1. item \in Meeting /\ item \in ToLook
  BY DEF SearchInv, SearchTypes, ToLook
<1>2. index[item].state = "indexed" /\ index[item].digest = Digest(archive[item])
  BY <1>1 DEF SearchInv, RunSeesWhatIs, sameIndexedArtifact
<1>3. Genuine(item, index[item].digest, index[item].words)
  BY <1>1, <1>2 DEF SearchInv, RowsAreGenuine
<1>4. index[item].words = archive[item].attempt
  BY <1>2, <1>3 DEF Genuine, Outdated, Digest
<1>. QED
  BY <1>2, <1>4 DEF Right

\* It is done with a meeting it gave up on, or whose rows are right.
LEMMA NextTargetStep ==
  ASSUME SearchInv, phase \in AtTarget, phase' = "next", have' = have,
         UNCHANGED <<others, index, targets, known, todo, item, disturbed>>,
         failed' = failed \cup {item} \/ (failed' = failed /\ (Undisturbed => Right(item)))
  PROVE  SearchInv'
<1>2. /\ archive' \in [Meeting -> Recordings] /\ bundle' \in [Meeting -> Nat]
      /\ index' \in [Meeting -> IndexRows] /\ attempts' \in Nat /\ AttemptsAreCounted' /\ RowsAreGenuine'
  BY ReadsKeepRows
<1>3. SearchTypes'
  BY <1>2 DEF SearchInv, SearchTypes, AtTarget
<1>4. FindingsAreGenuine'
  BY DEF FindingsAreGenuine
<1>5. ToLook' = todo /\ ToLook = todo \cup {item}
  BY DEF ToLook, AtTarget
<1>6. Undisturbed' => Undisturbed
  BY DEF Undisturbed, AtTarget
<1>7. RunSeesWhatIs'
  BY <1>5, <1>6 DEF SearchInv, RunSeesWhatIs, Holds, others
<1>8. \A m \in Meeting : Right(m)' <=> Right(m)
  BY DEF Right, Digest, others
<1>9. LookedIsRight'
  <2>1. SUFFICES ASSUME Undisturbed' PROVE \A m \in targets \ (todo \cup failed') : Right(m)
    BY <1>3, <1>5, <1>8, <2>1 DEF LookedIsRight, SearchTypes
  <2>2. \A m \in targets \ (todo \cup {item} \cup failed) : Right(m)
    BY <1>5, <1>6, <2>1 DEF SearchInv, LookedIsRight
  <2>. QED
    BY <1>6, <2>1, <2>2
<1>. QED
  BY <1>2, <1>3, <1>4, <1>7, <1>9 DEF SearchInv

\* It finds something out about the meeting, and goes on with it.
LEMMA FindingStep ==
  ASSUME SearchInv, phase \in AtTarget, phase' \in AtTarget, have' \in Findings,
         UNCHANGED <<others, index, targets, known, todo, item, disturbed, failed>>,
         FindingsAreGenuine',
         Undisturbed /\ phase' \in {"hash", "read", "write"} => have'.digest = Digest(archive[item])
  PROVE  SearchInv'
<1>2. /\ archive' \in [Meeting -> Recordings] /\ bundle' \in [Meeting -> Nat]
      /\ index' \in [Meeting -> IndexRows] /\ attempts' \in Nat /\ AttemptsAreCounted' /\ RowsAreGenuine'
  BY ReadsKeepRows
<1>3. SearchTypes'
  BY <1>2 DEF SearchInv, SearchTypes
<1>5. ToLook' = ToLook
  BY DEF ToLook
<1>6. Undisturbed' => Undisturbed
  BY DEF Undisturbed, AtTarget
<1>7. RunSeesWhatIs'
  <2>. SUFFICES ASSUME Undisturbed' PROVE RunSeesWhatIs'
    BY DEF RunSeesWhatIs
  <2>1. targets' = {m \in Meeting : Holds(m)'} /\ \A m \in ToLook' : known'[m] = index'[m]
    BY <1>5, <1>6 DEF SearchInv, RunSeesWhatIs, Holds, others
  <2>2. phase' \in {"hash", "read", "write"} => have'.digest = Digest(archive[item])'
    BY <1>6 DEF Digest, others
  <2>. QED
    BY <2>1, <2>2 DEF RunSeesWhatIs
<1>8. \A m \in Meeting : Right(m)' <=> Right(m)
  BY DEF Right, Digest, others
<1>9. LookedIsRight'
  BY <1>3, <1>5, <1>6, <1>8 DEF SearchInv, LookedIsRight, AtTarget, SearchTypes
<1>. QED
  BY <1>2, <1>3, <1>7, <1>9 DEF SearchInv

\* What the archive holds was delivered.
LEMMA HeldWasDelivered ==
  ASSUME SearchInv, phase \in AtTarget, Holds(item)
  PROVE  /\ archive[item] \in Recordings /\ item \in Meeting
         /\ archive[item].attempt \in 1..attempts /\ Digest(archive[item]) \in Digests
         /\ Digest(archive[item])[1] = archive[item].attempt
<1>1. item \in Meeting
  BY DEF SearchInv, SearchTypes
<1>2. archive[item] \in Recordings /\ archive[item].attempt <= attempts /\ attempts \in Nat
  BY <1>1 DEF SearchInv, SearchTypes, AttemptsAreCounted
<1>. QED
  BY <1>1, <1>2 DEF Recordings, Digests, Digest, Holds

LEMMA DeliveredStep == ASSUME SearchInv, archiveDeliveredState PROVE SearchInv'
<1>1. phase = "delivered" /\ phase \in AtTarget /\ UNCHANGED <<others, index, targets, known, todo, item, disturbed>>
  BY DEF archiveDeliveredState, AtTarget
<1>2. CASE GiveUp
  BY <1>1, <1>2, NextTargetStep DEF GiveUp
<1>3. CASE Keep /\ sameIndexedArtifact(Digest(archive[item]), "segments")
  <2>1. Undisturbed => Right(item)
    BY <1>1, <1>3, KeptIsRight
  <2>. QED
    BY <1>1, <1>3, <2>1, NextTargetStep DEF Keep
<1>4. CASE /\ Holds(item) /\ have' = [have EXCEPT !.digest = Digest(archive[item])]
           /\ phase' = "hash" /\ UNCHANGED failed
  <2>0. have \in Findings /\ ~have.copy /\ attempts' = attempts
    BY <1>1 DEF SearchInv, SearchTypes, FindingsAreGenuine, others
  <2>1. /\ have' \in Findings /\ have'.digest = Digest(archive[item])
        /\ have'.digest[1] \in 1..attempts'
    BY <1>1, <1>4, <2>0, HeldWasDelivered DEF Findings
  <2>2. ~have'.copy
    BY <1>4, <2>0 DEF Findings
  <2>3. FindingsAreGenuine'
    BY <1>4, <2>1, <2>2 DEF FindingsAreGenuine
  <2>. QED
    BY <1>1, <1>4, <2>1, <2>3, FindingStep DEF AtTarget
<1>5. CASE phase' = "archive" /\ UNCHANGED <<failed, have>>
  <2>1. FindingsAreGenuine' /\ have' \in Findings
    BY <1>5 DEF FindingsAreGenuine, SearchInv, SearchTypes
  <2>. QED
    BY <1>1, <1>5, <2>1, FindingStep DEF AtTarget
<1>. QED
  BY <1>2, <1>3, <1>4, <1>5 DEF archiveDeliveredState

\* Without a usable bundle: the archive's own words, once they are at hand.
LEMMA WithoutBundleStep ==
  ASSUME SearchInv, phase \in {"hash", "read"}, WithoutBundle,
         UNCHANGED <<others, index, targets, known, todo, item, disturbed>>
  PROVE  SearchInv'
<1>1. phase \in AtTarget /\ (Undisturbed => have.digest = Digest(archive[item])) /\ have \in Findings
      /\ item \in Meeting /\ attempts' = attempts /\ archive' = archive
  BY DEF AtTarget, SearchInv, RunSeesWhatIs, SearchTypes, others
<1>2. CASE sameIndexedArtifact(have.digest, "words")
  <2>1. Keep
    BY <1>2 DEF WithoutBundle
  <2>2. Undisturbed => Right(item)
    BY <1>1, <1>2, KeptIsRight
  <2>. QED
    BY <1>1, <2>1, <2>2, NextTargetStep DEF Keep
<1>3. CASE ~sameIndexedArtifact(have.digest, "words")
  <2>1. UNCHANGED <<failed, have>> /\ ((phase' = "write" /\ have.copy) \/ phase' = "archive")
    BY <1>3 DEF WithoutBundle
  <2>2. have.digest[1] \in 1..attempts' /\ (have.copy => have.words = have.digest[1])
    BY <1>1 DEF SearchInv, FindingsAreGenuine
  <2>3. phase' = "write" => Genuine(item, have.digest, have.words)'
    BY <1>1, <2>1, <2>2 DEF Genuine
  <2>4. FindingsAreGenuine'
    BY <2>1, <2>2, <2>3 DEF FindingsAreGenuine
  <2>. QED
    BY <1>1, <2>1, <2>4, FindingStep DEF AtTarget
<1>. QED
  BY <1>2, <1>3

LEMMA LocalBundleStep == ASSUME SearchInv, indexFromLocalBundle PROVE SearchInv'
<1>1. phase = "hash" /\ phase \in AtTarget /\ UNCHANGED <<others, index, targets, known, todo, item, disturbed>>
  BY DEF indexFromLocalBundle, AtTarget
<1>2. CASE WithoutBundle
  BY <1>1, <1>2, WithoutBundleStep
<1>3. CASE BundleIsDelivered /\ phase' = "read" /\ UNCHANGED <<failed, have>>
  <2>1. /\ have \in Findings /\ attempts' = attempts /\ bundle' = bundle /\ item' = item
        /\ (Undisturbed => have.digest = Digest(archive[item]))
        /\ have.digest[1] \in 1..attempts /\ (have.copy => have.words = have.digest[1])
    BY <1>1 DEF SearchInv, SearchTypes, FindingsAreGenuine, RunSeesWhatIs, others
  <2>2. bundle[item] = have.digest[1]
    <3>1. Sealed(item)[1] = bundle[item]
      BY DEF Sealed
    <3>2. Sealed(item) = have.digest \/ bundle[item] = have.digest[1]
      BY <1>3 DEF BundleIsDelivered
    <3>. QED
      BY <3>1, <3>2
  <2>3. Genuine(item, have.digest, bundle[item])'
    BY <1>3, <2>1, <2>2 DEF Genuine
  <2>4. FindingsAreGenuine'
    BY <1>3, <2>1, <2>3 DEF FindingsAreGenuine
  <2>. QED
    BY <1>1, <1>3, <2>1, <2>4, FindingStep DEF AtTarget
<1>. QED
  BY <1>2, <1>3 DEF indexFromLocalBundle

\* The bundle may have been promoted over since it was compared: its words are
\* then another attempt's, and the digest is no longer the archive's.
LEMMA ReadTranscriptStep == ASSUME SearchInv, readBundleTranscript PROVE SearchInv'
<1>1. phase = "read" /\ phase \in AtTarget /\ UNCHANGED <<others, index, targets, known, todo, item, disturbed>>
  BY DEF readBundleTranscript, AtTarget
<1>2. CASE WithoutBundle
  BY <1>1, <1>2, WithoutBundleStep
<1>3. CASE /\ have' = [have EXCEPT !.words = bundle[item], !.source = "segments"]
           /\ phase' = "write" /\ UNCHANGED failed
  <2>1. /\ have \in Findings /\ attempts' = attempts /\ bundle[item] \in Nat /\ item' = item /\ archive' = archive
        /\ (Undisturbed => have.digest = Digest(archive[item]))
        /\ have.digest[1] \in 1..attempts /\ Genuine(item, have.digest, bundle[item])
    BY <1>1 DEF SearchInv, SearchTypes, FindingsAreGenuine, RunSeesWhatIs, others
  <2>2. have' \in Findings /\ have'.digest = have.digest /\ have'.words = bundle[item]
    BY <1>3, <2>1 DEF Findings
  <2>3. Genuine(item, have.digest, have.words)'
    BY <2>1, <2>2 DEF Genuine, Outdated
  <2>4. FindingsAreGenuine'
    BY <1>3, <2>1, <2>2, <2>3 DEF FindingsAreGenuine
  <2>. QED
    BY <1>1, <1>3, <2>1, <2>2, <2>4, FindingStep DEF AtTarget
<1>. QED
  BY <1>2, <1>3 DEF readBundleTranscript

LEMMA FromArchiveStep == ASSUME SearchInv, indexFromArchive PROVE SearchInv'
<1>1. phase = "archive" /\ phase \in AtTarget /\ UNCHANGED <<others, index, targets, known, todo, item, disturbed>>
  BY DEF indexFromArchive, AtTarget
<1>2. CASE GiveUp
  BY <1>1, <1>2, NextTargetStep DEF GiveUp
<1>3. CASE Keep /\ sameIndexedArtifact(Digest(archive[item]), "segments")
  <2>1. Undisturbed => Right(item)
    BY <1>1, <1>3, KeptIsRight
  <2>. QED
    BY <1>1, <1>3, <2>1, NextTargetStep DEF Keep
<1>4. CASE /\ Holds(item) /\ phase' = "hash" /\ UNCHANGED failed
           /\ have' = [digest |-> Digest(archive[item]), words |-> archive[item].attempt,
                       source |-> "words", copy |-> TRUE]
  <2>1. /\ archive[item].attempt \in 1..attempts /\ Digest(archive[item]) \in Digests
        /\ Digest(archive[item])[1] = archive[item].attempt /\ archive[item].attempt \in Nat
    BY <1>1, <1>4, HeldWasDelivered DEF Recordings
  <2>2. attempts' = attempts
    BY <1>1 DEF others
  <2>3. /\ have' \in Findings /\ have'.digest = Digest(archive[item])
        /\ have'.digest[1] \in 1..attempts' /\ have'.words = have'.digest[1]
    BY <1>4, <2>1, <2>2 DEF Findings
  <2>4. FindingsAreGenuine'
    BY <1>4, <2>3 DEF FindingsAreGenuine
  <2>. QED
    BY <1>1, <1>4, <2>3, <2>4, FindingStep DEF AtTarget
<1>. QED
  BY <1>2, <1>3, <1>4 DEF indexFromArchive

\* The one row written is of the archive's words, if nothing interfered.
LEMMA WriteStep == ASSUME SearchInv, WriteRows PROVE SearchInv'
<1>1. phase = "write" /\ phase \in AtTarget /\ UNCHANGED <<others, targets, known, todo, item, disturbed>>
  BY DEF WriteRows, AtTarget
<1>2. CASE GiveUp /\ UNCHANGED index
  BY <1>1, <1>2, NextTargetStep DEF GiveUp
<1>3. CASE Keep /\ (\/ have.words \in Silent /\ MarkUnavailable(item)
                   \/ ReplaceMeeting(item, have.digest, have.source, have.words))
  <2>1. phase' = "next" /\ UNCHANGED <<failed, have>>
    BY <1>3 DEF Keep
  <2>2. /\ have \in Findings /\ index \in [Meeting -> IndexRows] /\ item \in Meeting /\ item \notin todo
        /\ (Undisturbed => have.digest = Digest(archive[item]))
        /\ Genuine(item, have.digest, have.words)
    BY <1>1 DEF SearchInv, SearchTypes, RunSeesWhatIs, FindingsAreGenuine
  <2>3. Undisturbed => have.words = archive[item].attempt
    BY <2>2 DEF Genuine, Outdated, Digest
  <2>. DEFINE found == [state |-> "indexed", digest |-> have.digest, source |-> have.source, words |-> have.words]
  <2>4. \E r \in IndexRows :
          /\ index' = [index EXCEPT ![item] = r]
          /\ r.state = "indexed" => r.digest = have.digest /\ r.words = have.words
          /\ r.state = "indexed" \/ (r.state = "unavailable" /\ have.words \in Silent)
    <3>1. CASE have.words \in Silent /\ MarkUnavailable(item)
      <4>. DEFINE r == [index[item] EXCEPT !.state = "unavailable", !.source = "", !.words = 0]
      <4>1. r \in IndexRows /\ r.state = "unavailable"
        BY <2>2 DEF IndexRows
      <4>2. index' = [index EXCEPT ![item] = r]
        BY <3>1 DEF MarkUnavailable
      <4>. HIDE DEF r
      <4>. QED
        BY <3>1, <4>1, <4>2
    <3>2. CASE ReplaceMeeting(item, have.digest, have.source, have.words)
      <4>1. found \in IndexRows /\ found.state = "indexed" /\ found.digest = have.digest /\ found.words = have.words
        BY <2>2 DEF IndexRows, Findings
      <4>2. index' = [index EXCEPT ![item] = found]
        BY <3>2 DEF ReplaceMeeting
      <4>. HIDE DEF found
      <4>. QED
        BY <4>1, <4>2
    <3>. QED
      BY <1>3, <3>1, <3>2
  <2>5. PICK r \in IndexRows :
          /\ index' = [index EXCEPT ![item] = r]
          /\ r.state = "indexed" => r.digest = have.digest /\ r.words = have.words
          /\ r.state = "indexed" \/ (r.state = "unavailable" /\ have.words \in Silent)
    BY <2>4
  <2>6. index' \in [Meeting -> IndexRows] /\ index'[item] = r /\ \A m \in Meeting : m # item => index'[m] = index[m]
    BY <2>2, <2>5
  <2>7. archive' = archive /\ bundle' = bundle /\ attempts' = attempts
    BY <1>1 DEF others
  <2>8. SearchTypes' /\ AttemptsAreCounted' /\ FindingsAreGenuine'
    BY <1>1, <2>1, <2>6, <2>7 DEF SearchInv, SearchTypes, AttemptsAreCounted, FindingsAreGenuine, AtTarget
  <2>9. RowsAreGenuine'
    <3>1. SUFFICES ASSUME NEW m \in Meeting, index'[m].state = "indexed"
                   PROVE  Genuine(m, index'[m].digest, index'[m].words)
      BY <2>7, <3>1 DEF RowsAreGenuine, Genuine, Outdated
    <3>2. CASE m = item
      BY <2>2, <2>5, <2>6, <3>1, <3>2
    <3>3. CASE m # item
      BY <2>6, <3>1, <3>3 DEF SearchInv, RowsAreGenuine
    <3>. QED
      BY <3>2, <3>3
  <2>10. ToLook' = todo /\ ToLook = todo \cup {item}
    BY <1>1, <2>1 DEF ToLook, AtTarget
  <2>11. Undisturbed' => Undisturbed
    BY <1>1 DEF Undisturbed
  <2>12. RunSeesWhatIs'
    BY <1>1, <2>1, <2>2, <2>6, <2>7, <2>10, <2>11 DEF SearchInv, SearchTypes, RunSeesWhatIs, Holds
  <2>13. ASSUME Undisturbed, NEW m \in Meeting, m = item PROVE Right(m)'
    <3>1. /\ index'[m] = r /\ archive' = archive
          /\ have.digest = Digest(archive[m]) /\ have.words = archive[m].attempt
      BY <2>2, <2>3, <2>6, <2>7, <2>13
    <3>2. CASE r.state = "indexed"
      BY <2>5, <3>1, <3>2 DEF Right, Digest
    <3>3. CASE r.state = "unavailable" /\ have.words \in Silent
      BY <3>1, <3>3 DEF Right
    <3>. QED
      BY <2>5, <3>2, <3>3
  <2>14. \A m \in Meeting : m # item => (Right(m)' <=> Right(m))
    BY <2>6, <2>7 DEF Right
  <2>15. LookedIsRight'
    <3>. SUFFICES ASSUME Undisturbed' PROVE \A m \in targets \ (todo \cup failed) : Right(m)'
      BY <1>1, <2>1, <2>10 DEF LookedIsRight
    <3>1. \A m \in targets \ (todo \cup {item} \cup failed) : Right(m)
      BY <2>10, <2>11 DEF SearchInv, LookedIsRight
    <3>2. targets \subseteq Meeting /\ \A m \in Meeting : m = item => Right(m)'
      BY <2>11, <2>13 DEF SearchInv, SearchTypes
    <3>. QED
      BY <2>14, <3>1, <3>2
  <2>. QED
    BY <2>8, <2>9, <2>12, <2>15 DEF SearchInv
<1>. QED
  BY <1>2, <1>3 DEF WriteRows

\* All targets are looked at: what the listing did not name is forgotten, then
\* the run ends.
LEMMA ForgetStep ==
  ASSUME SearchInv, TargetsLooked \/ forgetVanishedMeetings \/ RunEnds
  PROVE  SearchInv'
<1>1. /\ UNCHANGED <<others, targets, known, todo, item, have, failed, disturbed>>
      /\ phase \in {"next", "forget", "ended"} /\ phase' \in {"forget", "ended", "idle"}
      /\ phase \notin AtTarget /\ phase' \notin AtTarget
  BY DEF TargetsLooked, forgetVanishedMeetings, RunEnds, AtTarget
<1>2. index \in [Meeting -> IndexRows] /\ archive' = archive /\ bundle' = bundle /\ attempts' = attempts
      /\ targets \subseteq Meeting
  BY <1>1 DEF SearchInv, SearchTypes, others
<1>3. /\ index' \in [Meeting -> IndexRows]
      /\ \A m \in Meeting : index'[m] = index[m] \/ (m \notin targets /\ index'[m].state = "none")
  <2>1. CASE UNCHANGED index
    BY <1>2, <2>1
  <2>2. CASE \E m \in Vanished : ForgetMeeting(m)
    <3>1. PICK m \in Vanished : index' = [index EXCEPT ![m] = Unindexed]
      BY <2>2 DEF ForgetMeeting
    <3>2. m \in Meeting \ targets
      BY DEF Vanished
    <3>3. Unindexed \in IndexRows /\ Unindexed.state = "none"
      BY DEF Unindexed, IndexRows, Digests
    <3>. QED
      BY <1>2, <3>1, <3>2, <3>3
  <2>. QED
    BY <2>1, <2>2 DEF TargetsLooked, forgetVanishedMeetings, RunEnds
<1>4. SearchTypes' /\ AttemptsAreCounted' /\ FindingsAreGenuine'
  BY <1>1, <1>2, <1>3 DEF SearchInv, SearchTypes, AttemptsAreCounted, FindingsAreGenuine, AtTarget
<1>5. RowsAreGenuine'
  BY <1>2, <1>3 DEF SearchInv, RowsAreGenuine, Genuine, Outdated
<1>6. ToLook' = todo /\ ToLook = todo /\ todo \subseteq targets
  BY <1>1 DEF ToLook, SearchInv, SearchTypes
<1>7. Undisturbed' => Undisturbed
  BY <1>1 DEF Undisturbed
<1>8. RunSeesWhatIs'
  BY <1>1, <1>2, <1>3, <1>6, <1>7 DEF SearchInv, RunSeesWhatIs, Holds, AtTarget
<1>9. \A m \in targets : Right(m)' <=> Right(m)
  BY <1>2, <1>3 DEF Right, Digest
<1>10. ASSUME Undisturbed' PROVE phase' \in {"forget", "ended"} => todo = {}
  BY <1>1, <1>7, <1>10 DEF SearchInv, LookedIsRight, TargetsLooked, forgetVanishedMeetings, RunEnds
<1>11. phase' = "ended" => \A m \in Meeting \ targets : index'[m].state = "none"
  BY <1>2, <1>3 DEF TargetsLooked, forgetVanishedMeetings, RunEnds, Vanished
<1>12. LookedIsRight'
  <2>1. SUFFICES ASSUME Undisturbed' PROVE \A m \in targets \ (todo \cup failed) : Right(m)
    BY <1>1, <1>6, <1>9, <1>10, <1>11, <2>1 DEF LookedIsRight
  <2>. QED
    BY <1>6, <1>7, <2>1 DEF SearchInv, LookedIsRight
<1>. QED
  BY <1>4, <1>5, <1>8, <1>12 DEF SearchInv

LEMMA SearchInvStep == SearchInv /\ [SearchNext]_searchVars => SearchInv'
<1>. SUFFICES ASSUME SearchInv, [SearchNext]_searchVars PROVE SearchInv'
  OBVIOUS
<1>1. ASSUME NEW m \in Meeting, Archive(m) PROVE SearchInv'
  BY <1>1, ArchiveStep, PublishStep DEF Archive
<1>2. CASE Backfill
  BY <1>2, StartStep, TakeStep, DeliveredStep, LocalBundleStep, ReadTranscriptStep, FromArchiveStep, WriteStep,
     ForgetStep DEF Backfill
<1>3. CASE RestartSearch
  BY <1>3, RestartSearchStep
<1>4. CASE UNCHANGED searchVars
  BY <1>4 DEF searchVars, SearchInv, SearchTypes, AttemptsAreCounted, RowsAreGenuine, FindingsAreGenuine, Genuine,
     Outdated, RunSeesWhatIs, LookedIsRight, Undisturbed, ToLook, Right, Digest, Holds
<1>. QED
  BY <1>1, <1>2, <1>3, <1>4 DEF SearchNext

\* A backfill that ends and that nothing interfered with leaves every meeting it
\* did not give up on with the archive's own words under its own digest, or none
\* if it has none, and nothing of a meeting that is gone (runSearchBackfill).
THEOREM BackfillAlwaysConverges == SearchSpec => []BackfillConverges
<1>1. SearchInv => BackfillConverges
  <2>. SUFFICES ASSUME SearchInv, phase = "ended", ~disturbed, NEW m \in Meeting \ failed
                PROVE  IF Holds(m) THEN Right(m) ELSE index[m].state = "none"
    BY DEF BackfillConverges, Right
  <2>1. Undisturbed /\ todo = {} /\ ToLook = {}
    BY DEF Undisturbed, SearchInv, LookedIsRight, ToLook, AtTarget
  <2>2. targets = {n \in Meeting : Holds(n)}
    BY <2>1 DEF SearchInv, RunSeesWhatIs
  <2>. QED
    BY <2>1, <2>2 DEF SearchInv, LookedIsRight
<1>. QED
  BY <1>1, SearchInvInit, SearchInvStep, PTL DEF SearchSpec

-----------------------------------------------------------------------------
(***************************************************************************)
(* SpeechModels, for any number of events.                                 *)
(***************************************************************************)

JobStates == {"none", "queued", "busy"} \cup Finished
CheckSteps == {"idle", "check", "ensure", "save", "recover", "picked"}
BuildSteps ==
  {"idle", "list", "listOld", "admit", "await", "awaitAgain", "check", "standIn", "admitted",
   "transcribing", "audio", "failed", "wait"}
Builds ==
  [pc : BuildSteps, retired : BOOLEAN, dispose : BOOLEAN, files : BOOLEAN, checked : BOOLEAN,
   old : BOOLEAN, oldChecked : BOOLEAN, cause : {"none", "wait", "final"}, admitted : {"none", "old", "new"}]

ModelsTypes ==
  /\ row \in JobStates /\ step \in CheckSteps \cup InRun
  /\ build \in Builds /\ pin \in {"old", "new", "other"}
  /\ files \in BOOLEAN /\ checked \in BOOLEAN /\ old \in BOOLEAN /\ oldChecked \in BOOLEAN

\* Files have a receipt only while they are there, and a command that removes
\* the retired ones has checked their replacement.
ReceiptsAreOfFiles ==
  /\ checked => files
  /\ command # "idle" => files
  /\ command = "remove" => checked
  /\ old \/ files \/ deleted

\* What a build has seen of the cache still serves it, by the replacement if not by itself.
BuildIsServed ==
  /\ build.files => files
  /\ build.checked => files
  /\ build.old => old \/ (files /\ checked)
  /\ build.admitted = "new" => files
  /\ build.admitted = "old" => old \/ (files /\ checked)
  /\ build.pc \in {"admitted", "transcribing"} <=> build.admitted # "none"

\* A build that must wait for a missing model does not end without it.
BuildMayWait ==
  /\ build.pc = "check" => build.files
  /\ build.pc \in {"standIn", "audio", "failed"} /\ (build.retired \/ build.dispose) =>
       build.files \/ (build.pc = "standIn" /\ build.cause = "wait")

\* What the check read of the settings; a pin that moves has its install on its way.
PinIsFollowed ==
  /\ seen.pin = "old"
  /\ pin = chosen \/ (pin = "new" /\ chosen = "old")
  /\ step = "ensure" /\ seen.ready => files \/ deleted
  /\ (step = "save" /\ seen.enabled) \/ (pin = "new" /\ enabled) => files \/ row # "none" \/ deleted

\* A run that was cancelled leaves the row to whoever cancelled it.
RunIsShown ==
  /\ step = "over" => ~live
  /\ step \in InRun /\ ~live => row = "cancelled" \/ overtaken
  /\ row = "busy" => step \in InRun \/ overtaken

ModelsInv ==
  ModelsTypes /\ ReceiptsAreOfFiles /\ BuildIsServed /\ BuildMayWait /\ PinIsFollowed /\ RunIsShown

Checking ==
  \/ MigrationReads \/ ensureModelInstall \/ migrateRetiredSpeechModel \/ recoverActiveSpeechModel
  \/ CheckFails \/ CheckAgain \/ PickJob
Running == runModelJob \/ modelCommandProgress \/ InstallEnds \/ TakeGate \/ ModelProbe \/ RunReturns
Requesting == RequestReads \/ cancelModelJob \/ retryModelJob \/ installModel \/ handlePutSettings
Building == BuildStarts \/ Builder
Commanding == CommandInstalls \/ ProbeInstalledModel \/ RemoveReplacedModels \/ DeleteByHand

LEMMA ModelsStepCases ==
  ASSUME [ModelsNext]_modelsVars
  PROVE  Checking \/ Running \/ Requesting \/ Building \/ Commanding \/ startModelWorker \/ UNCHANGED modelsVars
  BY DEF ModelsNext, ModelWorker, Checking, Running, Requesting, Building, Commanding

LEMMA ModelsInvInit == ModelsInit => ModelsInv
<1>. SUFFICES ASSUME ModelsInit PROVE ModelsInv
  OBVIOUS
<1>1. build \in Builds /\ build.pc = "idle" /\ build.admitted = "none" /\ ~build.files /\ ~build.checked /\ ~build.old
  BY DEF ModelsInit, NoBuild, Builds, BuildSteps
<1>2. seen.pin = "old" /\ ~seen.enabled
  BY DEF ModelsInit, Idle
<1>3. ModelsTypes
  BY <1>1 DEF ModelsInit, ModelsTypes, JobStates, CheckSteps
<1>4. BuildIsServed /\ BuildMayWait
  BY <1>1 DEF BuildIsServed, BuildMayWait
<1>5. ReceiptsAreOfFiles /\ RunIsShown /\ PinIsFollowed
  BY <1>2 DEF ModelsInit, ReceiptsAreOfFiles, RunIsShown, PinIsFollowed, InRun
<1>. QED
  BY <1>3, <1>4, <1>5 DEF ModelsInv

\* What a group of actions leaves alone.
LEMMA ModelsFrames ==
  /\ Checking => UNCHANGED <<enabled, chosen, cache, build, command, history, live>>
  /\ Running => UNCHANGED <<settings, seen, build, command, history, oldChecked>>
  /\ Requesting => UNCHANGED <<cache, build, command, history, step, seen>>
  /\ Building => UNCHANGED <<settings, files, step, seen, live, command, deleted>>
  /\ Commanding => UNCHANGED <<settings, workerVars, build, overtaken, oldChecked>>
<1>1. Checking => UNCHANGED <<enabled, chosen, cache, build, command, history, live>>
  BY DEF Checking, MigrationReads, ensureModelInstall, migrateRetiredSpeechModel, recoverActiveSpeechModel,
     CheckFails, CheckAgain, PickJob, settings, history, workerVars
<1>2. Running => UNCHANGED <<settings, seen, build, command, history, oldChecked>>
  BY DEF Running, runModelJob, modelCommandProgress, InstallEnds, TakeGate, ModelProbe, RunReturns, cache, history
<1>3. Requesting => UNCHANGED <<cache, build, command, history, step, seen>>
  BY DEF Requesting, RequestReads, cancelModelJob, retryModelJob, installModel, handlePutSettings, workerVars, history
<1>4. Building => UNCHANGED <<settings, files, step, seen, live, command, deleted>>
  BY DEF Building, BuildStarts, Builder, ListCurrent, ListRetired, admitTranscription, awaitModelInstall, BuildChecks,
     admitStandIn, Transcribe, EndBuild, workerVars, cache, history
<1>5. Commanding => UNCHANGED <<settings, workerVars, build, overtaken, oldChecked>>
  BY DEF Commanding, CommandInstalls, ProbeInstalledModel, RemoveReplacedModels, DeleteByHand, cache, history
<1>. QED
  BY <1>1, <1>2, <1>3, <1>4, <1>5

LEMMA ReceiptsStep == ASSUME ModelsInv, [ModelsNext]_modelsVars PROVE ReceiptsAreOfFiles'
<1>0. ReceiptsAreOfFiles /\ files \in BOOLEAN /\ checked \in BOOLEAN /\ old \in BOOLEAN
  BY DEF ModelsInv, ModelsTypes
<1>1. CASE UNCHANGED <<files, checked, old, command, deleted>>
  BY <1>0, <1>1 DEF ReceiptsAreOfFiles
<1>2. CASE InstallEnds
  BY <1>0, <1>2 DEF ReceiptsAreOfFiles, InstallEnds, history
<1>3. CASE ModelProbe
  <2>1. UNCHANGED <<files, command, deleted>> /\ ((files /\ checked') \/ UNCHANGED <<checked, old>>)
    BY <1>3 DEF ModelProbe, history
  <2>. QED
    BY <1>0, <2>1 DEF ReceiptsAreOfFiles
<1>4. CASE BuildChecks
  BY <1>0, <1>4 DEF ReceiptsAreOfFiles, BuildChecks
<1>5. CASE CommandInstalls
  BY <1>0, <1>5 DEF ReceiptsAreOfFiles, CommandInstalls, history
<1>6. CASE ProbeInstalledModel
  BY <1>0, <1>6 DEF ReceiptsAreOfFiles, ProbeInstalledModel, history
<1>7. CASE RemoveReplacedModels
  BY <1>0, <1>7 DEF ReceiptsAreOfFiles, RemoveReplacedModels, history
<1>8. CASE DeleteByHand
  BY <1>0, <1>8 DEF ReceiptsAreOfFiles, DeleteByHand
<1>9. CASE startModelWorker
  <2>1. PICK same \in BOOLEAN : /\ checked' = (same /\ checked)
                                /\ command' = (IF same THEN command ELSE "idle")
    BY <1>9 DEF startModelWorker
  <2>2. UNCHANGED <<files, old, deleted>>
    BY <1>9 DEF startModelWorker
  <2>3. CASE same
    BY <1>0, <2>1, <2>2, <2>3 DEF ReceiptsAreOfFiles
  <2>4. CASE ~same
    BY <1>0, <2>1, <2>2, <2>4 DEF ReceiptsAreOfFiles
  <2>. QED
    BY <2>3, <2>4
<1>10. CASE Running /\ ~InstallEnds /\ ~ModelProbe
  <2>. UNCHANGED <<files, checked, old, command, deleted>>
    BY <1>10, ModelsFrames DEF Running, runModelJob, modelCommandProgress, TakeGate, RunReturns, cache, history
  <2>. QED
    BY <1>1
<1>11. CASE Building /\ ~BuildChecks
  <2>. UNCHANGED <<files, checked, old, command, deleted>>
    BY <1>11, ModelsFrames DEF Building, BuildStarts, Builder, ListCurrent, ListRetired, admitTranscription,
       awaitModelInstall, admitStandIn, Transcribe, EndBuild, cache
  <2>. QED
    BY <1>1
<1>12. CASE Checking \/ Requesting
  BY <1>1, <1>12, ModelsFrames DEF cache, history
<1>13. CASE UNCHANGED modelsVars
  BY <1>1, <1>13 DEF modelsVars, cache, history
<1>. QED
  BY <1>2, <1>3, <1>4, <1>5, <1>6, <1>7, <1>8, <1>9, <1>10, <1>11, <1>12, <1>13, ModelsStepCases DEF Commanding

-----------------------------------------------------------------------------
(* The build.                                                              *)

BuildInv == build \in Builds /\ BuildIsServed /\ BuildMayWait

\* A build that says nothing yet.
LEMMA FreshBuild ==
  ASSUME NEW s \in BuildSteps \ {"check", "admitted", "transcribing", "standIn", "audio", "failed"},
         build' = [NoBuild EXCEPT !.pc = s]
  PROVE  BuildInv'
<1>1. build' \in Builds /\ build'.pc = s /\ build'.admitted = "none" /\ ~build'.files /\ ~build'.checked /\ ~build'.old
  BY DEF NoBuild, Builds
<1>. QED
  BY <1>1 DEF BuildInv, BuildIsServed, BuildMayWait

LEMMA WaitIsFresh == Wait = [NoBuild EXCEPT !.pc = "wait"] /\ NoBuild = [NoBuild EXCEPT !.pc = "idle"]
  BY DEF Wait, NoBuild

\* An admitted model is there, or in the retired one's case what replaced it.
LEMMA AdmittedBuild ==
  ASSUME NEW model \in {"old", "new"}, build' = Admit(model), files' \in BOOLEAN, checked' \in BOOLEAN, old' \in BOOLEAN,
         model = "new" => files', model = "old" => old' \/ (files' /\ checked')
  PROVE  BuildInv'
<1>1. /\ build' \in Builds /\ build'.pc = "admitted" /\ build'.admitted = model
      /\ ~build'.files /\ ~build'.checked /\ ~build'.old
  BY DEF Admit, NoBuild, Builds, BuildSteps
<1>. QED
  BY <1>1 DEF BuildInv, BuildIsServed, BuildMayWait

\* A build that knows what another knows.
LEMMA SameKnowledge ==
  ASSUME NEW b \in Builds, NEW s \in BuildSteps \ {"admitted", "transcribing"}, NEW cause \in {"none", "wait", "final"},
         build' = [b EXCEPT !.pc = s, !.cause = cause],
         files' \in BOOLEAN, checked' \in BOOLEAN, old' \in BOOLEAN,
         b.files => files', b.checked => files', b.old => old' \/ (files' /\ checked'), b.admitted = "none",
         s = "check" => b.files,
         s \in {"standIn", "audio", "failed"} /\ (b.retired \/ b.dispose) => b.files \/ (s = "standIn" /\ cause = "wait")
  PROVE  BuildInv'
<1>1. build' \in Builds
  BY DEF Builds
<1>2. /\ build'.pc = s /\ build'.cause = cause /\ build'.admitted = b.admitted /\ build'.files = b.files
      /\ build'.checked = b.checked /\ build'.old = b.old /\ build'.retired = b.retired /\ build'.dispose = b.dispose
  BY DEF Builds
<1>3. BuildIsServed'
  BY <1>2, Zenon DEF BuildIsServed
<1>4. BuildMayWait'
  BY <1>2, Zenon DEF BuildMayWait
<1>. QED
  BY <1>1, <1>3, <1>4 DEF BuildInv

LEMMA PlainStep ==
  ASSUME NEW b \in Builds, NEW s \in {"list", "listOld", "admit"}, build' = [b EXCEPT !.pc = s],
         files' \in BOOLEAN, checked' \in BOOLEAN, old' \in BOOLEAN,
         b.files => files', b.checked => files', b.old => old' \/ (files' /\ checked'), b.admitted = "none"
  PROVE  BuildInv'
<1>1. b.cause \in {"none", "wait", "final"} /\ build' = [b EXCEPT !.pc = s, !.cause = b.cause]
  BY DEF Builds
<1>2. s \in BuildSteps \ {"admitted", "transcribing"} /\ s # "check" /\ s \notin {"standIn", "audio", "failed"}
  BY DEF BuildSteps
<1>. QED
  BY <1>1, <1>2, SameKnowledge

LEMMA CacheTypesStep ==
  ASSUME ModelsInv, [ModelsNext]_modelsVars
  PROVE  files' \in BOOLEAN /\ checked' \in BOOLEAN /\ old' \in BOOLEAN /\ oldChecked' \in BOOLEAN
<1>0. files \in BOOLEAN /\ checked \in BOOLEAN /\ old \in BOOLEAN /\ oldChecked \in BOOLEAN
  BY DEF ModelsInv, ModelsTypes
<1>1. CASE UNCHANGED cache
  BY <1>0, <1>1 DEF cache
<1>2. CASE InstallEnds
  BY <1>0, <1>2 DEF InstallEnds
<1>3. CASE ModelProbe
  <2>1. old' \in BOOLEAN
    <3>1. CASE live
      BY <1>0, <1>3, <3>1 DEF ModelProbe
    <3>2. CASE ~live
      BY <1>0, <1>3, <3>2 DEF ModelProbe
    <3>. QED
      BY <3>1, <3>2
  <2>. QED
    BY <1>0, <1>3, <2>1 DEF ModelProbe
<1>4. CASE BuildChecks
  BY <1>0, <1>4 DEF BuildChecks
<1>5. CASE admitStandIn
  BY <1>0, <1>5 DEF admitStandIn
<1>6. CASE Commanding
  BY <1>0, <1>6 DEF Commanding, CommandInstalls, ProbeInstalledModel, RemoveReplacedModels, DeleteByHand
<1>7. CASE startModelWorker
  <2>1. PICK same \in BOOLEAN : checked' = (same /\ checked) /\ oldChecked' = (same /\ oldChecked)
    BY <1>7 DEF startModelWorker
  <2>2. files' = files /\ old' = old
    BY <1>7 DEF startModelWorker
  <2>. QED
    BY <1>0, <2>1, <2>2
<1>8. CASE Running /\ ~InstallEnds /\ ~ModelProbe
  BY <1>1, <1>8 DEF Running, runModelJob, modelCommandProgress, TakeGate, RunReturns
<1>9. CASE Building /\ ~BuildChecks /\ ~admitStandIn
  BY <1>1, <1>9 DEF Building, BuildStarts, Builder, ListCurrent, ListRetired, admitTranscription,
     awaitModelInstall, Transcribe, EndBuild
<1>10. CASE Checking \/ Requesting
  BY <1>1, <1>10, ModelsFrames
<1>11. CASE UNCHANGED modelsVars
  BY <1>1, <1>11 DEF modelsVars
<1>. QED
  BY <1>2, <1>3, <1>4, <1>5, <1>6, <1>7, <1>8, <1>9, <1>10, <1>11, ModelsStepCases

\* While a build runs, a model is taken from it only once its replacement is there.
LEMMA CacheServes ==
  ASSUME BuildInv, build' = build, files => files', old => old' \/ (files' /\ checked'),
         checked => checked'
  PROVE  BuildInv'
  BY DEF BuildInv, BuildIsServed, BuildMayWait

LEMMA CacheStep ==
  ASSUME ModelsInv, BuildInv, Running \/ Commanding
  PROVE  BuildInv'
<1>0. ReceiptsAreOfFiles /\ build' = build
  BY ModelsFrames DEF ModelsInv
<1>1. CASE UNCHANGED cache
  BY <1>0, <1>1, CacheServes DEF cache
<1>2. CASE InstallEnds
  <2>. (files => files') /\ UNCHANGED <<checked, old>>
    BY <1>2 DEF InstallEnds
  <2>. QED
    BY <1>0, CacheServes
<1>3. CASE ModelProbe
  <2>. files' = files /\ ((files /\ checked') \/ UNCHANGED <<checked, old>>)
    BY <1>3 DEF ModelProbe
  <2>. QED
    BY <1>0, CacheServes
<1>4. CASE CommandInstalls
  <2>. files' /\ UNCHANGED <<checked, old>>
    BY <1>4 DEF CommandInstalls
  <2>. QED
    BY <1>0, CacheServes
<1>5. CASE ProbeInstalledModel
  <2>. UNCHANGED <<files, old>> /\ (checked' \/ checked' = checked)
    BY <1>5 DEF ProbeInstalledModel
  <2>. QED
    BY <1>0, CacheServes
<1>6. CASE RemoveReplacedModels
  <2>. UNCHANGED <<files, checked>> /\ files /\ checked
    BY <1>0, <1>6 DEF RemoveReplacedModels, ReceiptsAreOfFiles
  <2>. QED
    BY <1>0, CacheServes
<1>7. CASE DeleteByHand
  <2>. build' = [NoBuild EXCEPT !.pc = "idle"]
    BY <1>0, <1>7, WaitIsFresh DEF DeleteByHand
  <2>. QED
    BY FreshBuild DEF BuildSteps
<1>8. CASE Running /\ ~InstallEnds /\ ~ModelProbe
  BY <1>1, <1>8 DEF Running, runModelJob, modelCommandProgress, TakeGate, RunReturns
<1>. QED
  BY <1>2, <1>3, <1>4, <1>5, <1>6, <1>7, <1>8 DEF Commanding

\* The inventory of the current models, then of the retired ones.
LEMMA ListStep ==
  ASSUME ModelsInv, BuildInv, BuildStarts \/ ListCurrent \/ ListRetired
  PROVE  BuildInv'
<1>0. /\ build \in Builds /\ BuildIsServed /\ (checked => files)
      /\ files \in BOOLEAN /\ checked \in BOOLEAN /\ old \in BOOLEAN /\ oldChecked \in BOOLEAN
      /\ UNCHANGED <<files, checked, old, oldChecked>>
  BY DEF BuildInv, ModelsInv, ModelsTypes, ReceiptsAreOfFiles, BuildStarts, ListCurrent, ListRetired, cache
<1>1. CASE BuildStarts
  <2>1. PICK dispose \in BOOLEAN, retired \in BOOLEAN :
          build' = [NoBuild EXCEPT !.pc = "list", !.retired = retired, !.dispose = dispose]
    BY <1>1 DEF BuildStarts
  <2>. DEFINE b == [NoBuild EXCEPT !.retired = retired, !.dispose = dispose]
  <2>2. b \in Builds /\ ~b.files /\ ~b.checked /\ ~b.old /\ b.admitted = "none"
    BY DEF NoBuild, Builds, BuildSteps
  <2>3. NoBuild \in Builds
    BY DEF NoBuild, Builds, BuildSteps
  <2>4. build' = [b EXCEPT !.pc = "list"]
    BY <2>1, <2>3 DEF Builds
  <2>. HIDE DEF b
  <2>. QED
    BY <1>0, <2>2, <2>4, PlainStep
<1>2. CASE ListCurrent
  <2>. DEFINE b == [build EXCEPT !.files = files, !.checked = checked]
  <2>1. b \in Builds /\ b.files = files /\ b.checked = checked /\ b.old = build.old /\ b.admitted = build.admitted
    BY <1>0 DEF Builds
  <2>2. build' = [b EXCEPT !.pc = "listOld"]
    BY <1>0, <1>2 DEF ListCurrent, Builds
  <2>3. build.admitted = "none"
    BY <1>0, <1>2 DEF BuildIsServed, ListCurrent
  <2>. HIDE DEF b
  <2>4. (b.files => files') /\ (b.checked => files') /\ (b.old => old' \/ (files' /\ checked')) /\ b.admitted = "none"
    BY <1>0, <2>1, <2>3, Zenon DEF BuildIsServed
  <2>. QED
    BY <1>0, <2>1, <2>2, <2>4, PlainStep
<1>3. CASE ListRetired
  <2>. DEFINE b == [build EXCEPT !.old = old, !.oldChecked = oldChecked]
  <2>1. b \in Builds /\ b.files = build.files /\ b.checked = build.checked /\ b.old = old /\ b.admitted = build.admitted
    BY <1>0 DEF Builds
  <2>2. build' = [b EXCEPT !.pc = "admit"]
    BY <1>0, <1>3 DEF ListRetired, Builds
  <2>3. build.admitted = "none"
    BY <1>0, <1>3 DEF BuildIsServed, ListRetired
  <2>. HIDE DEF b
  <2>4. (b.files => files') /\ (b.checked => files') /\ (b.old => old' \/ (files' /\ checked')) /\ b.admitted = "none"
    BY <1>0, <2>1, <2>3, Zenon DEF BuildIsServed
  <2>. QED
    BY <1>0, <2>1, <2>2, <2>4, PlainStep
<1>. QED
  BY <1>1, <1>2, <1>3

\* What a build that is not admitted knows of the cache as it is.
Knows(b) ==
  /\ b \in Builds /\ b.admitted = "none"
  /\ b.files => files
  /\ b.checked => files
  /\ b.old => old \/ (files /\ checked)

CacheIsTyped == files \in BOOLEAN /\ checked \in BOOLEAN /\ old \in BOOLEAN /\ oldChecked \in BOOLEAN

LEMMA StandInBuild ==
  ASSUME CacheIsTyped, UNCHANGED <<files, checked, old>>, NEW b, Knows(b), NEW cause \in {"wait", "final"},
         cause = "final" => b.files \/ ~(b.retired \/ b.dispose),
         build' = StandIn(b, cause)
  PROVE  BuildInv'
<1>1. build' = [b EXCEPT !.pc = "standIn", !.cause = cause]
  BY DEF StandIn
<1>2. /\ "standIn" \in BuildSteps \ {"admitted", "transcribing"} /\ "standIn" # "check"
      /\ cause \in {"none", "wait", "final"} /\ (cause = "wait" \/ cause = "final")
  BY DEF BuildSteps
<1>. QED
  BY <1>1, <1>2, SameKnowledge DEF Knows, CacheIsTyped

LEMMA NextBuildStep ==
  ASSUME CacheIsTyped, UNCHANGED <<files, checked, old>>, NEW b, Knows(b), NEW s \in {"check", "await", "awaitAgain", "audio", "failed"},
         s = "check" => b.files,
         s \in {"audio", "failed"} => b.files \/ ~(b.retired \/ b.dispose),
         build' = [b EXCEPT !.pc = s]
  PROVE  BuildInv'
<1>1. b.cause \in {"none", "wait", "final"} /\ build' = [b EXCEPT !.pc = s, !.cause = b.cause]
  BY DEF Knows, Builds
<1>2. s \in BuildSteps \ {"admitted", "transcribing"} /\ s # "standIn"
  BY DEF BuildSteps
<1>3. /\ b \in Builds /\ (b.files => files') /\ (b.checked => files') /\ (b.old => old' \/ (files' /\ checked'))
      /\ b.admitted = "none" /\ files' \in BOOLEAN /\ checked' \in BOOLEAN /\ old' \in BOOLEAN
  BY Zenon DEF Knows, CacheIsTyped
<1>. QED
  BY <1>1, <1>2, <1>3, SameKnowledge

LEMMA SelectedBuild ==
  ASSUME CacheIsTyped, UNCHANGED <<files, checked, old>>, NEW b, Knows(b), b.files, build' = Selected(b)
  PROVE  BuildInv'
<1>1. CASE b.checked
  BY <1>1, AdmittedBuild DEF Selected, Knows, CacheIsTyped
<1>2. CASE ~b.checked
  <2>. build' = [b EXCEPT !.pc = "check"]
    BY <1>2 DEF Selected
  <2>. QED
    BY NextBuildStep
<1>. QED
  BY <1>1, <1>2

LEMMA MissingBuild ==
  ASSUME CacheIsTyped, UNCHANGED <<files, checked, old>>, NEW b, Knows(b), build' = Missing(b)
  PROVE  BuildInv'
<1>1. CASE b.retired \/ b.dispose
  <2>. build' = [b EXCEPT !.pc = "await"]
    BY <1>1 DEF Missing
  <2>. QED
    BY NextBuildStep
<1>2. CASE ~(b.retired \/ b.dispose)
  <2>. build' = StandIn(b, "final")
    BY <1>2 DEF Missing
  <2>. QED
    BY <1>2, StandInBuild
<1>. QED
  BY <1>1, <1>2

LEMMA AdmitStep ==
  ASSUME BuildInv, CacheIsTyped, admitTranscription
  PROVE  BuildInv'
<1>0. UNCHANGED <<files, checked, old>> /\ build.pc = "admit"
  BY DEF admitTranscription, cache
<1>1. Knows(build)
  BY <1>0 DEF BuildInv, BuildIsServed, Knows
<1>. DEFINE again == [build EXCEPT !.files = files, !.checked = files /\ checked, !.old = old, !.oldChecked = oldChecked]
<1>2. /\ again \in Builds /\ again.admitted = build.admitted /\ again.files = files
      /\ again.checked = (files /\ checked) /\ again.old = old
  BY <1>1 DEF Knows, Builds, CacheIsTyped
<1>3. build' = CASE build.files -> Selected(build)
                 [] ~build.files /\ row \in {"queued", "busy"} -> StandIn(build, "wait")
                 [] ~build.files /\ row = "ready" -> (IF files THEN Selected(again) ELSE Missing(again))
                 [] OTHER -> Missing(build)
  BY DEF admitTranscription
<1>. HIDE DEF again
<1>4. Knows(again)
  BY <1>1, <1>2, Zenon DEF Knows
<1>5. \/ build.files /\ build' = Selected(build)
      \/ build' = StandIn(build, "wait")
      \/ files /\ build' = Selected(again)
      \/ build' = Missing(again)
      \/ build' = Missing(build)
  BY <1>3
<1>6. CASE build.files /\ build' = Selected(build)
  BY <1>0, <1>1, <1>6, SelectedBuild
<1>7. CASE build' = StandIn(build, "wait")
  BY <1>0, <1>1, <1>7, StandInBuild
<1>8. CASE files /\ build' = Selected(again)
  BY <1>0, <1>2, <1>4, <1>8, SelectedBuild
<1>9. CASE build' = Missing(again) \/ build' = Missing(build)
  BY <1>0, <1>1, <1>4, <1>9, MissingBuild
<1>. QED
  BY <1>5, <1>6, <1>7, <1>8, <1>9

LEMMA AwaitStep ==
  ASSUME BuildInv, CacheIsTyped, awaitModelInstall
  PROVE  BuildInv'
<1>0. /\ UNCHANGED <<files, checked, old>> /\ build.pc \in {"await", "awaitAgain"}
      /\ build' = [build EXCEPT !.pc = "awaitAgain"] \/ build' = StandIn(build, "wait")
  BY DEF awaitModelInstall, cache
<1>1. Knows(build)
  BY <1>0 DEF BuildInv, BuildIsServed, Knows
<1>2. CASE build' = [build EXCEPT !.pc = "awaitAgain"]
  BY <1>0, <1>1, <1>2, NextBuildStep
<1>3. CASE build' = StandIn(build, "wait")
  BY <1>0, <1>1, <1>3, StandInBuild
<1>. QED
  BY <1>0, <1>2, <1>3

LEMMA BuildChecksStep ==
  ASSUME BuildInv, CacheIsTyped, BuildChecks
  PROVE  BuildInv'
<1>0. UNCHANGED files /\ build.pc = "check"
  BY DEF BuildChecks
<1>1. Knows(build) /\ build.files
  BY <1>0 DEF BuildInv, BuildIsServed, BuildMayWait, Knows
<1>2. CASE build' = Wait
  BY <1>2, FreshBuild, WaitIsFresh DEF BuildSteps
<1>3. CASE files /\ checked' = TRUE /\ old' = FALSE /\ build' = Admit("new")
  BY <1>0, <1>3, AdmittedBuild DEF CacheIsTyped
<1>4. CASE build' = StandIn(build, "final") /\ UNCHANGED <<checked, old>>
  BY <1>0, <1>1, <1>4, StandInBuild
<1>. QED
  BY <1>2, <1>3, <1>4 DEF BuildChecks

LEMMA NoStandInBuild ==
  ASSUME BuildInv, CacheIsTyped, UNCHANGED <<files, checked, old>>, build.pc = "standIn", NEW memory \in BOOLEAN,
         build' = NoStandIn(build, memory)
  PROVE  BuildInv'
<1>1. Knows(build)
  BY DEF BuildInv, BuildIsServed, Knows
<1>2. CASE files /\ checked
  <2>. build' = Admit("new")
    BY <1>2 DEF NoStandIn
  <2>. QED
    BY <1>2, AdmittedBuild DEF CacheIsTyped
<1>3. CASE ~(files /\ checked) /\ (memory \/ build.cause = "wait")
  <2>. build' = Wait
    BY <1>3 DEF NoStandIn
  <2>. QED
    BY FreshBuild, WaitIsFresh DEF BuildSteps
<1>4. CASE ~(files /\ checked) /\ ~(memory \/ build.cause = "wait")
  <2>1. build' = [build EXCEPT !.pc = IF build.dispose THEN "failed" ELSE "audio"]
    BY <1>4 DEF NoStandIn
  <2>2. build.files \/ ~(build.retired \/ build.dispose)
    BY <1>4 DEF BuildInv, BuildMayWait
  <2>3. PICK s \in {"failed", "audio"} : build' = [build EXCEPT !.pc = s]
    BY <2>1
  <2>4. s # "check" /\ s \in {"check", "await", "awaitAgain", "audio", "failed"}
    OBVIOUS
  <2>. QED
    BY <1>1, <2>2, <2>3, <2>4, NextBuildStep
<1>. QED
  BY <1>2, <1>3, <1>4

LEMMA StandInStep ==
  ASSUME BuildInv, CacheIsTyped, admitStandIn
  PROVE  BuildInv'
<1>0. UNCHANGED <<files, checked, old>> /\ build.pc = "standIn"
  BY DEF admitStandIn
<1>1. CASE build' = Admit("old") /\ build.old
  <2>1. old' \/ (files' /\ checked')
    BY <1>0, <1>1 DEF BuildInv, BuildIsServed
  <2>2. "old" # "new" /\ "old" \in {"old", "new"} /\ files' \in BOOLEAN /\ checked' \in BOOLEAN /\ old' \in BOOLEAN
    BY <1>0 DEF CacheIsTyped
  <2>. QED
    BY <1>1, <2>1, <2>2, AdmittedBuild
<1>2. ASSUME NEW memory \in BOOLEAN, build' = NoStandIn(build, memory) PROVE BuildInv'
  BY <1>0, <1>2, NoStandInBuild
<1>3. (build' = Admit("old") /\ build.old) \/ build' = NoStandIn(build, TRUE) \/ build' = NoStandIn(build, FALSE)
  BY DEF admitStandIn
<1>. QED
  BY <1>1, <1>2, <1>3

LEMMA TranscribeStep ==
  ASSUME BuildInv, CacheIsTyped, Transcribe \/ EndBuild
  PROVE  BuildInv'
<1>1. CASE EndBuild
  <2>. build' = [NoBuild EXCEPT !.pc = "idle"]
    BY <1>1, WaitIsFresh DEF EndBuild
  <2>. QED
    BY FreshBuild DEF BuildSteps
<1>2. CASE Transcribe
  <2>0. UNCHANGED <<files, checked, old>> /\ build.pc = "admitted"
    BY <1>2 DEF Transcribe, cache
  <2>1. ASSUME UNCHANGED <<files, checked, old>>, build' = [build EXCEPT !.pc = "transcribing"] PROVE BuildInv'
    <3>1. /\ build' \in Builds /\ build'.pc = "transcribing" /\ build'.files = build.files
          /\ build'.checked = build.checked /\ build'.old = build.old /\ build'.admitted = build.admitted
      BY <2>1 DEF BuildInv, Builds, BuildSteps
    <3>2. build.admitted # "none" /\ BuildIsServed
      BY <2>0 DEF BuildInv, BuildIsServed
    <3>3. BuildIsServed'
      BY <2>1, <3>1, <3>2 DEF BuildIsServed
    <3>4. BuildMayWait'
      BY <3>1 DEF BuildMayWait
    <3>. QED
      BY <3>1, <3>3, <3>4 DEF BuildInv
  <2>2. IF build.admitted = "old" THEN old \/ (files /\ checked) ELSE files
    BY <2>0 DEF BuildInv, BuildIsServed, Builds
  <2>3. build' = [build EXCEPT !.pc = "transcribing"]
    BY <1>2, <2>2 DEF Transcribe
  <2>. QED
    BY <2>0, <2>1, <2>3
<1>. QED
  BY <1>1, <1>2

LEMMA BuildInvStep == ASSUME ModelsInv, [ModelsNext]_modelsVars PROVE BuildInv'
<1>0. BuildInv /\ CacheIsTyped
  BY DEF ModelsInv, ModelsTypes, BuildInv, CacheIsTyped
<1>1. CASE Running \/ Commanding
  BY <1>0, <1>1, CacheStep
<1>2. CASE Building
  BY <1>0, <1>2, ListStep, AdmitStep, AwaitStep, BuildChecksStep, StandInStep, TranscribeStep DEF Building, Builder
<1>3. CASE startModelWorker
  <2>. build' = [NoBuild EXCEPT !.pc = "idle"]
    BY <1>3, WaitIsFresh DEF startModelWorker
  <2>. QED
    BY FreshBuild DEF BuildSteps
<1>4. CASE Checking \/ Requesting \/ UNCHANGED modelsVars
  <2>. UNCHANGED <<cache, build>>
    BY <1>4, ModelsFrames DEF modelsVars
  <2>. QED
    BY <1>0, CacheServes DEF cache
<1>. QED
  BY <1>1, <1>2, <1>3, <1>4, ModelsStepCases

-----------------------------------------------------------------------------
(* The settings and the install job.                                       *)

LEMMA RowStep ==
  ASSUME ModelsInv, [ModelsNext]_modelsVars
  PROVE  /\ row' \in JobStates /\ step' \in CheckSteps \cup InRun
         /\ row # "none" => row' # "none"
<1>0. row \in JobStates /\ step \in CheckSteps \cup InRun
  BY DEF ModelsInv, ModelsTypes
<1>1. CASE Checking
  BY <1>0, <1>1 DEF Checking, MigrationReads, ensureModelInstall, migrateRetiredSpeechModel, recoverActiveSpeechModel,
     CheckFails, CheckAgain, PickJob, JobStates, CheckSteps, Ensured, enqueueModel
<1>2. CASE Running
  BY <1>0, <1>2 DEF Running, runModelJob, modelCommandProgress, InstallEnds, TakeGate, ModelProbe, RunReturns,
     updateModelJob, JobStates, CheckSteps, InRun, Finished
<1>3. CASE Requesting
  BY <1>0, <1>3 DEF Requesting, RequestReads, cancelModelJob, retryModelJob, installModel, handlePutSettings,
     workerVars, enqueueModel, JobStates, Finished
<1>4. CASE Building
  <2>. UNCHANGED <<row, step>> \/ awaitModelInstall
    BY <1>4 DEF Building, BuildStarts, Builder, ListCurrent, ListRetired, admitTranscription, BuildChecks,
       admitStandIn, Transcribe, EndBuild, workerVars
  <2>. QED
    BY <1>0 DEF awaitModelInstall, Ensured, enqueueModel, JobStates, Finished
<1>5. CASE Commanding \/ UNCHANGED modelsVars
  BY <1>0, <1>5, ModelsFrames DEF workerVars, modelsVars
<1>6. CASE startModelWorker
  BY <1>0, <1>6 DEF startModelWorker, JobStates, CheckSteps, Finished
<1>. QED
  BY <1>1, <1>2, <1>3, <1>4, <1>5, <1>6, ModelsStepCases

LEMMA RunStep == ASSUME ModelsInv, [ModelsNext]_modelsVars PROVE RunIsShown'
<1>0. RunIsShown /\ row \in JobStates /\ step \in CheckSteps \cup InRun
  BY DEF ModelsInv, ModelsTypes
<1>1. CASE UNCHANGED <<row, step, live, overtaken>>
  BY <1>0, <1>1 DEF RunIsShown
<1>2. CASE Checking
  <2>1. /\ step \notin InRun /\ step' \notin InRun /\ (row' = "busy" => row = "busy")
        /\ UNCHANGED <<live, overtaken>>
    BY <1>2 DEF Checking, MigrationReads, ensureModelInstall, migrateRetiredSpeechModel, recoverActiveSpeechModel,
     CheckFails, CheckAgain, PickJob, CheckSteps, InRun, Ensured, enqueueModel, history
  <2>. QED
    BY <1>0, <2>1 DEF RunIsShown, InRun
<1>3. CASE runModelJob
  BY <1>0, <1>3 DEF RunIsShown, runModelJob, history, InRun
<1>4. CASE modelCommandProgress
  BY <1>0, <1>4 DEF RunIsShown, modelCommandProgress, updateModelJob, history, InRun
<1>5. CASE InstallEnds
  BY <1>0, <1>5 DEF RunIsShown, InstallEnds, history, InRun
<1>6. CASE TakeGate
  BY <1>0, <1>6 DEF RunIsShown, TakeGate, updateModelJob, InRun
<1>7. CASE ModelProbe
  BY <1>0, <1>7 DEF RunIsShown, ModelProbe, history, InRun
<1>8. CASE RunReturns
  BY <1>0, <1>8 DEF RunIsShown, RunReturns, updateModelJob, history, InRun
<1>9. CASE cancelModelJob
  BY <1>0, <1>9 DEF RunIsShown, cancelModelJob, history, InRun, Finished
<1>10. CASE retryModelJob
  BY <1>0, <1>10 DEF RunIsShown, retryModelJob, InRun
<1>11. CASE installModel
  BY <1>0, <1>11 DEF RunIsShown, installModel, enqueueModel, history
<1>12. CASE RequestReads \/ handlePutSettings
  BY <1>1, <1>12 DEF RequestReads, handlePutSettings, workerVars, history
<1>13. CASE awaitModelInstall
  BY <1>0, <1>13 DEF RunIsShown, awaitModelInstall, Ensured, enqueueModel, Finished, JobStates, InRun
<1>14. CASE Building /\ ~awaitModelInstall
  <2>. UNCHANGED <<row, step, live, overtaken>>
    BY <1>14 DEF Building, BuildStarts, Builder, ListCurrent, ListRetired, admitTranscription, BuildChecks,
       admitStandIn, Transcribe, EndBuild, workerVars, history
  <2>. QED
    BY <1>1
<1>15. CASE Commanding \/ UNCHANGED modelsVars
  BY <1>1, <1>15, ModelsFrames DEF workerVars, modelsVars, history
<1>16. CASE startModelWorker
  <2>. step' = "check" /\ row' # "busy"
    BY <1>0, <1>16 DEF startModelWorker, Finished
  <2>. QED
    BY DEF RunIsShown, InRun
<1>. QED
  BY <1>2, <1>3, <1>4, <1>5, <1>6, <1>7, <1>8, <1>9, <1>10, <1>11, <1>12, <1>13, <1>14, <1>15, <1>16, ModelsStepCases
     DEF Running, Requesting

LEMMA PinStep ==
  ASSUME ModelsInv, [ModelsNext]_modelsVars
  PROVE  PinIsFollowed' /\ pin' \in {"old", "new", "other"}
<1>0. /\ PinIsFollowed /\ ReceiptsAreOfFiles /\ pin \in {"old", "new", "other"}
      /\ row \in JobStates /\ (row # "none" => row' # "none")
  BY RowStep DEF ModelsInv, ModelsTypes
<1>1. ASSUME UNCHANGED <<settings, seen, step>>, files \/ deleted => files' \/ deleted'
      PROVE  PinIsFollowed' /\ pin' \in {"old", "new", "other"}
  BY <1>0, <1>1 DEF PinIsFollowed, settings
<1>2. CASE MigrationReads
  <2>1. UNCHANGED <<settings, row, files, deleted>>
    BY <1>2 DEF MigrationReads, cache, history
  <2>2. seen'.pin = "old"
    BY <1>2 DEF MigrationReads, Idle
  <2>3. step' = "ensure" /\ seen'.ready => files
    BY <1>2 DEF MigrationReads, Idle
  <2>4. step' = "save" => ~seen'.enabled
    BY <1>2 DEF MigrationReads, Idle
  <2>. QED
    BY <1>0, <2>1, <2>2, <2>3, <2>4 DEF PinIsFollowed, settings
<1>3. CASE ensureModelInstall
  <2>1. UNCHANGED <<settings, seen, files, deleted>> /\ step = "ensure" /\ step' = "save"
        /\ (seen.ready \/ row' # "none")
    BY <1>0, <1>3 DEF ensureModelInstall, cache, history, Ensured, enqueueModel, JobStates, Finished
  <2>. QED
    BY <1>0, <2>1 DEF PinIsFollowed, settings
<1>4. CASE migrateRetiredSpeechModel
  <2>1. UNCHANGED <<enabled, chosen, files, deleted, row>> /\ step = "save" /\ step' \in {"recover", "idle"}
        /\ seen'.pin = "old" /\ (pin' = pin \/ (pin' = "new" /\ pin = seen.pin /\ (enabled => seen.enabled)))
    BY <1>4 DEF migrateRetiredSpeechModel, cache, history, Idle
  <2>. QED
    BY <1>0, <2>1 DEF PinIsFollowed
<1>5. CASE recoverActiveSpeechModel \/ CheckFails \/ CheckAgain \/ PickJob
  <2>1. UNCHANGED <<settings, files, deleted>> /\ step' \in {"idle", "check", "picked"} /\ (seen' = seen \/ seen' = Idle)
    BY <1>5 DEF recoverActiveSpeechModel, CheckFails, CheckAgain, PickJob, cache, history
  <2>. QED
    BY <1>0, <2>1 DEF PinIsFollowed, settings, Idle
<1>6. CASE Running
  <2>0. UNCHANGED <<settings, seen, deleted>>
    BY <1>6, ModelsFrames DEF history
  <2>1. (files => files') /\ (step' = step \/ step' \in InRun \cup {"idle"})
    <3>1. CASE InstallEnds
      BY <3>1 DEF InstallEnds, InRun
    <3>2. CASE ModelProbe
      BY <3>2 DEF ModelProbe, InRun
    <3>3. CASE RunReturns
      BY <3>3 DEF RunReturns, cache, InRun
    <3>4. CASE runModelJob \/ modelCommandProgress \/ TakeGate
      BY <3>4 DEF runModelJob, modelCommandProgress, TakeGate, cache, InRun
    <3>. QED
      BY <1>6, <3>1, <3>2, <3>3, <3>4 DEF Running
  <2>. QED
    BY <1>0, <2>0, <2>1 DEF PinIsFollowed, settings, InRun
<1>7. CASE handlePutSettings
  <2>1. /\ UNCHANGED <<seen, step, row, files, deleted>> /\ pin' \in {pin, "new", "other"}
        /\ chosen' = (IF pin' = pin THEN chosen ELSE pin')
        /\ (pin' = "new" /\ enabled' => (enabled /\ pin = "new") \/ (files /\ checked))
    BY <1>7 DEF handlePutSettings, workerVars, cache, history
  <2>. QED
    BY <1>0, <2>1 DEF PinIsFollowed
<1>8. CASE Requesting /\ ~handlePutSettings
  BY <1>1, <1>8, ModelsFrames DEF Requesting, RequestReads, cancelModelJob, retryModelJob, installModel, cache, history
<1>9. CASE Building
  BY <1>1, <1>9, ModelsFrames
<1>10. CASE Commanding
  <2>. (files \/ deleted => files' \/ deleted')
    BY <1>10 DEF Commanding, CommandInstalls, ProbeInstalledModel, RemoveReplacedModels, DeleteByHand, history
  <2>. QED
    BY <1>1, <1>10, ModelsFrames DEF workerVars
<1>11. CASE startModelWorker
  <2>1. UNCHANGED <<settings, files, deleted>> /\ step' = "check" /\ seen' = Idle
    BY <1>11 DEF startModelWorker
  <2>. QED
    BY <1>0, <2>1 DEF PinIsFollowed, settings, Idle
<1>12. CASE UNCHANGED modelsVars
  BY <1>1, <1>12 DEF modelsVars, settings, workerVars, cache, history
<1>. QED
  BY <1>2, <1>3, <1>4, <1>5, <1>6, <1>7, <1>8, <1>9, <1>10, <1>11, <1>12, ModelsStepCases DEF Checking

LEMMA ModelsInvStep == ModelsInv /\ [ModelsNext]_modelsVars => ModelsInv'
  BY CacheTypesStep, ReceiptsStep, BuildInvStep, RowStep, RunStep, PinStep DEF ModelsInv, ModelsTypes, BuildInv

\* A build that was admitted is transcribed, a missing model costs no build that
\* must wait for it its transcript or its source, retired files go only once the
\* replacement is there, and the pin is the administrator's choice or the
\* replacement with its install on its way (admitTranscription, migrateRetiredSpeechModel).
THEOREM SpeechModelIsAlwaysKept == ModelsSpec => []SpeechModelIsKept
<1>1. ModelsInv => SpeechModelIsKept
  BY DEF ModelsInv, ReceiptsAreOfFiles, BuildIsServed, BuildMayWait, PinIsFollowed, SpeechModelIsKept
<1>. QED
  BY <1>1, ModelsInvInit, ModelsInvStep, PTL DEF ModelsSpec

\* A job that shows a phase of its install has a run that will say how it ended,
\* unless a build queued it again under a run being cancelled (runModelJob,
\* cancelModelJob, retryModelJob).
THEOREM InstallIsAlwaysRun == ModelsSpec => []InstallIsRun
<1>1. ModelsInv => InstallIsRun
  BY DEF ModelsInv, RunIsShown, InstallIsRun
<1>. QED
  BY <1>1, ModelsInvInit, ModelsInvStep, PTL DEF ModelsSpec
=============================================================================
