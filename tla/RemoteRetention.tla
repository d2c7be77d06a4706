--------------------------- MODULE RemoteRetention --------------------------
(***************************************************************************)
(* Retiring a published meeting from Nextcloud, because its retention age  *)
(* is due or because a user deletes it: the lifecycle row, the journalled  *)
(* operation, the conditional deletion of the remote file, the removal of  *)
(* everything derived from it, and the disposal of the local media of a    *)
(* deleted recording (remote_retention_worker.go,                          *)
(* remote_retention_retire.go, meeting_delete.go, meeting_lifecycle.go,    *)
(* webdav_retention.go, media_cleanup.go).  A retirement runs under its    *)
(* meeting's artifact lock and annotation write lock, so a meeting has one *)
(* at a time whoever started it.                                           *)
(***************************************************************************)
EXTENDS Naturals, FiniteSets

CONSTANTS
    Meeting,      \* the archive's meetings
    Import,       \* those of them that were imported: they have no job row
    MaxOutside,   \* bound: changes to the files by other Nextcloud clients
    MaxFaults,    \* bound: failed calls and crashes of the operator
    MaxSettings   \* bound: revisions of the retention settings

VARIABLES
    life,     \* meeting -> its meeting_lifecycle row: state and reason
    op,       \* meeting -> its remote_retention_operation row
    leaf,     \* meeting -> the remote file: there or not, file ID, version
    derived,  \* meeting -> what the operator keeps about it besides the file
    media,    \* meeting -> local media of its recording: "kept", "waiting", "gone"
    at,       \* meeting -> the step of the retirement that holds its locks
    writer,   \* meeting -> the index or mark writer between its check and its write
    policy,   \* the retention settings: their revision, and whether meetings expire
    plan,     \* meeting -> the revision a sweep found it due under, or 0
    destroyed,\* ghost: meeting -> the last version deleted, and what was journalled for it
    spent      \* how much of each bound is spent

retirementVars == <<life, op, leaf, derived, media, at, writer, policy, plan, destroyed, spent>>

Derived == {"metadata", "search", "marks"}
NoOp == [status |-> "none", action |-> "", tag |-> 0, id |-> 0, warranted |-> FALSE]
IsPending(m) == op[m].status \in {"prepared", "delete-intent", "deleted"}
Retired(m) == life[m].state \in {"retiring", "retired"}
Unheld(m) == at[m] = "idle"

\* A published or imported meeting, adopted with its age (adoptMeetingLifecycle).
RetirementInit ==
    /\ life = [m \in Meeting |-> [state |-> "active", reason |-> ""]]
    /\ op = [m \in Meeting |-> NoOp]
    /\ leaf = [m \in Meeting |-> [exists |-> TRUE, id |-> 1, tag |-> 1]]
    /\ derived = [m \in Meeting |-> Derived]
    /\ media = [m \in Meeting |-> "kept"]
    /\ at = [m \in Meeting |-> "idle"]
    /\ writer = [m \in Meeting |-> {}]
    /\ policy = [revision |-> 1, expires |-> TRUE]
    /\ plan = [m \in Meeting |-> 0]
    /\ destroyed = [m \in Meeting |-> [version |-> 0, journalled |-> 0, warranted |-> TRUE]]
    /\ spent = [outside |-> 0, faults |-> 0]

-----------------------------------------------------------------------------
(* The sweep decides, the preparation pins the decision. *)

SaveSettings ==
    /\ policy.revision < MaxSettings
    /\ policy' = [revision |-> policy.revision + 1, expires |-> ~policy.expires]
    /\ UNCHANGED <<life, op, leaf, derived, media, at, writer, plan, destroyed, spent>>

\* evaluateRemoteRetention: a deleted meeting is left alone, a retired one whose
\* file came back under its old identity is retired again.
Due(m) ==
    /\ policy.expires
    /\ \/ life[m].state = "active"
       \/ life[m].state = "retired" /\ life[m].reason # "deleted" /\ leaf[m].exists /\ leaf[m].id = 1

runRemoteRetention(m) ==
    /\ Unheld(m) /\ ~IsPending(m)
    /\ Due(m) /\ plan[m] # policy.revision
    /\ plan' = [plan EXCEPT ![m] = policy.revision]
    /\ UNCHANGED <<life, op, leaf, derived, media, at, writer, policy, destroyed, spent>>

\* Both preparations (warranted is a ghost): the file is inspected and the intent is journalled with
\* its version in one transaction with the lifecycle row.
Journal(m, action, why) ==
    /\ Unheld(m) /\ ~IsPending(m)
    /\ leaf[m].exists /\ leaf[m].id = 1
    /\ op' = [op EXCEPT ![m] = [status |-> "prepared", action |-> action, tag |-> leaf[m].tag,
                                id |-> leaf[m].id, warranted |-> action = "delete" \/ policy.expires]]
    /\ life' = [life EXCEPT ![m] = [state |-> "retiring", reason |-> why]]
    /\ at' = [at EXCEPT ![m] = "look"]
    /\ UNCHANGED <<leaf, derived, media, writer, policy, destroyed, spent>>

\* The job row must exist and be done, and the settings must still be those
\* the meeting was found due under.
prepareRemoteRetention(m) ==
    /\ plan[m] = policy.revision /\ m \notin Import
    /\ life[m].state \in {"active", "retired"}
    /\ Journal(m, "retire", life[m].reason)
    /\ plan' = [plan EXCEPT ![m] = 0]

\* "retention settings changed during preparation"
PlanIsStale(m) ==
    /\ plan[m] # 0 /\ plan[m] # policy.revision
    /\ plan' = [plan EXCEPT ![m] = 0]
    /\ UNCHANGED <<life, op, leaf, derived, media, at, writer, policy, destroyed, spent>>

\* A user deletes the meeting; an imported one needs no job row here.
prepareMeetingDeletion(m) ==
    /\ ~Retired(m)
    /\ Journal(m, "delete", "deleted")
    /\ UNCHANGED plan

\* Recovery at startup, the next sweep, or a delete request that meets a
\* pending operation: all resume it from its first step.
resumeRemoteRetention(m) ==
    /\ Unheld(m) /\ IsPending(m)
    /\ at' = [at EXCEPT ![m] = "look"]
    /\ UNCHANGED <<life, op, leaf, derived, media, writer, policy, plan, destroyed, spent>>

-----------------------------------------------------------------------------
(* resumeRemoteRetirement, step by step. *)

Step(m, from, to) == at[m] = from /\ at' = [at EXCEPT ![m] = to]
Unchanged == UNCHANGED <<writer, policy, plan, spent>>

\* Mutant of Intended: the answer that was lost is not remembered as an intent.
GoneIsNeverIntended(m) ==
    leaf[m].exists /\ leaf[m].id = op[m].id /\ leaf[m].tag = op[m].tag

\* The file is there in the journalled version, or it is gone and the journal
\* says that was intended; anything else stops the retirement.
Intended(m) ==
    IF leaf[m].exists THEN leaf[m].id = op[m].id /\ leaf[m].tag = op[m].tag
    ELSE op[m].status # "prepared"

Look(m) ==
    /\ life' = [life EXCEPT ![m].state = "retiring"]
    /\ Step(m, "look", CASE ~Intended(m) -> "idle"
                         [] leaf[m].exists -> "intent"
                         [] OTHER -> "deleted")
    /\ Unchanged /\ UNCHANGED <<op, leaf, derived, media, destroyed>>

SaveDeleteIntent(m) ==
    /\ Step(m, "intent", "delete")
    /\ op' = [op EXCEPT ![m].status = "delete-intent"]
    /\ Unchanged /\ UNCHANGED <<life, leaf, derived, media, destroyed>>

Destroy(m) ==
    [destroyed EXCEPT ![m] = [version |-> leaf[m].tag, journalled |-> op[m].tag,
                              warranted |-> op[m].warranted]]

\* Mutant of davRetentionDelete: the deletion carries no If-Match.
DeleteUnconditionally(m) ==
    /\ at[m] = "delete"
    /\ at' = [at EXCEPT ![m] = "deleted"]
    /\ leaf' = [leaf EXCEPT ![m].exists = FALSE]
    /\ destroyed' = IF leaf[m].exists THEN Destroy(m) ELSE destroyed
    /\ Unchanged /\ UNCHANGED <<life, op, derived, media>>

\* DELETE with If-Match, then a look that the file is gone; the answer may be
\* lost after the file was deleted.
davRetentionDelete(m) ==
    /\ at[m] = "delete"
    /\ IF leaf[m].exists /\ leaf[m].tag = op[m].tag
       THEN /\ leaf' = [leaf EXCEPT ![m].exists = FALSE]
            /\ destroyed' = Destroy(m)
            /\ \/ at' = [at EXCEPT ![m] = "deleted"] /\ UNCHANGED spent
               \/ /\ spent.faults < MaxFaults
                  /\ spent' = [spent EXCEPT !.faults = @ + 1]
                  /\ at' = [at EXCEPT ![m] = "idle"]
       ELSE at' = [at EXCEPT ![m] = "idle"] /\ UNCHANGED <<leaf, destroyed, spent>>
    /\ UNCHANGED <<life, op, derived, media, writer, policy, plan>>

SaveDeleted(m) ==
    /\ Step(m, "deleted", "retire")
    /\ op' = [op EXCEPT ![m].status = "deleted"]
    /\ Unchanged /\ UNCHANGED <<life, leaf, derived, media, destroyed>>

MarkRetired(m) ==
    /\ Step(m, "retire", "forget")
    /\ life' = [life EXCEPT ![m] = [state |-> "retired",
                    reason |-> IF op[m].action = "delete" THEN "deleted" ELSE "expired"]]
    /\ Unchanged /\ UNCHANGED <<op, leaf, derived, media, destroyed>>

\* Under the meeting's projection lock, which the index writers hold from their
\* check to their write.
ForgetProjections(m) ==
    /\ "index" \notin writer[m]
    /\ Step(m, "forget", "purge")
    /\ derived' = [derived EXCEPT ![m] = @ \ {"metadata", "search"}]
    /\ Unchanged /\ UNCHANGED <<life, op, leaf, media, destroyed>>

\* One transaction under the annotation mutation lock.
PurgeMarks(m) ==
    /\ "marks" \notin writer[m]
    /\ Step(m, "purge", "finish")
    /\ derived' = [derived EXCEPT ![m] = @ \ {"marks"}]
    /\ Unchanged /\ UNCHANGED <<life, op, leaf, media, destroyed>>

\* The operation is completed; a deletion queues the media's disposal in the
\* same transaction, if a job row exists.
finishRemoteRetention(m) ==
    /\ Step(m, "finish", "idle")
    /\ op' = [op EXCEPT ![m].status = "completed"]
    /\ media' = IF op[m].action = "delete" /\ m \notin Import /\ media[m] = "kept"
                THEN [media EXCEPT ![m] = "waiting"] ELSE media
    /\ Unchanged /\ UNCHANGED <<life, leaf, derived, destroyed>>

\* The worker's pass, every 30 seconds, under the artifact gate.
attemptMediaCleanup(m) ==
    /\ Unheld(m) /\ media[m] = "waiting"
    /\ life[m].reason = "deleted" /\ Retired(m)
    /\ media' = [media EXCEPT ![m] = "gone"]
    /\ UNCHANGED <<life, op, leaf, derived, at, writer, policy, plan, destroyed, spent>>

-----------------------------------------------------------------------------
(* Writers of what is derived from the meeting: they check that it is not  *)
(* retired and write, all under the lock the retirement takes.             *)

Writes(kind) == IF kind = "index" THEN {"metadata", "search"} ELSE {"marks"}

WriterChecks(m, kind) ==
    /\ kind \notin writer[m] /\ ~Retired(m)
    /\ writer' = [writer EXCEPT ![m] = @ \cup {kind}]
    /\ UNCHANGED <<life, op, leaf, derived, media, at, policy, plan, destroyed, spent>>

WriterWrites(m, kind) ==
    /\ kind \in writer[m]
    /\ writer' = [writer EXCEPT ![m] = @ \ {kind}]
    /\ derived' = [derived EXCEPT ![m] = @ \cup Writes(kind)]
    /\ UNCHANGED <<life, op, leaf, media, at, policy, plan, destroyed, spent>>

-----------------------------------------------------------------------------
(* The world. *)

Outside(m, l) ==
    /\ spent.outside < MaxOutside
    /\ spent' = [spent EXCEPT !.outside = @ + 1]
    /\ leaf' = [leaf EXCEPT ![m] = l]
    /\ UNCHANGED <<life, op, derived, media, at, writer, policy, plan, destroyed>>

\* Another client edits the file, deletes it, restores it, or puts a new one.
OutsideEdits(m) == leaf[m].exists /\ Outside(m, [leaf[m] EXCEPT !.tag = @ + 1])
OutsideDeletes(m) == leaf[m].exists /\ Outside(m, [leaf[m] EXCEPT !.exists = FALSE])
OutsideRestores(m) == ~leaf[m].exists /\ Outside(m, [leaf[m] EXCEPT !.exists = TRUE, !.tag = @ + 1])
OutsideReplaces(m) == Outside(m, [exists |-> TRUE, id |-> 2, tag |-> leaf[m].tag + 1])

\* A call of the retirement fails: it stops, its operation stays pending.
RetirementFails(m) ==
    /\ ~Unheld(m)
    /\ spent.faults < MaxFaults
    /\ spent' = [spent EXCEPT !.faults = @ + 1]
    /\ at' = [at EXCEPT ![m] = "idle"]
    /\ UNCHANGED <<life, op, leaf, derived, media, writer, policy, plan, destroyed>>

Crash ==
    /\ spent.faults < MaxFaults
    /\ spent' = [spent EXCEPT !.faults = @ + 1]
    /\ at' = [m \in Meeting |-> "idle"]
    /\ writer' = [m \in Meeting |-> {}]
    /\ plan' = [m \in Meeting |-> 0]
    /\ UNCHANGED <<life, op, leaf, derived, media, policy, destroyed>>

Retire(m) ==
    \/ resumeRemoteRetention(m) \/ Look(m) \/ SaveDeleteIntent(m) \/ davRetentionDelete(m)
    \/ SaveDeleted(m) \/ MarkRetired(m) \/ ForgetProjections(m) \/ PurgeMarks(m)
    \/ finishRemoteRetention(m)

Write(m) == \E kind \in {"index", "marks"} : WriterWrites(m, kind)
Sweep(m) == runRemoteRetention(m) \/ prepareRemoteRetention(m)

RetirementNext ==
    \/ SaveSettings \/ Crash
    \/ \E m \in Meeting :
        \/ Sweep(m) \/ PlanIsStale(m) \/ prepareMeetingDeletion(m)
        \/ Retire(m) \/ attemptMediaCleanup(m) \/ Write(m)
        \/ \E kind \in {"index", "marks"} : WriterChecks(m, kind)
        \/ OutsideEdits(m) \/ OutsideDeletes(m) \/ OutsideRestores(m) \/ OutsideReplaces(m)
        \/ RetirementFails(m)

\* Sweeps and cleanup passes come again and again, and a writer that holds a
\* lock gives it back.
RetirementFairness ==
    \A m \in Meeting :
        WF_retirementVars(Retire(m)) /\ WF_retirementVars(attemptMediaCleanup(m)) /\ WF_retirementVars(Write(m)) /\ WF_retirementVars(Sweep(m))

RetirementSpec == RetirementInit /\ [][RetirementNext]_retirementVars /\ RetirementFairness

-----------------------------------------------------------------------------

\* What is deleted remotely is exactly the version that was there when the
\* retirement was journalled, under settings that were in force then or at a
\* user's request: never a version another client wrote in between, and never
\* on a decision taken under older settings (remote_retention_retire.go:46,
\* remote_retention_worker.go:290).
RetirementIsWarranted ==
    \A m \in Meeting : destroyed[m].version = destroyed[m].journalled /\ destroyed[m].warranted

\* A retirement that is completed leaves nothing derived from the meeting
\* behind, however its steps interleave with index and mark writers that saw
\* the meeting alive (remote_retention_retire.go:66).
RetiredLeavesNoTrace ==
    \A m \in Meeting : op[m].status = "completed" /\ life[m].state = "retired" => derived[m] = {}

\* What a retirement destroys it had the right to, and it destroys all of it.
RetirementIsSafe == RetirementIsWarranted /\ RetiredLeavesNoTrace

\* A journalled retirement ends, through failed calls, lost answers and
\* crashes, and the media of a deleted recording go too - unless the file is
\* no longer the one that was journalled (remote_retention_worker.go:333).
RetirementsEnd ==
    \A m \in Meeting : op[m].status = "prepared" ~>
        \/ op[m].status = "completed" /\ (op[m].action = "delete" /\ m \notin Import => media[m] = "gone")
        \/ leaf[m].exists /\ (leaf[m].id # op[m].id \/ leaf[m].tag # op[m].tag)
        \/ ~leaf[m].exists /\ op[m].status = "prepared"

\* A meeting that stays due is retired in the end, an imported one too:
\* "Retention is adopted eagerly, with the meeting's own timestamps as the age
\* anchor - the standard policy" (import_meetings.go:35).
DueMeetingsExpire ==
    \A m \in Meeting : [](leaf[m].id = 1) /\ [](policy.expires) => <>(life[m].state # "active")
=============================================================================
