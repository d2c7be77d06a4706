---------------------------- MODULE InsightRuns ----------------------------
(***************************************************************************)
(* Insights: a question asked of several meetings, answered by a goroutine *)
(* of the request that asked. No dispatcher picks a stranded run up again, *)
(* so the status is the lock, a sweep paid for by reads fails rows nothing *)
(* will write any more, and people retry what failed.                      *)
(*                                                                         *)
(* Time is the staleness of the stamps. A claimed attempt records its own  *)
(* timeout (insightRunTimeout) before insightSweepGrace is over, so a row  *)
(* grows stale only when no goroutine works on it; a waiting one may wait  *)
(* for a slot as long as it takes.                                         *)
(***************************************************************************)
EXTENDS Naturals, FiniteSets

CONSTANTS
  Run,             \* insight runs
  Slots,           \* maxConcurrentInsightRuns
  MaxAttempts,     \* bound: attempts of a run
  MaxRunRestarts   \* bound: restarts of the operator

\* What is assumed of the constants: a run can be attempted.
ASSUME InsightAssumption == MaxAttempts \in Nat \ {0}

None == 0

VARIABLES
  runRow,     \* insight_runs: [Run -> [status, attempt, doc, reason, stale]]
  attempts,   \* insight_run_attempts: [Run -> [1..MaxAttempts -> status]]
  oldStart,   \* [Run -> attempts whose started_at is before the sweep's cutoff]
  launches,   \* [Run -> set of goroutines: [handed, claimed, pc, doc]]
  files,      \* [Run -> attempts whose document is in the caller's files]
  restarts

runVars == <<runRow, attempts, oldStart, launches, files, restarts>>

Number == 1..MaxAttempts

RunInit ==
  /\ runRow = [r \in Run |-> [status |-> "none", attempt |-> 1, doc |-> None, reason |-> "", stale |-> FALSE]]
  /\ attempts = [r \in Run |-> [n \in Number |-> "none"]]
  /\ oldStart = [r \in Run |-> {}]
  /\ launches = [r \in Run |-> {}]
  /\ files = [r \in Run |-> {}]
  /\ restarts = 0

Goroutine(n) == [handed |-> n, claimed |-> None, pc |-> "waiting", doc |-> None]
AtWork == {"perform", "deliver", "record"}
\* Goroutines that hold a slot.
Holding(r) == {g \in launches[r] : g.pc # "waiting"}
FreeSlot ==
  \A S \in SUBSET Run : Cardinality(UNION {{<<r, g>> : g \in Holding(r)} : r \in S}) < Slots

Become(r, g, h) == launches' = [launches EXCEPT ![r] = (@ \ {g}) \cup h]

-----------------------------------------------------------------------------
(* Requests. *)

\* The row is inserted as queued, and a goroutine is started that will claim it.
create(r) ==
  /\ runRow[r].status = "none"
  /\ runRow' = [runRow EXCEPT ![r].status = "queued"]
  /\ launches' = [launches EXCEPT ![r] = {Goroutine(0)}]
  /\ UNCHANGED <<attempts, oldStart, files, restarts>>

\* BeginAttempt: the compare-and-swap from queued or failed to running.
BeginAttempt(r) ==
  LET n == IF runRow[r].status = "failed" THEN runRow[r].attempt + 1 ELSE runRow[r].attempt
  IN /\ runRow[r].status \in {"queued", "failed"}
     /\ n \in Number
     /\ runRow' = [runRow EXCEPT ![r] = [status |-> "running", attempt |-> n, doc |-> None,
                                   reason |-> "", stale |-> FALSE]]
     /\ attempts' = [attempts EXCEPT ![r][n] = "running"]

\* A retry claims inside the request and hands the attempt to its goroutine.
retryRun(r) ==
  /\ runRow[r].status = "failed" /\ runRow[r].reason # "template-changed"
  /\ BeginAttempt(r)
  /\ launches' = [launches EXCEPT ![r] = @ \cup {Goroutine(runRow'[r].attempt)}]
  /\ UNCHANGED <<oldStart, files, restarts>>

\* Mutant of sweepStranded: the sweep looks at running rows only.
SweepRunningOnly ==
  /\ \E r \in Run : runRow[r].stale \/ oldStart[r] # {}
  /\ runRow' = [r \in Run |->
               IF runRow[r].stale /\ runRow[r].status = "running"
                 THEN [runRow[r] EXCEPT !.status = "failed", !.reason = "interrupted", !.stale = FALSE]
                 ELSE [runRow[r] EXCEPT !.stale = FALSE]]
  /\ attempts' = [r \in Run |-> [n \in Number |->
                    IF n \in oldStart[r] /\ attempts[r][n] = "running" THEN "failed" ELSE attempts[r][n]]]
  /\ oldStart' = [r \in Run |-> {}]
  /\ UNCHANGED <<launches, files, restarts>>

\* sweepStranded, paid for by a read: what has stopped moving is failed.
sweepStranded ==
  /\ \E r \in Run : runRow[r].stale \/ oldStart[r] # {}
  /\ runRow' = [r \in Run |->
               IF runRow[r].stale /\ runRow[r].status \in {"queued", "running"}
                 THEN [runRow[r] EXCEPT !.status = "failed", !.reason = "interrupted", !.stale = FALSE]
                 ELSE [runRow[r] EXCEPT !.stale = FALSE]]
  /\ attempts' = [r \in Run |-> [n \in Number |->
                    IF n \in oldStart[r] /\ attempts[r][n] = "running" THEN "failed" ELSE attempts[r][n]]]
  /\ oldStart' = [r \in Run |-> {}]
  /\ UNCHANGED <<launches, files, restarts>>

-----------------------------------------------------------------------------
(* The goroutine (launch). *)

\* Mutant of ResumeAttempt: the row is only read for being running.
ResumeAnyAttempt(r, n) ==
  /\ runRow[r].status = "running"
  /\ runRow' = [runRow EXCEPT ![r].stale = FALSE]
  /\ UNCHANGED attempts

\* ResumeAttempt: still running at exactly the attempt handed over; the stamp is refreshed.
ResumeAttempt(r, n) ==
  /\ runRow[r].status = "running" /\ runRow[r].attempt = n
  /\ runRow' = [runRow EXCEPT ![r].stale = FALSE]
  /\ UNCHANGED attempts

\* With a slot, the goroutine claims its attempt, or finds the row has moved on.
claim(r, g) ==
  /\ g.pc = "waiting" /\ FreeSlot
  /\ \/ /\ IF g.handed = 0 THEN BeginAttempt(r) ELSE ResumeAttempt(r, g.handed)
        /\ Become(r, g, {[g EXCEPT !.pc = "perform", !.claimed = runRow'[r].attempt]})
     \/ /\ IF g.handed = 0
             THEN runRow[r].status \notin {"queued", "failed"}
             ELSE runRow[r].status # "running" \/ runRow[r].attempt # g.handed
        /\ Become(r, g, {})
        /\ UNCHANGED <<runRow, attempts>>
     \/ \* the store does not answer: the goroutine ends, and the row waits for the sweep
        Become(r, g, {}) /\ UNCHANGED <<runRow, attempts>>
  /\ UNCHANGED <<oldStart, files, restarts>>

\* Staging and the workflow fail, time out, or produce a document to deliver.
perform(r, g) ==
  /\ g.pc = "perform"
  /\ \E pc \in {"deliver", "record"} : Become(r, g, {[g EXCEPT !.pc = pc]})
  /\ UNCHANGED <<runRow, attempts, oldStart, files, restarts>>

\* The document is written under a name nobody has (a conditional create); the answer may be
\* lost, which leaves a document without a link.
deliverRun(r, g) ==
  /\ g.pc = "deliver"
  /\ \/ /\ files' = [files EXCEPT ![r] = @ \cup {g.claimed}]
        /\ \E doc \in {None, g.claimed} : Become(r, g, {[g EXCEPT !.pc = "record", !.doc = doc]})
     \/ /\ Become(r, g, {[g EXCEPT !.pc = "record"]})
        /\ UNCHANGED files
  /\ UNCHANGED <<runRow, attempts, oldStart, restarts>>

\* FinishAttempt refuses a row that is not running; it does not look at the attempt.
FinishAttempt(r, g) ==
  LET status == IF g.doc = None THEN "failed" ELSE "succeeded"
  IN /\ runRow[r].status = "running"
     /\ \E reason \in IF g.doc = None THEN {"failure", "template-changed"} ELSE {""} :
          runRow' = [runRow EXCEPT ![r].status = status, ![r].doc = g.doc, ![r].reason = reason,
                             ![r].stale = FALSE]
     /\ attempts' = [attempts EXCEPT ![r][runRow[r].attempt] = status]

\* recordOutcome gives up after its tries; the row then stays running.
recordOutcome(r, g) ==
  /\ g.pc = "record"
  /\ Become(r, g, {})
  /\ \/ FinishAttempt(r, g)
     \/ UNCHANGED <<runRow, attempts>>
  /\ UNCHANGED <<oldStart, files, restarts>>

-----------------------------------------------------------------------------
(* Time and crashes. *)

\* A row, or the start of its attempt, passes the cutoff. Nobody may be working on the row.
Age(r) ==
  /\ \/ /\ runRow[r].status \in {"queued", "running"} /\ ~runRow[r].stale
        /\ \A g \in launches[r] : g.pc \notin AtWork
        /\ runRow' = [runRow EXCEPT ![r].stale = TRUE]
        /\ oldStart' = [oldStart EXCEPT ![r] = @ \cup {n \in Number : attempts[r][n] = "running"}]
     \/ \* a resumed attempt: the row was refreshed when it got its slot, its started_at was not
        /\ \E g \in launches[r] : g.pc \in AtWork /\ g.handed # 0
        /\ runRow[r].attempt \notin oldStart[r]
        /\ oldStart' = [oldStart EXCEPT ![r] = @ \cup {runRow[r].attempt}]
        /\ UNCHANGED runRow
  /\ UNCHANGED <<attempts, launches, files, restarts>>

\* Every row of before belongs to a process that is gone.
Restart ==
  /\ restarts < MaxRunRestarts
  /\ restarts' = restarts + 1
  /\ launches' = [r \in Run |-> {}]
  /\ runRow' = [r \in Run |-> [runRow[r] EXCEPT !.stale = runRow[r].status \in {"queued", "running"}]]
  /\ oldStart' = [r \in Run |-> {n \in Number : attempts[r][n] = "running"}]
  /\ UNCHANGED <<attempts, files>>

RunWork(r) == \E g \in launches[r] : claim(r, g) \/ perform(r, g) \/ deliverRun(r, g) \/ recordOutcome(r, g)

RunNext ==
  \/ \E r \in Run : create(r) \/ retryRun(r) \/ RunWork(r) \/ Age(r)
  \/ sweepStranded \/ Restart

\* Goroutines run, time passes, and the card keeps polling.
RunSpec ==
  /\ RunInit /\ [][RunNext]_runVars
  /\ \A r \in Run : WF_runVars(RunWork(r)) /\ WF_runVars(Age(r))
  /\ WF_runVars(sweepStranded)

-----------------------------------------------------------------------------
(* However often a run is swept, retried and resumed, one goroutine at most works on it, and *)
(* it is the one whose attempt the row is running (claim, ResumeAttempt). A run that ended   *)
(* agrees with its attempt's row, and a run with an answer links to the document its own     *)
(* attempt delivered (FinishAttempt, recordOutcome, sweepStranded).                          *)
OneAttemptAtATime ==
  \A r \in Run :
    /\ \A g, h \in {x \in launches[r] : x.pc \in AtWork} : g = h
    /\ \A g \in launches[r] :
         g.pc \in AtWork => runRow[r].status = "running" /\ runRow[r].attempt = g.claimed
    /\ runRow[r].status = "succeeded" =>
         runRow[r].doc = runRow[r].attempt /\ runRow[r].doc \in files[r] /\ attempts[r][runRow[r].attempt] = "succeeded"
    /\ runRow[r].status = "failed" => attempts[r][runRow[r].attempt] \notin {"running", "succeeded"}

(* No run stays queued or running for ever: it ends, or a sweep ends it (sweepStranded).     *)
RunsEnd ==
  \A r \in Run : runRow[r].status \in {"queued", "running"} ~> runRow[r].status \in {"succeeded", "failed"}
=============================================================================
