---------------------------- MODULE JobLifecycle ----------------------------
(***************************************************************************)
(* What the operator promises about one job as its API shows it: the stage *)
(* and state of the jobs row and the number of the current attempt.  Every *)
(* attempt walks record, build, seal, publish, done in that order, a stage *)
(* runs only from queued and ends only from running, a settled job moves   *)
(* only by opening the next attempt, and a restart interrupts what was     *)
(* running and keeps what was queued for a worker.                         *)
(***************************************************************************)
EXTENDS Naturals

CONSTANTS Jobs, MaxAttempts

VARIABLE row   \* [Jobs -> [stage, state, cur]]

Hands == [record |-> "build", build |-> "seal", seal |-> "publish"]

Moves(j, st, sta) == row' = [row EXCEPT ![j] = [@ EXCEPT !.stage = st, !.state = sta]]

Create(j) == row[j].stage = "none" /\ Moves(j, "record", "queued")

Start(j) == row[j].state = "queued" /\ Moves(j, row[j].stage, "running")

Advance(j) ==
  /\ row[j].state = "running"
  /\ row[j].stage \in DOMAIN Hands
  /\ Moves(j, Hands[row[j].stage], "queued")

\* A build gives way to a recording or waits for a resource.
Requeue(j) ==
  row[j].stage = "build" /\ row[j].state = "running" /\ Moves(j, "build", "queued")

Block(j) ==
  row[j].stage = "build" /\ row[j].state = "running" /\ Moves(j, "build", "blocked")

Fail(j) == row[j].state = "running" /\ Moves(j, "done", "failed")

Succeed(j) ==
  row[j].stage = "publish" /\ row[j].state = "running" /\ Moves(j, "done", "succeeded")

\* A settled job goes round again from build, under a new attempt number.
Retry(j) ==
  /\ row[j].state \in {"interrupted", "blocked", "failed", "succeeded"}
  /\ row[j].cur < MaxAttempts
  /\ row' = [row EXCEPT ![j] = [stage |-> "build", state |-> "queued", cur |-> @.cur + 1]]

\* A restart: nobody runs a running row any more, and nobody will ever run a
\* recording that had not started; rows queued for a worker are kept.
Orphaned(r) == r.state = "running" \/ (r.stage = "record" /\ r.state = "queued")

Interrupt ==
  row' = [j \in Jobs |-> IF Orphaned(row[j]) THEN [row[j] EXCEPT !.state = "interrupted"]
                                             ELSE row[j]]

Init == row = [j \in Jobs |-> [stage |-> "none", state |-> "none", cur |-> 1]]

Next ==
  \/ \E j \in Jobs : \/ Create(j) \/ Start(j) \/ Advance(j) \/ Requeue(j)
                     \/ Block(j) \/ Fail(j) \/ Succeed(j) \/ Retry(j)
  \/ Interrupt

Spec == Init /\ [][Next]_row
=============================================================================
