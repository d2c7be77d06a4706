---------------------------- MODULE MeetingSharing ----------------------------
(***************************************************************************)
(* Who may see a published meeting. The room's roster is captured when the *)
(* recording starts and when it stops; the first publication shares the    *)
(* delivered file with the person who started it and with that roster, and *)
(* what Nextcloud refused or put off is kept in the job's share outcome.   *)
(* A completed publication is not shared again by a rerun, since removing  *)
(* a recipient is an edit of the audience; an administrator may ask for it.*)
(*                                                                         *)
(* A create that fails for no stated reason is tried three times with the  *)
(* shares listed again in between: one step here, whose outcomes are those *)
(* of the whole. The right to reshare of a public room is left out.        *)
(***************************************************************************)
EXTENDS Naturals, FiniteSets

CONSTANTS
  Starter,       \* who started the recording: the first of every audience
  Guest,         \* the others
  MaxPublishes,  \* bound: publications begun
  MaxReshares,   \* bound: shares asked for again
  MaxVanishes    \* bound: deliveries deleted outside Cassini

Principal == {Starter} \cup Guest

VARIABLES
  file,       \* the delivered meeting is in Nextcloud
  shares,     \* who has a share of it
  refusing,   \* whom Nextcloud's policy refuses
  roster,     \* jobs.room_audience
  captured,   \* jobs.room_audience_at: a capture happened
  captures,   \* captures still under way
  outcome,    \* job_share_outcomes: status, who was refused, who was put off, and whom it is about
  published,  \* a publish attempt succeeded
  run,        \* the publication or the reshare under way
  request,    \* a reshare was admitted and waits for the meeting's lock
  begun, asked, vanished,
  got,        \* ghost: who was seen to have a share of this very file
  handled,    \* ghost: who was given, refused or put off a share of this very file
  withdrawn,  \* ghost: who lost a share of the file after its publication completed
  restored    \* ghost: a publication gave a withdrawn share back

env == <<refusing, captures, captured, roster>>
counts == <<begun, asked, vanished>>
sharingVars == <<file, shares, env, outcome, published, run, request, counts, got, handled,
                 withdrawn, restored>>

NoOutcome == [status |-> "none", refused |-> {}, deferred |-> {}, about |-> {}]
NoRun == [mode |-> "none", pc |-> "idle", todo |-> {}, audience |-> {},
          required |-> {}, refused |-> {}, deferred |-> {}, limited |-> FALSE]

SharingInit ==
  /\ file = FALSE /\ shares = {}
  /\ refusing \in SUBSET Principal
  /\ roster = {} /\ captured = FALSE
  /\ captures = {"start", "stop"}
  /\ outcome = NoOutcome
  /\ published = FALSE
  /\ run = NoRun /\ request = FALSE
  /\ begun = 0 /\ asked = 0 /\ vanished = 0
  /\ got = {} /\ handled = {} /\ withdrawn = {} /\ restored = FALSE

-----------------------------------------------------------------------------
(* The room's roster. *)

\* Two goroutines, one at each end of the recording; either may fail for good,
\* and the second may still run when the meeting is published.
MergeJobRoomAudience(c) ==
  /\ c \in captures
  /\ captures' = captures \ {c}
  /\ \/ \E seen \in SUBSET Guest : roster' = roster \cup seen /\ captured' = TRUE
     \/ UNCHANGED <<roster, captured>>
  /\ UNCHANGED <<file, shares, refusing, outcome, published, run, request, counts, got, handled,
                 withdrawn, restored>>

-----------------------------------------------------------------------------
(* Publication. *)

AtRest == run = NoRun

\* A publication, or a rerun of one, takes the meeting's lock and looks at what
\* was delivered: `before' is whether the file was there.
BeginDelivery ==
  /\ AtRest /\ begun < MaxPublishes
  /\ begun' = begun + 1
  /\ run' = [NoRun EXCEPT !.mode = "publish", !.pc = IF file THEN "put_over" ELSE "put_new"]
  /\ UNCHANGED <<file, shares, env, outcome, published, request, asked, vanished, got, handled,
                 withdrawn, restored>>

EndRun == run' = NoRun

\* Mutant of SharesNow: every publication shares.
SharesAlways(existed) == TRUE

\* Why this publication shares: it is the first to complete, the file was not
\* there, or the starter was refused last time, before anybody else was reached.
SharesNow(existed) == ~published \/ ~existed \/ outcome.status = "starter_refused"

\* The bytes are put, the metadata indexed; a failure ends the attempt with the
\* file in place, and so does a file that is not the one seen before. Then the earlier outcome decides whether the shares are made.
Put ==
  /\ run.pc \in {"put_over", "put_new"}
  /\ file' = TRUE
  /\ \/ EndRun
     \/ /\ run.pc = "put_over" => file
        /\ SharesNow(run.pc = "put_over")
        /\ run' = [run EXCEPT !.pc = "audience"]
     \/ /\ run.pc = "put_over" => file
        /\ ~SharesNow(run.pc = "put_over")
        /\ run' = [run EXCEPT !.pc = "deliver"]
  /\ UNCHANGED <<shares, env, outcome, published, request, counts, got, handled, withdrawn,
                 restored>>

\* The captured roster, or the room as it is now when nothing was captured;
\* nothing is shared when neither can be had. A publication forgets the last
\* outcome before it makes another.
audienceForJob ==
  /\ run.pc = "audience"
  /\ \/ EndRun /\ UNCHANGED outcome
     \/ \E now \in SUBSET Guest :
          /\ (captured => now = roster) /\ (run.mode = "reapply" => captured)
          /\ run' = [run EXCEPT !.pc = "list", !.audience = {Starter} \cup now]
          /\ outcome' = IF run.mode = "publish" THEN NoOutcome ELSE outcome
  /\ UNCHANGED <<file, shares, env, published, request, counts, got, handled, withdrawn, restored>>

\* The owner's shares of the file: who has one keeps it as it is.
ownerSharesForPath ==
  /\ run.pc = "list"
  /\ \/ EndRun
     \/ run' = [run EXCEPT !.pc = "share", !.todo = run.audience \ shares, !.required = run.audience \cap shares]
  /\ UNCHANGED <<file, shares, env, outcome, published, request, counts, got, handled, withdrawn,
                 restored>>

\* One recipient, the starter before the others.
NextRecipient(p) ==
  /\ run.pc = "share" /\ p \in run.todo
  /\ Starter \in run.todo => p = Starter

Done(p, r) == [r EXCEPT !.todo = @ \ {p}]
Give(p) ==
  /\ shares' = shares \cup {p}
  /\ restored' = (restored \/ (run.mode = "publish" /\ p \in withdrawn))
  /\ withdrawn' = withdrawn \ {p}

createRecordingShare(p) ==
  /\ NextRecipient(p) /\ file
  /\ \/ \* made, or found when the shares are listed again
        /\ p \notin refusing /\ ~run.limited
        /\ Give(p)
        /\ run' = Done(p, [run EXCEPT !.required = @ \cup {p}])
        /\ UNCHANGED outcome
     \/ \* made, and the run fails because the list could not be read
        /\ p \notin refusing /\ ~run.limited
        /\ Give(p)
        /\ EndRun
        /\ UNCHANGED outcome
     \/ \* nothing made, nothing said about the recipient
        /\ ~run.limited
        /\ EndRun
        /\ UNCHANGED <<shares, outcome, withdrawn, restored>>
     \/ \* the limit on new shares: this one and everyone after are put off
        /\ run' = Done(p, [run EXCEPT !.limited = TRUE, !.deferred = @ \cup {p}])
        /\ UNCHANGED <<shares, outcome, withdrawn, restored>>
     \/ \* refused
        /\ p \in refusing /\ ~run.limited
        /\ IF p = Starter /\ run.mode = "publish"
           THEN /\ EndRun
                /\ outcome' = [NoOutcome EXCEPT !.status = "starter_refused", !.refused = {p}]
           ELSE /\ run' = Done(p, [run EXCEPT !.refused = @ \cup {p}])
                /\ UNCHANGED outcome
        /\ UNCHANGED <<shares, withdrawn, restored>>
  /\ UNCHANGED <<file, env, published, request, counts, got, handled>>

\* What Nextcloud lists decides, not the answers it gave.
Verify ==
  /\ run.pc = "share" /\ run.todo = {}
  /\ \/ EndRun /\ UNCHANGED <<got, handled>>
     \/ /\ run.required \subseteq shares
        /\ got' = got \cup run.required
        /\ handled' = handled \cup run.audience
        /\ run' = [run EXCEPT !.pc = "record"]
  /\ UNCHANGED <<file, shares, env, outcome, published, request, counts, withdrawn, restored>>

shareOutcomeStatus(refused, deferred) ==
  CASE refused # {} -> "partial" [] refused = {} /\ deferred # {} -> "deferred" [] OTHER -> "complete"

\* A failed write costs a publication its outcome and nothing else.
RecordJobShareOutcome ==
  /\ run.pc = "record"
  /\ \/ outcome' = [status |-> shareOutcomeStatus(run.refused, run.deferred),
                    refused |-> run.refused, deferred |-> run.deferred, about |-> run.audience]
     \/ UNCHANGED outcome
  /\ run' = IF run.mode = "publish" THEN [run EXCEPT !.pc = "deliver"] ELSE NoRun
  /\ UNCHANGED <<file, shares, env, published, request, counts, got, handled, withdrawn, restored>>

\* The sink returns and the attempt is marked as succeeded.
MarkPublished ==
  /\ run.pc = "deliver"
  /\ published' = TRUE
  /\ EndRun
  /\ UNCHANGED <<file, shares, env, outcome, request, counts, got, handled, withdrawn, restored>>

\* The operator stops wherever it is; a restart finds the job interrupted.
Crash ==
  /\ run # NoRun \/ request
  /\ EndRun /\ request' = FALSE
  /\ UNCHANGED <<file, shares, env, outcome, published, counts, got, handled, withdrawn, restored>>

-----------------------------------------------------------------------------
(* An administrator shares a published meeting again. *)

handleReshareJob ==
  /\ ~request /\ asked < MaxReshares
  /\ published /\ AtRest /\ outcome.status # "starter_refused" /\ captured
  /\ request' = TRUE /\ asked' = asked + 1
  /\ UNCHANGED <<file, shares, env, outcome, published, run, begun, vanished, got, handled,
                 withdrawn, restored>>

\* Under the lock nothing of that is asked again but the file itself.
reshare ==
  /\ request /\ AtRest
  /\ request' = FALSE
  /\ run' = IF file THEN [NoRun EXCEPT !.mode = "reapply", !.pc = "audience"] ELSE NoRun
  /\ UNCHANGED <<file, shares, env, outcome, published, counts, got, handled, withdrawn, restored>>

-----------------------------------------------------------------------------
(* Nextcloud and its people. *)

ChangePolicy ==
  /\ \E p \in Principal : refusing' = IF p \in refusing THEN refusing \ {p} ELSE refusing \cup {p}
  /\ UNCHANGED <<file, shares, captures, captured, roster, outcome, published, run, request,
                 counts, got, handled, withdrawn, restored>>

Withdraw(p) ==
  /\ p \in shares
  /\ shares' = shares \ {p}
  /\ withdrawn' = IF published /\ vanished = 0 THEN withdrawn \cup {p} ELSE withdrawn
  /\ UNCHANGED <<file, env, outcome, published, run, request, counts, got, handled, restored>>

\* The file goes, with its shares; a later one is another file.
Vanish ==
  /\ file /\ vanished < MaxVanishes
  /\ file' = FALSE /\ shares' = {}
  /\ vanished' = vanished + 1
  /\ got' = {} /\ handled' = {} /\ withdrawn' = {}
  /\ UNCHANGED <<env, outcome, published, run, request, begun, asked, restored>>

-----------------------------------------------------------------------------
SharingNext ==
  \/ \E c \in captures : MergeJobRoomAudience(c)
  \/ BeginDelivery \/ Put \/ audienceForJob \/ ownerSharesForPath
  \/ \E p \in Principal : createRecordingShare(p) \/ Withdraw(p)
  \/ Verify \/ RecordJobShareOutcome \/ MarkPublished \/ Crash
  \/ handleReshareJob \/ reshare
  \/ ChangePolicy \/ Vanish

SharingSpec == SharingInit /\ [][SharingNext]_sharingVars

-----------------------------------------------------------------------------
\* Someone removed from a published meeting gets it back by an administrator's
\* reshare only, never from a rerun's publication; a delivery that was deleted
\* outside Cassini begins a new audience.
WithdrawnStaysOut == ~restored

\* A share outcome leaves nobody out: everyone of the audience it is about was
\* seen to have a share of the file, or is listed as refused or put off. A
\* delivery deleted outside Cassini takes its shares along and is not counted.
OutcomeNamesEveryone ==
  outcome.status \in {"complete", "partial", "deferred"} /\ vanished = 0
    => outcome.about \subseteq got \cup outcome.refused \cup outcome.deferred

\* No share that was withdrawn comes back unasked, and nobody is left out unsaid.
SharesAreAccounted == WithdrawnStaysOut /\ OutcomeNamesEveryone

\* A publication that is about to be marked as succeeded shared the file that is
\* there now with the starter, unless the limit on new shares put that off ("the
\* recording's starter must receive it, or the publish fails").
StarterReceives == run.pc = "deliver" /\ file => Starter \in handled

=============================================================================
