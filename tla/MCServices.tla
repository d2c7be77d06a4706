----------------------------- MODULE MCServices -----------------------------
(***************************************************************************)
(* Instance for TLC of the operator's background services: insight runs,   *)
(* imports, remote retention and the Talk room protocol. Each has rows and *)
(* files of its own, so a behaviour of the operator is a merge of one of   *)
(* each, and looking at one at a time loses none of the states they reach. *)
(***************************************************************************)
EXTENDS InsightRuns, ImportMeetings, RemoteRetention, TalkBackend

VARIABLE
  part   \* the component this behaviour is about

insights == <<runRow, attempts, oldStart, launches, files, restarts>>
imports == <<row, file, archive, worker, folder, asked, cancels, discarded, cutShort, used>>
vars == <<part, insights, imports, retirementVars, talkVars>>

Init ==
  /\ part \in {"insights", "imports", "retention", "talk"}
  /\ RunInit /\ ImportInit /\ RetirementInit /\ TalkInit

\* A step of one component.
InsightOnly   == part = "insights" /\ UNCHANGED <<part, imports, retirementVars, talkVars>>
ImportOnly    == part = "imports" /\ UNCHANGED <<part, insights, retirementVars, talkVars>>
RetentionOnly == part = "retention" /\ UNCHANGED <<part, insights, imports, talkVars>>
TalkOnly      == part = "talk" /\ UNCHANGED <<part, insights, imports, retirementVars>>

Next ==
  \/ InsightOnly /\ RunNext
  \/ ImportOnly /\ ImportNext
  \/ RetentionOnly /\ RetirementNext
  \/ TalkOnly /\ TalkNext

TalkWorker(j) ==
  \/ notifyTalkFailed(j) \/ notifyTalkStopped(j) \/ MarkTalkStopped(j)
  \/ enqueueBuildJob(j) \/ clearTalkRoomJobByID(j)

\* The fairness of the specifications. Only one component moves in a behaviour,
\* so one condition serves one action of each; there is one insight run,
\* and one meeting.
Fairness ==
  /\ WF_vars(\/ InsightOnly /\ (\E r \in Run : RunWork(r))
             \/ ImportOnly /\ Work
             \/ RetentionOnly /\ (\E m \in Meeting : Retire(m))
             \/ TalkOnly /\ TalkWorker(1))
  /\ WF_vars(\/ InsightOnly /\ (\E r \in Run : Age(r))
             \/ RetentionOnly /\ (\E m \in Meeting : attemptMediaCleanup(m))
             \/ TalkOnly /\ TalkWorker(2))
  /\ WF_vars(\/ InsightOnly /\ sweepStranded
             \/ RetentionOnly /\ (\E m \in Meeting : Write(m))
             \/ TalkOnly /\ Notifier)
  /\ WF_vars(RetentionOnly /\ (\E m \in Meeting : Sweep(m)))

Spec == Init /\ [][Next]_vars /\ Fairness
=============================================================================
