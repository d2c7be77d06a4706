----------------------------- MODULE MCMeetings -----------------------------
(***************************************************************************)
(* Instance for TLC of what happens to a meeting once it is recorded: its  *)
(* way through the pipeline while the store works, the speech model that   *)
(* transcribes it, the marks people make on it and how they reach it,      *)
(* corrections of its speakers, the search index and its shares. No two    *)
(* have a variable in common: a behaviour of the operator is a merge of    *)
(* one of each, and looking at one at a time loses none of the states they *)
(* reach.                                                                  *)
(***************************************************************************)
EXTENDS JobPipeline, AnnotationSync, SpeakerEdits, SearchIndex, MeetingSharing, SpeechModels, TLC

CONSTANTS
  builder, sealer, deliverer,             \* workers of the pipeline
  TagId, Label, Target, Color, MaxBatches \* of AnnotationOps

VARIABLES
  part,  \* the component this behaviour is about
  doc, batches, keepsStyle

ops == <<doc, batches, keepsStyle>>
allVars == <<part, vars, marksVars, speakersVars, searchVars, sharingVars, modelsVars, ops>>

Pool == {builder, sealer, deliverer}
PoolServes == [w \in Pool |-> IF w = builder THEN "build" ELSE IF w = sealer THEN "seal" ELSE "publish"]

\* Edits are only told apart by their requestId.
EditSymmetry == Permutations(Request)

Ops == INSTANCE AnnotationOps

MeetingsInit ==
  /\ part \in {"pipeline", "marks", "speakers", "search", "sharing", "models", "ops"}
  /\ Init
  /\ MarksInit /\ SpeakersInit /\ SearchInit /\ SharingInit /\ ModelsInit /\ Ops!Init
  \* a component nobody looks at has one initial state
  /\ part # "search" => bundle = [m \in Meeting |-> 0]
  /\ part # "sharing" => refusing = {}
  /\ part # "models" => enabled /\ oldChecked

\* A step of one component.
PipelineOnly ==
  part = "pipeline" /\ UNCHANGED <<part, marksVars, speakersVars, searchVars, sharingVars, modelsVars, ops>>
MarksOnly ==
  part = "marks" /\ UNCHANGED <<part, vars, speakersVars, searchVars, sharingVars, modelsVars, ops>>
SpeakersOnly ==
  part = "speakers" /\ UNCHANGED <<part, vars, marksVars, searchVars, sharingVars, modelsVars, ops>>
SearchOnly ==
  part = "search" /\ UNCHANGED <<part, vars, marksVars, speakersVars, sharingVars, modelsVars, ops>>
SharingOnly ==
  part = "sharing" /\ UNCHANGED <<part, vars, marksVars, speakersVars, searchVars, modelsVars, ops>>
ModelsOnly ==
  part = "models" /\ UNCHANGED <<part, vars, marksVars, speakersVars, searchVars, sharingVars, ops>>
OpsOnly ==
  part = "ops" /\ UNCHANGED <<part, vars, marksVars, speakersVars, searchVars, sharingVars, modelsVars>>

MeetingsNext ==
  \/ PipelineOnly /\ Next
  \/ MarksOnly /\ MarksNext
  \/ SpeakersOnly /\ SpeakersNext
  \/ SearchOnly /\ SearchNext
  \/ SharingOnly /\ SharingNext
  \/ ModelsOnly /\ ModelsNext
  \/ OpsOnly /\ Ops!Next

MeetingsSpec == MeetingsInit /\ [][MeetingsNext]_allVars

\* Every operation on marks does what it means, once (AnnotationOps).
OpsMeanWhatTheySay == part = "ops" => Ops!OpsMeanWhatTheySay
=============================================================================
