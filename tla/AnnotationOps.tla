---------------------------- MODULE AnnotationOps ----------------------------
(***************************************************************************)
(* The operations on a meeting's marks: a batch is worked out in memory    *)
(* against the current document, and either every operation of it applies  *)
(* or none. Labels are compared as the code folds them. Left out: the      *)
(* document's limits, who made a mark and when, and the checks of member   *)
(* names, ranges and palettes that refuse a batch before anything happens. *)
(***************************************************************************)
EXTENDS Naturals, Sequences, FiniteSets, SequencesExt, FiniteSetsExt

CONSTANTS
  TagId,       \* ids a caller may name, in their order
  Label, Target, Color,
  MaxBatches   \* bound: batches applied

Minted == 10..13             \* ids made up for tags a mark by label defines
None == 0                    \* ids, labels, targets, colors and titles are positive

VARIABLES
  doc,      \* tags in the document's order; items; the title
  batches,  \* applied so far; also the operation id of the next one
  keepsStyle  \* history: tags that were there changed only by a restyle

vars == <<doc, batches, keepsStyle>>

EmptyDoc == [tags |-> << >>, items |-> {}, title |-> None]

-----------------------------------------------------------------------------
(* The operations. Each answers the new document, or Refused.              *)

Refused == [EmptyDoc EXCEPT !.title = 99]

Ids(d) == {d.tags[i].id : i \in DOMAIN d.tags}
TagOf(d, id) == CHOOSE t \in ToSet(d.tags) : t.id = id

\* By id, and only without one by label: the first that has it.
findAnnotationTag(d, id, label) ==
  LET named == SelectSeq(d.tags, LAMBDA t : IF id # None THEN t.id = id ELSE t.label = label)
  IN IF named = << >> THEN None ELSE Head(named).id

NewAnnotationTagID(d) == Min(Minted \ Ids(d))
Define(d, id, label) ==
  [d EXCEPT !.tags = Append(@, [id |-> id, label |-> label, color |-> None])]

\* Mutant of AddItem: the same mark once more.
AddItemAgain(d, tag, target, operation) ==
  [d EXCEPT !.items = @ \cup {[tag |-> tag, target |-> target, operation |-> operation]}]

AddItem(d, tag, target, operation) ==
  IF \E i \in d.items : i.tag = tag /\ i.target = target THEN d
  ELSE [d EXCEPT !.items = @ \cup {[tag |-> tag, target |-> target, operation |-> operation]}]

applyMarkOp(d, op, operation) ==
  LET found == findAnnotationTag(d, op.tag, op.label)
      id == IF op.tag = None THEN NewAnnotationTagID(d) ELSE op.tag
  IN CASE found # None -> AddItem(d, found, op.target, operation)
       [] found = None /\ op.label = None -> Refused
       [] OTHER -> AddItem(Define(d, id, op.label), id, op.target, operation)

removeAnnotationItems(d, items) == [d EXCEPT !.items = @ \ items]
applyUnmarkOp(d, op) == removeAnnotationItems(d, {i \in d.items : i = op.item})
applyUnmarkTagOp(d, op) ==
  removeAnnotationItems(d, {i \in d.items : i.tag = op.tag /\ op.target \in {None, i.target}})
applyUndoOperationOp(d, op) == removeAnnotationItems(d, {i \in d.items : i.operation = op.operation})

Taken(d, label, id) == \E t \in ToSet(d.tags) : t.id # id /\ t.label = label
SetTag(d, id, t) ==
  [d EXCEPT !.tags = [i \in DOMAIN d.tags |-> IF d.tags[i].id = id THEN t ELSE d.tags[i]]]

applyRelabelOp(d, op) ==
  CASE op.tag \notin Ids(d) -> d
    [] op.tag \in Ids(d) /\ Taken(d, op.label, op.tag) -> Refused
    [] OTHER -> SetTag(d, op.tag, [TagOf(d, op.tag) EXCEPT !.label = op.label])

applyRestyleOp(d, op) ==
  IF op.tag \in Ids(d) THEN SetTag(d, op.tag, [TagOf(d, op.tag) EXCEPT !.color = op.color]) ELSE d

\* A mark the other tag already has is dropped.
MoveItems(d, from, into) ==
  LET covered == {i.target : i \in {j \in d.items : j.tag = into}}
      moving == {i \in d.items : i.tag = from}
  IN [d EXCEPT !.items = (@ \ moving) \cup
        {[i EXCEPT !.tag = into] : i \in {j \in moving : j.target \notin covered}}]

applyMergeTagOp(d, op) ==
  CASE op.tag \notin Ids(d) -> d
    [] op.tag \in Ids(d) /\ op.into \in Ids(d) -> MoveItems(d, op.tag, op.into)
    [] op.tag \in Ids(d) /\ op.into \notin Ids(d) /\ Taken(d, op.label, op.tag) -> Refused
    [] OTHER -> MoveItems(Define(d, op.into, op.label), op.tag, op.into)

applySetTitleOp(d, op) == [d EXCEPT !.title = op.title]

Apply(d, op, operation) ==
  CASE op.op = "mark" -> applyMarkOp(d, op, operation)
    [] op.op = "unmark" -> applyUnmarkOp(d, op)
    [] op.op = "unmark-tag" -> applyUnmarkTagOp(d, op)
    [] op.op = "undo-operation" -> applyUndoOperationOp(d, op)
    [] op.op = "relabel" -> applyRelabelOp(d, op)
    [] op.op = "merge-tag" -> applyMergeTagOp(d, op)
    [] op.op = "restyle" -> applyRestyleOp(d, op)
    [] op.op = "set-title" -> applySetTitleOp(d, op)

-----------------------------------------------------------------------------
(* A batch.                                                                *)

dropUnusedAnnotationTags(d) ==
  [d EXCEPT !.tags = SelectSeq(@, LAMBDA t : \E i \in d.items : i.tag = t.id)]

\* Tags by label, then id; a set has an order of its own.
Before(s, t) == s.label < t.label \/ (s.label = t.label /\ s.id < t.id)
Canonicalize(d) == [d EXCEPT !.tags = SetToSortSeq(ToSet(@), Before)]

\* The installation's appearance of a tag this document did not define, and the
\* caller's for a label that is new in it.
Recolor(d, ids, Colors(_)) ==
  [d EXCEPT !.tags = [i \in DOMAIN d.tags |->
     IF d.tags[i].id \in ids /\ Colors(d.tags[i]) # None
     THEN [d.tags[i] EXCEPT !.color = Colors(d.tags[i])] ELSE d.tags[i]]]
Initialize(d, known, initial) == Recolor(d, Ids(d) \ known, LAMBDA t : initial[t.id])
StyleNew(d, known, batch) ==
  Recolor(d, {id \in Ids(d) \ known : batch.initial[id] = None}, LAMBDA t : batch.style[t.label])

\* Each definition is initialized once, by the first operation after which it is there.
Step(acc, op, batch, operation) ==
  LET next == Apply(acc.doc, op, operation)
  IN IF acc.doc = Refused \/ next = Refused THEN [acc EXCEPT !.doc = Refused]
     ELSE [doc |-> Initialize(next, acc.known, batch.initial), known |-> acc.known \cup Ids(next)]

ApplyBatch(d, batch, operation) ==
  LET done == FoldLeft(LAMBDA acc, op : Step(acc, op, batch, operation),
                       [doc |-> d, known |-> Ids(d)], batch.ops).doc
  IN IF done = Refused THEN Refused
     ELSE Canonicalize(dropUnusedAnnotationTags(StyleNew(done, Ids(d), batch)))

-----------------------------------------------------------------------------
(* Callers.                                                                *)

MarkOp ==
  {o \in [op : {"mark"}, tag : TagId \cup {None}, label : Label \cup {None}, target : Target] :
     o.tag # None \/ o.label # None}
Known == TagId \cup {10}
TagOp ==
  [op : {"unmark-tag"}, tag : Known, target : Target \cup {None}]
    \cup [op : {"relabel"}, tag : Known, label : Label]
    \cup {o \in [op : {"merge-tag"}, tag : Known, into : Known, label : Label] : o.tag # o.into}
    \cup [op : {"restyle"}, tag : Known, color : Color]
OtherOp(d) ==
  [op : {"unmark"}, item : d.items] \cup [op : {"undo-operation"}, operation : 0..MaxBatches]
    \cup [op : {"set-title"}, title : {None, 1}]
Op(d) == MarkOp \cup TagOp \cup OtherOp(d)

NoStyle == [l \in Label |-> None]
NoInitial == [t \in TagId \cup Minted |-> None]
Plain(ops) == [ops |-> ops, style |-> NoStyle, initial |-> NoInitial]
Styled(ops, color) == [ops |-> ops, style |-> [l \in Label |-> color], initial |-> NoInitial]
Inherited(ops, color) == [ops |-> ops, style |-> NoStyle, initial |-> [t \in TagId \cup Minted |-> color]]

Init == doc = EmptyDoc /\ batches = 0 /\ keepsStyle = TRUE

MutateBatch(batch) ==
  LET after == ApplyBatch(doc, batch, batches) IN
  /\ batches < MaxBatches /\ after # Refused /\ after # doc
  /\ doc' = after /\ batches' = batches + 1
  /\ keepsStyle' = \A id \in Ids(doc) \cap Ids(after) :
       \/ TagOf(after, id).color = TagOf(doc, id).color
       \/ \E op \in ToSet(batch.ops) : op.op = "restyle" /\ op.tag = id

One == \E o \in Op(doc) : MutateBatch(Plain(<<o>>))
Two == \E o \in MarkOp, p \in MarkOp \cup TagOp : MutateBatch(Plain(<<o, p>>))
WithStyles == \E o \in MarkOp, p \in TagOp, color \in Color :
  MutateBatch(Styled(<<o, p>>, color)) \/ MutateBatch(Inherited(<<p, o>>, color))

Next == One \/ Two \/ WithStyles
Spec == Init /\ [][Next]_vars

-----------------------------------------------------------------------------
(* What the operations mean: which tags are on which targets.              *)

Marks(d) == {<<i.tag, i.target>> : i \in d.items}

Meaning(d, op) ==
  LET m == Marks(d) IN
  CASE op.op = "mark" /\ op.tag \in Ids(d) -> m \cup {<<op.tag, op.target>>}
    [] op.op = "unmark-tag" -> {x \in m : ~(x[1] = op.tag /\ op.target \in {None, x[2]})}
    [] op.op = "merge-tag" -> {IF x[1] = op.tag THEN <<op.into, x[2]>> ELSE x : x \in m}
    [] op.op \in {"relabel", "restyle", "set-title"} -> m
    [] OTHER -> Marks(ApplyBatch(d, Plain(<<op>>), batches))

\* What a mark named: the tag with its id, or else one with its label.
Named(t, o) == IF o.tag = None THEN t.label = o.label ELSE t.id = o.tag

\* Every mark has a defined tag and no tag has none; no two marks say the same;
\* each operation does to the marks what it means; a retry of one, after an
\* answer that was lost, changes nothing; undoing a batch of marks leaves the
\* document as it was; and only a restyle changes a tag that was there.
OpsMeanWhatTheySay ==
  LET After(d, ops) == ApplyBatch(d, Plain(ops), batches) IN
  /\ Ids(doc) = {i.tag : i \in doc.items} /\ Cardinality(Ids(doc)) = Len(doc.tags)
  /\ Cardinality(Marks(doc)) = Cardinality(doc.items)
  /\ \A o \in Op(doc) :
       LET once == After(doc, <<o>>) IN
       once # Refused =>
         /\ Marks(once) = Meaning(doc, o)
         /\ After(once, <<o>>) = once
         /\ o.op = "mark" =>
              /\ \E i \in once.items : i.target = o.target /\ Named(TagOf(once, i.tag), o)
              /\ After(once, <<[op |-> "undo-operation", operation |-> batches]>>) = doc
  /\ keepsStyle
==============================================================================
