--------------------------- MODULE GenerateScreen ---------------------------
(****************************************************************************)
(* The Generate screen: the specification being edited, the node its form    *)
(* shows, the text typed into boxes that address the document by pointer,    *)
(* and the preview that trails the editing.  Both documents (a waveform and  *)
(* a pulse train) are kept; "mode" says which one is edited.                 *)
(* What a preview draws is abstracted to whether it is of the document on    *)
(* screen.                                                                   *)
(****************************************************************************)
EXTENDS GenTree, FiniteSets

CONSTANTS Kinds,       \* node kinds the picker offers
          Values,      \* numbers a user types
          Variants,    \* variants the pickers of tagged objects offer
          Presets,     \* roots of the built-in presets
          MaxDepth, MaxKids, MaxFields, MaxDrafts, MaxErrors   \* bounds

Bad == 0                                   \* text no number can be read from

\* The tagged objects of a pulse train: a number of each variant.
Intervals == [fixed |-> "pri_s", stagger |-> "positions", jitter |-> "pri_s", drift |-> "pri_s"]
Shapes == [constant |-> "value", uniform |-> "lo", gaussian |-> "mean",
           ramp |-> "start", sequence |-> "values", scan |-> "mean"]
FieldObject(i) == <<"fields", Digits[i], "value">>
Default(variant) == [is |-> variant, val |-> 1]

VARIABLES mode, root, train,               \* the two documents and the one edited
          selected, drafts, errors,        \* node shown, text typed, text refused
          dirty, flight, shown             \* preview: stale, on its way, drawn

documents == <<root, train>>
boxes == <<selected, drafts, errors>>
preview == <<dirty, flight, shown>>
screenVars == <<mode, documents, boxes, preview>>

GenInit ==
  /\ mode = "waveform" /\ root = DefaultNode
  /\ train = [pri |-> Default("fixed"), fields |-> <<Default("gaussian")>>]
  /\ selected = ROOT /\ drafts = {} /\ errors = {}
  /\ dirty = TRUE /\ flight = "none" /\ shown = "none"

-----------------------------------------------------------------------------
\* A preview of what is no longer on screen.  The code keeps no such mark.
Outdated(p) == IF p = "current" THEN "old" ELSE p

\* touch: the document changed, so the preview is stale.
Touch == /\ dirty' = TRUE
         /\ flight' = Outdated(flight) /\ shown' = Outdated(shown)

Undrafted(p) == {d \in drafts : d.at # p}

\* Picking the other mode throws away what was typed and what was drawn.
ModePicked(m) ==
  /\ m # mode /\ mode' = m /\ drafts' = {} /\ errors' = {}
  /\ dirty' = TRUE /\ flight' = Outdated(flight) /\ shown' = "none"
  /\ UNCHANGED <<documents, selected>>

\* A preset replaces the waveform whatever the mode is, and resets the form.
Loaded(preset) ==
  /\ root' = preset /\ selected' = ROOT /\ drafts' = {} /\ errors' = {}
  /\ Touch
  /\ UNCHANGED <<mode, train>>

AddField ==
  /\ mode = "train" /\ Len(train.fields) < MaxFields
  /\ train' = [train EXCEPT !.fields = Append(@, Default("constant"))] /\ drafts' = {}
  /\ Touch
  /\ UNCHANGED <<mode, root, selected, errors>>

RemoveField ==
  /\ mode = "train"
  /\ \E i \in DOMAIN train.fields : train' = [train EXCEPT !.fields = RemoveAt(@, i)]
  /\ drafts' = {} /\ errors' = {}
  /\ Touch
  /\ UNCHANGED <<mode, root, selected>>

-----------------------------------------------------------------------------
SelectNode ==
  /\ mode = "waveform" /\ \E p \in Outline(root) : selected' = p
  /\ UNCHANGED <<mode, documents, drafts, errors, preview>>

DepthOf(p) == IF p = ROOT THEN 0
              ELSE 1 + Cardinality({q \in Outline(root) : q # p /\ q # ROOT /\ IsPrefix(q, p)})

Edited == /\ mode = "waveform" /\ Touch
          /\ UNCHANGED <<mode, train>>

NodeKindPicked(kind) ==
  /\ \E n \in NodeAt(root, selected) : n.kind # kind
  /\ KindDefault(kind).kids = <<>> \/ DepthOf(selected) < MaxDepth
  /\ root' \in Replace(root, selected, KindDefault(kind))
  /\ drafts' = {} /\ errors' = {} /\ Edited /\ UNCHANGED selected

AddNode ==
  /\ \E n \in NodeAt(root, selected) : Len(n.kids) < MaxKids
  /\ \E added \in AddChild(root, selected) : root' = added.root /\ selected' = added.at
  /\ Edited /\ UNCHANGED <<drafts, errors>>

RemoveNode ==
  /\ \E left \in RemoveChild(root, selected) : root' = left.root /\ selected' = left.at
  /\ drafts' = {} /\ Edited /\ UNCHANGED errors

MoveNode(delta) ==
  /\ \E moved \in MoveChild(root, selected, delta) : root' = moved.root /\ selected' = moved.at
  /\ drafts' = {} /\ Edited /\ UNCHANGED errors

-----------------------------------------------------------------------------
\* The boxes on screen, and what the document holds at each.
PriBox == <<"pri", Intervals[train.pri.is]>>
FieldBox(i) == FieldObject(i) \o <<Shapes[train.fields[i].is]>>
Boxes == IF mode = "train" THEN {PriBox} \cup {FieldBox(i) : i \in DOMAIN train.fields}
         ELSE NodeParameters(root, selected)

Addresses == IF mode = "train" THEN Boxes ELSE Parameters(root)

ValueAt(p) ==
  CASE p = PriBox     -> train.pri.val
    [] mode = "train" -> train.fields[CHOOSE i \in DOMAIN train.fields : FieldBox(i) = p].val
    [] OTHER          -> GetJson(root, p)

\* set_json at a box, and adopt what comes of it.
Adopted(p, v) ==
  /\ root' = IF mode = "waveform" THEN SetJson(root, p, v) ELSE root
  /\ train' = CASE mode = "waveform" -> train
                [] p = PriBox        -> [train EXCEPT !.pri.val = v]
                [] OTHER             ->
                     [train EXCEPT !.fields =
                        [i \in DOMAIN @ |-> IF FieldBox(i) = p THEN [@[i] EXCEPT !.val = v] ELSE @[i]]]

\* apply_field: the text is kept as it was typed; a number reaches the document.
FieldEdited(p, text) ==
  /\ p \in Boxes /\ Cardinality(Undrafted(p)) < MaxDrafts
  /\ text = Bad => Cardinality(errors \cup {p}) <= MaxErrors
  /\ drafts' = Undrafted(p) \cup {[at |-> p, text |-> text, home |-> TRUE]}
  /\ errors' = IF text = Bad THEN errors \cup {p} ELSE errors \ {p}
  /\ IF text = Bad THEN UNCHANGED <<documents, preview>>
     ELSE Adopted(p, text) /\ Touch
  /\ UNCHANGED <<mode, selected>>

\* The object a tag belongs to is replaced whole by its variant's default, under the
\* drafts of its boxes: they stay, and are no longer of what the document holds.  The
\* code keeps no mark of that; "home" is one.
Replaced(object) ==
  /\ drafts' = {[d EXCEPT !.home = @ /\ ~IsPrefix(object, d.at)] : d \in drafts}
  /\ errors' = errors \ {object}
  /\ Touch /\ UNCHANGED <<mode, selected>>

PriVariant(v) ==
  /\ mode = "train" /\ v \in DOMAIN Intervals
  /\ train' = [train EXCEPT !.pri = Default(v)]
  /\ Replaced(<<"pri">>) /\ UNCHANGED root

FieldVariant(i, v) ==
  /\ mode = "train" /\ v \in DOMAIN Shapes
  /\ train' = [train EXCEPT !.fields[i] = Default(v)]
  /\ Replaced(FieldObject(i)) /\ UNCHANGED root

NodeVariant(v) ==
  /\ mode = "waveform"
  /\ \E n \in {m \in NodeAt(root, selected) : m.kind \in DOMAIN Tagged} :
       /\ v \in DOMAIN Tagged[n.kind].variants
       /\ root' = Write(root, selected, AsVariant(n, v))
       /\ Replaced(Append(selected, Tagged[n.kind].at))
  /\ UNCHANGED train

VariantPicked(v) == \/ PriVariant(v)
                    \/ \E i \in DOMAIN train.fields : FieldVariant(i, v)
                    \/ NodeVariant(v)

-----------------------------------------------------------------------------
\* One preview at a time, of the document as it is when the wait is over.
PreviewTick ==
  /\ dirty /\ flight = "none"
  /\ dirty' = FALSE /\ flight' = "current" /\ UNCHANGED shown
  /\ UNCHANGED <<mode, documents, boxes>>

Previewed ==
  /\ flight # "none" /\ flight' = "none" /\ shown' = flight /\ UNCHANGED dirty
  /\ UNCHANGED <<mode, documents, boxes>>

Editing == \/ \E m \in {"waveform", "train"} : ModePicked(m)
           \/ \E preset \in Presets : Loaded(preset)
           \/ AddField \/ RemoveField \/ SelectNode \/ AddNode \/ RemoveNode
           \/ \E kind \in Kinds : NodeKindPicked(kind)
           \/ \E delta \in {-1, 1} : MoveNode(delta)
           \/ \E p \in Boxes, text \in Values \cup {Bad} : FieldEdited(p, text)
           \/ \E v \in Variants : VariantPicked(v)

GenNext == Editing \/ PreviewTick \/ Previewed

GenSpec == GenInit /\ [][GenNext]_screenVars
-----------------------------------------------------------------------------
\* The types of the screen's state: what is selected in the waveform is a node of
\* it, and the text of a box that could not be read is kept with its error.
GenTypeOK ==
  /\ mode \in {"waveform", "train"}
  /\ \A d \in drafts : d.text = Bad => d.at \in errors
  /\ NodeAt(root, selected) # {}
  /\ {flight, shown} \subseteq {"none", "current", "old"}

\* A box shows what the document holds where it points, or text that could not be
\* read: nothing typed for one node is shown, later, for another (State::drafts, kept
\* by position while nodes are moved and removed).  It says nothing of a box whose
\* tagged object was replaced since it was typed in: picking a variant keeps the
\* drafts, so that box shows what was typed while the document holds the default.
DraftsStayHome ==
  \A d \in drafts : d.home /\ d.text # Bad => d.at \in Addresses /\ ValueAt(d.at) = d.text

\* Once the preview has settled it is of the document on screen, however editing,
\* mode changes and late answers were interleaved (State::dirty_since, previewing).
PreviewIsCurrent == ~dirty /\ flight = "none" => shown = "current"

\* Every pointer the outline gives addresses a node, leads back to the node above
\* it, and no combinator is ever left empty (tree.rs).
TreeIsSound ==
  \A p \in Outline(root) :
    \E n \in NodeAt(root, p) :
      /\ n.kind \in Combinators => n.kids # <<>>
      /\ \A i \in DOMAIN n.kids :
           /\ ParentPointer(p \o Slots(n)[i]) = {p}
           /\ n.kind \in Combinators =>
                SlotInParent(p \o Slots(n)[i]) = {[parent |-> p, index |-> i]}

RECURSIVE Leaves(_)
\* The primitives of a tree, each as often as it occurs.
Leaves(n) == IF n.kids = <<>> THEN <<n.val>>
             ELSE FlattenSeq([i \in DOMAIN n.kids |-> Leaves(n.kids[i])])

\* What a move leaves selected is the node that was moved, and the tree holds the
\* primitives it held (MoveNode over move_child's pointer).
MovesKeepTheNode ==
  \A delta \in {-1, 1} : \A moved \in MoveChild(root, selected, delta) :
    /\ NodeAt(moved.root, moved.at) = NodeAt(root, selected)
    /\ \A v \in Values : Len(SelectSeq(Leaves(moved.root), LAMBDA w : w = v))
                           = Len(SelectSeq(Leaves(root), LAMBDA w : w = v))

=============================================================================
