-------------------------- MODULE PropertiesScreen --------------------------
(* The Properties screen (crates/sp-app/src/screens/properties.rs): a form     *)
(* that declares a property, and the list of those declared.  A write goes to   *)
(* the store's writer thread and its answer comes back later; the list is read  *)
(* on the pool.                                                                *)
EXTENDS Integers, Sequences, FiniteSets

CONSTANTS Labels,      \* what may be typed as a label: [text, norm], norm being what normalise_key makes of it
          Keys,        \* what may be typed as a key: [text, snake]
          Choices,     \* what may be typed as choices: [blank, variants]
          KindNames,   \* the kinds picked
          Words,       \* the words tried as values
          Scopes,      \* the scopes picked
          MaxDeclared, \* bound: definitions there are
          MaxAsked     \* bound: writes and reads on their way

-----------------------------------------------------------------------------
(* What a definition accepts, and how a text becomes a value of its kind        *)
(* (crates/sp-core/src/props.rs).  A value is a JSON value, tagged with its     *)
(* JSON type; a text is one of the classes the parsers of numbers, truth values *)
(* and words tell apart.                                                       *)

\* PropKind, the bounds a kind may declare being {} or a singleton.
Kind(name, min, max, variants) == [name |-> name, min |-> min, max |-> max, variants |-> variants]

Numbers == {"float", "freq_hz", "duration_s", "ratio"}
Integral == {"int", "signal_ref"}

Null == [json |-> "null"]
Num(n) == [json |-> "number", n |-> n]          \* a finite f64, in halves
Whole(n) == [json |-> "integer", n |-> n]       \* an i64, in halves too
Truth(t) == [json |-> "bool", t |-> t]
Str(w) == [json |-> "string", w |-> w]

Refused == [json |-> "refused"]

\* check_range.
Within(v, min, max) == (\A m \in min : v >= m) /\ (\A m \in max : v <= m)

Floor(k) == IF k.name = "duration_s" \/ (k.name = "freq_hz" /\ k.min = {}) THEN {0} ELSE k.min

Numeric(value) == value.json \in {"number", "integer"}

Valid(def, value) ==
  IF value = Null THEN ~def.required
  ELSE CASE def.kind.name = "ratio"   -> Numeric(value)
         [] def.kind.name \in Numbers \ {"ratio"} -> Numeric(value) /\ Within(value.n, Floor(def.kind), def.kind.max)
         [] def.kind.name = "int"     -> value.json = "integer" /\ Within(value.n, def.kind.min, def.kind.max)
         [] def.kind.name = "signal_ref" -> value.json = "integer"
         [] def.kind.name = "bool"    -> value.json = "bool"
         [] def.kind.name = "enum"    -> value.json = "string" /\ value.w \in def.kind.variants
         [] OTHER                     -> value.json = "string"

\* A text, once trimmed: empty, a whole number, a fraction, one of the texts a
\* float parser reads as no finite number, a truth value written as a word, or
\* another word.
Empty == [is |-> "empty"]
Texts(words) == {Empty, [is |-> "nonfinite"]}
                \cup {[is |-> "whole", n |-> n] : n \in {-2, 0, 2, 4}}
                \cup {[is |-> "fraction", n |-> n] : n \in {-1, 1}}
                \cup {[is |-> "truth", t |-> b] : b \in BOOLEAN}
                \cup {[is |-> "word", w |-> w] : w \in words}

\* serde_json writes a number that is not finite as null.
AsNumber(raw) == CASE raw.is \in {"whole", "fraction"} -> Num(raw.n)
                   [] raw.is = "nonfinite" -> Null
                   [] OTHER -> Refused

AsTruth(raw) == CASE raw.is = "truth" -> Truth(raw.t)
                  [] raw.is = "whole" /\ raw.n \in {0, 2} -> Truth(raw.n = 2)
                  [] OTHER -> Refused

\* The words a text stands for; a number is a word too.
AsString(raw) == IF raw.is = "word" THEN Str(raw.w) ELSE Str(raw.is)

Read(def, raw) ==
  CASE def.kind.name \in Numbers  -> AsNumber(raw)
    [] def.kind.name \in Integral -> IF raw.is = "whole" THEN Whole(raw.n) ELSE Refused
    [] def.kind.name = "bool"     -> AsTruth(raw)
    [] OTHER                      -> AsString(raw)

Accepted(def, value) == IF value # Refused /\ Valid(def, value) THEN value ELSE Refused

Parse(def, raw) == Accepted(def, IF raw = Empty THEN def.default ELSE Read(def, raw))

Broken(defs, row) == {d \in defs : IF d.key \in DOMAIN row THEN ~Valid(d, row[d.key])
                                   ELSE d.required /\ d.default = Null}

\* Attributes::unrecognised.
Unrecognised(defs, row) == DOMAIN row \ {d.key : d \in defs}

-----------------------------------------------------------------------------
VARIABLES declared,    \* property_def
          form, busy, listed, error, notice,
          writes,      \* what the writer has been asked, in order
          answers      \* what it and the readers have answered, in any order

propVars == <<declared, form, busy, listed, error, notice, writes, answers>>

Blank == CHOOSE l \in Labels : l.text = ""
NoKey == CHOOSE k \in Keys : k.text = ""
NoChoice == CHOOSE c \in Choices : c.blank

FormDefault == [key |-> NoKey, label |-> Blank, scope |-> "signal", kind |-> "float", variants |-> NoChoice, required |-> FALSE]

\* KindChoice::to_kind.
ToKind(f) == Kind(f.kind, {}, {}, IF f.kind = "enum" THEN f.variants.variants ELSE {})

KeyOf(f) == IF f.key.text = "" THEN f.label.norm ELSE f.key.text

Complete(f) == KeyOf(f) # "" /\ (f.kind = "enum" => ~f.variants.blank)

ToDef(f) == [key |-> KeyOf(f), scope |-> f.scope, kind |-> ToKind(f), required |-> f.required, default |-> Null,
             snake |-> f.key.text = "" \/ f.key.snake]

Room == Len(writes) + Cardinality(answers) < MaxAsked

PropInit == /\ declared = {} /\ form = FormDefault /\ busy = FALSE /\ listed = {}
            /\ error = FALSE /\ notice = FALSE /\ writes = <<>> /\ answers = {}

\* The form's fields.
Edit(f) == form' = f /\ f # form /\ UNCHANGED <<declared, busy, listed, error, notice, writes, answers>>
KeyChanged(k)      == Edit([form EXCEPT !.key = k])
LabelChanged(l)    == Edit([form EXCEPT !.label = l])
VariantsChanged(c) == form.kind = "enum" /\ Edit([form EXCEPT !.variants = c])
ScopePicked(s)     == Edit([form EXCEPT !.scope = s])
KindPicked(k)      == Edit([form EXCEPT !.kind = k])
RequiredToggled    == Edit([form EXCEPT !.required = ~@])

\* Message::Submit, which the button sends while nothing is being saved and the
\* palette's command sends at any time.
Submit ==
  \/ /\ ~Complete(form) /\ error' = TRUE
     /\ UNCHANGED <<declared, form, busy, listed, notice, writes, answers>>
  \/ /\ Complete(form) /\ Room /\ Cardinality(declared) < MaxDeclared
     /\ busy' = TRUE /\ error' = FALSE
     /\ writes' = Append(writes, [do |-> "insert", def |-> ToDef(form)])
     /\ UNCHANGED <<declared, form, listed, notice, answers>>

Delete(d) == /\ d \in listed /\ Room
             /\ writes' = Append(writes, [do |-> "delete", def |-> d])
             /\ UNCHANGED <<declared, form, busy, listed, error, notice, answers>>

Same(d, e) == d.key = e.key /\ d.scope = e.scope

Insertable(d) == d.snake /\ ~\E e \in declared : Same(d, e)

\* delete_property_def answers the same whether or not the row was there.
Write ==
  /\ writes # <<>> /\ writes' = Tail(writes)
  /\ LET w  == Head(writes)
         ok == w.do = "insert" => Insertable(w.def)
     IN  /\ declared' = CASE w.do = "delete" -> {e \in declared : ~Same(e, w.def)}
                          [] w.do = "insert" /\ ok -> declared \cup {w.def}
                          [] OTHER -> declared
         /\ answers' = answers \cup {[kind |-> w.do, ok |-> ok, key |-> w.def.key]}
  /\ UNCHANGED <<form, busy, listed, error, notice>>

\* list_property_defs, read at once; its answer may take its time.
Listing == [kind |-> "list", ok |-> TRUE, defs |-> declared]

Reset(a) == IF a.ok THEN FormDefault ELSE form

Settled(a) == FALSE

\* Message::Saved.
Saved(a) ==
  /\ a \in answers /\ a.kind = "insert"
  /\ busy' = Settled(a) /\ form' = Reset(a)
  /\ notice' = (a.ok \/ notice) /\ error' = (~a.ok \/ error)
  /\ answers' = (answers \ {a}) \cup (IF a.ok THEN {Listing} ELSE {})
  /\ UNCHANGED <<declared, listed, writes>>

\* Message::Deleted.
Deleted(a) == /\ a \in answers /\ a.kind = "delete" /\ notice' = TRUE
              /\ answers' = (answers \ {a}) \cup {Listing}
              /\ UNCHANGED <<declared, form, busy, listed, error, writes>>

\* Message::Loaded.
Loaded(a) == /\ a \in answers /\ a.kind = "list" /\ listed' = a.defs /\ error' = FALSE
             /\ answers' = answers \ {a}
             /\ UNCHANGED <<declared, form, busy, notice, writes>>

PropNext ==
  \/ \E k \in Keys : KeyChanged(k)
  \/ \E l \in Labels : LabelChanged(l)
  \/ \E c \in Choices : VariantsChanged(c)
  \/ \E s \in Scopes : ScopePicked(s)
  \/ \E k \in KindNames : KindPicked(k)
  \/ RequiredToggled \/ Submit \/ Write
  \/ \E d \in listed : Delete(d)
  \/ \E a \in answers : Saved(a) \/ Deleted(a) \/ Loaded(a)

----------------------------------------------------------------------------
\* No two definitions of a scope share a key, and every key can be a column of
\* the search table: snake_case and not empty (sp-store props.rs
\* insert_property_def; properties.rs to_def).
KeysAreSound == /\ \A d, e \in declared : Same(d, e) => d = e
                /\ \A d \in declared : d.snake /\ d.key # ""

\* The form says it is saving only while a save is under way, however its answer
\* turns out and however often it was asked for (properties.rs Submit, Saved).
BusyIsOwed == busy => \/ \E a \in answers : a.kind = "insert"
                      \/ \E i \in DOMAIN writes : writes[i].do = "insert"

\* A save that was refused leaves the form as it is, to be corrected
\* (properties.rs Saved).
RefusedKeepsForm == \A a \in answers : ~a.ok /\ Saved(a) => form' = form

TypeOf(def) == CASE def.kind.name \in Numbers  -> {"number", "null"}
                 [] def.kind.name \in Integral -> {"integer"}
                 [] def.kind.name = "bool"     -> {"bool"}
                 [] OTHER                      -> {"string"}
Negative(value) == Numeric(value) /\ value.n < 0

\* What a text is read as is a value of the kind the definition declares, in its
\* range, whatever was typed and whatever the default (props.rs parse).
ParsedIsOfItsKind ==
  \A def \in declared : \A raw \in Texts(Words) :
    LET value == Parse(def, raw)
    IN  /\ value = Null => ~def.required
        /\ value # Refused /\ raw # Empty =>
             /\ value.json \in TypeOf(def)
             /\ def.kind.name \in {"freq_hz", "duration_s"} => ~Negative(value)
             /\ def.kind.name = "enum" => value.w \in def.kind.variants

\* A row made of texts that were all accepted breaks no definition, and a row
\* that leaves a required property out breaks that one (props.rs validate).
RowsOfParsedAreValid ==
  \A def \in declared : \A raw \in Texts(Words) :
    LET value == Parse(def, raw)
        row   == [k \in {def.key} |-> value]
    IN  /\ value # Refused => Broken({def}, row) = {} /\ Unrecognised({def}, row) = {}
        /\ def.required => Broken({def}, <<>>) = {def}

=============================================================================
