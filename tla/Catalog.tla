------------------------------ MODULE Catalog ------------------------------
(****************************************************************************)
(* The rows of a library: datasets hold trains, trains hold groups, groups    *)
(* hold signals or the fields of pulses, and the rows count the blobs they    *)
(* use.  A deletion cascades and then gives back what the rows below counted. *)
(* The attributes of a signal are mirrored in a table of their own, which     *)
(* the queries read; the edit of one signal is several statements of the      *)
(* writer with nothing around them.                                           *)
(****************************************************************************)
EXTENDS Integers, Sequences, FiniteSets

CONSTANTS Contents,     \* what a column may hold: the address of its blob
          Values,       \* [Contents -> sequences of numbers]: the samples
          Pulses,       \* pulse groups to insert: [toa, fields: sequence of [key, content]]
          Attributes,   \* what a signal may carry: functions from some keys to [kind, of]
          Tags,
          MaxOf         \* bound: rows of each table

\* What a pulse group holds is contents of columns.
CatalogAssumption ==
  \A p \in Pulses :
    /\ p.toa \in Contents /\ Len(p.fields) \in Nat /\ DOMAIN p.fields = 1 .. Len(p.fields)
    /\ \A i \in DOMAIN p.fields : p.fields[i].content \in Contents

NaN == 99
NoEdit == [id |-> 0]

VARIABLES datasets, trains, groups, signals, fields, count, tags, tagged, mirror, edit

rows == <<datasets, trains, groups, signals, fields, count>>
catalogVars == <<rows, tags, tagged, mirror, edit>>

IdsOf(S) == {r.id : r \in S}
\* INTEGER PRIMARY KEY: one above the largest there is.
NextId(S) == IF S = {} THEN 1 ELSE 1 + CHOOSE i \in IdsOf(S) : \A j \in IdsOf(S) : j <= i
Room(S, table) == NextId(S) <= MaxOf[table]
Named(S, i) == CHOOSE r \in S : r.id = i

\* The single writer runs one job at a time.
AtRest == edit = NoEdit

-----------------------------------------------------------------------------
InsertDataset ==
  /\ AtRest /\ Room(datasets, "dataset")
  /\ datasets' = datasets \cup {[id |-> NextId(datasets)]}
  /\ UNCHANGED <<trains, groups, signals, fields, count, tags, tagged, mirror, edit>>

InsertTrain(d) ==
  /\ AtRest /\ d \in IdsOf(datasets) /\ Room(trains, "train")
  /\ trains' = trains \cup {[id |-> NextId(trains), dataset |-> d]}
  /\ UNCHANGED <<datasets, groups, signals, fields, count, tags, tagged, mirror, edit>>

InsertGroup(t) ==
  /\ AtRest /\ t \in IdsOf(trains) /\ Room(groups, "group")
  /\ groups' = groups \cup {[id |-> NextId(groups), train |-> t, toa |-> {}]}
  /\ UNCHANGED <<datasets, trains, signals, fields, count, tags, tagged, mirror, edit>>

\* mirror_columns: a null has no row, a flag is a number, anything else is text.
MirrorOf(v) == CASE v.kind = "null" -> {}
                 [] v.kind \in {"bool", "number"} -> {[num |-> {v.of}, txt |-> {}]}
                 [] OTHER -> {[num |-> {}, txt |-> {v.of}]}

MirrorRows(s, attributes) ==
  UNION {{[signal |-> s, key |-> k, at |-> m] : m \in MirrorOf(attributes[k])} : k \in DOMAIN attributes}

Cleared(s) == {m \in mirror : m.signal # s}

InsertSignal(g, c, attributes) ==
  /\ AtRest /\ g \in groups /\ g.toa = {} /\ Room(signals, "signal")
  /\ LET s == NextId(signals)
     IN  /\ signals' = signals \cup {[id |-> s, group |-> g.id, blob |-> c, attributes |-> attributes]}
         /\ mirror' = Cleared(s) \cup MirrorRows(s, attributes)
  /\ count' = [count EXCEPT ![c] = @ + 1]
  /\ UNCHANGED <<datasets, trains, groups, fields, tags, tagged, edit>>

\* How often columns of a bag of contents, here a set of <<who, content>>, use c.
Uses(columns, c) == Cardinality({u \in columns : u[2] = c})

\* min_value and max_value are those of the finite values, null without any.
Finite(c) == {Values[c][i] : i \in DOMAIN Values[c]} \ {NaN}
Least(S) == {m \in S : \A n \in S : m <= n}
Greatest(S) == {m \in S : \A n \in S : m >= n}

InsertPulses(t, p) ==
  /\ AtRest /\ t \in IdsOf(trains) /\ Room(groups, "group")
  /\ LET g == NextId(groups)
         columns == {<<0, p.toa>>} \cup {<<i, p.fields[i].content>> : i \in DOMAIN p.fields}
     IN  /\ groups' = groups \cup {[id |-> g, train |-> t, toa |-> {p.toa}]}
         /\ fields' = fields \cup
              {[group |-> g, ordinal |-> i, key |-> p.fields[i].key, blob |-> p.fields[i].content,
                min |-> Least(Finite(p.fields[i].content)),
                max |-> Greatest(Finite(p.fields[i].content))] : i \in DOMAIN p.fields}
         /\ count' = [c \in Contents |-> count[c] + Uses(columns, c)]
  /\ UNCHANGED <<datasets, trains, signals, tags, tagged, mirror, edit>>

-----------------------------------------------------------------------------
SignalsUnder(gs) == {s \in signals : s.group \in gs}
FieldsUnder(gs) == {f \in fields : f.group \in gs}

BlobsUnder(gs) ==
  {<<"signal", s.id, s.blob>> : s \in {x \in signals : x.group \in gs}}
  \cup (UNION {{<<"toa", g.id, b>> : b \in g.toa} : g \in {x \in groups : x.id \in gs}})
  \cup {<<"field", f.ordinal, f.group, f.blob>> : f \in FieldsUnder(gs)}

Released(blobs) ==
  count' = [c \in Contents |-> count[c] - Cardinality({b \in blobs : b[Len(b)] = c})]

DropSignals(gone) ==
  /\ signals' = signals \ gone
  /\ tagged' = {p \in tagged : p[1] \notin IdsOf(gone)}
  /\ mirror' = {m \in mirror : m.signal \notin IdsOf(gone)}

DropGroups(gs) ==
  /\ groups' = {g \in groups : g.id \notin gs}
  /\ fields' = fields \ FieldsUnder(gs)
  /\ DropSignals(SignalsUnder(gs))
  /\ Released(BlobsUnder(gs))

DeleteTrain(t) ==
  /\ AtRest /\ t \in IdsOf(trains)
  /\ trains' = {r \in trains : r.id # t}
  /\ DropGroups({g.id : g \in {x \in groups : x.train = t}})
  /\ UNCHANGED <<datasets, tags, edit>>

DeleteDataset(d) ==
  /\ AtRest /\ d \in IdsOf(datasets)
  /\ datasets' = {r \in datasets : r.id # d}
  /\ trains' = {r \in trains : r.dataset # d}
  /\ DropGroups({g.id : g \in {x \in groups : Named(trains, x.train).dataset = d}})
  /\ UNCHANGED <<tags, edit>>

DeleteSignal(s) ==
  /\ AtRest /\ s \in signals
  /\ DropSignals({s})
  /\ count' = [count EXCEPT ![s.blob] = @ - 1]
  /\ UNCHANGED <<datasets, trains, groups, fields, tags, edit>>

-----------------------------------------------------------------------------
\* The tag row is made when it is missing; the second statement needs the signal.
TagSignal(s, t) ==
  /\ AtRest
  /\ tags' = tags \cup {t}
  /\ tagged' = IF s \in IdsOf(signals) THEN tagged \cup {<<s, t>>} ELSE tagged
  /\ UNCHANGED <<rows, mirror, edit>>

UntagSignal(s, t) ==
  /\ AtRest /\ tagged' = tagged \ {<<s, t>>} /\ UNCHANGED <<rows, tags, mirror, edit>>

DeleteTag(t) ==
  /\ AtRest /\ t \in tags
  /\ tags' = tags \ {t} /\ tagged' = {p \in tagged : p[2] # t}
  /\ UNCHANGED <<rows, mirror, edit>>

\* update_signal_attributes: the row, the old mirror, then the new rows one by one.
UpdateAttributes(s, attributes) ==
  /\ AtRest /\ s \in signals
  /\ signals' = (signals \ {s}) \cup {[s EXCEPT !.attributes = attributes]}
  /\ edit' = [id |-> s.id, cleared |-> FALSE, left |-> MirrorRows(s.id, attributes)]
  /\ UNCHANGED <<datasets, trains, groups, fields, count, tags, tagged, mirror>>

ClearMirror ==
  /\ ~AtRest /\ ~edit.cleared
  /\ mirror' = Cleared(edit.id)
  /\ edit' = IF edit.left = {} THEN NoEdit ELSE [edit EXCEPT !.cleared = TRUE]
  /\ UNCHANGED <<rows, tags, tagged>>

FillMirror(m) ==
  /\ ~AtRest /\ edit.cleared /\ m \in edit.left
  /\ mirror' = mirror \cup {m}
  /\ edit' = IF edit.left = {m} THEN NoEdit ELSE [edit EXCEPT !.left = @ \ {m}]
  /\ UNCHANGED <<rows, tags, tagged>>

-----------------------------------------------------------------------------

Found(key, query) ==
  {m.signal : m \in {x \in mirror : x.key = key /\
    CASE query.kind = "between" -> \E v \in x.at.num : v >= query.min /\ v <= query.max
      [] query.kind = "equals"  -> query.of \in x.at.txt
      [] OTHER -> TRUE}}

WithAllTags(list) ==
  LET named == {list[i] : i \in DOMAIN list}
      Has(s) == Cardinality({t \in named : <<s, t>> \in tagged})
  IN  IF list = <<>> THEN {}
      ELSE {s \in {p[1] : p \in tagged} : Has(s) >= 1 /\ Has(s) = Len(list)}

TagCount(t) == Cardinality({p \in tagged : p[2] = t})

\* search: by zone map first, the columns of the groups that are left after that.
InRange(v, p) == v # NaN /\ v >= p.min /\ v <= p.max

SlipMayHold(f, p) == \E lo \in f.min : \E hi \in f.max : lo >= p.min /\ hi <= p.max

MayHold(f, p) == \E lo \in f.min : \E hi \in f.max : hi >= p.min /\ lo <= p.max

Candidates(p) == {f \in fields : f.key = p.key /\ MayHold(f, p)}

\* The first predicate lists every column of its key, a later one the first it finds.
FirstIn(g, p) == {f \in Candidates(p) : f.group = g /\ \A h \in Candidates(p) : h.group = g => f.ordinal <= h.ordinal}

Scanned(f, predicates) ==
  LET columns == [i \in DOMAIN predicates |-> IF i = 1 THEN {f} ELSE FirstIn(f.group, predicates[i])]
  IN  IF \E i \in DOMAIN predicates : columns[i] = {} THEN {}
      ELSE {n \in DOMAIN Values[f.blob] :
              \A i \in DOMAIN predicates : \A h \in columns[i] : InRange(Values[h.blob][n], predicates[i])}

Search(predicates) ==
  UNION {{[group |-> f.group, index |-> n] : n \in Scanned(f, predicates)} : f \in Candidates(predicates[1])}

-----------------------------------------------------------------------------
CatalogInit ==
  /\ datasets = {} /\ trains = {} /\ groups = {} /\ signals = {} /\ fields = {}
  /\ count = [c \in Contents |-> 0]
  /\ tags = {} /\ tagged = {} /\ mirror = {} /\ edit = NoEdit

CatalogNext ==
  \/ InsertDataset \/ ClearMirror
  \/ \E d \in IdsOf(datasets) : InsertTrain(d) \/ DeleteDataset(d)
  \/ \E t \in IdsOf(trains) : InsertGroup(t) \/ DeleteTrain(t) \/ \E p \in Pulses : InsertPulses(t, p)
  \/ \E g \in groups, c \in Contents, a \in Attributes : InsertSignal(g, c, a)
  \/ \E s \in signals : DeleteSignal(s) \/ \E a \in Attributes : UpdateAttributes(s, a)
  \/ \E s \in 1..MaxOf["signal"], t \in Tags : TagSignal(s, t) \/ UntagSignal(s, t)
  \/ \E t \in tags : DeleteTag(t)
  \/ (~AtRest /\ \E m \in edit.left : FillMirror(m))

-----------------------------------------------------------------------------
\* Every row hangs from one that is there, also when the ids of deleted rows are
\* given out again: a new signal has none of the tags and none of the mirror of
\* the signal that had its id before.
CatalogTypeOK ==
  /\ \A t \in trains : t.dataset \in IdsOf(datasets)
  /\ \A g \in groups : g.train \in IdsOf(trains)
  /\ \A s \in signals : s.group \in IdsOf(groups)
  /\ \A f \in fields : f.group \in IdsOf(groups)
  /\ \A p \in tagged : p[1] \in IdsOf(signals) /\ p[2] \in tags
  /\ \A m \in mirror : m.signal \in IdsOf(signals)

\* A blob is counted once for every column of every row that is there, whatever
\* was deleted in between and however the columns share their contents.
BlobsCounted ==
  \A c \in Contents :
    count[c] = Cardinality({s \in signals : s.blob = c}) + Cardinality({g \in groups : c \in g.toa})
               + Cardinality({f \in fields : f.blob = c})

Queries == [kind : {"between"}, min : {0, 1}, max : {1, 2}] \cup [kind : {"equals"}, of : {1}]
           \cup [kind : {"exists"}]
Answers(v, query) ==
  CASE v.kind = "null" -> FALSE
    [] query.kind = "exists" -> TRUE
    [] query.kind = "equals" -> v.kind = "text" /\ v.of = query.of
    [] OTHER -> v.kind # "text" /\ v.of >= query.min /\ v.of <= query.max

\* While no edit is half done, a query of a property finds the signals whose
\* attributes answer it and no others, numbers by range, text by equality.
QueriesAnswer ==
  AtRest => \A k \in UNION {DOMAIN a : a \in Attributes} : \A q \in Queries :
    Found(k, q) = {s.id : s \in {x \in signals : k \in DOMAIN x.attributes /\ Answers(x.attributes[k], q)}}

\* Selecting tags narrows: the signals that carry every one of them.
TagsNarrow ==
  \A t \in Tags, u \in Tags : t # u =>
    /\ WithAllTags(<<t, u>>) = {s.id : s \in {x \in signals : {<<x.id, t>>, <<x.id, u>>} \subseteq tagged}}
    /\ Cardinality(WithAllTags(<<t>>)) = TagCount(t)

Predicates == [key : {f.key : f \in fields}, min : {1, 3}, max : {2, 3}]

\* The pulses a search finds are those of which every predicate holds, in either
\* order of the predicates: pruning by zone map loses none of them.
SearchIsExact ==
  \A p \in Predicates, q \in Predicates :
    Search(<<p, q>>) =
      UNION {{[group |-> g.id, index |-> n] :
               n \in {i \in 1..4 : \A r \in {p, q} : \E f \in fields :
                        f.group = g.id /\ f.key = r.key /\ i \in DOMAIN Values[f.blob] /\ InRange(Values[f.blob][i], r)}}
             : g \in groups}
=============================================================================
