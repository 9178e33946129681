--------------------------- MODULE LibraryScreen ---------------------------
(****************************************************************************)
(* The Library screen: the tree of what the library held when it was last     *)
(* read, the group that is selected and its rows, and the filters with what    *)
(* they found.  Reads run on a pool, so their answers come back in any order;  *)
(* only the answer about a group says which group it is about.                *)
(****************************************************************************)
EXTENDS Integers, Sequences, FiniteSets

CONSTANTS Groups,       \* [id, pulse, dataset, exportable]: groups the library may come to hold
          Signals,      \* [id, group, word, tags, props: [num: set, txt: set]]
          Words, Typed, \* what may be typed in the search box and the value box
          MaxAsked      \* bound: answers on their way

VARIABLES held,                               \* the library: ids of the groups it holds
          index, loading, selected, detail, detailError, \* the tree and the pane beside it
          search, tagFilter, propKey, propValue, hits,   \* the filters and what they found
          notice, asked

tree == <<index, loading, selected, detail, detailError>>
filters == <<search, tagFilter, propKey, propValue, hits>>
libVars == <<held, tree, filters, notice, asked>>

None == {}
\* A property has one value, a number or a text; what is typed has one of these forms.
Forms == {"empty", "text", "above", "below", "range", "number"}
LibraryAssumption ==
  /\ \A g \in Groups : g.pulse \in BOOLEAN
  /\ \A s \in Signals : /\ s.props.num \in SUBSET Int /\ \A v, w \in s.props.num : v = w
                        /\ \A v, w \in s.props.txt : v = w
  /\ \A t \in Typed : t.form \in Forms /\ (t.form \in {"above", "below", "range", "number"} => t.of \in Int)
                    /\ (t.form = "range" => t.to \in Int)
GroupIds == {g.id : g \in Groups}
GroupOf(id) == CHOOSE g \in Groups : g.id = id
Ask(answer) == Cardinality(asked) < MaxAsked /\ asked' = asked \cup {answer}

-----------------------------------------------------------------------------
\* An import or a generation adds groups behind the screen's back.
Grow(id) == id \notin held /\ held' = held \cup {id} /\ UNCHANGED <<tree, filters, notice, asked>>

\* load_index is read at once; its answer may take its time.
Load ==
  /\ loading' = TRUE /\ Ask([kind |-> "index", groups |-> held, ok |-> TRUE])
  /\ UNCHANGED <<held, index, selected, detail, detailError, filters, notice>>

LoadFails ==
  /\ loading' = TRUE /\ Ask([kind |-> "index", groups |-> {}, ok |-> FALSE])
  /\ UNCHANGED <<held, index, selected, detail, detailError, filters, notice>>

InIndex(id) == index # None /\ \E i \in index : id \in i

NotLoading(a) == FALSE

Loaded(a) ==
  /\ a.kind = "index" /\ asked' = asked \ {a}
  /\ loading' = NotLoading(a)
  /\ LET gone == a.ok /\ selected # None /\ ~(selected \subseteq a.groups)
     IN  /\ index' = IF a.ok THEN {a.groups} ELSE index
         /\ selected' = IF gone THEN None ELSE selected
         /\ detail' = IF gone THEN None ELSE detail
  /\ UNCHANGED <<held, detailError, filters, notice>>

\* What a group is read as is decided by the tree as it was when it was pressed.
ReadAs(id) == InIndex(id) /\ GroupOf(id).pulse

\* load_detail: the rows of a pulse group cannot be read of any other.
DetailOf(id, pulse) == [id |-> id, pulse |-> pulse, shown |-> InIndex(id), real |-> GroupOf(id).pulse = pulse]

\* Pressed in the tree, or on a hit whose group the tree may not show yet.
Offered(id) == InIndex(id) \/ \E found \in hits : \E s \in found : s.group = id

Forget(e) == None

SelectGroup(id, ok) ==
  /\ Offered(id)
  /\ selected' = {id} /\ detailError' = Forget(detailError)
  /\ Ask([kind |-> "detail", id |-> id, ok |-> ok, detail |-> DetailOf(id, ReadAs(id))])
  /\ UNCHANGED <<held, index, loading, detail, filters, notice>>

OfSelected(id) == selected = {id}

DetailLoaded(a) ==
  /\ a.kind = "detail" /\ asked' = asked \ {a}
  /\ detail' = IF OfSelected(a.id) /\ a.ok THEN {a.detail} ELSE detail
  /\ detailError' = IF OfSelected(a.id) /\ ~a.ok THEN {a.id} ELSE detailError
  /\ UNCHANGED <<held, index, loading, selected, filters, notice>>

-----------------------------------------------------------------------------

Parsed(t) ==
  CASE t.form = "empty" -> [kind |-> "exists"]
    [] t.form = "text"  -> [kind |-> "equals", of |-> t.of]
    [] t.form = "above" -> [kind |-> "between", min |-> {t.of}, max |-> {}]
    [] t.form = "below" -> [kind |-> "between", min |-> {}, max |-> {t.of}]
    [] t.form = "range" -> [kind |-> "between", min |-> {t.of}, max |-> {t.to}]
    [] t.form = "number" -> [kind |-> "between", min |-> {t.of}, max |-> {t.of}]

Present == {s \in Signals : s.group \in held}
ByWord(word) == {s \in Present : s.word = word}
ByTags(tags) == {s \in Present : tags \subseteq s.tags}
ByProp(q) ==
  {s \in Present :
    CASE q.kind = "exists" -> s.props.num \cup s.props.txt # {}
      [] q.kind = "equals" -> q.of \in s.props.txt
      [] OTHER -> \E v \in s.props.num : (\A m \in q.min : v >= m) /\ (\A m \in q.max : v <= m)}

Narrow(kept, by) == IF kept = None THEN {by} ELSE {{s \in by : \E k \in kept : s \in k}}

Queried(word, tags, key, value) ==
  LET first  == IF word = None THEN None ELSE {ByWord(CHOOSE w \in word : TRUE)}
      second == IF tags = {} THEN first ELSE Narrow(first, ByTags(tags))
      third  == IF key THEN Narrow(second, ByProp(Parsed(value))) ELSE second
  IN  UNION third

\* query: the three filters as they are, read at once.
Query(tags, ok) ==
  IF search = None /\ tags = {} /\ ~propKey
  THEN hits' = None /\ UNCHANGED asked
  ELSE /\ Ask(IF ok THEN [kind |-> "hits", ok |-> TRUE, found |-> Queried(search, tags, propKey, propValue),
                          query |-> [word |-> search, tags |-> tags, key |-> propKey, value |-> propValue, held |-> held]]
                    ELSE [kind |-> "hits", ok |-> FALSE])
       /\ UNCHANGED hits

Search(ok) == Query(tagFilter, ok) /\ UNCHANGED <<held, tree, search, tagFilter, propKey, propValue, notice>>

SearchChanged(word) ==
  /\ search' = word
  /\ hits' = IF word = None /\ tagFilter = {} THEN None ELSE hits
  /\ UNCHANGED <<held, tree, tagFilter, propKey, propValue, notice, asked>>

PropKeyChanged(typed) ==
  /\ propKey' = typed
  /\ hits' = IF ~typed /\ search = None /\ tagFilter = {} THEN None ELSE hits
  /\ UNCHANGED <<held, tree, search, tagFilter, propValue, notice, asked>>

PropValueChanged(value) ==
  propValue' = value /\ UNCHANGED <<held, tree, search, tagFilter, propKey, hits, notice, asked>>

ToggleTag(t, ok) ==
  /\ tagFilter' = IF t \in tagFilter THEN tagFilter \ {t} ELSE tagFilter \cup {t}
  /\ Query(tagFilter', ok)
  /\ UNCHANGED <<held, tree, search, propKey, propValue, notice>>

ClearSearch ==
  /\ hits # None
  /\ search' = None /\ tagFilter' = {} /\ hits' = None
  /\ UNCHANGED <<held, tree, propKey, propValue, notice, asked>>

SearchDone(a) ==
  /\ a.kind = "hits" /\ asked' = asked \ {a}
  /\ hits' = IF a.ok THEN {a.found} ELSE hits
  /\ UNCHANGED <<held, tree, search, tagFilter, propKey, propValue, notice>>

-----------------------------------------------------------------------------
\* Offered for a dataset that kept the layout of the file it came from.
ExportTo(id, ok) ==
  /\ InIndex(id) /\ GroupOf(id).exportable
  /\ notice' = "exporting" /\ Ask([kind |-> "export", ok |-> ok])
  /\ UNCHANGED <<held, tree, filters>>

Notice(ok) == IF ok THEN "exported" ELSE "none"

Exported(a) ==
  /\ a.kind = "export" /\ asked' = asked \ {a}
  /\ notice' = Notice(a.ok)
  /\ UNCHANGED <<held, tree, filters>>

-----------------------------------------------------------------------------
LibScreenInit ==
  /\ held = {} /\ index = None /\ loading = FALSE /\ selected = None /\ detail = None
  /\ detailError = None /\ search = None /\ tagFilter = {} /\ propKey = FALSE
  /\ propValue = [form |-> "empty"] /\ hits = None /\ notice = "none" /\ asked = {}

TreeNext ==
  \/ Load \/ LoadFails
  \/ \E id \in GroupIds : Grow(id)
  \/ \E id \in GroupIds, ok \in BOOLEAN : SelectGroup(id, ok) \/ ExportTo(id, ok)
  \/ \E a \in asked : Loaded(a) \/ DetailLoaded(a) \/ Exported(a)

FiltersNext ==
  \/ ClearSearch
  \/ \E id \in GroupIds : Grow(id)
  \/ \E w \in {None} \cup {{w} : w \in Words} : SearchChanged(w)
  \/ \E k \in BOOLEAN : PropKeyChanged(k)
  \/ \E v \in Typed : PropValueChanged(v)
  \/ \E ok \in BOOLEAN : Search(ok) \/ \E t \in UNION {s.tags : s \in Signals} : ToggleTag(t, ok)
  \/ \E a \in asked : SearchDone(a)

\* All of the screen; the two halves meet only where a hit offers its group.
LibScreenNext == TreeNext \/ FiltersNext

-----------------------------------------------------------------------------
\* What the screen says it is doing, reading or exporting, is being done: an
\* answer that will end it is on its way.
WaitsAreOwed ==
  /\ loading => \E a \in asked : a.kind = "index"
  /\ notice = "exporting" => \E a \in asked : a.kind = "export"

\* The rows drawn beside the tree, or the error in their place, are those of the
\* group that is selected, read as the kind of group it is, whichever answer came last.
\* A group that was pressed on a hit before the tree showed it is the exception: it is
\* read as a plain one (library.rs SelectGroup).
PaneIsSelected ==
  /\ selected # None /\ detailError # None => detailError = selected
  /\ \A d \in detail : {d.id} = selected => d.real \/ ~d.shown

Means(t, s) ==
  CASE t.form = "empty" -> s.props.num # {} \/ s.props.txt # {}
    [] t.form = "text"  -> s.props.txt = {t.of}
    [] t.form = "above" -> \E v \in s.props.num : v >= t.of
    [] t.form = "below" -> \E v \in s.props.num : v <= t.of
    [] t.form = "range" -> \E v \in s.props.num : t.of <= v /\ v <= t.to
    [] t.form = "number" -> s.props.num = {t.of}

\* A hit satisfies every filter of the query it answers: the word, all the tags and
\* the property, as the value box documents what is typed into it.
HitsSatisfyAll ==
  \A a \in asked : a.kind = "hits" /\ a.ok =>
    a.found = {s \in Signals : /\ s.group \in a.query.held
                               /\ a.query.word \subseteq {s.word}
                               /\ a.query.tags \subseteq s.tags
                               /\ a.query.key => Means(a.query.value, s)}

=============================================================================
