----------------------------- MODULE Inspector -----------------------------
(****************************************************************************)
(* The Inspector: one target, its row, its statistics and a page of its        *)
(* values, each read in the background, and a form over the row whose edits    *)
(* are writes.  Every read says which target it is about; a write does not,     *)
(* and whatever it changed the row is read again.                              *)
(****************************************************************************)
EXTENDS Integers, Sequences, FiniteSets

CONSTANTS Targets,     \* the signals that can be inspected
          Count,       \* [Targets -> Nat]: samples of each
          PAGE,        \* rows of a page
          Damaged,     \* the signals a read of may fail
          Texts,       \* what may be typed for a property: 0 is nothing, 2 does not parse
          MaxAsked     \* bound: reads and writes on their way

InspectorAssumption == PAGE \in Nat \ {0} /\ Count \in [Targets -> Nat]

VARIABLES row,                            \* the library: [name, tags, props] of each target
          target, detail, profiling, profile, values, pageStart, bins, \* the screen
          nameDraft, drafts, notice, error,                            \* its form
          reads, answers,                 \* reads on the pool, and what they gave
          writes, written                 \* writes not done, and how many of each outcome are to be heard of

shown == <<target, detail, profiling, profile, values, pageStart, bins>>
form == <<nameDraft, drafts, notice, error>>
inspectorVars == <<row, shown, form, reads, answers, writes, written>>

Nothing == {}
Declared == {"snr"}
Keys == Declared \cup {"origin"}          \* one attribute no definition declares
Busy == Cardinality(reads) + Cardinality(answers) + Len(writes) + written[TRUE] + written[FALSE]
Room(n) == Busy + n <= MaxAsked

DetailRead(t) == [kind |-> "detail", of |-> t]
ProfileRead(t, b) == [kind |-> "profile", of |-> t, bins |-> b]
ValuesRead(t, start) == [kind |-> "values", of |-> t, start |-> start]

\* reload: the row, the statistics and the first page.
Reload(t) == /\ profiling' = TRUE /\ Room(3)
             /\ reads' = reads \cup {DetailRead(t), ProfileRead(t, bins), ValuesRead(t, 0)}

SlipCleared == detail
Cleared == Nothing

Show(t) ==
  /\ target' = {t} /\ detail' = Cleared /\ profile' = Nothing /\ values' = Nothing /\ pageStart' = 0
  /\ drafts' = [k \in Declared |-> [of |-> t, text |-> 0]]
  /\ notice' = FALSE /\ error' = FALSE
  /\ Reload(t) /\ UNCHANGED <<row, bins, nameDraft, answers, writes, written>>

Refresh ==
  /\ detail # Nothing /\ \E t \in target : Reload(t)
  /\ UNCHANGED <<row, target, detail, profile, values, pageStart, bins, form, answers, writes, written>>

SetBins(b) ==
  /\ b # bins /\ bins' = b
  /\ IF target = Nothing THEN UNCHANGED reads
     ELSE Room(1) /\ reads' = reads \cup {ProfileRead(t, b) : t \in target}
  /\ UNCHANGED <<row, target, detail, profiling, profile, values, pageStart, form, answers, writes, written>>

\* A read runs on the pool whenever it does, and sees the row as it is then.
Read(r, ok) ==
  /\ ok \/ r.of \in Damaged
  /\ reads' = reads \ {r}
  /\ answers' = answers \cup {[read |-> r, ok |-> ok, row |-> IF r.kind = "detail" THEN {row[r.of]} ELSE {}]}
  /\ UNCHANGED <<row, shown, form, writes, written>>

OfTarget(r) == target = {r.of}

Drop(a) == answers' = answers \ {a} /\ UNCHANGED <<row, reads, writes, written>>
Late(a) == ~OfTarget(a.read) /\ Drop(a) /\ UNCHANGED <<shown, form>>

\* The form starts again from what was read.
DraftsOf(t, r) == [k \in Declared |-> [of |-> t, text |-> r.props[k]]]

Loaded(a) ==
  /\ a.read.kind = "detail" /\ OfTarget(a.read) /\ Drop(a)
  /\ IF a.ok
     THEN LET r == CHOOSE x \in a.row : TRUE
          IN  /\ detail' = {[of |-> a.read.of, row |-> r]}
              /\ nameDraft' = [of |-> a.read.of, text |-> r.name]
              /\ drafts' = DraftsOf(a.read.of, r) /\ error' = FALSE
     ELSE error' = TRUE /\ UNCHANGED <<detail, nameDraft, drafts>>
  /\ UNCHANGED <<target, profiling, profile, values, pageStart, bins, notice>>

Settled(a) == FALSE

Profiled(a) ==
  /\ a.read.kind = "profile" /\ OfTarget(a.read) /\ Drop(a)
  /\ profiling' = Settled(a)
  /\ profile' = IF a.ok THEN {[of |-> a.read.of, bins |-> a.read.bins]} ELSE profile
  /\ error' = (error \/ ~a.ok)
  /\ UNCHANGED <<target, detail, values, pageStart, bins, nameDraft, drafts, notice>>

ValuesLoaded(a) ==
  /\ a.read.kind = "values" /\ OfTarget(a.read) /\ Drop(a)
  /\ values' = IF a.ok THEN {[of |-> a.read.of, start |-> a.read.start]} ELSE values
  /\ pageStart' = IF a.ok THEN a.read.start ELSE pageStart
  /\ error' = (error \/ ~a.ok)
  /\ UNCHANGED <<target, detail, profiling, profile, bins, nameDraft, drafts, notice>>

-----------------------------------------------------------------------------
\* Pages start at a multiple of PAGE; the last one holds the last row.
RowCount == IF detail = Nothing THEN 0 ELSE Count[(CHOOSE d \in detail : TRUE).of]
LastPage == LET n == RowCount IN IF n = 0 THEN 0 ELSE ((n - 1) \div PAGE) * PAGE

Clamped(start) == IF start <= LastPage THEN start ELSE LastPage

GoTo(start) ==
  /\ detail # Nothing /\ Room(1)
  /\ reads' = reads \cup {ValuesRead(t, Clamped(start)) : t \in target}
  /\ UNCHANGED <<row, shown, form, answers, writes, written>>

Page(delta) ==
  /\ delta = -1 => pageStart > 0
  /\ delta = 1 => pageStart < LastPage
  /\ GoTo(IF pageStart + delta * PAGE < 0 THEN 0 ELSE pageStart + delta * PAGE)

\* Jump: the page that holds the index.
Jump(index) == GoTo((index \div PAGE) * PAGE)

-----------------------------------------------------------------------------
\* The form is drawn once there is a row to edit; a write goes to the target.
Write(w) == Room(1) /\ writes' = Append(writes, w)
Editing == detail # Nothing

NameChanged(text) ==
  /\ Editing /\ nameDraft' = [nameDraft EXCEPT !.text = text]
  /\ UNCHANGED <<row, shown, drafts, notice, error, reads, answers, writes, written>>

Rename ==
  /\ Editing
  /\ IF nameDraft.text = 0 THEN error' = TRUE /\ UNCHANGED <<notice, writes>>
     ELSE /\ notice' = TRUE /\ UNCHANGED error
          /\ \E t \in target : Write([kind |-> "name", to |-> t, draft |-> nameDraft])
  /\ UNCHANGED <<row, shown, nameDraft, drafts, reads, answers, written>>

AddTag ==
  /\ Editing /\ \E t \in target : Write([kind |-> "tag", to |-> t])
  /\ UNCHANGED <<row, shown, form, reads, answers, written>>

RemoveTag ==
  /\ Editing /\ (\E d \in detail : d.row.tags # {})
  /\ \E t \in target : Write([kind |-> "untag", to |-> t])
  /\ UNCHANGED <<row, shown, form, reads, answers, written>>

PropChanged(k, text) ==
  /\ Editing /\ drafts' = [drafts EXCEPT ![k].text = text]
  /\ UNCHANGED <<row, shown, nameDraft, notice, error, reads, answers, writes, written>>

Edited(d) == [k \in Keys |-> IF k \in Declared THEN drafts[k].text ELSE d.row.props[k]]

SaveProperties ==
  /\ Editing
  /\ \E d \in detail :
       IF \E k \in Declared : drafts[k].text = 2 THEN error' = TRUE /\ UNCHANGED <<notice, writes>>
       ELSE /\ notice' = TRUE /\ UNCHANGED error
            /\ Write([kind |-> "props", to |-> d.of, drafts |-> drafts, props |-> Edited(d)])
  /\ UNCHANGED <<row, shown, nameDraft, drafts, reads, answers, written>>

\* The writer takes one of the jobs: those of two updates reach its queue in any order.
Written(w, ok) ==
  IF ~ok THEN row[w.to]
  ELSE CASE w.kind = "name"  -> [row[w.to] EXCEPT !.name = w.draft.text]
         [] w.kind = "tag"   -> [row[w.to] EXCEPT !.tags = {"gold"}]
         [] w.kind = "untag" -> [row[w.to] EXCEPT !.tags = {}]
         [] OTHER            -> [row[w.to] EXCEPT !.props = w.props]

Without(q, i) == [j \in 1..(Len(q) - 1) |-> IF j < i THEN q[j] ELSE q[j + 1]]

WriterDoes(i, ok) ==
  /\ row' = [row EXCEPT ![writes[i].to] = Written(writes[i], ok)]
  /\ writes' = Without(writes, i) /\ written' = [written EXCEPT ![ok] = @ + 1]
  /\ UNCHANGED <<shown, form, reads, answers>>

\* The answer: the row of the target, whichever it is by now, is read again.
Saved(ok) ==
  /\ written[ok] > 0 /\ written' = [written EXCEPT ![ok] = @ - 1]
  /\ error' = ~ok /\ notice' = (notice /\ ok)
  /\ reads' = reads \cup {DetailRead(t) : t \in target}
  /\ UNCHANGED <<row, shown, nameDraft, drafts, answers, writes>>

-----------------------------------------------------------------------------
InspectorInit ==
  /\ row = [t \in Targets |-> [name |-> 1, tags |-> {}, props |-> [k \in Keys |-> IF k \in Declared THEN 0 ELSE 1]]]
  /\ target = Nothing /\ detail = Nothing /\ profiling = FALSE /\ profile = Nothing
  /\ values = Nothing /\ pageStart = 0 /\ bins = 1
  /\ nameDraft = [of |-> 0, text |-> 0] /\ drafts = [k \in Declared |-> [of |-> 0, text |-> 0]]
  /\ notice = FALSE /\ error = FALSE
  /\ reads = {} /\ answers = {} /\ writes = <<>> /\ written = [ok \in BOOLEAN |-> 0]

Reads ==
  \/ Refresh
  \/ \E t \in Targets : Show(t)
  \/ \E r \in reads, ok \in BOOLEAN : Read(r, ok)
  \/ \E a \in answers : Late(a) \/ Loaded(a) \/ Profiled(a) \/ ValuesLoaded(a)
BinsNext == Reads \/ \E b \in 1..2 : SetBins(b)
PageNext == Reads \/ (\E d \in {-1, 1} : Page(d)) \/ \E i \in 0..(2 * PAGE) : Jump(i)
ReadingNext == BinsNext \/ PageNext

Saving == \E ok \in BOOLEAN : Saved(ok) \/ \E i \in DOMAIN writes : WriterDoes(i, ok)

EditingNext ==
  \/ Rename \/ AddTag \/ RemoveTag \/ SaveProperties
  \/ \E x \in 0..1 : NameChanged(x)
  \/ \E k \in Declared, x \in Texts : PropChanged(k, x)
  \/ Saving

InspectorNext == ReadingNext \/ EditingNext

\* The same, one thing edited at a time: the first page, the default bins.
Around ==
  \/ \E t \in Targets : Show(t)
  \/ \E r \in reads, ok \in BOOLEAN : (r.kind # "detail" => ok) /\ Read(r, ok)
  \/ \E a \in answers : Late(a) \/ Loaded(a) \/ Profiled(a) \/ ValuesLoaded(a)
  \/ Saving
NameNext == Around \/ Rename \/ \E x \in 0..1 : NameChanged(x)
TagNext == Around \/ AddTag \/ RemoveTag
PropsNext == Around \/ SaveProperties \/ \E k \in Declared, x \in Texts : PropChanged(k, x)

-----------------------------------------------------------------------------
\* What is drawn is the target's, and statistics said to be read are being read.
InspectorTypeOK ==
  /\ \A d \in detail \cup profile \cup values : target = {d.of}
  /\ profiling => \/ \E r \in reads : r.kind = "profile" /\ target = {r.of}
                  \/ \E a \in answers : a.read.kind = "profile" /\ target = {a.read.of}

\* A write takes to a signal only what was read or typed for that signal, also when
\* another was shown in between.
WritesGoHome ==
  \A i \in DOMAIN writes :
    /\ writes[i].kind = "name" => writes[i].draft.of = writes[i].to
    /\ writes[i].kind = "props" => \A k \in Declared : writes[i].drafts[k].of = writes[i].to

\* The page drawn is a page of the target, the one the footer names.
PageIsReal ==
  \A v \in values : /\ v.start = pageStart /\ v.start % PAGE = 0
                    /\ v.start = 0 \/ v.start < Count[v.of]

\* No edit of the form takes away an attribute that no definition declares.
UndeclaredStays == \A t \in Targets : row[t].props["origin"] = 1

=============================================================================
