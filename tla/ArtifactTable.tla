---------------------------- MODULE ArtifactTable ---------------------------
(* The artifacts stages publish, as sp-core/src/artifact/data.rs reads them  *)
(* back: a JSON payload decoded against a schema (declared, or inferred from *)
(* the payload itself), the row the playhead is in, the difference of two    *)
(* payloads, and the table sp-app/src/widgets/panes.rs sorts by a header.    *)
(* Numbers count halves, so that an even one is what JSON calls an integer;  *)
(* a text is a number too, tagged. A cell is {} where nothing is shown.      *)
EXTENDS Integers, Sequences, FiniteSets, FiniteSetsExt

CONSTANTS Schemas,     \* what is declared: sequences of [name, kind]
          Pairs,       \* two payloads: functions from field names to JSON values
          Instants,    \* where the playhead may stand
          Tolerance    \* largest difference of two equal numbers

VARIABLES schema, left, right,   \* what is read, and the payloads side by side
          playhead,              \* where the playhead stands
          sorts                  \* {} or {the header the rows are sorted by}
tableVars == <<schema, left, right, playhead, sorts>>

-----------------------------------------------------------------------------
\* JSON: [is : "null"], [is : "number" | "text" | "bool", n], [is : "array", of : a sequence].
Null == [is |-> "null"]
Num(n) == [is |-> "number", n |-> n]
Text(n) == [is |-> "text", n |-> n]
Flag(n) == [is |-> "bool", n |-> n]
Arr(s) == [is |-> "array", of |-> s]

Entries(raw) == IF raw.is = "array" THEN raw.of ELSE <<raw>>
Finite(v) == IF v.is = "number" THEN {v.n} ELSE {}
IsPair(v) == v.is = "array" /\ Len(v.of) = 2 /\ \A i \in 1..2 : v.of[i].is = "number"
Whole(v) == IF v.is = "number" /\ v.n % 2 = 0 THEN {v.n} ELSE {}

Larger(a, b) == IF a > b THEN a ELSE b
\* The cell that one entry becomes.
Cell(kind, v) ==
  CASE kind \in {"float", "time"} -> Finite(v)
    [] kind = "int"    -> Whole(v)
    [] kind = "bool"   -> IF v.is = "bool" THEN {v.n} ELSE {}
    [] kind = "text"   -> {v}
    [] kind = "span"   -> {<<v.of[1].n, Larger(v.of[1].n, v.of[2].n)>>}
    [] kind = "matrix" -> {[i \in DOMAIN v.of |-> Finite(v.of[i])]}

\* A list of values is a matrix as soon as one entry is a list.
ColumnKind(kind, raw) ==
  IF kind # "array" THEN kind
  ELSE IF \E i \in DOMAIN Entries(raw) : Entries(raw)[i].is = "array" THEN "matrix" ELSE "float"

Readable(kind, v) ==
  CASE kind = "time"   -> v.is = "number"
    [] kind = "span"   -> IsPair(v)
    [] kind = "matrix" -> v.is = "array"
    [] OTHER           -> TRUE

\* {} where the JSON contradicts the kind, else {the column}.
DecodeField(kind, raw) ==
  LET as == ColumnKind(kind, raw)
      es == Entries(raw) IN
  IF \A i \in DOMAIN es : Readable(as, es[i])
  THEN {[kind |-> as, cells |-> [i \in DOMAIN es |-> Cell(as, es[i])]]} ELSE {}

Named(sch) == {sch[i].name : i \in DOMAIN sch}
KindOf(sch, f) == sch[CHOOSE i \in DOMAIN sch : sch[i].name = f].kind
Given(p) == {f \in DOMAIN p : p[f].is # "null"}

\* {} or {the columns}, by name: a field the payload omits is absent.
Decode(sch, p) ==
  LET here == Named(sch) \cap Given(p)
      col(f) == DecodeField(KindOf(sch, f), p[f]) IN
  IF \E f \in here : col(f) = {} THEN {}
  ELSE {[f \in here |-> CHOOSE c \in col(f) : TRUE]}

\* infer_kind: by the first entry that is not null.
InferKind(raw) ==
  LET es == SelectSeq(Entries(raw), LAMBDA v : v.is # "null")
      first == es[1] IN
  IF es = <<>> THEN "float"
  ELSE CASE first.is = "bool" -> "bool"
         [] first.is = "text" -> "text"
         [] first.is = "number" -> IF first.n % 2 = 0 THEN "int" ELSE "float"
         [] first.is = "array" -> IF IsPair(first) THEN "span" ELSE "array"
InferSchema(p, order) == [i \in DOMAIN order |-> [name |-> order[i], kind |-> InferKind(p[order[i]])]]

-----------------------------------------------------------------------------
Rows(cols) == IF DOMAIN cols = {} THEN 0 ELSE Max({Len(cols[f].cells) : f \in DOMAIN cols})
At(col, r) == IF r \in DOMAIN col.cells THEN col.cells[r] ELSE {}
NumberAt(col, r) ==
  CASE col.kind = "span" -> {s[1] : s \in At(col, r)}
    [] col.kind \in {"text", "matrix"} -> {}
    [] OTHER -> At(col, r)
\* What display_at tells apart, of the cells that have no number.
DisplayAt(col, r) ==
  CASE col.kind = "text"   -> <<"text", At(col, r)>>
    [] col.kind = "matrix" -> <<"values", {Len(m) : m \in At(col, r)}>>
    [] OTHER               -> <<"dash", NumberAt(col, r)>>
SpanAt(col, r) ==
  CASE col.kind = "time" -> {<<t, t>> : t \in At(col, r)}
    [] col.kind = "span" -> At(col, r)
    [] OTHER -> {}

\* {} or {the first temporal column, in the schema's order}.
TimeField(sch, cols) ==
  LET is == {i \in DOMAIN sch : sch[i].name \in DOMAIN cols /\ sch[i].kind \in {"time", "span"}} IN
  IF is = {} THEN {} ELSE {cols[sch[Min(is)].name]}

Inside(span, t) == span[1] <= t /\ t <= span[2]

\* The first row the instant is inside, else the one that started last.
RowIn(col, t) ==
  LET rows == {r \in DOMAIN col.cells : SpanAt(col, r) # {}}
      span(r) == CHOOSE s \in SpanAt(col, r) : TRUE
      around == {r \in rows : Inside(span(r), t)}
      before == {r \in rows : span(r)[1] <= t} IN
  IF around # {} THEN {Min(around)}
  ELSE IF before = {} THEN {}
  ELSE {Min({r \in before : \A q \in before : span(q)[1] <= span(r)[1]})}
RowAt(sch, cols, t) == UNION {RowIn(col, t) : col \in TimeField(sch, cols)}

-----------------------------------------------------------------------------
Apart(a, b) == IF a > b THEN a - b ELSE b - a
Differs(a, b, r) ==
  LET x == NumberAt(a, r)
      y == NumberAt(b, r) IN
  IF x # {} /\ y # {} THEN \E m \in x, n \in y : Apart(m, n) > Tolerance
  ELSE x # y \/ DisplayAt(a, r) # DisplayAt(b, r)

Length(cols, f) == IF f \in DOMAIN cols THEN Len(cols[f].cells) ELSE 0
Least(a, b) == IF a < b THEN a ELSE b
FieldDiff(a, b, f) ==
  LET rows == <<Length(a, f), Length(b, f)>>
      both == Least(rows[1], rows[2])
      differing == IF both = 0 THEN {} ELSE {r \in 1..both : Differs(a[f], b[f], r)}
      diverged == differing \cup (IF rows[1] = rows[2] THEN {} ELSE {both + 1}) IN
  [rows |-> rows,
   mismatches |-> Apart(rows[1], rows[2]) + Cardinality(differing),
   first |-> IF diverged = {} THEN {} ELSE {Min(diverged)}]
Diff(a, b) == [f \in DOMAIN a \cup DOMAIN b |-> FieldDiff(a, b, f)]
IsEqual(d) == d.mismatches = 0 /\ d.rows[1] = d.rows[2]

-----------------------------------------------------------------------------
\* Row q is drawn before row r, by the sorted field.
Ahead(col, q, r, ascending) ==
  LET x == NumberAt(col, q)
      y == NumberAt(col, r)
      less == \/ x # {} /\ y # {} /\ \E m \in x, n \in y : m < n
              \/ x # {} /\ y = {}
      more == \/ x # {} /\ y # {} /\ \E m \in x, n \in y : m > n
              \/ x = {} /\ y # {} IN
  IF ascending THEN less \/ (~more /\ q < r) ELSE more \/ (~less /\ q < r)

\* Sorting puts as many rows before one as are ahead of it.
Order(cols) ==
  LET n == Rows(cols) IN
  IF sorts = {} \/ \E s \in sorts : s.field \notin DOMAIN cols THEN [i \in 1..n |-> i]
  ELSE LET s == CHOOSE x \in sorts : TRUE
           place(r) == 1 + Cardinality({q \in 1..n : Ahead(cols[s.field], q, r, s.ascending)}) IN
       [i \in 1..n |-> CHOOSE r \in 1..n : place(r) = i \/ \A q \in 1..n : place(q) # i]

Toggled(s, field) == IF s.field = field THEN [s EXCEPT !.ascending = ~@]
                     ELSE [field |-> field, ascending |-> TRUE]

-----------------------------------------------------------------------------
TableInit ==
  /\ schema \in Schemas
  /\ \E p \in Pairs : left = p[1] /\ right = p[2]
  /\ DOMAIN left = Named(schema) /\ DOMAIN right = Named(schema)
  /\ playhead = 0 /\ sorts = {}

Decoded == Decode(schema, left)
SortBy == \E cols \in Decoded : \E f \in DOMAIN cols :
  /\ sorts' = IF sorts = {} THEN {[field |-> f, ascending |-> TRUE]} ELSE {Toggled(s, f) : s \in sorts}
  /\ UNCHANGED <<schema, left, right, playhead>>
Seek == \E t \in Instants : playhead' = t /\ UNCHANGED <<schema, left, right, sorts>>
TableNext == SortBy \/ Seek

-----------------------------------------------------------------------------
\* A table shows every row once, and the rows without a value stand together
\* at one end of it, whichever field it is sorted by (panes.rs, order).
RowsShownOnce == \A cols \in Decoded :
  LET o == Order(cols) IN
  /\ {o[i] : i \in DOMAIN o} = 1..Rows(cols)
  /\ \A s \in sorts : s.field \in DOMAIN cols =>
       ~\E i, j, k \in DOMAIN o : /\ i < j /\ j < k
                                  /\ NumberAt(cols[s.field], o[i]) # {}
                                  /\ NumberAt(cols[s.field], o[j]) = {}
                                  /\ NumberAt(cols[s.field], o[k]) # {}

\* The row lit under the playhead is one it is inside when there is one, else
\* no row began between it and the playhead; without one, every row lies
\* ahead (data.rs, row_at).
LitRowIsCurrent == \A cols \in Decoded : \A col \in TimeField(schema, cols) :
  LET span(r) == CHOOSE s \in SpanAt(col, r) : TRUE
      rows == {r \in DOMAIN col.cells : SpanAt(col, r) # {}}
      lit == RowAt(schema, cols, playhead) IN
  /\ lit = {} => \A r \in rows : playhead < span(r)[1]
  /\ \A r \in lit : /\ span(r)[1] <= playhead
                    /\ \A q \in rows : (span(q)[1] <= playhead /\ playhead <= span(q)[2]) =>
                                          playhead <= span(r)[2]
                    /\ playhead > span(r)[2] =>
                         \A q \in rows : ~(span(r)[1] < span(q)[1] /\ span(q)[1] <= playhead)

\* Two payloads a diff calls equal hold the same numbers and texts in every
\* row, within the tolerance, and a diff does not depend on which of the two
\* is the baseline (data.rs, diff; compare.rs gates a run on it).
DiffTellsNumbers == \A a \in Decode(schema, left), b \in Decode(schema, right) :
  LET d == Diff(a, b) IN
  /\ \A f \in DOMAIN d : FieldDiff(b, a, f) = [d[f] EXCEPT !.rows = <<@[2], @[1]>>]
  /\ \A f \in DOMAIN a \cap DOMAIN b :
       IsEqual(d[f]) =>
         /\ Len(a[f].cells) = Len(b[f].cells)
         /\ a[f].kind = b[f].kind /\ a[f].kind \notin {"span", "matrix"} =>
              \A r \in DOMAIN a[f].cells :
                \/ a[f].cells[r] = b[f].cells[r]
                \/ /\ a[f].kind # "text"
                   /\ \E m \in a[f].cells[r], n \in b[f].cells[r] : Apart(m, n) <= Tolerance
  /\ \A f \in DOMAIN a \ DOMAIN b : IsEqual(d[f]) => a[f].cells = <<>>

\* A payload whose list entries are of one shape decodes under the schema
\* inferred from it, which is how a run is compared by a build that does not
\* know the stage (data.rs, infer_schema).
EvenPayloadsDecode ==
  LET order == [i \in DOMAIN schema |-> schema[i].name]
      even(raw) == \A v, w \in {Entries(raw)[i] : i \in DOMAIN Entries(raw)} :
                     /\ v.is = w.is
                     /\ v.is = "array" => IsPair(v) = IsPair(w) IN
  (\A f \in DOMAIN left : even(left[f])) => Decode(InferSchema(left, order), left) # {}

=============================================================================
