----------------------------- MODULE ScopeTraces -----------------------------
(****************************************************************************)
(* The traces of the Scope screen and the reductions that draw them.  A      *)
(* reduction runs off the UI thread and answers in a message tagged with the *)
(* generation it was asked for; pyramids are built by jobs of their own; and *)
(* the library under the screen may be changed while both are on their way.  *)
(****************************************************************************)
EXTENDS Integers, Sequences, FiniteSets, TLAPS

CONSTANTS Signals,         \* signals the picker offers
          MaxTraces,       \* MAX_TRACES
          MaxGeneration,   \* bound: reductions asked for
          MaxLibrary       \* bound: libraries opened in a session

VARIABLES traces,       \* what is on the scope, in order
          generation,   \* bumped whenever the viewport or the trace set changes
          reducing,     \* the screen says "reducing..."
          status,       \* an error is on the status line
          view,         \* the time window: one of two
          openLibrary,  \* which library is open
          reductions,   \* reductions not answered yet
          builds,       \* pyramid builds not answered yet
          asked         \* what the newest reduction was asked to draw

scopeVars == <<traces, generation, reducing, status, view, openLibrary,
               reductions, builds, asked>>

Views == 0 .. 1
Styles == 0 .. 1
NoSnapshot == [signal |-> "none"]
Snapshots == [library : 1 .. MaxLibrary, signal : Signals, style : Styles, view : Views]
NewTrace(s) == [signal |-> s, visible |-> TRUE, style |-> 0, snapshot |-> NoSnapshot]

ScopeInit ==
  /\ traces = <<>> /\ generation = 0 /\ reducing = FALSE /\ status = FALSE
  /\ view = 0 /\ openLibrary = 1
  /\ reductions = {} /\ builds = {} /\ asked = {}

Loaded(ts) == {ts[i].signal : i \in DOMAIN ts}
Shown(ts) == {i \in DOMAIN ts : ts[i].visible}
WithoutSnapshots(ts) == [i \in DOMAIN ts |-> [ts[i] EXCEPT !.snapshot = NoSnapshot]]

\* invalidate: asks for every visible trace; with none there is nothing to ask for.
Invalidate(ts, v) ==
  /\ generation < MaxGeneration
  /\ generation' = generation + 1
  /\ asked' = {ts[i].signal : i \in Shown(ts)}
  /\ IF Shown(ts) = {}
     THEN /\ traces' = WithoutSnapshots(ts)
          /\ UNCHANGED <<reductions, reducing>>
     ELSE /\ traces' = ts
          /\ reducing' = TRUE
          /\ reductions' = reductions \cup
               {[generation |-> generation + 1,
                 drawn |-> [i \in Shown(ts) |->
                              [library |-> openLibrary, signal |-> ts[i].signal,
                               style |-> ts[i].style, view |-> v]]]}

Full(ts) == Len(ts) >= MaxTraces

Add == \E s \in Signals :
  \/ /\ ~Full(traces) /\ s \notin Loaded(traces)
     /\ view' \in IF traces = <<>> THEN Views ELSE {view}   \* the first trace is fitted
     /\ Invalidate(Append(traces, NewTrace(s)), view')
     /\ builds' = builds \cup {s}
     /\ UNCHANGED <<status, openLibrary>>
  \/ /\ Full(traces) /\ ~status
     /\ status' = TRUE
     /\ UNCHANGED <<traces, generation, reducing, view, openLibrary, reductions, builds, asked>>

Without(ts, i) == SubSeq(ts, 1, i - 1) \o SubSeq(ts, i + 1, Len(ts))
Remove == \E i \in DOMAIN traces :
  /\ Invalidate(Without(traces, i), view)
  /\ UNCHANGED <<status, view, openLibrary, builds>>

\* Showing or hiding a trace redraws what there is; it asks for no reduction.
ToggleVisible == \E i \in DOMAIN traces :
  /\ traces' = [traces EXCEPT ![i].visible = ~@]
  /\ UNCHANGED <<generation, reducing, status, view, openLibrary, reductions, builds, asked>>

Restyle(ts) == Invalidate(ts, view)
StyleChanged == \E i \in DOMAIN traces, s \in Styles :
  /\ Restyle([traces EXCEPT ![i].style = s])
  /\ UNCHANGED <<status, view, openLibrary, builds>>

\* Zoom, pan, box, fit and resize of the time window, and the window following the playhead;
\* all but the last ask again though it stayed where it was.  The amplitude axis is no part
\* of a reduction: fitting or zooming it redraws what there is.
ViewChanged == /\ view' \in Views
               /\ Invalidate(traces, view')
               /\ UNCHANGED <<status, openLibrary, builds>>

PyramidBuilt == \E s \in builds :
  /\ builds' = builds \ {s}
  /\ \/ Invalidate(traces, view) /\ UNCHANGED status
     \/ status' = TRUE /\ UNCHANGED <<traces, generation, reducing, reductions, asked>>
  /\ UNCHANGED <<view, openLibrary>>

\* A reduction answers; one of an older generation is dropped.
Drawn(ts, drawn) == [i \in DOMAIN ts |->
  [ts[i] EXCEPT !.snapshot = IF i \in DOMAIN drawn THEN drawn[i] ELSE NoSnapshot]]
IsStale(r) == r.generation # generation
Reduced == \E r \in reductions :
  /\ reductions' = reductions \ {r}
  /\ IF IsStale(r)
     THEN UNCHANGED <<traces, reducing, status>>
     ELSE /\ reducing' = FALSE
          /\ \/ traces' = Drawn(traces, r.drawn) /\ status' = FALSE
             \/ status' = TRUE /\ UNCHANGED traces
  /\ UNCHANGED <<generation, view, openLibrary, builds, asked>>

\* App::open: the screen starts over; the jobs of the old library are not called back.
OpenLibrary ==
  /\ openLibrary < MaxLibrary
  /\ openLibrary' = openLibrary + 1
  /\ traces' = <<>> /\ generation' = 0 /\ reducing' = FALSE /\ status' = FALSE
  /\ view' = 0 /\ asked' = {}
  /\ UNCHANGED <<reductions, builds>>

\* While one library is open; over a session that opens several, a late answer of an
\* older library may land in the new one, which nothing in the code tells apart.
ScopeNext == \/ Add \/ Remove \/ ToggleVisible \/ StyleChanged \/ ViewChanged
             \/ PyramidBuilt \/ Reduced
ScopeSpec == ScopeInit /\ [][ScopeNext]_scopeVars
SessionSpec == ScopeInit /\ [][ScopeNext \/ OpenLibrary]_scopeVars

-----------------------------------------------------------------------------
\* Every variable holds a value of its type.
ScopeTypeOK ==
  /\ Len(traces) <= MaxTraces /\ Cardinality(Loaded(traces)) = Len(traces)
  /\ traces \in Seq([signal : Signals, visible : BOOLEAN, style : Styles,
                     snapshot : Snapshots \cup {NoSnapshot}])
  /\ generation \in 0 .. MaxGeneration /\ reducing \in BOOLEAN /\ status \in BOOLEAN
  /\ view \in Views /\ openLibrary \in 1 .. MaxLibrary
  /\ \A r \in reductions : r.generation \in 1 .. MaxGeneration
  /\ builds \subseteq Signals /\ asked \subseteq Signals

Settled == ~status /\ \A r \in reductions : r.generation # generation

\* A reduction answers for rows, and the rows may have moved: a trace is never
\* drawn with the samples of another signal, nor of another library.
DrawnFromItsOwn ==
  \A i \in DOMAIN traces : traces[i].snapshot # NoSnapshot =>
     /\ traces[i].snapshot.signal = traces[i].signal
     /\ traces[i].snapshot.library = openLibrary

\* Once the newest reduction has answered, what it was asked for is on the screen,
\* in the window and with the gains the user sees, however many older answers came
\* before or after it.
AskedIsDrawn ==
  Settled => \A i \in DOMAIN traces : traces[i].signal \in asked =>
     /\ traces[i].snapshot # NoSnapshot
     /\ traces[i].snapshot.view = view /\ traces[i].snapshot.style = traces[i].style

-----------------------------------------------------------------------------
(* Proved for any signals and bounds: a reduction that answers finds the rows it  *)
(* was asked for, or is dropped, so that every trace is drawn from its own        *)
(* samples and, once the newest has answered, as the user sees it.                *)

\* Some library is open; a screen holds some number of traces.
TracesAssumption == /\ MaxLibrary \in Nat \ {0}
                    /\ MaxTraces \in Nat /\ MaxGeneration \in Nat

Shots == Snapshots \cup {NoSnapshot}
Rows == [signal : Signals, visible : BOOLEAN, style : Styles, snapshot : Shots]
Shot(s, st, v) == [library |-> 1, signal |-> s, style |-> st, view |-> v]

TracesTyped == /\ traces \in Seq(Rows) /\ generation \in Nat /\ openLibrary = 1
               /\ view \in Views /\ status \in BOOLEAN /\ asked \subseteq Signals

\* A signal is on one row.
RowsAreOne == \A i, j \in DOMAIN traces : traces[i].signal = traces[j].signal => i = j

\* A reduction is of a generation that was asked for.  The newest answers for rows that are
\* still there and as it found them, and for every one that was asked for.
IsNewest(r) ==
  /\ DOMAIN r.drawn \subseteq DOMAIN traces
  /\ \A i \in DOMAIN r.drawn : r.drawn[i] = Shot(traces[i].signal, traces[i].style, view)
  /\ \A i \in DOMAIN traces : traces[i].signal \in asked => i \in DOMAIN r.drawn
RequestsAreKnown == \A r \in reductions :
  r.generation \in Nat /\ r.generation <= generation /\ (r.generation = generation => IsNewest(r))

TracesInv == TracesTyped /\ RowsAreOne /\ RequestsAreKnown /\ DrawnFromItsOwn /\ AskedIsDrawn

-----------------------------------------------------------------------------
\* A snapshot is told from having none.
LEMMA ShotIsThere ==
  \A s, st, v : Shot(s, st, v) # NoSnapshot
<1>. SUFFICES ASSUME NEW s, NEW st, NEW v, Shot(s, st, v) = NoSnapshot PROVE FALSE
  OBVIOUS
<1>1. DOMAIN Shot(s, st, v) = {"library", "signal", "style", "view"}
  BY DEF Shot
<1>2. DOMAIN NoSnapshot = {"signal"}
  BY DEF NoSnapshot
<1>. QED  BY <1>1, <1>2

\* Rows that are of different signals and drawn from their own are still after a reduction of
\* them was asked for, which is then the newest.
LEMMA InvalidateKeeps ==
  ASSUME TracesTyped, RequestsAreKnown, NEW ts \in Seq(Rows), NEW v \in Views,
         Invalidate(ts, v), view' = v, openLibrary' = openLibrary, status' \in BOOLEAN,
         \A i, j \in DOMAIN ts : ts[i].signal = ts[j].signal => i = j,
         \A i \in DOMAIN ts : ts[i].snapshot # NoSnapshot =>
           ts[i].snapshot.signal = ts[i].signal /\ ts[i].snapshot.library = 1
  PROVE TracesInv'
<1>1. /\ generation' = generation + 1 /\ generation \in Nat /\ openLibrary = 1
      /\ asked' = {ts[i].signal : i \in Shown(ts)}
  BY DEF Invalidate, TracesTyped
<1>2. \A i \in DOMAIN ts : ts[i] \in Rows
  OBVIOUS
<1>3. Shown(ts) \subseteq DOMAIN ts
  BY DEF Shown
<1>4. asked' \subseteq Signals
  BY <1>1, <1>2, <1>3 DEF Rows
<1>5. \A r \in reductions : r.generation \in Nat /\ r.generation <= generation
  BY DEF RequestsAreKnown
<1>6. CASE Shown(ts) = {}
  <2>1. traces' = WithoutSnapshots(ts) /\ reductions' = reductions
    BY <1>6 DEF Invalidate
  <2>2. /\ DOMAIN traces' = DOMAIN ts
        /\ \A i \in DOMAIN ts : traces'[i] = [ts[i] EXCEPT !.snapshot = NoSnapshot]
    BY <2>1 DEF WithoutSnapshots
  <2>3. \A i \in DOMAIN ts : /\ traces'[i].signal = ts[i].signal /\ traces'[i].snapshot = NoSnapshot
                             /\ traces'[i] \in Rows
    BY <1>2, <2>2 DEF Rows, Shots
  <2>4. traces' \in Seq(Rows)
    <3>1. Len(ts) \in Nat /\ DOMAIN ts = 1 .. Len(ts)
      OBVIOUS
    <3>2. traces' = [i \in 1 .. Len(ts) |-> [ts[i] EXCEPT !.snapshot = NoSnapshot]]
      BY <2>1, <3>1 DEF WithoutSnapshots
    <3>3. traces' \in [1 .. Len(ts) -> Rows]
      BY <2>2, <2>3, <3>1, <3>2
    <3>. QED  BY <3>1, <3>3
  <2>5. asked' = {}
    BY <1>1, <1>6
  <2>6. TracesTyped'
    BY <1>1, <1>4, <2>4 DEF TracesTyped
  <2>7. RowsAreOne'
    BY <2>2, <2>3 DEF RowsAreOne
  <2>8. RequestsAreKnown'
    <3>1. \A r \in reductions' :
            r.generation \in Nat /\ r.generation <= generation' /\ r.generation # generation'
      BY <1>1, <1>5, <2>1
    <3>. QED  BY <3>1 DEF RequestsAreKnown
  <2>9. DrawnFromItsOwn' /\ AskedIsDrawn'
    BY <2>2, <2>3, <2>5 DEF DrawnFromItsOwn, AskedIsDrawn
  <2>. QED  BY <2>6, <2>7, <2>8, <2>9 DEF TracesInv
<1>7. CASE Shown(ts) # {}
  <2>1. PICK new : new = [generation |-> generation + 1,
                          drawn |-> [i \in Shown(ts) |->
                                       [library |-> openLibrary, signal |-> ts[i].signal,
                                        style |-> ts[i].style, view |-> v]]]
    OBVIOUS
  <2>2. traces' = ts /\ reductions' = reductions \cup {new}
    BY <1>7, <2>1 DEF Invalidate
  <2>3. /\ new.generation = generation' /\ DOMAIN new.drawn = Shown(ts)
        /\ \A i \in Shown(ts) : new.drawn[i] = Shot(ts[i].signal, ts[i].style, v)
    BY <1>1, <2>1 DEF Shot
  <2>4. TracesTyped'
    BY <1>1, <1>4, <2>2 DEF TracesTyped
  <2>5. RowsAreOne'
    BY <2>2 DEF RowsAreOne
  <2>6. IsNewest(new)'
    <3>1. \A i \in DOMAIN ts : ts[i].signal \in asked' => i \in Shown(ts)
      BY <1>1, <1>3
    <3>2. /\ DOMAIN new.drawn \subseteq DOMAIN traces'
          /\ \A i \in DOMAIN new.drawn :
               new.drawn[i] = Shot(traces'[i].signal, traces'[i].style, v)
          /\ \A i \in DOMAIN traces' : traces'[i].signal \in asked' => i \in DOMAIN new.drawn
      BY <1>3, <2>2, <2>3, <3>1
    <3>. QED  BY <3>2 DEF IsNewest, Shot
  <2>7. RequestsAreKnown'
    BY <1>1, <1>5, <2>2, <2>3, <2>6 DEF RequestsAreKnown
  <2>8. DrawnFromItsOwn'
    BY <1>1, <2>2 DEF DrawnFromItsOwn
  <2>9. AskedIsDrawn'
    BY <2>2, <2>3 DEF AskedIsDrawn, Settled
  <2>. QED  BY <2>4, <2>5, <2>7, <2>8, <2>9 DEF TracesInv
<1>. QED  BY <1>6, <1>7

\* Taking out a row leaves the others, in their order.
LEMMA WithoutKeeps ==
  ASSUME NEW S, NEW ts \in Seq(S), NEW i \in DOMAIN ts
  PROVE /\ Without(ts, i) \in Seq(S)
        /\ \A j \in DOMAIN Without(ts, i) :
             LET k == IF j < i THEN j ELSE j + 1
             IN k \in DOMAIN ts /\ Without(ts, i)[j] = ts[k] /\ j \in Nat
<1>. DEFINE a == SubSeq(ts, 1, i - 1)
            b == SubSeq(ts, i + 1, Len(ts))
<1>1. Len(ts) \in Nat /\ DOMAIN ts = 1 .. Len(ts) /\ i \in 1 .. Len(ts)
  OBVIOUS
<1>2. a \in Seq(S) /\ Len(a) = i - 1 /\ \A j \in 1 .. i - 1 : a[j] = ts[j]
  BY <1>1
<1>3. b \in Seq(S) /\ Len(b) = Len(ts) - i /\ \A j \in 1 .. Len(ts) - i : b[j] = ts[j + i]
  BY <1>1
<1>. HIDE DEF a, b
<1>4. /\ a \o b \in Seq(S) /\ Len(a \o b) = Len(a) + Len(b)
      /\ DOMAIN (a \o b) = 1 .. Len(a) + Len(b)
      /\ \A j \in 1 .. Len(a) + Len(b) : (a \o b)[j] = IF j <= Len(a) THEN a[j] ELSE b[j - Len(a)]
  <2>1. a \in Seq(S) /\ b \in Seq(S)
    BY <1>2, <1>3
  <2>. QED  BY <2>1
<1>. DEFINE c == a \o b
<1>5. /\ c \in Seq(S) /\ DOMAIN c = 1 .. Len(ts) - 1
      /\ \A j \in 1 .. Len(ts) - 1 : c[j] = IF j <= i - 1 THEN a[j] ELSE b[j - (i - 1)]
  <2>1. Len(a) = i - 1 /\ Len(a) + Len(b) = Len(ts) - 1
    BY <1>1, <1>2, <1>3
  <2>. QED  BY <1>4, <2>1
<1>. HIDE DEF c
<1>6. ASSUME NEW j \in 1 .. Len(ts) - 1
      PROVE LET k == IF j < i THEN j ELSE j + 1
            IN k \in DOMAIN ts /\ c[j] = ts[k] /\ j \in Nat
  <2>1. j \in Nat /\ j <= Len(ts) - 1 /\ j >= 1
    BY <1>1
  <2>2. CASE j < i
    <3>1. j \in 1 .. i - 1 /\ j \in 1 .. Len(ts) /\ j <= i - 1
      BY <1>1, <2>1, <2>2
    <3>2. c[j] = a[j] /\ a[j] = ts[j]
      BY <1>2, <1>5, <3>1
    <3>. QED  BY <1>1, <2>1, <2>2, <3>1, <3>2
  <2>3. CASE ~(j < i)
    <3>. DEFINE d == j - (i - 1)
    <3>1. d \in 1 .. Len(ts) - i /\ d + i = j + 1 /\ j + 1 \in 1 .. Len(ts) /\ ~(j <= i - 1)
      BY <1>1, <2>1, <2>3
    <3>2. c[j] = b[d]
      BY <1>5, <3>1
    <3>. HIDE DEF d
    <3>3. b[d] = ts[d + i]
      BY <1>3, <3>1
    <3>. QED  BY <1>1, <2>1, <2>3, <3>1, <3>2, <3>3
  <2>. QED  BY <2>2, <2>3
<1>. QED  BY <1>5, <1>6 DEF Without, a, b, c

LEMMA AddKeeps ==
  ASSUME TracesInv, Add
  PROVE TracesInv'
<1>. USE DEF TracesInv
<1>1. PICK s \in Signals :
        \/ /\ s \notin Loaded(traces)
           /\ view' \in IF traces = <<>> THEN Views ELSE {view}
           /\ Invalidate(Append(traces, NewTrace(s)), view')
           /\ UNCHANGED <<status, openLibrary>>
        \/ /\ status' = TRUE
           /\ UNCHANGED <<traces, generation, reducing, view, openLibrary, reductions, builds, asked>>
  BY DEF Add
<1>2. CASE status' = TRUE
           /\ UNCHANGED <<traces, generation, reducing, view, openLibrary, reductions, builds, asked>>
  BY <1>2 DEF TracesTyped, RowsAreOne, RequestsAreKnown, IsNewest, Shot, DrawnFromItsOwn,
              AskedIsDrawn, Settled
<1>3. CASE /\ s \notin Loaded(traces)
           /\ view' \in IF traces = <<>> THEN Views ELSE {view}
           /\ Invalidate(Append(traces, NewTrace(s)), view')
           /\ UNCHANGED <<status, openLibrary>>
  <2>1. PICK ts : ts = Append(traces, NewTrace(s))
    OBVIOUS
  <2>2. PICK v : v = view'
    OBVIOUS
  <2>3. v \in Views /\ Invalidate(ts, v) /\ view' = v /\ openLibrary' = openLibrary /\ status' \in BOOLEAN
    BY <1>3, <2>1, <2>2 DEF TracesTyped
  <2>4. NewTrace(s) \in Rows /\ NewTrace(s).signal = s /\ NewTrace(s).snapshot = NoSnapshot
    BY DEF NewTrace, Rows, Shots, Styles
  <2>5. /\ ts \in Seq(Rows) /\ DOMAIN ts = 1 .. Len(traces) + 1 /\ ts[Len(traces) + 1] = NewTrace(s)
        /\ DOMAIN traces = 1 .. Len(traces) /\ Len(traces) \in Nat
        /\ \A i \in 1 .. Len(traces) : ts[i] = traces[i]
    BY <2>1, <2>4 DEF TracesTyped
  <2>6. \A i \in 1 .. Len(traces) : traces[i].signal # s
    BY <1>3, <2>5 DEF Loaded
  <2>7. ASSUME NEW i \in DOMAIN ts PROVE i \in 1 .. Len(traces) \/ i = Len(traces) + 1
    BY <2>5
  <2>8. \A i, j \in DOMAIN ts : ts[i].signal = ts[j].signal => i = j
    BY <2>4, <2>5, <2>6, <2>7 DEF RowsAreOne
  <2>9. \A i \in DOMAIN ts : ts[i].snapshot # NoSnapshot =>
          ts[i].snapshot.signal = ts[i].signal /\ ts[i].snapshot.library = 1
    BY <2>4, <2>5, <2>7 DEF DrawnFromItsOwn, TracesTyped
  <2>. QED  BY <2>3, <2>5, <2>8, <2>9, InvalidateKeeps
<1>. QED  BY <1>1, <1>2, <1>3

LEMMA RemoveKeeps ==
  ASSUME TracesInv, Remove
  PROVE TracesInv'
<1>. USE DEF TracesInv
<1>1. PICK i \in DOMAIN traces : Invalidate(Without(traces, i), view) /\ UNCHANGED <<status, view, openLibrary>>
  BY DEF Remove
<1>2. PICK ts : ts = Without(traces, i)
  OBVIOUS
<1>3. PICK v : v = view
  OBVIOUS
<1>4. v \in Views /\ Invalidate(ts, v) /\ view' = v /\ openLibrary' = openLibrary /\ status' \in BOOLEAN
  BY <1>1, <1>2, <1>3 DEF TracesTyped
<1>5. traces \in Seq(Rows) /\ i \in Nat
  BY DEF TracesTyped
<1>6. /\ ts \in Seq(Rows)
      /\ \A j \in DOMAIN ts : LET k == IF j < i THEN j ELSE j + 1
                              IN k \in DOMAIN traces /\ ts[j] = traces[k] /\ j \in Nat
  BY <1>2, <1>5, WithoutKeeps
<1>7. ASSUME NEW j \in DOMAIN ts, NEW k \in DOMAIN ts, ts[j].signal = ts[k].signal
      PROVE j = k
  <2>1. (IF j < i THEN j ELSE j + 1) = (IF k < i THEN k ELSE k + 1)
    BY <1>6, <1>7 DEF RowsAreOne
  <2>. QED  BY <1>5, <1>6, <2>1
<1>8. \A j \in DOMAIN ts : ts[j].snapshot # NoSnapshot =>
        ts[j].snapshot.signal = ts[j].signal /\ ts[j].snapshot.library = 1
  BY <1>6 DEF DrawnFromItsOwn, TracesTyped
<1>. QED  BY <1>4, <1>6, <1>7, <1>8, InvalidateKeeps

LEMMA ToggleVisibleKeeps ==
  ASSUME TracesInv, ToggleVisible
  PROVE TracesInv'
<1>. USE DEF TracesInv
<1>1. PICK i \in DOMAIN traces :
        /\ traces' = [traces EXCEPT ![i].visible = ~@]
        /\ UNCHANGED <<generation, reducing, status, view, openLibrary, reductions, builds, asked>>
  BY DEF ToggleVisible
<1>2. traces \in Seq(Rows) /\ DOMAIN traces' = DOMAIN traces
  BY <1>1 DEF TracesTyped
<1>3. \A j \in DOMAIN traces : /\ traces'[j] \in Rows /\ traces'[j].signal = traces[j].signal
                               /\ traces'[j].style = traces[j].style
                               /\ traces'[j].snapshot = traces[j].snapshot
  <2>. SUFFICES ASSUME NEW j \in DOMAIN traces
                PROVE /\ traces'[j] \in Rows /\ traces'[j].signal = traces[j].signal
                      /\ traces'[j].style = traces[j].style
                      /\ traces'[j].snapshot = traces[j].snapshot
    OBVIOUS
  <2>1. traces[j] \in Rows
    BY <1>2
  <2>2. traces'[j] = IF j = i THEN [traces[i] EXCEPT !.visible = ~traces[i].visible] ELSE traces[j]
    BY <1>1
  <2>. QED  BY <2>1, <2>2 DEF Rows
<1>4. traces' \in Seq(Rows)
  <2>1. Len(traces) \in Nat /\ DOMAIN traces = 1 .. Len(traces) /\ traces \in [1 .. Len(traces) -> Rows]
    BY <1>2
  <2>2. [traces[i] EXCEPT !.visible = ~traces[i].visible] \in Rows
    BY <2>1 DEF Rows
  <2>3. traces' \in [1 .. Len(traces) -> Rows]
    BY <1>1, <2>1, <2>2
  <2>. QED  BY <2>1, <2>3
<1>5. TracesTyped'
  BY <1>1, <1>4 DEF TracesTyped
<1>6. RowsAreOne'
  BY <1>2, <1>3 DEF RowsAreOne
<1>7. RequestsAreKnown'
  BY <1>1, <1>2, <1>3 DEF RequestsAreKnown, IsNewest, Shot
<1>8. DrawnFromItsOwn'
  BY <1>1, <1>2, <1>3 DEF DrawnFromItsOwn
<1>9. AskedIsDrawn'
  BY <1>1, <1>2, <1>3 DEF AskedIsDrawn, Settled
<1>. QED  BY <1>5, <1>6, <1>7, <1>8, <1>9

LEMMA StyleChangedKeeps ==
  ASSUME TracesInv, StyleChanged
  PROVE TracesInv'
<1>. USE DEF TracesInv
<1>1. PICK i \in DOMAIN traces, st \in Styles :
        Invalidate([traces EXCEPT ![i].style = st], view) /\ UNCHANGED <<status, view, openLibrary>>
  BY DEF StyleChanged, Restyle
<1>2. PICK ts : ts = [traces EXCEPT ![i].style = st]
  OBVIOUS
<1>3. PICK v : v = view
  OBVIOUS
<1>4. v \in Views /\ Invalidate(ts, v) /\ view' = v /\ openLibrary' = openLibrary /\ status' \in BOOLEAN
  BY <1>1, <1>2, <1>3 DEF TracesTyped
<1>5. traces \in Seq(Rows) /\ DOMAIN ts = DOMAIN traces
  BY <1>2 DEF TracesTyped
<1>6. \A j \in DOMAIN ts : ts[j] \in Rows /\ ts[j].signal = traces[j].signal /\ ts[j].snapshot = traces[j].snapshot
  <2>. SUFFICES ASSUME NEW j \in DOMAIN traces
                PROVE ts[j] \in Rows /\ ts[j].signal = traces[j].signal /\ ts[j].snapshot = traces[j].snapshot
    BY <1>5
  <2>1. traces[j] \in Rows
    BY <1>5
  <2>2. ts[j] = IF j = i THEN [traces[i] EXCEPT !.style = st] ELSE traces[j]
    BY <1>2
  <2>. QED  BY <2>1, <2>2 DEF Rows
<1>7. ts \in Seq(Rows)
  <2>1. Len(traces) \in Nat /\ DOMAIN traces = 1 .. Len(traces) /\ traces \in [1 .. Len(traces) -> Rows]
    BY <1>5
  <2>2. [traces[i] EXCEPT !.style = st] \in Rows
    BY <2>1 DEF Rows
  <2>3. ts \in [1 .. Len(traces) -> Rows]
    BY <1>2, <2>1, <2>2
  <2>. QED  BY <2>1, <2>3
<1>8. \A j, k \in DOMAIN ts : ts[j].signal = ts[k].signal => j = k
  BY <1>5, <1>6 DEF RowsAreOne
<1>9. \A j \in DOMAIN ts : ts[j].snapshot # NoSnapshot =>
        ts[j].snapshot.signal = ts[j].signal /\ ts[j].snapshot.library = 1
  BY <1>5, <1>6 DEF DrawnFromItsOwn, TracesTyped
<1>. QED  BY <1>4, <1>7, <1>8, <1>9, InvalidateKeeps

\* The same rows, asked for again.
LEMMA AskedAgainKeeps ==
  ASSUME TracesInv, NEW v \in Views, Invalidate(traces, v), view' = v,
         openLibrary' = openLibrary, status' \in BOOLEAN
  PROVE TracesInv'
<1>. USE DEF TracesInv
<1>1. PICK ts : ts = traces
  OBVIOUS
<1>2. ts \in Seq(Rows) /\ Invalidate(ts, v)
  BY <1>1 DEF TracesTyped
<1>3. \A j, k \in DOMAIN ts : ts[j].signal = ts[k].signal => j = k
  BY <1>1 DEF RowsAreOne
<1>4. \A j \in DOMAIN ts : ts[j].snapshot # NoSnapshot =>
        ts[j].snapshot.signal = ts[j].signal /\ ts[j].snapshot.library = 1
  BY <1>1 DEF DrawnFromItsOwn, TracesTyped
<1>. QED  BY <1>2, <1>3, <1>4, InvalidateKeeps

LEMMA ReducedKeeps ==
  ASSUME TracesAssumption, TracesInv, Reduced
  PROVE TracesInv'
<1>. USE DEF TracesInv
<1>1. PICK r \in reductions :
        /\ reductions' = reductions \ {r}
        /\ IF IsStale(r)
           THEN UNCHANGED <<traces, reducing, status>>
           ELSE \/ traces' = Drawn(traces, r.drawn) /\ status' = FALSE
                \/ status' = TRUE /\ UNCHANGED traces
        /\ UNCHANGED <<generation, view, openLibrary, builds, asked>>
  BY DEF Reduced
<1>2. CASE IsStale(r)
  <2>1. UNCHANGED <<traces, status>> /\ r.generation # generation
    BY <1>1, <1>2 DEF IsStale
  <2>2. Settled' <=> Settled
    BY <1>1, <2>1 DEF Settled
  <2>3. RequestsAreKnown'
    BY <1>1, <2>1 DEF RequestsAreKnown, IsNewest, Shot
  <2>4. TracesTyped' /\ RowsAreOne' /\ DrawnFromItsOwn' /\ AskedIsDrawn'
    BY <1>1, <2>1, <2>2 DEF TracesTyped, RowsAreOne, DrawnFromItsOwn, AskedIsDrawn
  <2>. QED  BY <2>3, <2>4
<1>3. CASE ~IsStale(r) /\ status' = TRUE /\ UNCHANGED traces
  <2>1. RequestsAreKnown'
    BY <1>1, <1>3 DEF RequestsAreKnown, IsNewest, Shot
  <2>2. TracesTyped' /\ RowsAreOne' /\ DrawnFromItsOwn' /\ AskedIsDrawn'
    BY <1>1, <1>3 DEF TracesTyped, RowsAreOne, DrawnFromItsOwn, AskedIsDrawn, Settled
  <2>. QED  BY <2>1, <2>2
<1>4. CASE ~IsStale(r) /\ traces' = Drawn(traces, r.drawn) /\ status' = FALSE
  <2>1. IsNewest(r)
    BY <1>4 DEF RequestsAreKnown, IsStale
  <2>2. traces \in Seq(Rows) /\ DOMAIN traces' = DOMAIN traces
    BY <1>4 DEF TracesTyped, Drawn
  <2>3. ASSUME NEW i \in DOMAIN traces
        PROVE /\ traces'[i] \in Rows /\ traces'[i].signal = traces[i].signal
              /\ traces'[i].style = traces[i].style
              /\ traces'[i].snapshot = IF i \in DOMAIN r.drawn
                                       THEN Shot(traces[i].signal, traces[i].style, view) ELSE NoSnapshot
    <3>1. traces[i] \in Rows
      BY <2>2
    <3>2. traces'[i] = [traces[i] EXCEPT !.snapshot =
                          IF i \in DOMAIN r.drawn THEN r.drawn[i] ELSE NoSnapshot]
      BY <1>4 DEF Drawn
    <3>3. PICK shot : shot = IF i \in DOMAIN r.drawn THEN r.drawn[i] ELSE NoSnapshot
      OBVIOUS
    <3>4. shot = IF i \in DOMAIN r.drawn THEN Shot(traces[i].signal, traces[i].style, view) ELSE NoSnapshot
      BY <2>1, <3>3 DEF IsNewest
    <3>5. Shot(traces[i].signal, traces[i].style, view) \in Snapshots
      <4>1. 1 \in 1 .. MaxLibrary
        BY TracesAssumption DEF TracesAssumption
      <4>. QED  BY <3>1, <4>1 DEF Shot, Snapshots, Rows, TracesTyped
    <3>6. shot \in Shots
      BY <3>4, <3>5 DEF Shots
    <3>7. traces'[i] = [traces[i] EXCEPT !.snapshot = shot]
      BY <3>2, <3>3
    <3>. QED  BY <3>1, <3>4, <3>6, <3>7 DEF Rows
  <2>4. traces' \in Seq(Rows)
    <3>1. Len(traces) \in Nat /\ DOMAIN traces = 1 .. Len(traces) /\ traces' = [j \in DOMAIN traces |-> traces'[j]]
      BY <1>4, <2>2 DEF Drawn
    <3>2. traces' \in [1 .. Len(traces) -> Rows]
      BY <2>3, <3>1
    <3>. QED  BY <3>1, <3>2
  <2>5. TracesTyped'
    BY <1>1, <1>4, <2>4 DEF TracesTyped
  <2>6. RowsAreOne'
    BY <2>2, <2>3 DEF RowsAreOne
  <2>7. RequestsAreKnown'
    <3>. SUFFICES ASSUME NEW q \in reductions, q.generation = generation
                  PROVE IsNewest(q)'
      BY <1>1 DEF RequestsAreKnown
    <3>1. IsNewest(q)
      BY DEF RequestsAreKnown
    <3>2. \A i \in DOMAIN q.drawn : q.drawn[i] = Shot(traces'[i].signal, traces'[i].style, view)
      BY <2>3, <3>1 DEF IsNewest
    <3>3. \A i \in DOMAIN traces' : traces'[i].signal \in asked => i \in DOMAIN q.drawn
      BY <2>2, <2>3, <3>1 DEF IsNewest
    <3>. QED  BY <1>1, <2>2, <3>1, <3>2, <3>3 DEF IsNewest, Shot
  <2>8. DrawnFromItsOwn'
    <3>. SUFFICES ASSUME NEW i \in DOMAIN traces, traces'[i].snapshot # NoSnapshot
                  PROVE /\ traces'[i].snapshot.signal = traces'[i].signal
                        /\ traces'[i].snapshot.library = openLibrary
      BY <1>1, <2>2 DEF DrawnFromItsOwn
    <3>1. i \in DOMAIN r.drawn
      BY <2>3
    <3>2. traces'[i].snapshot = Shot(traces[i].signal, traces[i].style, view)
      BY <2>1, <2>3, <3>1 DEF IsNewest
    <3>3. /\ Shot(traces[i].signal, traces[i].style, view).signal = traces[i].signal
          /\ Shot(traces[i].signal, traces[i].style, view).library = 1
      BY DEF Shot
    <3>. QED  BY <2>3, <3>2, <3>3 DEF TracesTyped
  <2>9. AskedIsDrawn'
    <3>. SUFFICES ASSUME NEW i \in DOMAIN traces, traces[i].signal \in asked
                  PROVE /\ traces'[i].snapshot # NoSnapshot /\ traces'[i].snapshot.view = view
                        /\ traces'[i].snapshot.style = traces'[i].style
      BY <1>1, <2>2, <2>3 DEF AskedIsDrawn
    <3>1. traces'[i].snapshot = Shot(traces[i].signal, traces[i].style, view)
      BY <2>1, <2>3 DEF IsNewest
    <3>2. /\ Shot(traces[i].signal, traces[i].style, view).view = view
          /\ Shot(traces[i].signal, traces[i].style, view).style = traces[i].style
      BY DEF Shot
    <3>. QED  BY <2>3, <3>1, <3>2, ShotIsThere
  <2>. QED  BY <2>5, <2>6, <2>7, <2>8, <2>9
<1>. QED  BY <1>1, <1>2, <1>3, <1>4

-----------------------------------------------------------------------------
LEMMA TracesStart == TracesAssumption /\ ScopeInit => TracesInv
<1>1. DOMAIN <<>> = {} /\ <<>> \in Seq(Rows)
  <2>1. <<>> \in Seq(Rows) /\ Len(<<>>) = 0 /\ DOMAIN <<>> = 1 .. Len(<<>>) /\ 1 .. 0 = {}
    OBVIOUS
  <2>. QED  BY <2>1
<1>. SUFFICES ASSUME TracesAssumption, ScopeInit PROVE TracesInv
  OBVIOUS
<1>2. traces = <<>> /\ reductions = {}
  BY DEF ScopeInit
<1>. DOMAIN traces = {}
  BY <1>1, <1>2
<1>3. TracesTyped
  <2>1. traces \in Seq(Rows)
    BY <1>1, <1>2
  <2>2. generation = 0 /\ openLibrary = 1 /\ view = 0 /\ asked = {}
    BY DEF ScopeInit
  <2>3. status \in BOOLEAN
    BY DEF ScopeInit
  <2>4. generation \in Nat /\ view \in Views /\ asked \subseteq Signals
    BY <2>2 DEF Views
  <2>. QED  BY <2>1, <2>2, <2>3, <2>4 DEF TracesTyped
<1>4. RowsAreOne /\ DrawnFromItsOwn /\ AskedIsDrawn
  BY <1>2 DEF RowsAreOne, DrawnFromItsOwn, AskedIsDrawn
<1>5. RequestsAreKnown
  BY <1>2 DEF RequestsAreKnown
<1>. QED  BY <1>3, <1>4, <1>5 DEF TracesInv

LEMMA TracesStep == TracesAssumption /\ TracesInv /\ [ScopeNext]_scopeVars => TracesInv'
<1>. SUFFICES ASSUME TracesAssumption, TracesInv, [ScopeNext]_scopeVars PROVE TracesInv'
  OBVIOUS
<1>1. CASE Add
  BY <1>1, AddKeeps
<1>2. CASE Remove
  BY <1>2, RemoveKeeps
<1>3. CASE ToggleVisible
  BY <1>3, ToggleVisibleKeeps
<1>4. CASE StyleChanged
  BY <1>4, StyleChangedKeeps
<1>5. CASE ViewChanged
  <2>1. PICK v : v = view'
    OBVIOUS
  <2>2. v \in Views
    BY <1>5, <2>1 DEF ViewChanged
  <2>. QED  BY <1>5, <2>1, <2>2, AskedAgainKeeps DEF ViewChanged, TracesInv, TracesTyped
<1>6. CASE PyramidBuilt
  <2>1. CASE Invalidate(traces, view) /\ UNCHANGED <<status, view, openLibrary>>
    <3>1. PICK v : v = view
      OBVIOUS
    <3>. QED  BY <2>1, <3>1, AskedAgainKeeps DEF TracesInv, TracesTyped
  <2>2. CASE status' = TRUE /\ UNCHANGED <<traces, generation, reductions, asked, view, openLibrary>>
    BY <2>2 DEF TracesInv, TracesTyped, RowsAreOne, RequestsAreKnown, IsNewest, Shot,
                DrawnFromItsOwn, AskedIsDrawn, Settled
  <2>. QED  BY <1>6, <2>1, <2>2 DEF PyramidBuilt
<1>7. CASE Reduced
  BY <1>7, ReducedKeeps
<1>8. CASE UNCHANGED scopeVars
  BY <1>8 DEF scopeVars, TracesInv, TracesTyped, RowsAreOne, RequestsAreKnown, IsNewest, Shot,
              DrawnFromItsOwn, AskedIsDrawn, Settled
<1>. QED  BY <1>1, <1>2, <1>3, <1>4, <1>5, <1>6, <1>7, <1>8 DEF ScopeNext

\* The screen holds no more traces than it may, and a reduction is of a generation there was.
Bounded == /\ Len(traces) <= MaxTraces /\ generation <= MaxGeneration
           /\ reducing \in BOOLEAN /\ builds \subseteq Signals
           /\ \A r \in reductions : r.generation \in 1 .. MaxGeneration

LEMMA InvalidateBounds ==
  ASSUME TracesAssumption, TracesTyped, Bounded, NEW ts \in Seq(Rows), Len(ts) <= MaxTraces,
         NEW v, Invalidate(ts, v), builds' \subseteq Signals
  PROVE Bounded'
<1>1. /\ generation < MaxGeneration /\ generation' = generation + 1 /\ generation \in Nat
      /\ MaxGeneration \in Nat
  BY DEF Invalidate, TracesTyped, TracesAssumption
<1>2. generation' \in 1 .. MaxGeneration
  BY <1>1
<1>3. CASE Shown(ts) = {}
  <2>1. traces' = WithoutSnapshots(ts) /\ UNCHANGED <<reductions, reducing>>
    BY <1>3 DEF Invalidate
  <2>2. Len(traces') = Len(ts)
    <3>1. Len(ts) \in Nat /\ DOMAIN ts = 1 .. Len(ts)
      OBVIOUS
    <3>2. traces' = [i \in 1 .. Len(ts) |-> [ts[i] EXCEPT !.snapshot = NoSnapshot]]
      BY <2>1, <3>1 DEF WithoutSnapshots
    <3>. QED  BY <3>1, <3>2
  <2>. QED  BY <1>1, <1>2, <2>1, <2>2 DEF Bounded
<1>4. CASE Shown(ts) # {}
  <2>1. PICK new : new = [generation |-> generation + 1,
                          drawn |-> [i \in Shown(ts) |->
                                       [library |-> openLibrary, signal |-> ts[i].signal,
                                        style |-> ts[i].style, view |-> v]]]
    OBVIOUS
  <2>2. traces' = ts /\ reductions' = reductions \cup {new} /\ reducing' = TRUE
    BY <1>4, <2>1 DEF Invalidate
  <2>3. new.generation = generation'
    BY <1>1, <2>1
  <2>4. \A r \in reductions' : r.generation \in 1 .. MaxGeneration
    BY <1>2, <2>2, <2>3 DEF Bounded
  <2>. QED  BY <1>1, <1>2, <2>2, <2>4 DEF Bounded
<1>. QED  BY <1>3, <1>4

LEMMA BoundedStart == TracesAssumption /\ ScopeInit => Bounded
<1>. SUFFICES ASSUME TracesAssumption, ScopeInit PROVE Bounded
  OBVIOUS
<1>1. /\ traces = <<>> /\ Len(<<>>) = 0 /\ generation = 0 /\ reducing = FALSE
      /\ reductions = {} /\ builds = {}
  BY DEF ScopeInit
<1>2. 0 <= MaxTraces /\ 0 <= MaxGeneration
  BY DEF TracesAssumption
<1>. QED  BY <1>1, <1>2 DEF Bounded

LEMMA BoundedStep == TracesAssumption /\ TracesInv /\ Bounded /\ [ScopeNext]_scopeVars => Bounded'
<1>. SUFFICES ASSUME TracesAssumption, TracesInv, Bounded, [ScopeNext]_scopeVars PROVE Bounded'
  OBVIOUS
<1>1. /\ traces \in Seq(Rows) /\ Len(traces) \in Nat /\ DOMAIN traces = 1 .. Len(traces)
      /\ TracesTyped /\ MaxTraces \in Nat /\ Len(traces) <= MaxTraces
      /\ \A i \in DOMAIN traces : traces[i] \in Rows
  BY DEF TracesInv, TracesTyped, TracesAssumption, Bounded
<1>2. CASE Add
  <2>1. PICK s \in Signals :
          \/ /\ ~Full(traces) /\ Invalidate(Append(traces, NewTrace(s)), view')
             /\ builds' = builds \cup {s}
          \/ UNCHANGED <<traces, generation, reducing, reductions, builds>>
    BY <1>2 DEF Add
  <2>2. CASE ~Full(traces) /\ Invalidate(Append(traces, NewTrace(s)), view') /\ builds' = builds \cup {s}
    <3>1. PICK v : v = view'
      OBVIOUS
    <3>2. NewTrace(s) \in Rows
      BY DEF NewTrace, Rows, Shots, Styles
    <3>3. /\ Append(traces, NewTrace(s)) \in Seq(Rows)
          /\ Len(Append(traces, NewTrace(s))) = Len(traces) + 1
      BY <1>1, <3>2
    <3>4. Len(traces) + 1 <= MaxTraces
      BY <1>1, <2>2 DEF Full
    <3>5. builds' \subseteq Signals
      BY <2>2 DEF Bounded
    <3>. QED  BY <1>1, <2>2, <3>1, <3>3, <3>4, <3>5, InvalidateBounds
  <2>3. CASE UNCHANGED <<traces, generation, reducing, reductions, builds>>
    BY <2>3 DEF Bounded
  <2>. QED  BY <2>1, <2>2, <2>3
<1>3. CASE Remove
  <2>1. PICK i \in DOMAIN traces : Invalidate(Without(traces, i), view) /\ builds' = builds
    BY <1>3 DEF Remove
  <2>2. Without(traces, i) \in Seq(Rows)
    BY <1>1, WithoutKeeps
  <2>3. Len(Without(traces, i)) <= Len(traces)
    <3>1. /\ SubSeq(traces, 1, i - 1) \in Seq(Rows) /\ Len(SubSeq(traces, 1, i - 1)) = i - 1
          /\ SubSeq(traces, i + 1, Len(traces)) \in Seq(Rows)
          /\ Len(SubSeq(traces, i + 1, Len(traces))) = Len(traces) - i
      BY <1>1
    <3>. DEFINE a == SubSeq(traces, 1, i - 1)
                b == SubSeq(traces, i + 1, Len(traces))
    <3>. HIDE DEF a, b
    <3>2. Len(a \o b) = Len(a) + Len(b)
      BY <3>1 DEF a, b
    <3>. QED  BY <1>1, <3>1, <3>2 DEF Without, a, b
  <2>4. builds' \subseteq Signals
    BY <2>1 DEF Bounded
  <2>5. Len(Without(traces, i)) <= MaxTraces
    <3>1. Len(Without(traces, i)) \in Nat
      BY <2>2
    <3>. QED  BY <1>1, <2>3, <3>1
  <2>. QED  BY <1>1, <2>1, <2>2, <2>4, <2>5, InvalidateBounds
<1>4. CASE ToggleVisible
  <2>1. Len(traces') = Len(traces) /\ UNCHANGED <<generation, reducing, reductions, builds>>
    BY <1>1, <1>4 DEF ToggleVisible
  <2>. QED  BY <2>1 DEF Bounded
<1>5. CASE StyleChanged
  <2>1. PICK i \in DOMAIN traces, s \in Styles :
          Restyle([traces EXCEPT ![i].style = s]) /\ builds' = builds
    BY <1>5 DEF StyleChanged
  <2>2. PICK ts : ts = [traces EXCEPT ![i].style = s]
    OBVIOUS
  <2>3. ts \in Seq(Rows) /\ Len(ts) = Len(traces)
    <3>1. [traces[i] EXCEPT !.style = s] \in Rows
      BY <1>1 DEF Rows
    <3>. QED  BY <1>1, <2>2, <3>1
  <2>4. builds' \subseteq Signals
    BY <2>1 DEF Bounded
  <2>. QED  BY <1>1, <2>1, <2>2, <2>3, <2>4, InvalidateBounds DEF Restyle
<1>6. CASE ViewChanged
  <2>1. PICK v : v = view'
    OBVIOUS
  <2>2. Invalidate(traces, v) /\ builds' \subseteq Signals
    BY <1>6, <2>1 DEF ViewChanged, Bounded
  <2>. QED  BY <1>1, <2>2, InvalidateBounds
<1>7. CASE PyramidBuilt
  <2>1. builds' \subseteq Signals
    BY <1>7 DEF PyramidBuilt, Bounded
  <2>2. CASE Invalidate(traces, view)
    BY <1>1, <2>1, <2>2, InvalidateBounds
  <2>3. CASE UNCHANGED <<traces, generation, reducing, reductions>>
    BY <2>1, <2>3 DEF Bounded
  <2>. QED  BY <1>7, <2>2, <2>3 DEF PyramidBuilt
<1>8. CASE Reduced
  <2>1. PICK r \in reductions :
          /\ reductions' = reductions \ {r} /\ UNCHANGED <<generation, builds>>
          /\ \/ UNCHANGED <<traces, reducing>>
             \/ reducing' = FALSE /\ (traces' = Drawn(traces, r.drawn) \/ traces' = traces)
    BY <1>8 DEF Reduced
  <2>2. Len(Drawn(traces, r.drawn)) = Len(traces)
    <3>1. Drawn(traces, r.drawn) = [i \in 1 .. Len(traces) |->
            [traces[i] EXCEPT !.snapshot = IF i \in DOMAIN r.drawn THEN r.drawn[i] ELSE NoSnapshot]]
      BY <1>1 DEF Drawn
    <3>. QED  BY <1>1, <3>1
  <2>. QED  BY <2>1, <2>2 DEF Bounded
<1>9. CASE UNCHANGED scopeVars
  BY <1>9 DEF scopeVars, Bounded
<1>. QED  BY <1>2, <1>3, <1>4, <1>5, <1>6, <1>7, <1>8, <1>9 DEF ScopeNext

\* Whatever is added, removed, restyled and moved while reductions are on their way, the
\* invariant of the traces and of the reductions asked for holds (screens/scope.rs).
THEOREM TracesInvariant ==
  ASSUME TracesAssumption
  PROVE ScopeSpec => []TracesInv
BY TracesStart, TracesStep, PTL DEF ScopeSpec

\* A reduction answers for rows that may have moved meanwhile: no trace is drawn with the
\* samples of another signal or of another library (screens/scope.rs, Message::Reduced).
THEOREM NobodyElsesSamples ==
  ASSUME TracesAssumption
  PROVE ScopeSpec => []DrawnFromItsOwn
<1>1. TracesInv => DrawnFromItsOwn
  BY DEF TracesInv
<1>. QED  BY <1>1, TracesInvariant, PTL

\* However many older answers come before or after it, once the newest reduction has answered
\* what it was asked for is shown in the window and with the gains of now
\* (screens/scope.rs, invalidate and Message::Reduced).
THEOREM NewestIsDrawn ==
  ASSUME TracesAssumption
  PROVE ScopeSpec => []AskedIsDrawn
<1>1. TracesInv => AskedIsDrawn
  BY DEF TracesInv
<1>. QED  BY <1>1, TracesInvariant, PTL

==============================================================================
